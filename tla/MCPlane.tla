------------------------------ MODULE MCPlane ------------------------------
(***************************************************************************)
(* Small instances of the parts that carry events and answers: the wake    *)
(* bridge, the watch of an agent with its closed loop, the CTO bridge, the *)
(* delivery outbox, the messages, sessions and conditions of agent control *)
(* and the prompt supervisor.  TLC looks at one part at a time: `part`     *)
(* says which, and the others stand still.                                 *)
(***************************************************************************)
EXTENDS WakeBridge, ClosedLoop, CtoBridge, Outbox, AgentControl, PromptSupervisor, TLC

CONSTANT PlaneParts
VARIABLE part

PlaneVars == <<part, WkVars, ClVars, CtVars, OxVars, AcVars, SvVars>>

\* The parts that stand still begin in one way.
Begin(name, chosen, casts) == part # name => chosen = CHOOSE c \in casts : TRUE
PlaneInit ==
    /\ part \in PlaneParts
    /\ WkInit /\ ClInit /\ CtInit /\ OxInit /\ AcInit /\ SvInit
    /\ Begin("wakes", wkCast, WkCasts) /\ Begin("watch", clCast, ClCasts)
    /\ Begin("cto", ctCast, CtCasts) /\ Begin("outbox", oxCast, OxCasts)

WakesMoves == part = "wakes" /\ WkNext /\ UNCHANGED <<part, ClVars, CtVars, OxVars, AcVars, SvVars>>
WatchMoves == part = "watch" /\ ClNext /\ UNCHANGED <<part, WkVars, CtVars, OxVars, AcVars, SvVars>>
CtoMoves == part = "cto" /\ CtNext /\ UNCHANGED <<part, WkVars, ClVars, OxVars, AcVars, SvVars>>
BoxMoves == part = "outbox" /\ OxNext /\ UNCHANGED <<part, WkVars, ClVars, CtVars, AcVars, SvVars>>
\* Of the pane a message asks whether it is there and at work.
MessageSigns == {"dead", "no_claude", "timer"}
MessageMoves == /\ part = "messages" /\ AcMessageNext /\ acPane' \subseteq MessageSigns
                /\ UNCHANGED <<part, WkVars, ClVars, CtVars, OxVars, SvVars>>
ConditionMoves == part = "conditions" /\ AcEventNext /\ UNCHANGED <<part, WkVars, ClVars, CtVars, OxVars, SvVars>>
PromptMoves == part = "prompts" /\ SvNext /\ UNCHANGED <<part, WkVars, ClVars, CtVars, OxVars, AcVars>>

PlaneNext == WakesMoves \/ WatchMoves \/ CtoMoves \/ BoxMoves
          \/ MessageMoves \/ ConditionMoves \/ PromptMoves

PlaneSpec == PlaneInit /\ [][PlaneNext]_PlaneVars

--------------------------------------------------------------------------
(* Two guarded projects' events, then an event of a project followed by    *)
(* another, one whose route moves while the browser fails, and one that    *)
(* another program retires.                                               *)
Guard(r) == [act |-> FALSE, route |-> r, agent |-> "none"]
Alert(r) == [act |-> TRUE, route |-> r, agent |-> r]
WakeCast(ev, r, m, f, o) ==
    [events |-> ev, start |-> ("own" :> "c1" @@ "p" :> r), moves |-> m, faults |-> f, others |-> o]
SomeWkCasts ==
    {WakeCast(<<Guard("own"), Guard("own")>>, "none", 0, 0, {}),
     WakeCast(<<Alert("p"), Alert("p")>>, "c2", 0, 0, {}), WakeCast(<<Alert("p")>>, "c2", 1, 1, {}),
     WakeCast(<<Alert("p")>>, "c2", 0, 1, {1})}
Titles == "c1" :> "own" @@ "c2" :> "p"

WatchCast(p, m, h, c) == [panes |-> {"work"} \cup p, moves |-> m, hours |-> h, crashes |-> c]
SomeClCasts ==
    {WatchCast({"p", "done"}, 3, 0, 1), WatchCast({"gone", "p"}, 3, 0, 1), WatchCast({"p", "q"}, 2, 1, 0),
     WatchCast({"crash", "quiet"}, 3, 0, 1), WatchCast({"p"}, 2, 1, 1)}

CtoEvent(k, a) == [kind |-> k, agent |-> a]
SomeCtCasts ==
    {[events |-> <<CtoEvent("reason", "agent"), CtoEvent("owner", "agent"), CtoEvent("reason", "denied")>>,
      provider |-> FALSE, faults |-> 3],
     [events |-> <<CtoEvent("reason", "agent"), CtoEvent("other", "none")>>, provider |-> TRUE, faults |-> 4]}

BoxCast(k, s, c, m, t) == [keys |-> k, states |-> {"working"} \cup s, channels |-> c, moves |-> m, stops |-> t]
SomeOxCasts ==
    {BoxCast({"x"}, {}, {"owner_push"}, 3, 1), BoxCast({}, {"completed", "waiting_owner"}, {"owner_push"}, 3, 1),
     BoxCast({"x"}, {}, OxChannels, 2, 1), BoxCast({"x"}, {"dead"}, {}, 2, 0)}

(* Commands as the resolver reads them: simple ones, and each of them      *)
(* inside a shell, a container and a timeout around these.                 *)
Seg(p, s, o, i) == [prog |-> p, sub |-> s, opts |-> o, inner |-> i]
Cat == Seg("cat", "none", {}, <<>>)
Rm == Seg("rm", "none", {}, <<>>)
Simple ==
    {Cat, Rm, Seg("cat", "none", {"hidden"}, <<>>), Seg("git", "commit", {}, <<>>),
     Seg("git", "commit", {"words"}, <<>>), Seg("git", "branch", {"force"}, <<>>),
     Seg("git", "push", {}, <<>>), Seg("systemctl", "restart", {}, <<>>)}
Bodies == {<<>>, <<Cat, Rm>>} \cup {<<s>> : s \in Simple}
Wrapped == {Seg("sh", "-c", {}, b) : b \in Bodies} \cup {Seg("docker", "exec", {}, b) : b \in Bodies}
Command == Seg("command", "none", {}, <<Rm>>)
Deep == {Seg("timeout", "duration", {}, <<w>>) : w \in Wrapped}
SomeCommands == {<<s>> : s \in Simple \cup Wrapped \cup Deep \cup {Command}} \cup {<<Cat, Rm>>, <<Cat, Rm, Cat>>}
                \cup {<<Seg("cd", "none", {}, <<>>), s>> : s \in Simple}
SomeNested == <<Bodies, {<<w>> : w \in Wrapped}>>
OnlyCat == {<<Cat>>}

--------------------------------------------------------------------------
(* The types of the part that moves.                                       *)
PlaneTypeOK ==
    /\ part = "wakes" => WkTypeOK
    /\ part = "watch" => ClTypeOK
    /\ part = "cto" => CtTypeOK
    /\ part = "outbox" => OxTypeOK
    /\ part \in {"messages", "conditions"} => AcTypeOK
    /\ part = "prompts" => SvTypeOK
=============================================================================

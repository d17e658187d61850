-------------------------- MODULE PromptSupervisor --------------------------
(***************************************************************************)
(* The permission prompts of the agents: the classification of a shell     *)
(* command (core/permission_resolver.py), the narrow exceptions for a push *)
(* and for a service operation (core/git_push_policy.py,                   *)
(* core/service_ops_policy.py), and resolve_target of                      *)
(* core/agent_supervisor.py, which presses "1" for a proven command.  Two  *)
(* loops call it, each in a thread of its own: the supervisor's and the    *)
(* orchestrator's (agent_orchestrator._resolve_safe).                      *)
(*                                                                         *)
(* A command is a chain of segments.  A segment is a program, its          *)
(* subcommand, the options a check looks at, and the command it runs       *)
(* inside (sh -c, timeout, docker exec), empty for most.  What stands      *)
(* between two segments, an operator or the end of a line, is left out.    *)
(***************************************************************************)
EXTENDS Integers, Sequences

CONSTANTS
    SvCommands,     \* the commands an agent may ask for
    SvNested,       \* the commands inside those, by how deep they nest: a sequence of sets
    SvAgain,        \* the commands an agent may ask for after the first
    SvNone,         \* no prompt is shown
    SvPrompts,      \* bound: prompts shown in a behaviour
    SvCrashes,      \* bound: restarts of the service
    SvExpiries      \* bound: ends of the dedup window

VARIABLES
    svPane,         \* the prompt shown: its command, what is read of it, and its number
    svLoop,         \* what each loop is doing
    svDecision,     \* supervisor_prompts: the decision, for the commands with a row
    svKeys,         \* how often each loop pressed "1" on the prompt it meant; history
    svFaults        \* restarts and ends of the window so far

SvVars == <<svPane, svLoop, svDecision, svKeys, svFaults>>

----------------------------------------------------------------------------
(* Commands: those inside a command nest less deep than it does, and only a *)
(* wrapper runs another command.                                            *)
SvHardWrappers == {"sudo", "eval", "xargs"}
SvShells == {"sh"}
\* command, node and npx: the words after them are not looked at.
SvUnchecked == {"command", "npx"}

SvBelow(n) == {<<>>} \cup UNION {SvNested[m] : m \in 1..(n - 1)}
SvInside == SvBelow(Len(SvNested) + 1)
SvSegments(inside) ==
    {s \in [prog : STRING, sub : STRING, opts : SUBSET STRING, inner : inside] :
        s.inner # <<>> => \/ s.prog \in SvHardWrappers \cup SvShells \cup SvUnchecked \cup {"timeout"}
                          \/ s.prog = "docker" /\ s.sub \in {"exec", "compose_exec"}}

ASSUME SvAssumption ==
    /\ {SvPrompts, SvCrashes, SvExpiries} \subseteq Nat
    /\ Len(SvNested) \in Nat /\ DOMAIN SvNested = 1..Len(SvNested)
    /\ \A n \in DOMAIN SvNested : SvNested[n] \subseteq Seq(SvSegments(SvBelow(n)))
    /\ SvCommands \subseteq Seq(SvSegments(SvInside)) \ {<<>>} /\ SvNone \notin SvCommands

----------------------------------------------------------------------------
(* The classification of a command *)

SvPrograms == {"cat", "cd", "git", "docker", "systemctl", "psql", "find", "sed", "awk",
               "python", "npm", "alembic", "timeout", "curl", "wget"} \cup SvShells \cup SvUnchecked

SvHas(s, opts) == s.opts \cap opts # {}

SvCheckGit(s) ==
    \/ s.sub \in {"checkout", "switch"} /\ ~SvHas(s, {"force", "bad_name"}) /\ SvHas(s, {"create"})
    \/ s.sub = "branch" /\ ~SvHas(s, {"force", "bad_name"})
    \/ s.sub = "add"
    \/ s.sub = "commit" /\ ~SvHas(s, {"amend", "no_verify"})
    \/ s.sub = "config" /\ ~SvHas(s, {"assign"})
    \/ s.sub \in {"status", "log"}
SvCheckSystemctl(s) == s.sub \in {"status", "none"}
SvCheckSql(s) == s.sub = "select" /\ ~SvHas(s, {"write"})
SvCheckFind(s) == ~SvHas(s, {"delete", "exec"})
SvCheckSed(s) == ~SvHas(s, {"in_place", "write", "exec"})
SvCheckAwk(s) == ~SvHas(s, {"exec", "write"})
SvCheckTestRunner(s) ==
    \/ s.prog = "python" /\ s.sub \in {"pytest", "--version"} /\ ~SvHas(s, {"inline"})
    \/ s.prog = "npm" /\ s.sub \in {"test", "ls"}
    \/ s.prog = "npm" /\ s.sub = "run" /\ SvHas(s, {"test_script"})
SvCheckAlembic(s) == s.sub = "heads" \/ (s.sub = "upgrade" /\ SvHas(s, {"sql"}))
SvCheckCurl(s) == s.sub = "version" \/ (s.sub = "loopback" /\ ~SvHas(s, {"write"}))
SvCheckWget(s) == s.sub = "version" \/ (s.sub = "loopback" /\ SvHas(s, {"spider", "stdout"}))

\* classify_command and _classify_tokens, given the commands inside that are safe.  A
\* script of sh -c is classified as a command of its own; timeout and docker hand their
\* words on as one segment.
\* Mutant: only the first command inside is looked at.
SvInnerSafeFirst(s, safe) == s.inner # <<>> /\ safe[<<Head(s.inner)>>]

SvInnerSafe(s, safe) == s.inner # <<>> /\ safe[s.inner]
SvCheckShell(s, safe) == s.sub = "-c" /\ SvInnerSafe(s, safe)
SvCheckTimeout(s, safe) == s.sub = "duration" /\ SvInnerSafe(s, safe)
SvCheckDocker(s, safe) ==
    \/ s.sub \in {"exec", "compose_exec"} /\ SvInnerSafe(s, safe)
    \/ s.sub \in {"ps", "compose_ps"} /\ ~SvHas(s, {"prune"})
SvCheck(s, safe) ==
    /\ s.prog = "git" => SvCheckGit(s)
    /\ s.prog = "docker" => SvCheckDocker(s, safe)
    /\ s.prog = "systemctl" => SvCheckSystemctl(s)
    /\ s.prog = "psql" => SvCheckSql(s)
    /\ s.prog = "find" => SvCheckFind(s)
    /\ s.prog = "sed" => SvCheckSed(s)
    /\ s.prog = "awk" => SvCheckAwk(s)
    /\ s.prog \in {"python", "npm"} => SvCheckTestRunner(s)
    /\ s.prog = "alembic" => SvCheckAlembic(s)
    /\ s.prog = "timeout" => SvCheckTimeout(s, safe)
    /\ s.prog = "curl" => SvCheckCurl(s)
    /\ s.prog = "wget" => SvCheckWget(s)
    /\ s.prog \in SvShells => SvCheckShell(s, safe)
\* hidden: a redirection, a substitution or a "&" outside quotes.  env: an
\* assignment that may change what runs.  secret: a path of a secret or of the system.
SvSegmentSafe(s, safe) ==
    /\ ~SvHas(s, {"hidden", "env", "secret"})
    /\ s.prog \notin SvHardWrappers /\ s.prog \in SvPrograms
    /\ SvCheck(s, safe)
SvAllSafe(c, safe) == c # <<>> /\ \A i \in 1..Len(c) : SvSegmentSafe(c[i], safe)
SvSafeInside[c \in SvInside] == SvAllSafe(c, SvSafeInside)
SvSafe(c) == SvAllSafe(c, SvSafeInside)

----------------------------------------------------------------------------
(* The two exceptions.  The rest of the chain may only change directory. *)

SvAlone(c, what(_)) ==
    \E i \in 1..Len(c) : what(c[i]) /\ \A j \in (1..Len(c)) \ {i} : c[j].prog = "cd"

SvIsPush(c) == SvAlone(c, LAMBDA s : s.prog = "git" /\ s.sub = "push")
\* evaluate_push.  repo: what git says of the work tree at that moment.
SvPushAllowed(c, repo) ==
    /\ \A i \in 1..Len(c) : c[i].opts \cap {"force", "refspec"} = {}
    /\ repo = "current_branch_ahead_of_its_own_upstream"

SvIsServiceOp(c) == SvAlone(c, LAMBDA s : s.prog = "systemctl" \/ s.prog = "docker")
SvServiceAllowed(c, listed) ==
    /\ \A i \in 1..Len(c) : c[i].prog # "cd" => c[i].sub \in {"restart", "compose_up"} /\ "force" \notin c[i].opts
    /\ listed

\* resolve_target: safe, or one of the exceptions, in the order of the code.
SvMayApprove(c, optedIn, repo, listed) ==
    \/ SvSafe(c)
    \/ optedIn /\ SvIsPush(c) /\ SvPushAllowed(c, repo)
    \/ optedIn /\ SvIsServiceOp(c) /\ SvServiceAllowed(c, listed)

----------------------------------------------------------------------------
(* The loops *)

SvLoops == {"supervisor", "orchestrator"}
SvIdle == [at |-> "idle", cmd |-> SvNone, n |-> 0, optedIn |-> FALSE]
SvMany == SvCrashes + SvExpiries + 2      \* where the count of keys stops
SvNoPrompt == [cmd |-> SvNone, read |-> SvNone, n |-> 0]
SvShown == svPane.cmd # SvNone

\* _reconstruct_command joins the rows of the dialog with blanks: a line of the command
\* that ends without an operator goes on, and the next is read as its words.
SvJoined(c, i) ==
    LET a == c[i]
        b == c[i + 1]
    IN  SubSeq(c, 1, i - 1)
        \o <<[a EXCEPT !.sub = IF @ = "none" THEN b.prog ELSE @,
                       !.opts = @ \cup (b.opts \ {"env"}) \cup {"words"}]>>
        \o SubSeq(c, i + 2, Len(c))
SvWhole(c) == {c} \cup {SvJoined(c, i) : i \in 1..(Len(c) - 1)}

\* The last rows, while they are of plain words, are taken for the description below the
\* command: words, what a program is told to do, or a whole segment.
SvWords(s) == s.opts \subseteq {"words"} /\ s.prog \notin SvShells /\ s.sub # "--version"
SvPlain(s) == SvWords(s) /\ \A i \in 1..Len(s.inner) : SvWords(s.inner[i]) /\ s.inner[i].inner = <<>>
SvShorter(s) ==
    {[s EXCEPT !.opts = @ \ {"words"}]}
    \cup {[prog |-> s.prog, sub |-> sub, opts |-> {}, inner |-> <<>>] :
             sub \in IF SvPlain(s) THEN {s.sub, "none"} ELSE {}}
SvCut(c) ==
    {[c EXCEPT ![Len(c)] = s] : s \in SvShorter(c[Len(c)])}
    \cup {SubSeq(c, 1, n) : n \in {m \in {Len(c) - 1} : m > 0 /\ SvPlain(c[Len(c)])}}

\* extract_pending_command; what no longer parses is not read at all.
SvReads(c) == {SvNone} \cup UNION {{w} \cup SvCut(w) : w \in SvWhole(c)}
SvReadable == UNION {SvReads(c) : c \in SvCommands}

SvTypeOK ==
    /\ svPane.cmd \in SvCommands \cup {SvNone} /\ svPane.read \in SvReadable \cup {SvNone}
    /\ svPane.n \in 0..SvPrompts
    /\ \A l \in SvLoops : svLoop[l] = SvIdle
                          \/ /\ svLoop[l].at \in {"decide", "press", "verify"}
                             /\ svLoop[l].cmd \in SvReadable \ {SvNone}
    /\ DOMAIN svDecision \subseteq SvReadable \ {SvNone}
    /\ \A c \in DOMAIN svDecision : svDecision[c] \in {"left", "approved", "approved_no_resume", "old"}
    /\ svKeys \in [SvLoops \X (1..SvPrompts) -> 0..SvMany]
    /\ svFaults.crashes \in 0..SvCrashes /\ svFaults.expiries \in 0..SvExpiries

SvInit ==
    /\ svPane = SvNoPrompt
    /\ svLoop = [l \in SvLoops |-> SvIdle]
    /\ svDecision = <<>>
    /\ svKeys = [k \in SvLoops \X (1..SvPrompts) |-> 0]
    /\ svFaults = [crashes |-> 0, expiries |-> 0]

\* poll_once, or derive and _resolve_safe: the orchestrator calls only for a command
\* it has classified itself.
SvSees(l, optedIn) ==
    /\ svLoop[l] = SvIdle /\ svPane.read # SvNone
    /\ l = "orchestrator" => SvSafe(svPane.read)
    /\ svLoop' = [svLoop EXCEPT ![l] = [at |-> "decide", cmd |-> svPane.read, n |-> svPane.n, optedIn |-> optedIn]]
    /\ UNCHANGED <<svPane, svDecision, svKeys, svFaults>>

\* get_prompt_decision, within the window.
SvDone(c) == c \in DOMAIN svDecision /\ svDecision[c] \in {"approved", "approved_no_resume"}
SvRecords(c, decision) ==
    svDecision' = [e \in {c} \cup DOMAIN svDecision |-> IF e = c THEN decision ELSE svDecision[e]]

\* The verdict and the decision on record, in a session of the allowlist.
SvDecides(l, listed) ==
    LET c == svLoop[l].cmd IN
    /\ svLoop[l].at = "decide"
    /\ \E repo \in {"current_branch_ahead_of_its_own_upstream", "anything_else"} :
          LET may == SvMayApprove(c, svLoop[l].optedIn, repo, listed)
          IN  /\ IF may THEN svDecision' = svDecision ELSE SvRecords(c, "left")
              /\ svLoop' = [svLoop EXCEPT ![l] = IF may /\ ~SvDone(c) THEN [@ EXCEPT !.at = "press"] ELSE SvIdle]
    /\ UNCHANGED <<svPane, svKeys, svFaults>>

\* approve_prompt: the key reaches whatever the pane shows.  tmux may fail.
SvPresses(l) ==
    /\ svLoop[l].at = "press"
    /\ \/ /\ svLoop' = [svLoop EXCEPT ![l].at = "verify"]
          /\ svKeys' = IF SvShown /\ svPane.n = svLoop[l].n
                      THEN [svKeys EXCEPT ![<<l, svPane.n>>] = IF @ < SvMany THEN @ + 1 ELSE @] ELSE svKeys
       \/ svLoop' = [svLoop EXCEPT ![l] = SvIdle] /\ svKeys' = svKeys
    /\ UNCHANGED <<svPane, svDecision, svFaults>>

\* RESUME_TIMEOUT passes with the prompt still there, or it is seen gone.  Only now
\* is the decision recorded.
SvVerifies(l) ==
    /\ svLoop[l].at = "verify"
    /\ SvRecords(svLoop[l].cmd, IF SvShown THEN "approved_no_resume" ELSE "approved")
    /\ svLoop' = [svLoop EXCEPT ![l] = SvIdle]
    /\ UNCHANGED <<svPane, svKeys, svFaults>>

\* The agent asks; the dialog goes when it was answered, by a key or by the owner.
SvAgentAsks(c) ==
    /\ ~SvShown /\ svPane.n < SvPrompts
    /\ svPane.n > 0 => c \in SvAgain
    /\ \E read \in SvReads(c) : svPane' = [cmd |-> c, read |-> read, n |-> svPane.n + 1]
    /\ UNCHANGED <<svLoop, svDecision, svKeys, svFaults>>
SvPromptGoes ==
    /\ SvShown /\ svPane' = [svPane EXCEPT !.cmd = SvNone, !.read = SvNone]
    /\ UNCHANGED <<svLoop, svDecision, svKeys, svFaults>>

\* DEDUP_WINDOW passes for a command.
SvWindowEnds(c) ==
    /\ SvDone(c) /\ svFaults.expiries < SvExpiries
    /\ SvRecords(c, "old")
    /\ svFaults' = [svFaults EXCEPT !.expiries = @ + 1]
    /\ UNCHANGED <<svPane, svLoop, svKeys>>

SvRestart ==
    /\ svFaults.crashes < SvCrashes
    /\ svFaults' = [svFaults EXCEPT !.crashes = @ + 1]
    /\ svLoop' = [l \in SvLoops |-> SvIdle]
    /\ UNCHANGED <<svPane, svDecision, svKeys>>

SvNext ==
    \/ \E l \in SvLoops, b \in BOOLEAN : SvSees(l, b) \/ SvDecides(l, b)
    \/ \E l \in SvLoops : SvPresses(l) \/ SvVerifies(l)
    \/ \E c \in SvCommands : SvAgentAsks(c)
    \/ \E c \in DOMAIN svDecision : SvWindowEnds(c)
    \/ SvPromptGoes \/ SvRestart
SvSpec == SvInit /\ [][SvNext]_SvVars

----------------------------------------------------------------------------
\* One loop presses at most once for one appearance of a proven prompt, but for each
\* restart before its record and each end of the dedup window.
SvOncePerLoop ==
    \A l \in SvLoops : SvShown /\ svPane.read # SvNone /\ SvSafe(svPane.read) =>
        svKeys[<<l, svPane.n>>] <= 1 + svFaults.crashes + svFaults.expiries

\* Every segment of a command, those inside the wrappers too.
SvLookedInto(s) == IF s.prog \in SvUnchecked THEN <<>> ELSE s.inner
SvPartsInside[c \in SvInside] == UNION {{c[i]} \cup SvPartsInside[SvLookedInto(c[i])] : i \in 1..Len(c)}
SvParts(c) == UNION {{c[i]} \cup SvPartsInside[SvLookedInto(c[i])] : i \in 1..Len(c)}

\* What a segment does besides reading.
SvWrites(s) ==
    \/ s.prog = "git" /\ s.sub \in {"checkout", "switch", "branch"} /\ SvHas(s, {"force"})
    \/ s.prog = "git" /\ s.sub = "commit" /\ SvHas(s, {"amend", "no_verify"})
    \/ s.prog = "find" /\ SvHas(s, {"delete", "exec"})
    \/ s.prog = "sed" /\ SvHas(s, {"in_place", "write", "exec"})
    \/ s.prog = "psql" /\ SvHas(s, {"write"})

\* "A command is safe only if EVERY pipeline segment's leading program is on the
\* read-only allowlist": a loop that pressed "1" on the prompt shown has read of it a
\* command whose every segment is proven, however deep it sits in sh -c, timeout and
\* docker, or one push or service operation after changes of directory.  It is said of
\* what was read: rows taken for the description, lines run together and what command,
\* node and npx run are not part of it.
SvEverySegmentProven ==
    SvShown => \A l \in SvLoops : svKeys[<<l, svPane.n>>] > 0 =>
        \/ /\ SvAlone(svPane.read, LAMBDA s : s.prog = "git" /\ s.sub = "push")
           /\ \A i \in 1..Len(svPane.read) : ~SvHas(svPane.read[i], {"force", "refspec"})
        \/ SvAlone(svPane.read, LAMBDA s : s.sub \in {"restart", "compose_up"} /\ "force" \notin s.opts)
        \/ \A s \in SvParts(svPane.read) :
              s.prog \in SvPrograms /\ ~SvHas(s, {"hidden", "env", "secret"}) /\ ~SvWrites(s)

SvInv == SvEverySegmentProven /\ SvOncePerLoop

\* "A safe prompt is confirmed at most once per appearance", "exactly-once across both
\* supervision loops": with no restart and inside the window, no prompt gets two keys.
SvConfirmedOnce ==
    SvShown /\ svPane.read # SvNone /\ SvSafe(svPane.read) /\ svFaults = [crashes |-> 0, expiries |-> 0] =>
        svKeys[<<"supervisor", svPane.n>>] + svKeys[<<"orchestrator", svPane.n>>] <= 1

\* "it can never turn an unsafe command into a safe-looking one": what is found safe of a
\* command says that the command is.
SvReadIsWhole ==
    SvShown /\ svPane.read # SvNone /\ SvSafe(svPane.read) => SvSafe(svPane.cmd)
=============================================================================

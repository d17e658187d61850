----------------------------- MODULE Autopilot -----------------------------
(***************************************************************************)
(* The per-minute commander tick over one registered agent                 *)
(* (core/commander_autopilot.py) and the continuation governor it consults *)
(* (core/continuation_governor.py): nudges grounded in the project's       *)
(* durable queue, blockers raised once, the owner's own line left in the   *)
(* input and how long it has been there.                                   *)
(*                                                                         *)
(* A tick looks at the agent, then decides and acts; raising a blocker is  *)
(* a row and, after it, the owner's gate.  The agent and the owner move in *)
(* between.                                                                *)
(***************************************************************************)
EXTENDS Integers, FiniteSets

CONSTANTS
    ApStages,      \* the queue has stages 1..ApStages
    ApMaxNudges,   \* GOVERNOR_STAGE_MAX_ATTEMPTS
    ApCasts        \* bound: how many stages and conversations, and whether the owner types

ASSUME ApAssumption ==
    /\ {ApStages, ApMaxNudges} \subseteq Nat \ {0}
    /\ ApCasts \subseteq [stages : 1..ApStages, types : BOOLEAN, convs : Nat \ {0}]

VARIABLES
    apPane,     \* the agent's pane
    apConv,     \* its conversation, and the one its newest transcript names
    apQueue,    \* the project's queue file: pointer and the status of each stage
    apTick,     \* where the tick is, and what it saw
    apNudge,    \* governor_stage_delivery
    apSeen,     \* governor_blocker
    apGates,    \* open gates of the governor, by stage or for the line
    apWatch,    \* queued_input_watch
    apSent,     \* nudges of a stage delivered in the agent's conversation; history
    apCast      \* the member of ApCasts this behaviour is bounded by; constant

ApState == <<apPane, apConv, apQueue, apTick, apNudge, apSeen, apGates, apWatch, apSent>>
ApVars == <<ApState, apCast>>

----------------------------------------------------------------------------
ApStage == 1..ApStages
ApTheLine == 0                   \* the subject of a blocker about the input line
\* foreign: of a forbidden scope, or a paste the settings do not submit.
ApLines == {"none", "text", "foreign"}
\* written: the artefact exists while the pointer still names the stage.
\* blocked: by its status, or waiting for a payload of the owner.
ApStatus == {"pending", "written", "blocked", "done"}
ApBlocker == ((1..ApStages) \X {"blocked", "stale"}) \cup ({ApTheLine} \X {"line", "stalled"})
NoBlocker == <<ApTheLine, "none">>

\* A conversation is numbered; a row or a tick without an id has the number 0.
ApUnknown == 0
ApNoRow == [n |-> 0, cooling |-> FALSE, conv |-> ApUnknown]

ApTypeOK ==
    /\ apPane \in [mode : {"rest", "busy", "dialog"}, line : ApLines]
    /\ apConv \in [real : Nat, seen : Nat]
    /\ apQueue \in [at : ApStage, status : [ApStage -> ApStatus]]
    /\ apTick \in [at : {"idle", "act", "gate"}, busy : BOOLEAN,
                   raising : ApBlocker \cup {NoBlocker}, conv : Nat]
    /\ apNudge \in [ApStage -> [n : 0..ApMaxNudges, cooling : BOOLEAN, conv : Nat]]
    /\ apSeen \subseteq ApBlocker
    /\ apGates \subseteq 0..ApStages
    /\ apWatch \in {"none", "fresh", "old", "escalated"}
    /\ apSent \in [ApStage -> 0..ApMaxNudges + 1]
    /\ apCast \in ApCasts

ApInit ==
    /\ apPane = [mode |-> "rest", line |-> "none"]
    /\ apQueue \in [at : {1}, status : {[s \in ApStage |-> "pending"]}]
    /\ apConv = [real |-> 1, seen |-> 1]
    /\ apTick = [at |-> "idle", busy |-> FALSE, raising |-> NoBlocker, conv |-> ApUnknown]
    /\ apNudge = [s \in ApStage |-> ApNoRow]
    /\ apSeen = {} /\ apGates = {} /\ apWatch = "none"
    /\ apSent = [s \in ApStage |-> 0]
    /\ apCast \in ApCasts

----------------------------------------------------------------------------
(* The governor *)

\* detect_queued_input with check_project_isolation: what to do with a line.
GovernLine ==
    CASE apPane.line = "none" -> "none"
      [] apPane.line = "foreign" -> "blocker"
      [] OTHER -> "submit"

\* The queue part of govern: the blocker at the pointer, or the stage to nudge.
QueueBlocker ==
    LET p == apQueue.at
        st == apQueue.status
    IN  CASE st[p] = "blocked" -> <<p, "blocked">>
          [] st[p] = "written" /\ p < apCast.stages /\ st[p + 1] = "blocked" -> <<p + 1, "blocked">>
          [] OTHER -> NoBlocker

QueueStage ==
    LET p == apQueue.at IN
    CASE apQueue.status[p] = "pending" -> p
      [] apQueue.status[p] = "written" /\ p < apCast.stages -> p + 1
      [] OTHER -> 0            \* complete, exhausted, or marked done: nothing is typed

\* govern, for an agent that is not working.
Govern ==
    IF GovernLine # "none" THEN GovernLine
    ELSE IF QueueBlocker # NoBlocker THEN "blocker"
    ELSE IF QueueStage # 0 THEN "advance" ELSE "skip"

\* _record_governor_blocker: once per stage and fields, the row before the gate.
Raise(b) ==
    /\ apSeen' = apSeen \cup {b}
    /\ apTick' = [apTick EXCEPT !.at = IF b \in apSeen THEN "idle" ELSE "gate",
                                !.raising = IF b \in apSeen THEN NoBlocker ELSE b,
                                !.conv = ApUnknown]

\* _retract_governor_gates
Retract == apGates' = {s \in apGates : s = ApTheLine \/ apQueue.status[s] # "done"}

\* _stage_delivery_gate.  A row of a conversation that is provably another than the
\* tick's counts as no row; an unknown id proves nothing.
OfAnother(s) ==
    apTick.conv # ApUnknown /\ apNudge[s].conv # ApUnknown /\ apTick.conv # apNudge[s].conv
ApAttempts(s) == IF OfAnother(s) THEN 0 ELSE apNudge[s].n

\* Mutant: the cooldown only.
NudgeAllowedAgain(s) == ~apNudge[s].cooling

NudgeAllowed(s) == ApAttempts(s) < ApMaxNudges /\ (OfAnother(s) \/ ~apNudge[s].cooling)
CountNudge(s) ==
    apNudge' = [apNudge EXCEPT ![s] =
        [n |-> ApAttempts(s) + 1, cooling |-> TRUE, conv |-> apTick.conv]]

\* A message the agent takes is written to its transcript, which is the newest from
\* then on: the next tick is a minute away.
Taken == apConv' = [apConv EXCEPT !.seen = apConv.real]

----------------------------------------------------------------------------
(* The tick *)

Quiet == apTick' = [apTick EXCEPT !.at = "idle", !.raising = NoBlocker, !.conv = ApUnknown]

\* What _real_conv may return.  An id that cannot be read makes a difference only
\* where there is another conversation.
ApReads == {apConv.seen} \cup (IF apCast.convs > 1 THEN {ApUnknown} ELSE {})

\* tick.  A task of the ledger (OsTasks) takes the whole tick for this agent: the
\* ticks here are the others.  The conversation is the one of the newest transcript,
\* which may lag behind a /clear or not be readable.
ApLook ==
    /\ apTick.at = "idle"
    /\ \E conv \in ApReads :
          apTick' = [apTick EXCEPT !.at = "act", !.busy = apPane.mode = "busy", !.conv = conv]
    /\ UNCHANGED <<apPane, apConv, apQueue, apNudge, apSeen, apGates, apWatch, apSent>>

\* _track_queued_input: a line that has waited too long is escalated once.
Tracked == IF apWatch = "none" THEN "fresh" ELSE IF apWatch = "old" THEN "escalated" ELSE apWatch
Track(b) ==
    /\ apWatch' = IF apPane.line = "none" THEN apWatch ELSE Tracked
    /\ IF apPane.line # "none" /\ apWatch = "old" THEN Raise(<<ApTheLine, "stalled">>)
       ELSE IF b # NoBlocker THEN Raise(b)
       ELSE apSeen' = apSeen /\ Quiet

\* _governor_pass with the bookkeeping of tick that follows it.
GovernorBlocks ==
    /\ ~apTick.busy /\ Govern = "blocker"
    /\ Track(IF GovernLine = "blocker" THEN <<ApTheLine, "line">> ELSE QueueBlocker)
    /\ UNCHANGED <<apPane, apConv, apNudge, apGates, apSent>>

\* Enter on the owner's own line; unverified, it is tracked like any other.
GovernorSubmits ==
    /\ ~apTick.busy /\ Govern = "submit"
    /\ Retract
    /\ \/ /\ apPane.mode = "rest"
          /\ apPane' = [apPane EXCEPT !.line = "none", !.mode = "busy"]
          /\ apWatch' = "none" /\ apSeen' = apSeen /\ Quiet /\ Taken
       \/ UNCHANGED <<apPane, apConv>> /\ Track(NoBlocker)
    /\ UNCHANGED <<apNudge, apSent>>

GovernorAdvances ==
    LET s == QueueStage IN
    /\ ~apTick.busy /\ Govern = "advance"
    /\ Retract
    /\ IF NudgeAllowed(s)
       THEN /\ CountNudge(s)
            /\ \/ /\ apPane.mode = "rest" /\ apPane.line = "none"
                  /\ apPane' = [apPane EXCEPT !.mode = "busy"]
                  /\ apSent' = [apSent EXCEPT ![s] = @ + 1]
                  /\ Taken
               \/ UNCHANGED <<apPane, apConv, apSent>>   \* the actuator refused
            /\ Track(NoBlocker)
       ELSE /\ Track(IF s # apQueue.at THEN <<apQueue.at, "stale">> ELSE NoBlocker)
            /\ UNCHANGED <<apPane, apConv, apNudge, apSent>>

\* The governor lets the ordinary evaluation go on: a working agent is left
\* alone, another may be poked with the registered step.
Evaluates ==
    /\ apTick.busy \/ Govern = "skip"
    /\ IF apTick.busy THEN apGates' = apGates ELSE Retract
    /\ \/ UNCHANGED <<apPane, apConv>>
       \/ /\ ~apTick.busy /\ apPane.mode = "rest" /\ apPane.line = "none"
          /\ apPane' = [apPane EXCEPT !.mode = "busy"]
          /\ Taken
    /\ IF apPane.line = "none" THEN apWatch' = "none" /\ apSeen' = apSeen /\ Quiet
       ELSE Track(NoBlocker)
    /\ UNCHANGED <<apNudge, apSent>>

ApAct ==
    /\ apTick.at = "act"
    /\ GovernorBlocks \/ GovernorSubmits \/ GovernorAdvances \/ Evaluates
    /\ apQueue' = apQueue

ApOpenGate ==
    /\ apTick.at = "gate"
    /\ apGates' = apGates \cup {apTick.raising[1]}
    /\ Quiet
    /\ UNCHANGED <<apPane, apConv, apQueue, apNudge, apSeen, apWatch, apSent>>

\* The service stops, or opening the gate raises and is swallowed.
ApStop ==
    /\ apTick.at = "gate"
    /\ Quiet
    /\ UNCHANGED <<apPane, apConv, apQueue, apNudge, apSeen, apGates, apWatch, apSent>>

----------------------------------------------------------------------------
(* Time, the agent and the owner *)

ApLineAges ==
    /\ apWatch = "fresh" /\ apWatch' = "old"
    /\ UNCHANGED <<apPane, apConv, apQueue, apTick, apNudge, apSeen, apGates, apSent>>

ApCooled(s) ==
    /\ apNudge[s].cooling /\ apNudge' = [apNudge EXCEPT ![s].cooling = FALSE]
    /\ UNCHANGED <<apPane, apConv, apQueue, apTick, apSeen, apGates, apWatch, apSent>>

ApAgent ==
    /\ \/ apPane.mode = "busy" /\ \E m \in {"rest", "dialog"} : apPane' = [apPane EXCEPT !.mode = m]
       \/ apPane.mode = "dialog" /\ apPane' = [apPane EXCEPT !.mode = "busy"]
    /\ UNCHANGED <<apConv, apQueue, apTick, apNudge, apSeen, apGates, apWatch, apSent>>

\* /clear, by whoever: the transcripts still end with the conversation before.
ApNewConversation ==
    /\ apConv.real < apCast.convs
    /\ apPane' = [mode |-> "rest", line |-> "none"]
    /\ apConv' = [apConv EXCEPT !.real = @ + 1]
    /\ apSent' = [s \in ApStage |-> 0]
    /\ UNCHANGED <<apQueue, apTick, apNudge, apSeen, apGates, apWatch>>

ApTranscript ==
    /\ apConv.seen # apConv.real /\ Taken
    /\ UNCHANGED <<apPane, apQueue, apTick, apNudge, apSeen, apGates, apWatch, apSent>>

ApOwnerTypes ==
    /\ apCast.types
    /\ \E line \in ApLines \ {apPane.line} :
          /\ apPane.line = "none" \/ line = "none"
          /\ apPane' = [apPane EXCEPT !.line = line]
    /\ UNCHANGED <<apConv, apQueue, apTick, apNudge, apSeen, apGates, apWatch, apSent>>

\* The queue file is edited by its project only; an ended stage stays ended.
ApQueueMoves ==
    /\ LET p == apQueue.at IN
       \/ \E st \in ApStatus \ {apQueue.status[p]} :
             apQueue.status[p] # "done" /\ apQueue' = [apQueue EXCEPT !.status[p] = st]
       \/ /\ apQueue.status[p] = "done" /\ p < apCast.stages
          /\ apQueue' = [apQueue EXCEPT !.at = p + 1]
    /\ UNCHANGED <<apPane, apConv, apTick, apNudge, apSeen, apGates, apWatch, apSent>>

ApTicks == ApLook \/ ApAct \/ ApOpenGate
ApMoves ==
    \/ ApTicks \/ ApStop \/ ApLineAges \/ ApAgent \/ ApNewConversation \/ ApTranscript \/ ApOwnerTypes \/ ApQueueMoves
    \/ \E s \in ApStage : ApCooled(s)
ApNext == ApMoves /\ apCast' = apCast

ApFairness == WF_ApState(ApTicks) /\ WF_ApState(ApLineAges)
ApSpec == ApInit /\ [][ApNext]_ApVars
ApFairSpec == ApSpec /\ ApFairness

----------------------------------------------------------------------------
\* A stage is nudged at most GOVERNOR_STAGE_MAX_ATTEMPTS times in a conversation, and
\* once more when the first nudge came before the transcript named it, whatever the
\* actuator refuses and however the queue's pointer goes back and forth.
ApNudgesCapped == \A s \in ApStage : apSent[s] <= ApMaxNudges + 1

\* "record a precise blocker instead of silently idling": the owner's line is sent,
\* taken away, or a blocker about it is on record.
ApStuckLineReported ==
    apPane.line # "none" ~> (apPane.line = "none" \/ <<ApTheLine, "stalled">> \in apSeen)
=============================================================================

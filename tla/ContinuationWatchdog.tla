------------------------ MODULE ContinuationWatchdog ------------------------
(***************************************************************************)
(* The sweep that continues an idle agent on its own path                  *)
(* (core/agent_continuation_watchdog.py): it submits a safe line left in   *)
(* the input or delivers the session's continuation, looks whether it went *)
(* away, tries it once more if not, and keeps a ledger of steps per        *)
(* conversation.  The answer to a dialog the owner approved beforehand     *)
(* never gets there: its log line raises.  One agent; the service may stop *)
(* between the keystrokes and the record.                                  *)
(***************************************************************************)
EXTENDS Integers, FiniteSets

CONSTANTS
    CwMaxAttempts,   \* MAX_STEP_ATTEMPTS
    CwMaxPerConv,    \* MAX_CONTINUATIONS
    CwCrashes        \* bound: stops of the service, or raises, in the middle of a pass

ASSUME CwAssumption ==
    {CwMaxAttempts, CwMaxPerConv} \subseteq Nat \ {0} /\ CwCrashes \in Nat

VARIABLES
    cwPane,      \* the agent's pane
    cwAuto,      \* the session's configuration: mode auto, proactive_continue
    cwStep,      \* cw_step: the rows of the agent's conversation; those of an older one
                 \* are read by nobody
    cwTarget,    \* cw_target: idle_since, as a dwell
    cwPass,      \* the pass under way; late: for a conversation that is over
    cwReported,  \* steps of the conversation the owner was told about
    cwSent,      \* typings of a step in its conversation; history
    cwStops      \* stops and raises so far

CwVars == <<cwPane, cwAuto, cwStep, cwTarget, cwPass, cwReported, cwSent, cwStops>>

----------------------------------------------------------------------------
\* A line the owner or a controller left: safe by is_safe_continuation, or not.
\* The session's continuation is the safe text.
CwLine == {"safe", "unsafe"}
CwKey == CwLine

\* A dialog is in the registry of approved gates or it is not.
CwMode == {"rest", "busy", "approved", "dialog", "gone"}
CwAsking == {"approved", "dialog"}

CwRow == [attempts : 0..CwMaxAttempts + 1, verified : BOOLEAN, blocked : BOOLEAN,
          cooling : BOOLEAN]
CwNoRow == [attempts |-> 0, verified |-> FALSE, blocked |-> FALSE, cooling |-> FALSE]
CwIdle == [at |-> "idle", action |-> "skip", key |-> "safe", late |-> FALSE, typed |-> 0]

CwTypeOK ==
    /\ cwPane \in [line : CwLine \cup {"none"}, mode : CwMode]
    /\ cwAuto \in [auto : BOOLEAN, proactive : BOOLEAN]
    /\ cwStep \in [CwKey -> CwRow]
    /\ cwTarget \in {"moving", "fresh", "confirmed"}
    /\ cwPass \in [at : {"idle", "decide", "send", "verify"}, key : CwKey,
                   action : {"skip", "submit", "deliver"}, late : BOOLEAN, typed : 0..2]
    /\ cwReported \subseteq CwKey
    /\ cwSent \in [CwKey -> 0..CwMaxAttempts + 1 + 2 * CwCrashes]
    /\ cwStops \in 0..CwCrashes

CwNewPane == [line |-> "none", mode |-> "rest"]
CwInit ==
    /\ cwPane = CwNewPane
    /\ cwAuto \in [auto : BOOLEAN, proactive : BOOLEAN]
    /\ cwStep = [k \in CwKey |-> CwNoRow]
    /\ cwTarget = "moving"
    /\ cwPass = CwIdle
    /\ cwReported = {}
    /\ cwSent = [k \in CwKey |-> 0]
    /\ cwStops = 0

----------------------------------------------------------------------------
(* The pass *)

\* What the inventory calls the state: it may take a busy or an asking pane for
\* an idle one.
CwStates == {"at_rest"} \cup
            (CASE cwPane.mode = "busy" -> {"working"}
               [] cwPane.mode \in CwAsking -> {"waiting_owner"}
               [] OTHER -> {})

\* The dwell of cw_target survives restarts and goes on while every pass finds
\* the agent at rest.  An agent busy or waiting for the owner is left alone.
CwObserve ==
    /\ cwPass.at = "idle" /\ cwAuto.auto /\ cwPane.mode # "gone"
    /\ \E state \in CwStates :
          /\ cwTarget' = IF state # "at_rest" THEN "moving"
                         ELSE IF cwTarget = "moving" THEN "fresh" ELSE cwTarget
          /\ cwPass' = IF state = "at_rest" THEN [cwPass EXCEPT !.at = "decide"] ELSE cwPass
    /\ UNCHANGED <<cwPane, cwAuto, cwStep, cwReported, cwSent, cwStops>>

CwContinued == Cardinality({k \in CwKey : cwStep[k].verified})

\* decide, over the snapshot taken after the inventory: the action and its text.
\* The branch of an approved dialog logs through a name that run_once does not
\* define, and the raise ends the pass before the answer is typed.
CwDecision ==
    IF cwPane.mode = "approved" THEN <<"skip", "safe">>
    ELSE IF cwPane.mode # "rest" \/ cwTarget # "confirmed" THEN <<"skip", "safe">>
    ELSE IF cwPane.line = "unsafe" THEN <<"blocker", "unsafe">>
    ELSE IF cwPane.line = "safe" THEN <<"submit", "safe">>
    ELSE IF cwAuto.proactive /\ CwContinued < CwMaxPerConv THEN <<"deliver", "safe">>
    ELSE <<"skip", "safe">>

\* Mutant: the attempts are not counted.
CwSkipsCooling(row) == row.verified \/ (row.blocked /\ row.cooling)

\* Mutant: an executed step is due again.
CwSkipsBlocked(row) == row.blocked /\ (row.attempts >= CwMaxAttempts \/ row.cooling)

\* should_skip_prior
CwSkips(row) ==
    row.verified \/ (row.blocked /\ (row.attempts >= CwMaxAttempts \/ row.cooling))

\* _emit_blocker: the row keeps its attempts.
CwBlock(key) ==
    /\ cwStep' = [cwStep EXCEPT ![key] =
          [@ EXCEPT !.verified = FALSE, !.blocked = TRUE, !.cooling = TRUE]]
    /\ cwReported' = cwReported \cup {key}

CwDecide ==
    LET d == CwDecision
        key == d[2]
        skip == d[1] = "skip" \/ CwSkips(cwStep[key])
    IN  /\ cwPass.at = "decide"
        /\ IF ~skip /\ d[1] = "blocker" THEN CwBlock(key) ELSE UNCHANGED <<cwStep, cwReported>>
        /\ cwPass' = IF skip \/ d[1] = "blocker" THEN CwIdle
                     ELSE [CwIdle EXCEPT !.at = "send", !.action = d[1], !.key = key]
        /\ UNCHANGED <<cwPane, cwAuto, cwTarget, cwSent, cwStops>>

\* Keystrokes act on the pane as it is now.  Enter sends whatever the line holds
\* and confirms an open dialog; a paste joins what is on the line.
CwTyped(p) ==
    {p} \cup (IF p.mode \in CwAsking THEN {[p EXCEPT !.mode = "busy"]}
              ELSE IF p.mode = "gone" \/ (cwPass.action = "submit" /\ p.line = "none") THEN {}
              ELSE {[p EXCEPT !.line = "none", !.mode = "busy"]}
                   \cup (IF cwPass.action = "deliver"
                         THEN {[p EXCEPT !.line = IF p.line = "none" THEN "safe" ELSE "unsafe"]}
                         ELSE {}))

CwKeystrokes ==
    /\ cwPane' \in CwTyped(cwPane)
    /\ cwSent' = IF cwPass.late THEN cwSent ELSE [cwSent EXCEPT ![cwPass.key] = @ + 1]
    /\ cwPass' = [cwPass EXCEPT !.at = "verify", !.typed = @ + 1]
    /\ UNCHANGED <<cwAuto, cwStep, cwTarget, cwReported, cwStops>>

\* deliver_and_verify: Enter on the line, or the step typed and sent.
CwSend == cwPass.at = "send" /\ CwKeystrokes

\* The polls ran out with the step's own text still on the line: Enter once more
\* and, if that leaves it, the text typed a second time in the same pass.
CwRetry ==
    /\ cwPass.at = "verify" /\ cwPass.typed = 1 /\ cwPane.line = cwPass.key
    /\ CwKeystrokes

\* Mutant: a failure is not reported.
CwRecordUnreported(key, ok, retried) ==
    /\ cwStep' = [cwStep EXCEPT ![key] =
          [attempts |-> cwStep[key].attempts + (IF retried THEN 2 ELSE 1), verified |-> ok,
           blocked |-> ~ok, cooling |-> ~ok]]
    /\ cwReported' = cwReported

\* verify and the row it leads to: executed by the evidence of the screen and the
\* transcript, or blocked and reported.  A retry counts as an attempt.
CwRecord(key, ok, retried) ==
    /\ cwStep' = [cwStep EXCEPT ![key] =
          [attempts |-> cwStep[key].attempts + (IF retried THEN 2 ELSE 1), verified |-> ok,
           blocked |-> ~ok, cooling |-> ~ok]]
    /\ cwReported' = IF ok THEN cwReported ELSE cwReported \cup {key}

CwConclude ==
    /\ cwPass.at = "verify"
    /\ \E ok \in BOOLEAN :
          /\ ok => cwPane.line = "none"
          /\ IF cwPass.late THEN UNCHANGED <<cwStep, cwReported>>
             ELSE CwRecord(cwPass.key, ok, cwPass.typed = 2)
    /\ cwPass' = CwIdle
    /\ UNCHANGED <<cwPane, cwAuto, cwTarget, cwSent, cwStops>>

\* The service stops, or a call of the pass raises, after the keystrokes and
\* before the row.
CwStop ==
    /\ cwPass.at = "verify" /\ cwStops < CwCrashes
    /\ cwStops' = cwStops + 1
    /\ cwPass' = CwIdle
    /\ UNCHANGED <<cwPane, cwAuto, cwStep, cwTarget, cwReported, cwSent>>

----------------------------------------------------------------------------
(* Time, the agent and the owner *)

CwDwell ==
    /\ cwTarget = "fresh" /\ cwTarget' = "confirmed"
    /\ UNCHANGED <<cwPane, cwAuto, cwStep, cwPass, cwReported, cwSent, cwStops>>

CwCooled(k) ==
    /\ cwStep[k].cooling /\ cwStep' = [cwStep EXCEPT ![k].cooling = FALSE]
    /\ UNCHANGED <<cwPane, cwAuto, cwTarget, cwPass, cwReported, cwSent, cwStops>>

CwPaneMoves ==
    /\ \/ cwPane.mode = "busy" /\ \E m \in {"rest", "approved", "dialog"} :
             cwPane' = [cwPane EXCEPT !.mode = m]
       \/ cwPane.mode \in CwAsking /\ cwPane' = [cwPane EXCEPT !.mode = "busy"]
       \/ /\ cwPane.mode # "gone"
          /\ \E line \in (CwLine \cup {"none"}) \ {cwPane.line} : cwPane' = [cwPane EXCEPT !.line = line]
       \/ cwPane.mode # "gone" /\ cwPane' = [cwPane EXCEPT !.mode = "gone"]
    /\ UNCHANGED <<cwAuto, cwStep, cwTarget, cwPass, cwReported, cwSent, cwStops>>

\* A new conversation in the pane: no step of it has a row yet.
CwNewConversation ==
    /\ cwPane' = CwNewPane
    /\ cwStep' = [k \in CwKey |-> CwNoRow] /\ cwSent' = [k \in CwKey |-> 0] /\ cwReported' = {}
    /\ cwPass' = [cwPass EXCEPT !.late = @ \/ cwPass.at \in {"send", "verify"}]
    /\ UNCHANGED <<cwAuto, cwTarget, cwStops>>

CwSweep == CwObserve \/ CwDecide \/ CwSend \/ CwRetry \/ CwConclude

CwNext == CwSweep \/ CwStop \/ CwDwell \/ CwPaneMoves \/ CwNewConversation \/ \E k \in CwKey : CwCooled(k)

\* The loop runs for ever and clocks advance.
CwFairness ==
    /\ WF_CwVars(CwSweep) /\ WF_CwVars(CwDwell)
    /\ \A k \in CwKey : WF_CwVars(CwCooled(k))
CwSpec == CwInit /\ [][CwNext]_CwVars
CwFairSpec == CwSpec /\ CwFairness

----------------------------------------------------------------------------
\* "up to a hard attempt cap": a step is typed at most MAX_STEP_ATTEMPTS times in a
\* conversation, once more because the pass that reaches the cap may type twice,
\* and twice more for each pass cut off before its row.
CwAttemptsCapped == \A k \in CwKey : cwSent[k] <= CwMaxAttempts + 1 + 2 * cwStops

\* A step recorded as executed in its conversation is not typed there again,
\* and never loses that record.
CwVerifiedStands ==
    [][CwNewConversation \/ \A k \in CwKey :
          cwStep[k].verified => cwSent'[k] = cwSent[k] /\ cwStep'[k] = cwStep[k]]_CwVars

\* A safe line left at rest in a conversation where that text was not submitted
\* before is submitted, or the owner is told: the agent does not sit silently.
CwLeftLine ==
    cwAuto.auto /\ cwPane = [line |-> "safe", mode |-> "rest"] /\ ~cwStep["safe"].verified
CwNoSilentLine == CwLeftLine ~> (~CwLeftLine \/ "safe" \in cwReported)
=============================================================================

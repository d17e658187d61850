---------------------------- MODULE DirectAgents ----------------------------
(***************************************************************************)
(* The lifecycle of an agent outside the orchestrator's plan               *)
(* (core/direct_agent_lifecycle.py): each sweep compares what it sees of a *)
(* pane with the row of the last sweep, keeps silent about a live agent,   *)
(* and tells a clean end from an interruption once the agent is gone.      *)
(*                                                                         *)
(* The inventory is taken before the sweep; the reports and the            *)
(* conversation are read during it.  The inventory of agent_list lists an  *)
(* agent only while its process lives, so a death is always seen as a      *)
(* target that has vanished.                                               *)
(***************************************************************************)
EXTENDS Integers

CONSTANTS
    LfConvs,    \* bound: conversations the agent may begin
    LfErrors    \* bound: event writes that fail

ASSUME LfAssumption == LfConvs \in Nat \ {0} /\ LfErrors \in Nat

VARIABLES
    lfAgent,    \* the agent: alive, its state, its conversation, the age of the newest report
    lfSeen,     \* the inventory of the sweep under way
    lfRow,      \* direct_agent_lifecycle, the row of the target
    lfEvents,   \* the events in commander_events, by kind and conversation
    lfErrors,   \* failed event writes so far
    lfKilled    \* the conversation in which the agent was killed at work, seen at work by
                \* the last sweep; 0 for none; history

LfVars == <<lfAgent, lfSeen, lfRow, lfEvents, lfErrors, lfKilled>>

LfStates == {"working", "idle", "waiting_input", "externally_blocked"}
LfActive == {"working"}
LfReports == {"none", "fresh", "old"}
LfKinds == {"completed", "interrupted"}
LfNoRow == [state |-> "none", alive |-> FALSE, conv |-> 0, done |-> FALSE]

LfTypeOK ==
    /\ lfAgent \in [alive : BOOLEAN, state : LfStates, conv : 1..LfConvs, report : LfReports]
    /\ lfSeen \in LfStates \cup {"none", "gone"}
    /\ \/ lfRow = LfNoRow
       \/ lfRow \in [state : LfStates, alive : BOOLEAN, conv : 1..LfConvs, done : BOOLEAN]
    /\ lfEvents \subseteq LfKinds \X (1..LfConvs)
    /\ lfErrors \in 0..LfErrors /\ lfKilled \in 0..LfConvs

LfInit ==
    /\ lfAgent \in [alive : {TRUE}, state : {"idle", "working"}, conv : {1}, report : {"none", "fresh"}]
    /\ lfSeen = "none"
    /\ lfRow = LfNoRow /\ lfEvents = {} /\ lfErrors = 0 /\ lfKilled = 0

----------------------------------------------------------------------------
(* The agent *)

LfAgentMoves(state) ==
    /\ lfAgent.alive /\ state # lfAgent.state
    /\ lfAgent' = [lfAgent EXCEPT !.state = state]
    /\ UNCHANGED <<lfSeen, lfRow, lfEvents, lfErrors, lfKilled>>
LfWritesReport ==
    /\ lfAgent.alive /\ lfAgent.state = "working" /\ lfAgent.report # "fresh"
    /\ lfAgent' = [lfAgent EXCEPT !.report = "fresh"]
    /\ UNCHANGED <<lfSeen, lfRow, lfEvents, lfErrors, lfKilled>>
LfReportAges ==
    /\ lfAgent.report = "fresh" /\ lfAgent' = [lfAgent EXCEPT !.report = "old"]
    /\ UNCHANGED <<lfSeen, lfRow, lfEvents, lfErrors, lfKilled>>
\* It exits, or is killed, in any state.
LfAgentEnds ==
    /\ lfAgent.alive /\ lfAgent' = [lfAgent EXCEPT !.alive = FALSE]
    /\ lfKilled' = IF /\ lfAgent.state \in LfActive /\ lfRow.alive /\ lfRow.state \in LfActive
                      /\ lfRow.conv = lfAgent.conv
                   THEN lfAgent.conv ELSE 0
    /\ UNCHANGED <<lfSeen, lfRow, lfEvents, lfErrors>>
\* A new agent at the same target, with a conversation of its own or the last one resumed.
LfAgentStarts(resumed) ==
    /\ ~lfAgent.alive /\ (resumed \/ lfAgent.conv < LfConvs)
    /\ lfAgent' = [lfAgent EXCEPT !.alive = TRUE, !.state = "idle",
                                  !.conv = IF resumed THEN @ ELSE @ + 1]
    /\ lfKilled' = 0
    /\ UNCHANGED <<lfSeen, lfRow, lfEvents, lfErrors>>

----------------------------------------------------------------------------
(* The sweep *)

LfLooks ==
    /\ lfSeen = "none"
    /\ lfSeen' = IF lfAgent.alive THEN lfAgent.state ELSE "gone"
    /\ UNCHANGED <<lfAgent, lfRow, lfEvents, lfErrors, lfKilled>>

\* decide, for a live agent: nothing is said; a recognised end is remembered until the
\* conversation changes.  marked: the tail still shows the marker of a running turn.
LfRecordsLive(marked) ==
    LET changed == lfRow.conv # 0 /\ lfRow.conv # lfAgent.conv
        ended == lfSeen = "idle" /\ ~marked /\ lfAgent.report = "fresh"
    IN  /\ lfSeen \in LfStates
        /\ lfRow' = [state |-> lfSeen, alive |-> TRUE, conv |-> lfAgent.conv,
                     done |-> ended \/ (lfRow.done /\ ~changed)]
        /\ lfSeen' = "none"
        /\ lfKilled' = IF lfSeen \in LfActive THEN lfKilled ELSE 0
        /\ UNCHANGED <<lfAgent, lfEvents, lfErrors>>

\* Mutant: a fresh report is an end in any state.
LfVerdictByReport ==
    CASE lfRow.done -> "ignored"
      [] ~lfRow.done /\ lfAgent.report = "fresh" -> "completed"
      [] OTHER -> "interrupted"

\* decide, for a target on record as alive that has vanished.
LfVerdict ==
    CASE lfRow.done -> "ignored"
      [] ~lfRow.done /\ lfAgent.report = "fresh" /\ lfRow.state \notin LfActive -> "completed"
      [] OTHER -> "interrupted"

\* _emit_outcome and _persist: the row is saved whether or not the event was.
LfRecordsGone(fails) ==
    LET told == LfVerdict \in LfKinds /\ ~fails
    IN  /\ lfSeen = "gone"
        /\ IF lfRow.alive
           THEN /\ fails => LfVerdict \in LfKinds /\ lfErrors < LfErrors
                /\ lfErrors' = IF fails THEN lfErrors + 1 ELSE lfErrors
                /\ lfEvents' = IF told THEN lfEvents \cup {<<LfVerdict, lfRow.conv>>} ELSE lfEvents
                /\ lfRow' = [lfRow EXCEPT !.alive = FALSE, !.done = @ \/ LfVerdict = "completed"]
           ELSE ~fails /\ UNCHANGED <<lfErrors, lfEvents, lfRow>>
        /\ lfSeen' = "none"
        /\ UNCHANGED <<lfAgent, lfKilled>>

\* Rows of the dead are pruned after a week.
LfPrunes ==
    /\ lfRow # LfNoRow /\ ~lfRow.alive /\ ~lfAgent.alive /\ lfSeen = "none"
    /\ lfRow' = LfNoRow
    /\ UNCHANGED <<lfAgent, lfSeen, lfEvents, lfErrors, lfKilled>>

LfNext ==
    \/ \E state \in LfStates : LfAgentMoves(state)
    \/ LfWritesReport \/ LfReportAges \/ LfAgentEnds
    \/ \E b \in BOOLEAN : LfAgentStarts(b) \/ LfRecordsLive(b) \/ LfRecordsGone(b)
    \/ LfLooks \/ LfPrunes
LfSpec == LfInit /\ [][LfNext]_LfVars

----------------------------------------------------------------------------
\* An agent killed at work, and seen at work by the sweep before, is never announced
\* as completed, however fresh the report it had written.
LfNoFalseCompletion ==
    [][\A c \in 1..LfConvs : <<"completed", c>> \in lfEvents' \ lfEvents => lfKilled # c]_LfVars

\* "A pane that died with in-flight work -> an INTERRUPTION (SIGKILL included)": once
\* the sweep has recorded the death of an agent killed at work there is an interruption,
\* unless its event could not be written.
LfKilledIsReported ==
    lfKilled # 0 /\ ~lfRow.alive /\ lfRow.conv = lfKilled /\ lfErrors = 0 =>
        <<"interrupted", lfKilled>> \in lfEvents
=============================================================================

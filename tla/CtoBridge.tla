----------------------------- MODULE CtoBridge -----------------------------
(***************************************************************************)
(* The native controller and the CTO bridge (core/native_owner_os.py,      *)
(* core/cto_bridge.py): the consumer of the event log that reads behind a  *)
(* durable cursor, latches every event that needs reasoning, asks the      *)
(* provider, and leaves its advice in an outbox or turns to the owner.     *)
(*                                                                         *)
(* One loop runs the ticks.  It may stop after any commit, and its         *)
(* restart may bring a provider; any process appends events.  The sending  *)
(* of a message is agent_send, which lands a key once (AgentControl).      *)
(***************************************************************************)
EXTENDS Integers, Sequences, FiniteSets

CONSTANTS
    CtCasts,        \* instances: [events: sequence of [kind, agent], provider: one is
                    \* configured from the start, faults: bound on stops and failures]
    CtMaxAttempts   \* MAX_ATTEMPTS

CtKinds == {"reason", "owner", "other"}     \* REASONING_EVENTS, owner_action_required, the rest
CtAgents == {"agent", "denied", "none"}

ASSUME CtAssumption ==
    /\ CtMaxAttempts \in Nat \ {0}
    /\ \A c \in CtCasts : /\ c.events \in Seq([kind : CtKinds, agent : CtAgents])
                          /\ c.provider \in BOOLEAN /\ c.faults \in Nat

VARIABLES
    ctCast,         \* one of CtCasts
    ctLog,          \* the event log: events of the cast, 0 for those the bridge emits
    ctFirst,        \* where the consumer began, -1 before its first tick
    ctCursor,       \* cto_cursor of native_owner_os
    ctRow,          \* cto_decision: [status, tries, owner, emitted]
    ctAnswers,      \* how many answers of the provider were recorded for an event
    ctRaised,       \* events whose handling raised something the bridge does not expect
    ctOutbox,       \* native_outbox
    ctSaid,         \* the advice that reached its agent
    ctProvider,     \* a provider is configured
    ctStep,         \* the tick: where it is, with which event and answer
    ctCount         \* events appended, faults so far

CtStore == <<ctFirst, ctCursor, ctRow, ctAnswers, ctRaised, ctOutbox>>
CtVars == <<ctCast, ctLog, CtStore, ctSaid, ctProvider, ctStep, ctCount>>

CtEvents == DOMAIN ctCast.events
CtIdle == [at |-> "idle", event |-> 0, retry |-> FALSE, owner |-> FALSE, advice |-> FALSE]
CtStatus == {"none", "latched", "waiting_provider", "provider_error", "provider_failed",
             "decided", "handler_error"}

CtTypeOK ==
    /\ ctCast \in CtCasts /\ ctLog \in Seq({0} \cup CtEvents)
    /\ ctFirst \in -1..Len(ctLog) /\ ctCursor \in -1..Len(ctLog)
    /\ ctRow \in [CtEvents -> [status : CtStatus, tries : 0..CtMaxAttempts, owner : BOOLEAN,
                               emitted : BOOLEAN]]
    /\ ctAnswers \in [CtEvents -> Nat] /\ ctRaised \subseteq CtEvents
    /\ ctOutbox \in [CtEvents -> {"none", "pending", "sent"}] /\ ctSaid \subseteq CtEvents
    /\ ctProvider \in BOOLEAN
    /\ ctStep \in [at : {"idle", "decide", "queue", "escalate", "ack"}, event : {0} \cup CtEvents,
                   retry : BOOLEAN, owner : BOOLEAN, advice : BOOLEAN]
    /\ ctCount \in [events : 0..Len(ctCast.events), faults : 0..ctCast.faults]

CtInit ==
    /\ ctCast \in CtCasts /\ ctLog = <<>> /\ ctFirst = -1 /\ ctCursor = -1
    /\ ctRow = [e \in CtEvents |-> [status |-> "none", tries |-> 0, owner |-> FALSE, emitted |-> FALSE]]
    /\ ctAnswers = [e \in CtEvents |-> 0] /\ ctRaised = {}
    /\ ctOutbox = [e \in CtEvents |-> "none"] /\ ctSaid = {}
    /\ ctProvider = ctCast.provider /\ ctStep = CtIdle
    /\ ctCount = [events |-> 0, faults |-> 0]

CtFault == ctCount.faults < ctCast.faults /\ ctCount' = [ctCount EXCEPT !.faults = @ + 1]

(* The cast emits its events in order *)
CtEmits ==
    /\ ctCount.events < Len(ctCast.events)
    /\ ctCount' = [ctCount EXCEPT !.events = @ + 1]
    /\ ctLog' = Append(ctLog, ctCount'.events)
    /\ UNCHANGED <<ctCast, CtStore, ctSaid, ctProvider, ctStep>>

(* _init_cursor: history is never replayed *)
CtStarts ==
    /\ ctStep.at = "idle" /\ ctCursor = -1
    /\ ctFirst' = Len(ctLog) /\ ctCursor' = Len(ctLog)
    /\ UNCHANGED <<ctCast, ctLog, ctRow, ctAnswers, ctRaised, ctOutbox, ctSaid, ctProvider, ctStep, ctCount>>

(* map_event; the bridge's own events are not fed back *)
CtNeeds(e) == e # 0 /\ ctCast.events[e].kind \in {"reason", "owner"}

(* run_once reads behind the cursor.  handle_event latches a new event; a  *)
(* latched one was handled before.                                         *)
CtTakes ==
    /\ ctStep.at = "idle" /\ ctCursor \in 0..(Len(ctLog) - 1)
    /\ LET e == ctLog[ctCursor + 1]
           fresh == CtNeeds(e) /\ ctRow[e].status = "none" IN
       /\ ctStep' = [CtIdle EXCEPT !.at = IF fresh THEN "decide" ELSE "ack", !.event = e]
       /\ ctRow' = IF fresh THEN [ctRow EXCEPT ![e].status = "latched"] ELSE ctRow
    /\ UNCHANGED <<ctCast, ctLog, ctFirst, ctCursor, ctAnswers, ctRaised, ctOutbox, ctSaid, ctProvider, ctCount>>

\* Mutant: a row given up is tried again.
CtRetriesFailed(e) ==
    /\ ctStep.at = "idle" /\ ctCursor # -1 /\ ctProvider
    /\ ctRow[e].status \in {"waiting_provider", "provider_error", "provider_failed"}
    /\ ctStep' = [CtIdle EXCEPT !.at = "decide", !.event = e, !.retry = TRUE]
    /\ UNCHANGED <<ctCast, ctLog, CtStore, ctSaid, ctProvider, ctCount>>

(* retry_waiting: only with a provider, and never a row whose outcome is   *)
(* unknown                                                                 *)
CtRetries(e) ==
    /\ ctStep.at = "idle" /\ ctCursor # -1 /\ ctProvider
    /\ ctRow[e].status \in {"waiting_provider", "provider_error"}
    /\ ctStep' = [CtIdle EXCEPT !.at = "decide", !.event = e, !.retry = TRUE]
    /\ UNCHANGED <<ctCast, ctLog, CtStore, ctSaid, ctProvider, ctCount>>

CtReturns == ctStep' = IF ctStep.retry THEN CtIdle ELSE [CtIdle EXCEPT !.at = "ack", !.event = ctStep.event]

(* _decide_row without an answer *)
CtUndecided ==
    LET e == ctStep.event
        owner == ctCast.events[e].kind = "owner" IN
    /\ ctStep.at = "decide"
    /\ IF ctProvider
       THEN /\ CtFault
            /\ ctRow' = [ctRow EXCEPT ![e] =
                 [@ EXCEPT !.tries = ctRow[e].tries + 1, !.owner = owner,
                           !.status = IF ctRow[e].tries + 1 >= CtMaxAttempts THEN "provider_failed"
                                      ELSE "provider_error"]]
       ELSE /\ UNCHANGED ctCount
            /\ ctRow' = [ctRow EXCEPT ![e] = [@ EXCEPT !.status = "waiting_provider", !.owner = owner]]
    /\ CtReturns
    /\ UNCHANGED <<ctCast, ctLog, ctFirst, ctCursor, ctAnswers, ctRaised, ctOutbox, ctSaid, ctProvider>>

(* An answer.  record_decision commits it, before the outbox is written.   *)
CtDecides(owner, advice) ==
    LET e == ctStep.event IN
    /\ ctStep.at = "decide" /\ ctProvider
    /\ ctRow' = [ctRow EXCEPT ![e] =
         [@ EXCEPT !.status = "decided", !.tries = ctRow[e].tries + 1,
                   !.owner = owner \/ ctCast.events[e].kind = "owner"]]
    /\ ctAnswers' = [ctAnswers EXCEPT ![e] = @ + 1]
    /\ ctStep' = [ctStep EXCEPT !.at = "queue", !.owner = owner, !.advice = advice]
    /\ UNCHANGED <<ctCast, ctLog, ctFirst, ctCursor, ctRaised, ctOutbox, ctSaid, ctProvider, ctCount>>

(* Anything else that is raised, on to the next event.  Before the latch   *)
(* the failure gets a record of its own, unless the event has one; after   *)
(* it the latched row stays as it is.  A retry is given up for this tick.  *)
CtStumbles ==
    /\ ctStep.at = "idle" /\ ctCursor \in 0..(Len(ctLog) - 1) /\ CtFault
    /\ LET e == ctLog[ctCursor + 1] IN
       /\ CtNeeds(e)
       /\ ctRow' = IF ctRow[e].status = "none" THEN [ctRow EXCEPT ![e].status = "handler_error"] ELSE ctRow
       /\ ctRaised' = ctRaised \cup {e}
       /\ ctStep' = [CtIdle EXCEPT !.at = "ack", !.event = e]
    /\ UNCHANGED <<ctCast, ctLog, ctFirst, ctCursor, ctAnswers, ctOutbox, ctSaid, ctProvider>>
CtRaises ==
    /\ ctStep.at = "decide" /\ ctProvider /\ CtFault
    /\ ctRaised' = IF ctStep.retry THEN ctRaised ELSE ctRaised \cup {ctStep.event}
    /\ CtReturns
    /\ UNCHANGED <<ctCast, ctLog, ctFirst, ctCursor, ctRow, ctAnswers, ctOutbox, ctSaid, ctProvider>>

\* Mutant: advice that awaits the owner is sent.
CtForwardsAll(e) == ctStep.advice /\ ctCast.events[e].agent = "agent"

(* The outbox: never advice that awaits the owner, never a denied agent.   *)
(* An escalation is marked as emitted first.                               *)
CtForwards(e) == ctStep.advice /\ ctCast.events[e].agent = "agent" /\ ~ctRow[e].owner
CtEscalated(e) == ctStep.owner /\ ctCast.events[e].kind # "owner" /\ ~ctRow[e].emitted

CtQueues ==
    LET e == ctStep.event IN
    /\ ctStep.at = "queue"
    /\ ctOutbox' = IF CtForwards(e) /\ ctOutbox[e] = "none" THEN [ctOutbox EXCEPT ![e] = "pending"]
                   ELSE ctOutbox
    /\ IF CtEscalated(e)
       THEN /\ ctRow' = [ctRow EXCEPT ![e].emitted = TRUE]
            /\ ctStep' = [ctStep EXCEPT !.at = "escalate"]
       ELSE UNCHANGED ctRow /\ CtReturns
    /\ UNCHANGED <<ctCast, ctLog, ctFirst, ctCursor, ctAnswers, ctRaised, ctSaid, ctProvider, ctCount>>

(* _emit_owner: an event like any other *)
CtEscalates ==
    /\ ctStep.at = "escalate" /\ CtReturns
    /\ ctLog' = Append(ctLog, 0)
    /\ UNCHANGED <<ctCast, CtStore, ctSaid, ctProvider, ctCount>>

(* ack_through *)
CtAcks ==
    /\ ctStep.at = "ack" /\ ctStep' = CtIdle
    /\ ctCursor' = ctCursor + 1
    /\ UNCHANGED <<ctCast, ctLog, ctFirst, ctRow, ctAnswers, ctRaised, ctOutbox, ctSaid, ctProvider, ctCount>>

(* deliver_pending_agent_control, or the controller session: marked sent   *)
(* only when the delivery is proven                                        *)
CtDelivers(e, lands, proven) ==
    /\ ctStep.at = "idle" /\ ctCursor # -1 /\ ctOutbox[e] = "pending"
    /\ proven => lands
    /\ ctSaid' = IF lands THEN ctSaid \cup {e} ELSE ctSaid
    /\ ctOutbox' = IF proven THEN [ctOutbox EXCEPT ![e] = "sent"] ELSE ctOutbox
    /\ UNCHANGED <<ctCast, ctLog, ctFirst, ctCursor, ctRow, ctAnswers, ctRaised, ctProvider, ctStep, ctCount>>

(* A stop, and the next start *)
CtStops ==
    /\ CtFault /\ ctStep' = CtIdle
    /\ ctProvider' \in {ctProvider, TRUE}
    /\ UNCHANGED <<ctCast, ctLog, CtStore, ctSaid>>

CtNext ==
    \/ CtEmits \/ CtStarts \/ CtTakes \/ CtStumbles \/ CtUndecided \/ CtRaises \/ CtQueues \/ CtEscalates
    \/ CtAcks \/ CtStops
    \/ \E o, a \in BOOLEAN : CtDecides(o, a)
    \/ \E e \in CtEvents : CtRetries(e) \/ \E l, p \in BOOLEAN : CtDelivers(e, l, p)

CtSpec == CtInit /\ [][CtNext]_CtVars

--------------------------------------------------------------------------
(* However often the loop stops and reads again: no event that needs       *)
(* reasoning is passed by the cursor without a record, none is decided     *)
(* twice, and an agent is told nothing that was not decided for it or that *)
(* still awaits the owner.                                                 *)
CtInv ==
    /\ \A p \in (ctFirst + 1)..ctCursor : p > 0 /\ CtNeeds(ctLog[p]) => ctRow[ctLog[p]].status # "none"
    /\ \A e \in CtEvents : /\ ctAnswers[e] <= 1
                           /\ ctAnswers[e] = 1 <=> ctRow[e].status = "decided"
    /\ \A e \in ctSaid \cup {e \in CtEvents : ctOutbox[e] # "none"} :
          ctRow[e].status = "decided" /\ ~ctRow[e].owner /\ ctCast.events[e].agent = "agent"

(* "A poison event must not wedge the bus: durably record the failure      *)
(* (that IS its handling) and move on": an event whose handling raised and *)
(* that the cursor passed has its failure on record.                       *)
CtFailureIsRecorded ==
    \A p \in (ctFirst + 1)..ctCursor :
       p > 0 /\ ctLog[p] \in ctRaised => ctRow[ctLog[p]].status # "latched"
=============================================================================

------------------------------- MODULE Outbox -------------------------------
(***************************************************************************)
(* The delivery outbox of the control plane: any process emits events and  *)
(* queues their notices (core/control_plane/cto.py, api.py); the engine's  *)
(* tick refreshes the channels, drains the outbox and publishes what the   *)
(* shadow pinger sees of one agent (engine.py, delivery.py, notifier.py,   *)
(* event_pipeline.py, pinger_shadow.py).                                   *)
(*                                                                         *)
(* Ticks follow each other in one process, which may stop anywhere; its    *)
(* successor has a new runtime epoch.  Whether a send is answered with a   *)
(* receipt is the network's choice.                                        *)
(***************************************************************************)
EXTENDS Integers, Sequences, FiniteSets

CONSTANTS
    OxCasts,        \* instances: [keys: the alerts others emit, states: what the agent does,
                    \* channels: the configured ones, moves, stops: bounds]
    OxMaxAttempts   \* MAX_ATTEMPTS

OxTiers == <<"same_chat_wake", "owner_push">>       \* in the order they are tried
OxChannels == {OxTiers[i] : i \in DOMAIN OxTiers}
OxAgentStates == {"working", "completed", "waiting_owner", "waiting_input", "dead"}

ASSUME OxAssumption ==
    /\ OxMaxAttempts \in Nat \ {0}
    /\ \A c \in OxCasts : /\ c.states \subseteq OxAgentStates /\ "working" \in c.states
                          /\ c.channels \subseteq OxChannels
                          /\ c.moves \in Nat /\ c.stops \in Nat

VARIABLES
    oxCast,         \* one of OxCasts
    oxEvents,       \* the keys of the events in the log, each with a notice or 0
    oxNote,         \* notification: [key, state, attempts]
    oxChannel,      \* channel -> [state, mine]: proof_epoch is this runtime's
    oxReceipts,     \* notices some channel answered with a receipt
    oxProof,        \* channel -> how its last send in this runtime ended
    oxAgent,        \* the state agent_list reports for the agent
    oxPinged,       \* pinger_shadow_state: the last kind published
    oxTick,         \* the engine: where it is, and the notices it still has to try
    oxCount         \* moves and stops so far

OxBox == <<oxEvents, oxNote>>
OxSent == <<oxChannel, oxReceipts, oxProof>>
OxVars == <<oxCast, OxBox, OxSent, oxAgent, oxPinged, oxTick, oxCount>>

OxKinds == {"completed", "waiting_owner", "dead"}
OxKeys == oxCast.keys \cup OxKinds
OxIds == DOMAIN oxNote
OxKey(key) == <<key, 0>>
OxDeadKey(n) == <<"dead_letter", n>>
OxHealth == {"unverified", "healthy", "unhealthy"}       \* CHANNEL_STATES

OxTypeOK ==
    /\ oxCast \in OxCasts
    /\ oxEvents \subseteq ((OxKeys \cup {"red"}) \X {0}) \cup {OxDeadKey(n) : n \in OxIds}
    /\ oxNote \in Seq([key : OxKeys, state : {"pending", "sent", "failed", "dead_letter"}, attempts : Nat])
    /\ oxChannel \in [OxChannels -> [state : OxHealth, mine : BOOLEAN]]
    /\ oxReceipts \subseteq OxIds
    /\ oxProof \in [OxChannels -> {"none", "receipt", "refused"}]
    /\ oxAgent \in oxCast.states /\ oxPinged \in OxKinds \cup {"none"}
    /\ oxTick \in [at : {"rest", "drain", "bury", "ping", "deliver"}, todo : SUBSET OxIds, tries : 0..2]
    /\ oxCount \in [moves : 0..oxCast.moves, stops : 0..oxCast.stops]

OxInit ==
    /\ oxCast \in OxCasts
    /\ oxEvents = {} /\ oxNote = <<>>
    /\ oxChannel = [c \in OxChannels |-> [state |-> "unverified", mine |-> FALSE]]
    /\ oxReceipts = {} /\ oxProof = [c \in OxChannels |-> "none"]
    /\ oxAgent = "working" /\ oxPinged = "none"
    /\ oxTick = [at |-> "rest", todo |-> {}, tries |-> 0]
    /\ oxCount = [moves |-> 0, stops |-> 0]

OxMoves == oxCount.moves < oxCast.moves /\ oxCount' = [oxCount EXCEPT !.moves = @ + 1]

(* append_event: within its window or not, the key is in the log after it, *)
(* and the notice is queued in both cases                                  *)
OxAppends(key) == oxEvents' = oxEvents \cup {key}

(* enqueue_notification: a pending or sent notice of the key is kept; a    *)
(* failed one is not looked at                                             *)
OxKept(key) == {n \in OxIds : oxNote[n].key = key /\ oxNote[n].state \in {"pending", "sent"}}
OxEnqueued(key) ==
    IF OxKept(key) # {} THEN oxNote
    ELSE Append(oxNote, [key |-> key, state |-> "pending", attempts |-> 0])
OxNoticeOf(key) ==
    IF OxKept(key) = {} THEN Len(oxNote) + 1 ELSE CHOOSE n \in OxKept(key) : \A m \in OxKept(key) : m <= n

(* cto.emit of an urgent event, by any process: the event is appended in   *)
(* one commit and its notice queued in the next, unless that process stops *)
(* between them                                                            *)
OxEmits(key, noted) ==
    /\ OxMoves /\ OxAppends(OxKey(key)) /\ oxNote' = IF noted THEN OxEnqueued(key) ELSE oxNote
    /\ UNCHANGED <<oxCast, OxSent, oxAgent, oxPinged, oxTick>>

OxAgentMoves ==
    /\ OxMoves /\ oxAgent' \in oxCast.states \ {oxAgent}
    /\ UNCHANGED <<oxCast, OxBox, OxSent, oxPinged, oxTick>>

--------------------------------------------------------------------------
(* The tick                                                                *)

\* Mutant: a refusal is no proof.
OxProvenHealthy(c) == oxChannel[c].mine /\ oxChannel[c].state = "healthy"

(* refresh_channel_health: owner_push keeps what this runtime proved, the  *)
(* same-chat trigger is presumed to work while it is configured.           *)
OxProven(c) == oxChannel[c].mine /\ oxChannel[c].state \in {"healthy", "unhealthy"}
OxDerived(c) ==
    IF c \notin oxCast.channels THEN [state |-> "unhealthy", mine |-> TRUE]
    ELSE IF c = "same_chat_wake" THEN [state |-> "healthy", mine |-> TRUE]
    ELSE IF OxProven(c) THEN oxChannel[c]
    ELSE [state |-> "unverified", mine |-> FALSE]

(* notifications_status; the drain then reads what is pending or failed    *)
OxRed == \A c \in OxChannels : c \in oxCast.channels => oxChannel'[c].state # "healthy"
OxRefreshes ==
    /\ oxTick.at = "rest"
    /\ oxChannel' = [c \in OxChannels |-> OxDerived(c)]
    /\ IF OxRed THEN OxAppends(OxKey("red")) ELSE UNCHANGED oxEvents
    /\ oxTick' = [oxTick EXCEPT !.at = "drain",
                    !.todo = {n \in OxIds : oxNote[n].state \in {"pending", "failed"}}]
    /\ UNCHANGED <<oxCast, oxNote, oxReceipts, oxProof, oxAgent, oxPinged, oxCount>>

(* deliver: the tiers in order, until one gives a receipt.  A refusal by a *)
(* configured channel disproves it.                                        *)
OxBefore(c) == IF c = "owner_push" THEN {"same_chat_wake"} ELSE {}
OxOutcomes == oxCast.channels \cup {"none"}
OxRefused(o) == IF o = "none" THEN oxCast.channels ELSE OxBefore(o) \cap oxCast.channels
OxMark(n, o) ==
    oxNote' = [oxNote EXCEPT ![n] =
        IF o = "none" THEN [@ EXCEPT !.state = "failed", !.attempts = oxNote[n].attempts + 1]
        ELSE [@ EXCEPT !.state = "sent"]]
OxDelivers(n, o) ==
    /\ OxMark(n, o)
    /\ oxReceipts' = IF o = "none" THEN oxReceipts ELSE oxReceipts \cup {n}
    /\ oxChannel' = [c \in OxChannels |->
         CASE c = o -> [state |-> "healthy", mine |-> TRUE]
           [] c \in OxRefused(o) -> [state |-> "unhealthy", mine |-> TRUE]
           [] OTHER -> oxChannel[c]]
    /\ oxProof' = [c \in OxChannels |->
         IF c = o THEN "receipt" ELSE IF c \in OxRefused(o) THEN "refused" ELSE oxProof[c]]

(* drain: the next notice, in the order of their ids *)
OxNext1 == CHOOSE n \in oxTick.todo : \A m \in oxTick.todo : n <= m
OxDone1 == oxTick' = [oxTick EXCEPT !.todo = @ \ {OxNext1}]
OxDrains(o) ==
    /\ oxTick.at = "drain" /\ oxTick.todo # {} /\ oxNote[OxNext1].attempts < OxMaxAttempts
    /\ OxDelivers(OxNext1, o) /\ OxDone1
    /\ UNCHANGED <<oxCast, oxEvents, oxAgent, oxPinged, oxCount>>

(* A notice that failed too often is given up in one commit, and its alert *)
(* goes to the inbox in another one                                        *)
OxBuries ==
    /\ oxTick.at = "drain" /\ oxTick.todo # {} /\ oxNote[OxNext1].attempts >= OxMaxAttempts
    /\ oxNote' = [oxNote EXCEPT ![OxNext1].state = "dead_letter"]
    /\ oxTick' = [oxTick EXCEPT !.at = "bury"]
    /\ UNCHANGED <<oxCast, oxEvents, OxSent, oxAgent, oxPinged, oxCount>>

OxAlerts ==
    /\ oxTick.at = "bury" /\ OxAppends(OxDeadKey(OxNext1))
    /\ oxTick' = [oxTick EXCEPT !.at = "drain", !.todo = @ \ {OxNext1}]
    /\ UNCHANGED <<oxCast, oxNote, OxSent, oxAgent, oxPinged, oxCount>>

OxDrained ==
    /\ oxTick.at = "drain" /\ oxTick.todo = {} /\ oxTick' = [oxTick EXCEPT !.at = "ping"]
    /\ UNCHANGED <<oxCast, OxBox, OxSent, oxAgent, oxPinged, oxCount>>

(* shadow_tick: a significant state whose kind is not the last one         *)
(* published                                                               *)
OxKindOf == CASE oxAgent \in {"waiting_owner", "waiting_input"} -> "waiting_owner"
              [] oxAgent \in {"completed", "dead"} -> oxAgent
              [] OTHER -> "none"
OxPings ==
    /\ oxTick.at = "ping" /\ OxKindOf \notin {"none", oxPinged}
    /\ OxAppends(OxKey(OxKindOf))
    /\ oxNote' = OxEnqueued(OxKindOf)
    /\ oxTick' = [at |-> "deliver", todo |-> {OxNoticeOf(OxKindOf)}, tries |-> 2]
    /\ UNCHANGED <<oxCast, OxSent, oxAgent, oxPinged, oxCount>>

OxNoNews ==
    /\ oxTick.at = "ping" /\ OxKindOf \in {"none", oxPinged}
    /\ oxTick' = [oxTick EXCEPT !.at = "rest"]
    /\ UNCHANGED <<oxCast, OxBox, OxSent, oxAgent, oxPinged, oxCount>>

(* publish_significant_event: the notice is tried at once, and once again; *)
(* then the kind is recorded                                               *)
OxPublishes(o) ==
    LET n == OxNext1
        over == o # "none" \/ oxTick.tries = 1 IN
    /\ oxTick.at = "deliver" /\ OxDelivers(n, o)
    /\ oxPinged' = IF over THEN oxNote[n].key ELSE oxPinged
    /\ oxTick' = IF over THEN [at |-> "rest", todo |-> {}, tries |-> 0] ELSE [oxTick EXCEPT !.tries = 1]
    /\ UNCHANGED <<oxCast, oxEvents, oxAgent, oxCount>>

(* The process stops, a notice possibly on its way or given up without its *)
(* alert, and the next one has proven nothing                              *)
OxStops(lands) ==
    /\ oxCount.stops < oxCast.stops /\ oxCount' = [oxCount EXCEPT !.stops = @ + 1]
    /\ lands => oxTick.todo # {} /\ oxTick.at # "bury" /\ oxCast.channels # {}
    /\ oxReceipts' = IF lands THEN oxReceipts \cup {OxNext1} ELSE oxReceipts
    /\ oxChannel' = [c \in OxChannels |-> [oxChannel[c] EXCEPT !.mine = FALSE]]
    /\ oxProof' = [c \in OxChannels |-> "none"]
    /\ oxTick' = [at |-> "rest", todo |-> {}, tries |-> 0]
    /\ UNCHANGED <<oxCast, OxBox, oxAgent, oxPinged>>

OxTickStep ==
    \/ OxRefreshes \/ OxBuries \/ OxAlerts \/ OxDrained \/ OxPings \/ OxNoNews
    \/ \E o \in OxOutcomes : OxDrains(o) \/ OxPublishes(o)

OxNext ==
    \/ OxTickStep \/ OxAgentMoves
    \/ \E key \in oxCast.keys, noted \in BOOLEAN : OxEmits(key, noted)
    \/ \E lands \in BOOLEAN : OxStops(lands)

OxSpec == OxInit /\ [][OxNext]_OxVars
(* The engine's loop goes on, and comes back after a stop *)
OxFairness == WF_OxVars(OxTickStep)
OxFairSpec == OxSpec /\ OxFairness

--------------------------------------------------------------------------
(* "A real receipt, never a fabricated success": a notice is marked sent   *)
(* only when a channel answered it, and is given up only after             *)
(* OxMaxAttempts failures.  The inbox is told of a notice that was given   *)
(* up, of each but the one whose alert is still to be written and of one   *)
(* for each time the process stopped: a given-up notice is not looked at   *)
(* again, so that alert never comes.  The owner's push channel counts as   *)
(* healthy in this runtime only while its last send in this runtime was    *)
(* answered: neither a restart nor a refresh makes it green, and a refresh *)
(* never forgets a refusal.                                                *)
OxUntold == {n \in OxIds : oxNote[n].state = "dead_letter" /\ OxDeadKey(n) \notin oxEvents}
OxDying == IF oxTick.at = "bury" THEN 1 ELSE 0
OxInv ==
    /\ \A n \in OxIds : oxNote[n].state = "sent" => n \in oxReceipts
    /\ \A n \in OxIds : oxNote[n].state = "dead_letter" =>
          oxNote[n].attempts >= OxMaxAttempts
    /\ Cardinality(OxUntold) <= oxCount.stops + OxDying
    /\ LET c == oxChannel["owner_push"] IN
       /\ c.mine /\ c.state = "healthy" => oxProof["owner_push"] = "receipt"
       /\ oxProof["owner_push"] = "refused" => c.state = "unhealthy"

(* "Bounded retry": every queued notice is answered by a channel or given  *)
(* up.                                                                     *)
OxSettles ==
    \A n \in 1..3 : (n \in OxIds /\ oxNote[n].state \in {"pending", "failed"})
                      ~> (n \in OxIds /\ oxNote[n].state \in {"sent", "dead_letter"})

(* "Notification outbox (durable, deduped, with delivery state)": one      *)
(* alert has at most one notice that still has to be delivered.            *)
OxDeduped ==
    \A n, m \in OxIds : /\ oxNote[n].state \in {"pending", "failed"}
                        /\ oxNote[m].state \in {"pending", "failed"}
                        /\ oxNote[n].key = oxNote[m].key => n = m
--------------------------------------------------------------------------
(* The mailbox of Mailbox: a notice without its key, an alert by its notice *)

OxBoxOf == [n \in OxIds |-> [state |-> oxNote[n].state, attempts |-> oxNote[n].attempts]]
OxTold == {n \in OxIds : OxDeadKey(n) \in oxEvents}

OxMail == INSTANCE Mailbox
              WITH MaxAttempts <- OxMaxAttempts, box <- OxBoxOf, received <- oxReceipts, alerts <- OxTold

(* Whatever is emitted meanwhile and wherever the process stops, a tick    *)
(* does to the notices what a mailbox does: in particular a dead letter is *)
(* final, neither the drain nor the pinger tries it again.                 *)
ImplementsMailbox == OxMail!Spec
=============================================================================

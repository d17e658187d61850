----------------------------- MODULE WakeBridge -----------------------------
(***************************************************************************)
(* The wake bridge: which event rings which chat, and when                 *)
(* (core/wake_bridge.py, core/wake_routes.py, core/chat_registry.py), with *)
(* the companion that delivers a wake through the browser                  *)
(* (tools/wake_companion.py, tools/cdp_composer.py).                       *)
(*                                                                         *)
(* Any process emits events, and the decision to wake is recorded with the *)
(* event.  The companion is one process that polls: it retires, decides    *)
(* again, folds and selects, then claims a slot, sends and acknowledges,   *)
(* and it may stop between any two of these.  Chats are bound, unbound and *)
(* found by others meanwhile.                                              *)
(*                                                                         *)
(* The floors and the age of an event are clocks: here a floor lapses, a   *)
(* bench ends and an event grows old at any time.                          *)
(***************************************************************************)
EXTENDS Integers, Sequences, SequencesExt, FiniteSets

CONSTANTS
    WkRoutes,       \* the route keys
    WkOwner,        \* FALLBACK_ROUTE, owner-os
    WkChats,        \* conversations
    WkTitle,        \* [WkChats -> WkRoutes \cup {WkNone}]: the one project a title names
    WkNone,
    WkCasts         \* instances: [events: sequence of [act, route, agent], start: the routes
                    \* at the start, moves: bound on their changes, faults: bound on errors
                    \* between the click and the latch and on stops, others: the events
                    \* another program may retire]

ASSUME WkAssumption ==
    /\ WkOwner \in WkRoutes /\ WkNone \notin WkRoutes \cup WkChats
    /\ WkTitle \in [WkChats -> WkRoutes \cup {WkNone}]
    /\ \A c \in WkCasts : /\ Len(c.events) \in Nat /\ DOMAIN c.events = 1..Len(c.events)
                          /\ \A e \in DOMAIN c.events : /\ c.events[e].act \in BOOLEAN
                                                        /\ c.events[e].route \in WkRoutes
                          /\ c.start \in [WkRoutes -> WkChats \cup {WkNone}]
                          /\ c.moves \in Nat /\ c.faults \in Nat

VARIABLES
    wkCast,         \* one of WkCasts
    wkHeld,         \* wake_audit: the events with a skip row for a cooldown
    wkAcked,        \* wake_audit: the events whose wake row is acknowledged
    wkFolds,        \* wake_audit: <<event, event, wake>>, a row superseded by another
    wkQueue,        \* wake_audit: <<event, route>> of the wake rows, in their order
    wkFloor,        \* the floors in force: <<layer, route, actionable>>
    wkOld,          \* events older than MAX_WAKE_AGE_SECS
    wkBench,        \* events whose last attempt failed, within the backoff
    wkLatched,      \* wake_submitted
    wkProven,       \* wake_delivery with delivered = 1
    wkInvalid,      \* agent_alert_invalid
    wkAsked,        \* events another program asked to acknowledge; history
    wkRoute,        \* wake_route: route -> conversation
    wkChat,         \* chat_registry: active, dead, or dead past its retry window
    wkRefused,      \* chats whose last attempt fired and was refused
    wkOffer,        \* the companion: its step and what it delivers
    wkCount         \* emitted events, faults and moves so far

WkAudit == <<wkHeld, wkAcked, wkFolds, wkQueue>>
WkTrack == <<wkOld, wkLatched, wkProven, wkInvalid, wkAsked>>
WkChatVars == <<wkRoute, wkChat, wkRefused>>
WkVars == <<wkCast, WkAudit, wkFloor, WkTrack, wkBench, WkChatVars, wkOffer, wkCount>>

WkEvents == DOMAIN wkCast.events
WkIdle == [at |-> "poll", event |-> 0, chat |-> WkNone, route |-> WkNone, lands |-> FALSE]

WkTypeOK ==
    /\ wkCast \in WkCasts
    /\ wkHeld \cup wkAcked \subseteq WkEvents /\ wkFolds \subseteq (WkEvents \X WkEvents \X BOOLEAN)
    /\ wkQueue \in BoundedSeq(WkEvents \X WkRoutes, Len(wkCast.events))
    /\ wkFloor \subseteq ({"decide", "send"} \X WkRoutes \X BOOLEAN)
    /\ wkOld \cup wkBench \cup wkLatched \cup wkProven \cup wkInvalid \cup wkAsked \subseteq WkEvents
    /\ wkRoute \in [WkRoutes -> WkChats \cup {WkNone}]
    /\ wkChat \in [WkChats -> {"active", "dead", "retry"}] /\ wkRefused \subseteq WkChats
    /\ wkOffer \in [at : {"poll", "fold", "offered", "claimed", "fired", "latched", "proven"},
                    event : {0} \cup WkEvents, chat : WkChats \cup {WkNone},
                    route : WkRoutes \cup {WkNone}, lands : BOOLEAN]
    /\ wkCount \in [events : 0..Len(wkCast.events), faults : 0..wkCast.faults, moves : 0..wkCast.moves]

WkInit ==
    /\ wkCast \in WkCasts
    /\ wkHeld = {} /\ wkAcked = {} /\ wkFolds = {}
    /\ wkQueue = <<>> /\ wkFloor = {} /\ wkOld = {} /\ wkBench = {}
    /\ wkLatched = {} /\ wkProven = {} /\ wkInvalid = {} /\ wkAsked = {}
    /\ wkRoute = wkCast.start
    /\ wkChat = [c \in WkChats |-> "active"] /\ wkRefused = {}
    /\ wkOffer = WkIdle
    /\ wkCount = [events |-> 0, faults |-> 0, moves |-> 0]

----------------------------------------------------------------------------
(* The routes and the chats *)

WkDeadNow(c) == wkChat[c] = "dead"      \* _chat_dead: within the retry window

\* resolve: the project's own chat unless it is dead, else the owner's, dead or not.
WkResolve(r) ==
    LET own == wkRoute[r] # WkNone /\ (r = WkOwner \/ ~WkDeadNow(wkRoute[r]))
        key == IF own THEN r ELSE WkOwner
    IN  [key |-> key, chat |-> wkRoute[key]]

\* bind_route and bind_chat, unbind_route
WkBind(r, c) ==
    /\ wkCount.moves < wkCast.moves /\ wkCount' = [wkCount EXCEPT !.moves = @ + 1]
    /\ wkRoute[r] # c /\ wkRoute' = [wkRoute EXCEPT ![r] = c]
    /\ UNCHANGED <<wkCast, WkAudit, wkFloor, WkTrack, wkBench, wkChat, wkRefused, wkOffer>>
\* consider_auto_bind: a chat whose title names one project takes its route when that is
\* unbound, or bound to a chat recorded dead.
WkAutoBind(c) ==
    LET r == WkTitle[c]
    IN  /\ r \in WkRoutes \ {WkOwner} /\ wkChat[c] = "active"
        /\ wkRoute[r] = WkNone \/ (wkRoute[r] # WkNone /\ wkChat[wkRoute[r]] # "active")
        /\ wkRoute' = [wkRoute EXCEPT ![r] = c]
        /\ UNCHANGED <<wkCast, WkAudit, wkFloor, WkTrack, wkBench, wkChat, wkRefused, wkOffer, wkCount>>
WkRetryWindow(c) ==
    /\ wkChat[c] = "dead" /\ wkChat' = [wkChat EXCEPT ![c] = "retry"]
    /\ UNCHANGED <<wkCast, WkAudit, wkFloor, WkTrack, wkBench, wkRoute, wkRefused, wkOffer, wkCount>>

----------------------------------------------------------------------------
(* The rows of the audit *)

WkWoken == {q[1] : q \in Range(wkQueue)}
WkPlace(e) == CHOOSE i \in DOMAIN wkQueue : wkQueue[i][1] = e
WkRouteOf(e) == wkQueue[WkPlace(e)][2]
WkFolded(e, wake) == \E d \in WkEvents : <<e, d, wake>> \in wkFolds
\* A wake row that is neither acknowledged nor superseded, of an event not sent.
WkLive == {e \in WkWoken \ (wkAcked \cup wkLatched) : ~WkFolded(e, TRUE)}

----------------------------------------------------------------------------
(* The clocks *)

WkFloorLapses(f) ==
    /\ f \in wkFloor /\ wkFloor' = wkFloor \ {f}
    /\ UNCHANGED <<wkCast, WkAudit, WkTrack, wkBench, WkChatVars, wkOffer, wkCount>>
WkBenchEnds(e) ==
    /\ e \in wkBench /\ wkBench' = wkBench \ {e}
    /\ UNCHANGED <<wkCast, WkAudit, wkFloor, WkTrack, WkChatVars, wkOffer, wkCount>>
WkAges(e) ==
    /\ e \in 1..wkCount.events /\ wkOld = 1..(e - 1) /\ wkOld' = 1..e
    /\ UNCHANGED <<wkCast, WkAudit, wkFloor, wkLatched, wkProven, wkInvalid, wkAsked, wkBench,
                   WkChatVars, wkOffer, wkCount>>

----------------------------------------------------------------------------
(* The decision *)

WkDecideFloor(e, key) == <<"decide", key, wkCast.events[e].act>>

\* emit consults should_wake and records its answer.  With no chat bound the refusal is
\* final.
WkEmit ==
    LET e == wkCount.events + 1
        target == WkResolve(wkCast.events[e].route)
        floor == WkDecideFloor(e, target.key)
        asks == e \in WkEvents /\ target.chat # WkNone
    IN  /\ e \in WkEvents /\ wkCount' = [wkCount EXCEPT !.events = e]
        /\ wkHeld' = IF asks /\ floor \in wkFloor THEN wkHeld \cup {e} ELSE wkHeld
        /\ wkQueue' = IF asks /\ floor \notin wkFloor THEN Append(wkQueue, <<e, target.key>>) ELSE wkQueue
        /\ wkFloor' = IF asks THEN wkFloor \cup {floor} ELSE wkFloor
        /\ UNCHANGED <<wkCast, wkAcked, wkFolds, WkTrack, wkBench, WkChatVars, wkOffer>>

----------------------------------------------------------------------------
(* Other programs *)

\* mark_invalid: a crash alert of a process that is back (_reconcile_recovered_crash), an
\* escalation of a stall that is over (_retire_stale_escalation).
WkMarksInvalid(e) ==
    /\ e \in wkCast.others \ wkInvalid /\ e \in 1..wkCount.events
    /\ wkInvalid' = wkInvalid \cup {e}
    /\ UNCHANGED <<wkCast, WkAudit, wkFloor, wkOld, wkLatched, wkProven, wkAsked, wkBench, WkChatVars,
                   wkOffer, wkCount>>
\* acknowledge: the second commit of those two, and POST /control-plane/wake/ack.
WkAcksElsewhere(e) ==
    /\ e \in wkCast.others \cap WkWoken
    /\ wkAcked' = wkAcked \cup {e} /\ wkAsked' = wkAsked \cup {e}
    /\ UNCHANGED <<wkCast, wkHeld, wkFolds, wkQueue, wkFloor, wkOld, wkLatched, wkProven, wkInvalid,
                   wkBench, WkChatVars, wkOffer, wkCount>>

----------------------------------------------------------------------------
(* pending_wake: the steps of one poll, each from the rows the last one left *)

\* expire_stale, and for what was sent record_abandoned_wakes
WkExpired ==
    {e \in WkWoken : /\ ~WkFolded(e, TRUE)
                     /\ IF e \in wkLatched THEN e \in wkOld \ wkProven ELSE e \in wkOld \cup wkInvalid}

\* _redecide_cooldown_skips: by route and class the first event whose floor has cleared.
\* A skip that was folded meanwhile is decided again like any other.
WkRedecided ==
    LET asks == {e \in wkHeld \ (WkWoken \cup wkOld \cup wkLatched) : WkResolve(wkCast.events[e].route).chat # WkNone}
        floor(e) == WkDecideFloor(e, WkResolve(wkCast.events[e].route).key)
    IN  {e \in asks : floor(e) \notin wkFloor /\ \A d \in asks : d < e => floor(d) # floor(e)}

\* _supersede_stale_actionables: of one agent the newest event stays.
WkSupersedes ==
    LET ev == wkCast.events
        rings == {e \in WkLive : ev[e].act /\ ev[e].agent # WkNone}
    IN  {f \in rings \X rings \X {TRUE} :
            /\ ev[f[1]].agent = ev[f[2]].agent /\ f[1] < f[2]
            /\ \A e \in rings : ev[e].agent = ev[f[2]].agent => e <= f[2]}

\* coalesce_generic_backlog: of the generic wakes and cooldown skips of one route the last
\* wake row stays, and without one the last skip.
WkCoalesces ==
    LET wakes == {e \in WkLive \ wkOld : ~wkCast.events[e].act}
        skips == {e \in wkHeld \ (wkOld \cup wkLatched \cup WkWoken) :
                     ~WkFolded(e, FALSE) /\ ~wkCast.events[e].act}
        key(e) == IF e \in wakes THEN WkRouteOf(e) ELSE WkResolve(wkCast.events[e].route).key
        after(d, e) == IF e \in wakes THEN d \in wakes /\ WkPlace(d) >= WkPlace(e)
                                      ELSE d \in wakes \/ d >= e
        kept == {d \in wakes \cup skips : \A e \in wakes \cup skips : key(e) = key(d) => after(d, e)}
    IN  {f \in ((wakes \cup skips) \ kept) \X kept \X BOOLEAN :
            key(f[1]) = key(f[2]) /\ f[3] = (f[1] \in wakes)}

\* The rows that may be offered, and their order: actionable before generic, then by row.
WkReady(live) == {i \in DOMAIN wkQueue : wkQueue[i][1] \in live \ wkBench}
WkBefore(i, j) ==
    LET act(k) == wkCast.events[wkQueue[k][1]].act
    IN  (act(i) /\ ~act(j)) \/ (act(i) = act(j) /\ i <= j)

\* The skips decided again become wake rows in the order of their events.
WkRetires ==
    LET key(e) == WkResolve(wkCast.events[e].route).key
    IN  /\ wkOffer.at = "poll" /\ wkOffer' = [wkOffer EXCEPT !.at = "fold"]
        /\ wkAcked' = wkAcked \cup WkExpired
        /\ \E order \in [1..Cardinality(WkRedecided) -> WkRedecided] :
              /\ \A i, j \in DOMAIN order : i < j => order[i] < order[j]
              /\ wkQueue' = wkQueue \o [i \in DOMAIN order |-> <<order[i], key(order[i])>>]
        /\ wkFloor' = wkFloor \cup {WkDecideFloor(e, key(e)) : e \in WkRedecided}
        /\ UNCHANGED <<wkCast, wkHeld, wkFolds, WkTrack, wkBench, wkCount, WkChatVars>>
WkFolds ==
    LET new == WkSupersedes \cup WkCoalesces
        ready == WkReady(WkLive \ {f[1] : f \in new})
    IN  /\ wkOffer.at = "fold" /\ wkFolds' = wkFolds \cup new
        /\ \/ \E i \in ready :
                 LET e == wkQueue[i][1]
                     target == WkResolve(wkCast.events[e].route)
                 IN  /\ \A j \in ready : WkBefore(i, j)
                     /\ wkOffer' = IF target.chat = WkNone THEN WkIdle
                                   ELSE [WkIdle EXCEPT !.at = "offered", !.event = e,
                                                       !.chat = target.chat, !.route = target.key]
           \/ ready = {} /\ wkOffer' = WkIdle
        /\ UNCHANGED <<wkCast, wkHeld, wkAcked, wkQueue, wkFloor, WkTrack, wkBench, wkCount, WkChatVars>>

----------------------------------------------------------------------------
(* The delivery *)

\* claim_send.  A refused claim is not an attempt: nothing is recorded of the event.
WkClaims ==
    LET floor == <<"send", wkOffer.route, wkCast.events[wkOffer.event].act>>
    IN  /\ wkOffer.at = "offered"
        /\ wkOffer' = IF floor \in wkFloor THEN WkIdle ELSE [wkOffer EXCEPT !.at = "claimed"]
        /\ wkFloor' = wkFloor \cup {floor}
        /\ UNCHANGED <<wkCast, WkAudit, WkTrack, wkBench, wkCount, WkChatVars>>

\* record_delivery of a failure, and its word to the chat registry: the second refusal in
\* a row is death.
WkFails(refused) ==
    /\ wkBench' = wkBench \cup ({wkOffer.event} \ wkLatched)   \* of no use to one latched
    /\ wkRefused' = IF refused THEN wkRefused \cup {wkOffer.chat} ELSE wkRefused \ {wkOffer.chat}
    /\ wkChat' = IF refused /\ wkOffer.chat \in wkRefused
                 THEN [wkChat EXCEPT ![wkOffer.chat] = "dead"] ELSE wkChat
    /\ wkOffer' = WkIdle
    /\ UNCHANGED <<wkCast, WkAudit, wkFloor, WkTrack, wkRoute>>

\* No page, no composer, no focus: nothing was sent.
WkUnsent == wkOffer.at = "claimed" /\ WkFails(FALSE) /\ UNCHANGED wkCount
\* The click.  The phrase is in the chat, or is not.
WkFires ==
    /\ wkOffer.at = "claimed"
    /\ \E lands \in BOOLEAN : wkOffer' = [wkOffer EXCEPT !.at = "fired", !.lands = lands]
    /\ UNCHANGED <<wkCast, WkAudit, wkFloor, WkTrack, wkBench, wkCount, WkChatVars>>
\* composer_did_not_clear_after_send: it is still in the composer.
WkNotCleared == wkOffer.at = "fired" /\ ~wkOffer.lands /\ WkFails(TRUE) /\ UNCHANGED wkCount
WkFault == wkCount.faults < wkCast.faults /\ wkCount' = [wkCount EXCEPT !.faults = @ + 1]
\* cdp_error after the click and before the composer was seen to clear.
WkBroken == wkOffer.at = "fired" /\ WkFails(FALSE) /\ WkFault
\* mark_submitted, once the composer is seen to clear.
WkLatches ==
    /\ wkOffer.at = "fired"
    /\ wkLatched' = wkLatched \cup {wkOffer.event} /\ wkOffer' = [wkOffer EXCEPT !.at = "latched"]
    /\ UNCHANGED <<wkCast, WkAudit, wkFloor, wkOld, wkProven, wkInvalid, wkAsked, wkBench, wkCount,
                   WkChatVars>>
WkUnproven == wkOffer.at = "latched" /\ WkFails(FALSE) /\ UNCHANGED wkCount
\* The turn is there and the assistant started: a proven write revives a dead chat.
WkProves ==
    /\ wkOffer.at = "latched" /\ wkOffer.lands
    /\ wkProven' = wkProven \cup {wkOffer.event}
    /\ wkChat' = [wkChat EXCEPT ![wkOffer.chat] = "active"] /\ wkRefused' = wkRefused \ {wkOffer.chat}
    /\ wkOffer' = [wkOffer EXCEPT !.at = "proven"]
    /\ UNCHANGED <<wkCast, WkAudit, wkFloor, wkOld, wkLatched, wkInvalid, wkAsked, wkBench, wkRoute,
                   wkCount>>
\* Mutant: a phrase sent is a phrase received.
WkAcknowledgesSent ==
    /\ wkOffer.at \in {"latched", "proven"}
    /\ wkAcked' = wkAcked \cup {wkOffer.event} /\ wkOffer' = WkIdle
    /\ UNCHANGED <<wkCast, wkHeld, wkFolds, wkQueue, wkFloor, WkTrack, wkBench, wkCount, WkChatVars>>

WkAcknowledges ==
    /\ wkOffer.at = "proven"
    /\ wkAcked' = wkAcked \cup {wkOffer.event} /\ wkOffer' = WkIdle
    /\ UNCHANGED <<wkCast, wkHeld, wkFolds, wkQueue, wkFloor, WkTrack, wkBench, wkCount, WkChatVars>>
WkStops ==
    /\ wkOffer.at # "poll" /\ wkOffer' = WkIdle /\ WkFault
    /\ UNCHANGED <<wkCast, WkAudit, wkFloor, WkTrack, wkBench, WkChatVars>>

----------------------------------------------------------------------------
WkSends == \/ WkClaims \/ WkUnsent \/ WkFires \/ WkNotCleared \/ WkLatches \/ WkUnproven \/ WkProves
           \/ WkAcknowledges
WkPolls == WkRetires \/ WkFolds
WkNext ==
    \/ WkEmit \/ WkPolls \/ WkSends \/ WkBroken \/ WkStops
    \/ \E f \in wkFloor : WkFloorLapses(f)
    \/ \E e \in WkEvents : WkBenchEnds(e) \/ WkAges(e) \/ WkMarksInvalid(e) \/ WkAcksElsewhere(e)
    \/ \E c \in WkChats : WkAutoBind(c) \/ WkRetryWindow(c)
    \/ \E r \in WkRoutes, c \in WkChats \cup {WkNone} : WkBind(r, c)
WkSpec == WkInit /\ [][WkNext]_WkVars
WkClocks == \/ \E f \in wkFloor : WkFloorLapses(f)
            \/ \E e \in WkEvents : WkBenchEnds(e)
\* The companion goes on, the clocks run, and the page does not fail for ever.
WkFairness ==
    /\ WF_WkVars(WkPolls \/ WkSends) /\ WF_WkVars(WkClocks)
    /\ SF_WkVars(WkFires) /\ SF_WkVars(WkLatches)
WkFairSpec == WkSpec /\ WkFairness

----------------------------------------------------------------------------
\* A wake is acknowledged only when its delivery was proven, when it is too old, or when
\* another program withdrew its alert or asked for it: a failed or unproven delivery does
\* not end it, over any stops, folds and retries.
WkAckedIsServed == wkAcked \subseteq wkProven \cup wkOld \cup wkInvalid \cup wkAsked

\* A wake is folded only into another wake of its class: a generic one into one of the
\* same route, an actionable one into a newer one of the same agent.
WkFoldedIntoWake ==
    \A e, d \in WkEvents : <<e, d, TRUE>> \in wkFolds =>
        /\ d # e /\ d \in WkWoken /\ wkCast.events[e].act = wkCast.events[d].act
        /\ IF wkCast.events[e].act THEN wkCast.events[d].agent = wkCast.events[e].agent /\ d > e
                            ELSE WkRouteOf(d) = WkRouteOf(e)

\* Once the composer was seen to clear and that is on record, the phrase of an event is not
\* sent again, whatever became of it.  A fault between the click and the record leaves no
\* trace: that event may be sent twice.
WkLatchHolds == wkOffer.at \in {"claimed", "fired"} => wkOffer.event \notin wkLatched

WkInv == WkAckedIsServed /\ WkFoldedIntoWake /\ WkLatchHolds

\* An event decided for a wake, or held back by a floor, is sent, folded into another or
\* too old, as long as the owner's route is bound.
WkHeard ==
    \A e \in 1..2 :
        (e \in WkWoken \cup wkHeld) ~>
            (\/ e \in wkLatched \cup wkOld \cup wkAcked \/ \E w \in BOOLEAN : WkFolded(e, w)
             \/ wkRoute[WkOwner] = WkNone)

\* "Folding them raises no wake frequency - it removes redundant candidates": an event
\* folded into a wake that was sent is not offered as well.
WkFoldedIsRetired ==
    \A e \in WkEvents : wkOffer.event = e => \A d \in wkLatched : <<e, d, FALSE>> \notin wkFolds
=============================================================================

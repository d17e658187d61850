----------------------------- MODULE ClosedLoop -----------------------------
(***************************************************************************)
(* The closed loop of a wake: the watch over one agent's pane announces    *)
(* what it sees (core/agent_watch.py), the companion delivers the wake of  *)
(* an announcement, and the watchdog looks after every delivery: if        *)
(* nothing comes of it, it wakes once more and then escalates              *)
(* (core/closed_loop_wake.py).  The watch, the delivery and the watchdog   *)
(* run in turn in one process (tools/wake_companion.py), which may stop    *)
(* after any commit; an emitted event commits by itself.                   *)
(*                                                                         *)
(* A run is shorter than the day after which a key may be used again;      *)
(* REMINDER_SECS, an hour, may pass at any time, and so may                *)
(* WAKE_LOOP_SLO_SECS after a delivery.                                    *)
(***************************************************************************)
EXTENDS Integers, Sequences, FiniteSets

CONSTANTS
    ClPrompts,      \* the questions the agent may stand at, told apart by their digest
    ClCasts,        \* instances: [panes: what the agent does, moves, hours, crashes: bounds on
                    \* what the agent and the owner do, the hours that pass, the stops]
    ClLoopAt        \* CRASH_LOOP_THRESHOLD

ClPanes == ClPrompts \cup {"work", "done", "quiet", "crash", "gone"}

ASSUME ClAssumption ==
    /\ ClLoopAt \in Nat \ {0}
    /\ ClPrompts \cap {"work", "done", "quiet", "crash", "gone", "none", "text"} = {}
    /\ \A c \in ClCasts : /\ "work" \in c.panes /\ c.panes \subseteq ClPanes
                          /\ c.moves \in Nat /\ c.hours \in Nat /\ c.crashes \in Nat

VARIABLES
    clCast,         \* one of ClCasts
    clPane,         \* the agent: working, asking one of ClPrompts, done, quiet, crashed, gone
    clMute,         \* agent_watch_suppress
    clRow,          \* agent_watch_state of the pane
    clLog,          \* the events correlated with the pane: [kind, key, of]
    clOld,          \* how many of them are older than an hour
    clDelivered,    \* wake_delivery with delivered = 1
    clInvalid,      \* agent_alert_invalid, whose wakes are acknowledged
    clWatch,        \* wake_loop_watch, [of, since, at]
    clOwners,       \* owner_intervention_log: the events answered by the owner
    clCount         \* moves, hours and stops so far

ClStore == <<clRow, clLog, clDelivered, clInvalid, clWatch, clOwners>>
ClVars == <<clCast, clPane, clMute, ClStore, clOld, clCount>>

ClEvents == DOMAIN clLog
ClDigests == ClPrompts \cup {"none", "text", "gone"}
ClClasses == {"", "working", "owner_prompt", "completed", "crashed", "idle"}
ClKinds == (ClClasses \ {"", "working", "idle"}) \cup {"vanished", "loop", "again", "stalled", "owner"}

ClTypeOK ==
    /\ clCast \in ClCasts /\ clPane \in clCast.panes /\ clMute \in BOOLEAN
    /\ clRow \in [cls : ClClasses, digest : ClDigests, told : ClClasses, toldOf : ClDigests,
                  late : BOOLEAN, missed : BOOLEAN, emissions : 0..(clCast.moves + clCast.hours)]
    /\ clLog \in Seq([kind : ClKinds, key : ClDigests, of : 0..Len(clLog)])
    /\ clOld \in 0..Len(clLog)
    /\ clDelivered \cup clInvalid \cup clOwners \subseteq ClEvents
    /\ clWatch \subseteq [of : ClEvents, since : ClEvents,
                          at : {"open", "rewoken", "escalated", "resolved"}]
    /\ clCount \in [moves : 0..clCast.moves, hours : 0..clCast.hours, crashes : 0..clCast.crashes]

ClInit ==
    /\ clCast \in ClCasts /\ clPane = "work" /\ clMute = FALSE
    /\ clRow = [cls |-> "", digest |-> "none", told |-> "", toldOf |-> "none", late |-> TRUE,
                missed |-> FALSE, emissions |-> 0]
    /\ clLog = <<>> /\ clOld = 0
    /\ clDelivered = {} /\ clInvalid = {} /\ clWatch = {} /\ clOwners = {}
    /\ clCount = [moves |-> 0, hours |-> 0, crashes |-> 0]

ClMayStop(stops) == clCount.crashes + (IF stops THEN 1 ELSE 0) <= clCast.crashes
ClStops(stops) == clCount' = [clCount EXCEPT !.crashes = @ + (IF stops THEN 1 ELSE 0)]

(* append_event: a key met within its window is not appended again.  The   *)
(* keys of the vanished pane and of the watchdog hold for a day.           *)
ClDay == {"vanished", "again", "stalled", "owner"}
ClSeen(log, e) == \E i \in DOMAIN log : log[i] = e /\ (i > clOld \/ e.kind \in ClDay)
\* Mutant: the key is not looked up.
ClAppendAgain(log, kind, key, of) == Append(log, [kind |-> kind, key |-> key, of |-> of])

ClAppend(log, kind, key, of) ==
    LET e == [kind |-> kind, key |-> key, of |-> of] IN
    IF ClSeen(log, e) THEN log ELSE Append(log, e)

(* The crashes of the last hour, at the threshold, are an event of their own *)
ClCrashLoop(log) ==
    LET crashes == {i \in DOMAIN log : i > clOld /\ log[i].kind \in {"crashed", "vanished"}} IN
    IF Cardinality(crashes) >= ClLoopAt THEN ClAppend(log, "loop", "none", 0) ELSE log

--------------------------------------------------------------------------
(* The watch                                                               *)

(* Only an agent last seen working can have completed; it stays "working"  *)
(* until its closing lines say so.                                         *)
ClClassify ==
    CASE clPane = "work" -> "working"
      [] clPane = "crash" -> "crashed"
      [] clPane \in ClPrompts -> "owner_prompt"
      [] clPane = "done" -> IF clRow.cls = "working" THEN "completed" ELSE "idle"
      [] OTHER -> IF clRow.cls = "working" THEN "working" ELSE "idle"
ClDigest == CASE clPane = "crash" -> "gone" [] clPane \in ClPrompts -> clPane [] OTHER -> "text"

ClSeenRow == [clRow EXCEPT !.cls = ClClassify, !.digest = ClDigest, !.missed = FALSE]
ClToldRow(row, cls, digest) ==
    [row EXCEPT !.told = cls, !.toldOf = digest, !.late = FALSE, !.emissions = @ + 1]

(* detect_owner_intervention: the agent resumed, and the newest event of   *)
(* the pane was never delivered                                            *)
ClOwnerActed ==
    /\ clRow.told = "owner_prompt" /\ clLog # <<>>
    /\ Len(clLog) \notin clDelivered \cup clOwners

(* agent_watch.scan, an agent at work: what it was asked is consumed.  An  *)
(* agent announced dead is alive: its alerts are retired.                  *)
ClRecovered ==
    IF clRow.told = "crashed"
    THEN clInvalid \cup {e \in ClEvents : clLog[e].kind \in {"crashed", "vanished"}}
    ELSE clInvalid

ClSeesWork ==
    /\ clPane # "gone" /\ ~clMute /\ ClClassify = "working"
    /\ clRow' = [ClSeenRow EXCEPT !.told = "", !.toldOf = "none"]
    /\ clLog' = IF ClOwnerActed THEN ClAppend(clLog, "owner", "none", Len(clLog)) ELSE clLog
    /\ clOwners' = IF ClOwnerActed THEN clOwners \cup {Len(clLog)} ELSE clOwners
    /\ clInvalid' = ClRecovered
    /\ UNCHANGED <<clCast, clPane, clMute, clOld, clDelivered, clWatch, clCount>>

(* agent_watch.scan, an agent at rest: idle says nothing; a completion or  *)
(* a crash is told once, a question until it changes, and a change within  *)
(* the hour is adopted in silence; an hour later a question is told again. *)
ClAdopts == /\ clRow.told = "owner_prompt" /\ ClClassify = "owner_prompt"
            /\ clRow.toldOf # ClDigest /\ ~clRow.late
ClTold ==
    /\ clRow.told = ClClassify
    /\ ClClassify = "owner_prompt" => ~clRow.late /\ (clRow.toldOf = ClDigest \/ ClAdopts)

ClSeesRest ==
    /\ clPane # "gone" /\ ~clMute
    /\ ClClassify = "idle" \/ (ClClassify # "working" /\ ClTold)
    /\ clRow' = IF ClAdopts THEN [ClSeenRow EXCEPT !.toldOf = ClDigest] ELSE ClSeenRow
    /\ clInvalid' = IF ClClassify = "crashed" THEN clInvalid ELSE ClRecovered
    /\ UNCHANGED <<clCast, clPane, clMute, clOld, clLog, clDelivered, clWatch, clOwners, clCount>>

ClAnnounces(stops) ==
    /\ clPane # "gone" /\ ~clMute /\ ClMayStop(stops)
    /\ ClClassify \in {"owner_prompt", "completed", "crashed"} /\ ~ClTold
    /\ LET log == ClAppend(clLog, ClClassify, ClDigest, 0) IN
       clLog' = IF ClClassify = "crashed" /\ ~stops THEN ClCrashLoop(log) ELSE log
    /\ clRow' = IF stops THEN ClSeenRow ELSE ClToldRow(ClSeenRow, ClClassify, ClDigest)
    /\ clInvalid' = IF ClClassify = "crashed" THEN clInvalid ELSE ClRecovered
    /\ ClStops(stops)
    /\ UNCHANGED <<clCast, clPane, clMute, clOld, clDelivered, clWatch, clOwners>>

(* agent_watch.scan, a pane that is no longer listed: interrupted work     *)
(* missed twice is a crash                                                 *)
ClMisses(stops) ==
    /\ clPane = "gone" /\ ~clMute /\ ClMayStop(stops)
    /\ clRow.cls \in {"working", "owner_prompt"}
    /\ stops => clRow.missed
    /\ clLog' = IF ~clRow.missed THEN clLog
                ELSE LET log == ClAppend(clLog, "vanished", "none", 0) IN
                     IF stops THEN log ELSE ClCrashLoop(log)
    /\ clRow' = CASE stops -> clRow
                  [] ~clRow.missed -> [clRow EXCEPT !.missed = TRUE]
                  [] OTHER -> ClToldRow([clRow EXCEPT !.cls = "crashed", !.digest = "gone"],
                                        "crashed", "gone")
    /\ ClStops(stops)
    /\ UNCHANGED <<clCast, clPane, clMute, clOld, clDelivered, clInvalid, clWatch, clOwners>>

--------------------------------------------------------------------------
(* The delivery of a wake, and its watch                                   *)

ClWatchdog == {"again", "stalled"}      \* TRIGGER_CLASS_LOOP_WATCHDOG
ClDelivers(e, stops) ==
    /\ ClMayStop(stops)
    /\ e \notin clDelivered \cup clInvalid /\ clLog[e].kind # "owner"
    /\ clDelivered' = clDelivered \cup {e}
    /\ clWatch' = IF stops \/ clLog[e].kind \in ClWatchdog THEN clWatch
                  ELSE clWatch \cup {[of |-> e, since |-> Len(clLog), at |-> "open"]}
    /\ ClStops(stops)
    /\ UNCHANGED <<clCast, clPane, clMute, clOld, clRow, clLog, clInvalid, clOwners>>

ClOpen(w) == w.at \in {"open", "rewoken"}
ClBecomes(w, at) == clWatch' = (clWatch \ {w}) \cup {[w EXCEPT !.at = at]}

(* deregister_resolved: the alert was retired, the agent works, or it is   *)
(* parked on a completion                                                  *)
ClResolved(w) == w.of \in clInvalid \/ clRow.cls \in {"working", "completed"}
ClResolves(w) ==
    /\ ClOpen(w) /\ ClResolved(w)
    /\ ClBecomes(w, "resolved")
    /\ UNCHANGED <<clCast, clPane, clMute, clOld, clRow, clLog, clDelivered, clInvalid, clOwners, clCount>>

(* _progress_since: any newer event of the agent but the watchdog's own    *)
ClProgress(w) == \E e \in ClEvents : e > w.since /\ clLog[e].kind \notin ClWatchdog \cup {"owner"}

(* slo_scan, the time up: one more wake, then the escalation.  The         *)
(* row is written after the event.                                         *)
ClWakesAgain(w, stops) ==
    /\ ClMayStop(stops)
    /\ ClOpen(w) /\ ~ClResolved(w) /\ ~ClProgress(w)
    /\ LET kind == IF w.at = "open" THEN "again" ELSE "stalled" IN
       clLog' = ClAppend(clLog, kind, "none", w.of)
    /\ IF stops THEN UNCHANGED clWatch
       ELSE ClBecomes(w, IF w.at = "open" THEN "rewoken" ELSE "escalated")
    /\ ClStops(stops)
    /\ UNCHANGED <<clCast, clPane, clMute, clOld, clRow, clDelivered, clInvalid, clOwners>>

--------------------------------------------------------------------------
(* The agent, the owner, and time                                          *)

ClMoved == clCount.moves < clCast.moves /\ clCount' = [clCount EXCEPT !.moves = @ + 1]

ClPaneMoves == ClMoved /\ clPane' \in clCast.panes \ {clPane} /\ UNCHANGED <<clCast, clMute, clOld, ClStore>>

(* suppress, and the end of its time *)
ClSuppresses == ClMoved /\ ~clMute /\ clMute' = TRUE /\ UNCHANGED <<clCast, clPane, clOld, ClStore>>
ClUnmutes == clMute /\ clMute' = FALSE /\ UNCHANGED <<clCast, clPane, clOld, clCount, ClStore>>

(* mark_invalid, called by the owner: the wake itself stays pending, which *)
(* the delivery decides                                                    *)
ClDismisses(e) ==
    /\ ClMoved /\ e \in clDelivered \ clInvalid
    /\ clInvalid' = clInvalid \cup {e}
    /\ UNCHANGED <<clCast, clPane, clMute, clOld, clRow, clLog, clDelivered, clWatch, clOwners>>

(* REMINDER_SECS: the notice is at least as young as its event *)
ClHourPasses ==
    /\ clCount.hours < clCast.hours /\ clCount' = [clCount EXCEPT !.hours = @ + 1]
    /\ clOld' = Len(clLog) /\ \E late \in {clRow.late, TRUE} : clRow' = [clRow EXCEPT !.late = late]
    /\ UNCHANGED <<clCast, clPane, clMute, clLog, clDelivered, clInvalid, clWatch, clOwners>>

ClWatchStep == ClSeesWork \/ ClSeesRest \/ \E s \in BOOLEAN : ClAnnounces(s) \/ ClMisses(s)
ClSlo(e) == \E w \in clWatch : w.of = e /\ (ClResolves(w) \/ \E s \in BOOLEAN : ClWakesAgain(w, s))

ClNext ==
    \/ ClWatchStep \/ ClPaneMoves \/ ClSuppresses \/ ClUnmutes \/ ClHourPasses
    \/ \E e \in ClEvents : \/ \E s \in BOOLEAN : ClDelivers(e, s)
                           \/ ClDismisses(e) \/ ClSlo(e)

ClSpec == ClInit /\ [][ClNext]_ClVars

(* The companion polls for ever: its watchdog looks at every open watch,   *)
(* and sooner or later finds its time up.                                  *)
ClBound == 24
ClFairness == \A e \in 1..ClBound : WF_ClVars(ClSlo(e))
ClFairSpec == ClSpec /\ ClFairness

--------------------------------------------------------------------------
(* However the companion stops, a delivered wake is followed by at most    *)
(* one more wake and one escalation, in this order, and the watchdog never *)
(* watches its own wakes: the chain 5548 -> 5563 -> 5595 ends.             *)
ClInv ==
    /\ \A i, j \in ClEvents :
          clLog[i].kind \in ClWatchdog /\ clLog[i] = clLog[j] => i = j
    /\ \A i \in ClEvents : clLog[i].kind = "stalled" =>
          \E j \in 1..(i - 1) : clLog[j].kind = "again" /\ clLog[j].of = clLog[i].of
    /\ \A i \in ClEvents : clLog[i].kind \in ClWatchdog =>
          /\ clLog[i].of \in clDelivered /\ clLog[clLog[i].of].kind \notin ClWatchdog

(* A delivered wake is not forgotten: its watch is resolved or escalated,  *)
(* or the agent gave some other sign.                                      *)
ClLoopEnds ==
    \A e \in 1..ClBound :
      (\E w \in clWatch : w.of = e /\ ClOpen(w))
        ~> (\E w \in clWatch : w.of = e /\ (~ClOpen(w) \/ ClProgress(w)))

(* "If the very same prompt appears again later, that is a new event, not  *)
(* a duplicate of the old one": what the watch counts as announced is an   *)
(* event of its own.                                                       *)
ClAnnouncedIsAnEvent ==
    clRow.emissions <=
       Cardinality({e \in ClEvents : clLog[e].kind \notin ClWatchdog \cup {"owner", "loop"}})
=============================================================================

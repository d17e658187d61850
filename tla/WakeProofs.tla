----------------------------- MODULE WakeProofs -----------------------------
(***************************************************************************)
(* Proofs about the wakes: the closed loop of a delivered wake, which ends *)
(* after one more wake and one escalation, and the wake bridge, whose rows *)
(* are acknowledged, folded and latched soundly.                           *)
(***************************************************************************)
EXTENDS ClosedLoop, WakeBridge, FiniteSetTheorems, TLAPS

----------------------------------------------------------------------------
(* The log of the closed loop *)

ClEntry == [kind : ClKinds, key : ClDigests, of : Nat]

\* A log that another one extends, with no wake of the watchdog's own.
Extends(a, b) ==
    /\ b \in Seq(ClEntry) /\ Len(a) <= Len(b)
    /\ \A i \in DOMAIN a : b[i] = a[i]
    /\ \A i \in DOMAIN b : i > Len(a) => b[i].kind \notin ClWatchdog

\* append_event: the log grows by the event, unless its key was met.
LEMMA AppendIs ==
    ASSUME NEW log \in Seq(ClEntry), NEW kind \in ClKinds, NEW key \in ClDigests, NEW of \in Nat
    PROVE  /\ [kind |-> kind, key |-> key, of |-> of] \in ClEntry
           /\ \/ /\ ClAppend(log, kind, key, of) = log
                 /\ \E i \in DOMAIN log : log[i] = [kind |-> kind, key |-> key, of |-> of]
              \/ /\ ClAppend(log, kind, key, of) = Append(log, [kind |-> kind, key |-> key, of |-> of])
                 /\ kind \in ClDay => \A i \in DOMAIN log : log[i] # [kind |-> kind, key |-> key, of |-> of]
<1>1. [kind |-> kind, key |-> key, of |-> of] \in ClEntry
  BY DEF ClEntry
<1>2. QED
  BY <1>1 DEF ClAppend, ClSeen

LEMMA AppendExtends ==
    ASSUME NEW log \in Seq(ClEntry), NEW kind \in ClKinds \ ClWatchdog, NEW key \in ClDigests,
           NEW of \in Nat
    PROVE  Extends(log, ClAppend(log, kind, key, of))
<1> DEFINE e == [kind |-> kind, key |-> key, of |-> of]
<1>1. e \in ClEntry /\ (ClAppend(log, kind, key, of) = log \/ ClAppend(log, kind, key, of) = Append(log, e))
  BY AppendIs
<1>2. Extends(log, log)
  BY DEF Extends
<1>3. Extends(log, Append(log, e))
  BY <1>1 DEF Extends
<1>4. QED
  BY <1>1, <1>2, <1>3

LEMMA CrashLoopExtends ==
    ASSUME NEW log \in Seq(ClEntry) PROVE Extends(log, ClCrashLoop(log))
<1>1. "loop" \in ClKinds \ ClWatchdog /\ "none" \in ClDigests
  BY DEF ClKinds, ClWatchdog, ClDigests
<1>2. Extends(log, ClAppend(log, "loop", "none", 0))
  BY <1>1, AppendExtends
<1>3. Extends(log, log)
  BY DEF Extends
<1>4. QED
  BY <1>2, <1>3 DEF ClCrashLoop

LEMMA ExtendsTwice ==
    ASSUME NEW a \in Seq(ClEntry), NEW b \in Seq(ClEntry), NEW c, Extends(a, b), Extends(b, c)
    PROVE  Extends(a, c)
<1>1. c \in Seq(ClEntry) /\ Len(a) <= Len(c)
  BY DEF Extends
<1>2. \A i \in DOMAIN a : i \in DOMAIN b /\ c[i] = a[i]
  BY DEF Extends
<1>3. ASSUME NEW i \in DOMAIN c, i > Len(a) PROVE c[i].kind \notin ClWatchdog
  <2>1. CASE i <= Len(b)
    BY <1>1, <1>3, <2>1 DEF Extends
  <2>2. CASE i > Len(b)
    BY <1>1, <1>3, <2>2 DEF Extends
  <2>3. QED
    BY <1>1, <2>1, <2>2
<1>4. QED
  BY <1>1, <1>2, <1>3 DEF Extends

----------------------------------------------------------------------------
(* The closed loop *)

\* Every watch is of a delivered event that is no wake of the watchdog, and one that
\* was woken again has its second wake in the log.
WatchWell ==
    \A w \in clWatch :
        /\ w \in [of : Nat, since : Nat, at : {"open", "rewoken", "escalated", "resolved"}]
        /\ w.of \in ClEvents /\ w.of \in clDelivered /\ clLog[w.of].kind \notin ClWatchdog
        /\ w.at = "rewoken" => \E j \in ClEvents : clLog[j].kind = "again" /\ clLog[j].of = w.of
ClRowType == [cls : ClClasses, digest : ClDigests, told : ClClasses, toldOf : ClDigests,
              late : BOOLEAN, missed : BOOLEAN, emissions : Nat]
ClLogged ==
    /\ clLog \in Seq(ClEntry) /\ clDelivered \subseteq ClEvents
    /\ clRow \in ClRowType
ClIInv == ClLogged /\ WatchWell /\ ClInv

\* The bounds of the log: a watchdog entry is of a delivered event.
LEMMA GrownInv ==
    ASSUME ClIInv, Extends(clLog, clLog'), clDelivered \subseteq clDelivered' PROVE ClInv'
<1>1. /\ clLog \in Seq(ClEntry) /\ clLog' \in Seq(ClEntry) /\ Len(clLog) <= Len(clLog')
      /\ \A i \in ClEvents : i \in ClEvents' /\ clLog'[i] = clLog[i]
      /\ \A i \in ClEvents' : clLog'[i].kind \in ClWatchdog => i \in ClEvents
  BY DEF ClIInv, ClLogged, Extends, ClEvents
<1>2. \A i, j \in ClEvents' : clLog'[i].kind \in ClWatchdog /\ clLog'[i] = clLog'[j] => i = j
  BY <1>1 DEF ClIInv, ClInv
<1>3. \A i \in ClEvents' : clLog'[i].kind = "stalled" =>
          \E j \in 1..(i - 1) : clLog'[j].kind = "again" /\ clLog'[j].of = clLog'[i].of
  <2>1. ASSUME NEW i \in ClEvents', clLog'[i].kind = "stalled"
        PROVE  \E j \in 1..(i - 1) : clLog'[j].kind = "again" /\ clLog'[j].of = clLog'[i].of
    <3>1. i \in ClEvents /\ clLog'[i] = clLog[i]
      BY <1>1, <2>1 DEF ClWatchdog
    <3>2. PICK j \in 1..(i - 1) : clLog[j].kind = "again" /\ clLog[j].of = clLog[i].of
      BY <2>1, <3>1 DEF ClIInv, ClInv
    <3>3. j \in ClEvents
      BY <1>1, <3>1, <3>2 DEF ClEvents
    <3>4. QED
      BY <1>1, <3>1, <3>2, <3>3
  <2>2. QED
    BY <2>1
<1>4. \A i \in ClEvents' : clLog'[i].kind \in ClWatchdog =>
          clLog'[i].of \in clDelivered' /\ clLog'[clLog'[i].of].kind \notin ClWatchdog
  BY <1>1 DEF ClIInv, ClInv, ClLogged
<1>5. QED
  BY <1>2, <1>3, <1>4 DEF ClInv

\* A watch that was well stays well when the log grows.
LEMMA GrownWatch ==
    ASSUME ClIInv, Extends(clLog, clLog'), clDelivered \subseteq clDelivered', clWatch' = clWatch
    PROVE  WatchWell'
<1>1. /\ clLog \in Seq(ClEntry) /\ \A i \in ClEvents : i \in ClEvents' /\ clLog'[i] = clLog[i]
  BY DEF ClIInv, ClLogged, Extends, ClEvents
<1>2. QED
  BY <1>1 DEF ClIInv, WatchWell

LEMMA ClassifyIs == ClClassify \in ClClasses /\ ClDigest \in ClDigests
<1>1. ClClassify \in ClClasses
  BY DEF ClClassify, ClClasses
<1>2. ClDigest \in ClDigests
  BY DEF ClDigest, ClDigests
<1>3. QED
  BY <1>1, <1>2

\* What a scan writes of its pane is a row.
LEMMA RowsAre ==
    ASSUME ClLogged, NEW row \in ClRowType, NEW cls \in ClClasses, NEW digest \in ClDigests
    PROVE  /\ ClSeenRow \in ClRowType
           /\ ClToldRow(row, cls, digest) \in ClRowType
           /\ [row EXCEPT !.told = cls, !.toldOf = digest] \in ClRowType
           /\ [row EXCEPT !.toldOf = digest] \in ClRowType
           /\ [row EXCEPT !.cls = cls, !.digest = digest] \in ClRowType
           /\ [row EXCEPT !.missed = TRUE] \in ClRowType
           /\ \A late \in BOOLEAN : [row EXCEPT !.late = late] \in ClRowType
<1>1. ClSeenRow \in ClRowType
  BY ClassifyIs DEF ClSeenRow, ClLogged, ClRowType
<1>2. ClToldRow(row, cls, digest) \in ClRowType
  <2>1. PICK n \in Nat : n = row.emissions + 1
    BY DEF ClRowType
  <2>2. ClToldRow(row, cls, digest) =
            [row EXCEPT !.told = cls, !.toldOf = digest, !.late = FALSE, !.emissions = n]
    BY <2>1 DEF ClToldRow
  <2>3. [row EXCEPT !.told = cls, !.toldOf = digest, !.late = FALSE, !.emissions = n] \in ClRowType
    BY DEF ClRowType
  <2>4. QED
    BY <2>2, <2>3
<1>3. QED
  BY <1>1, <1>2 DEF ClRowType

\* A step that adds to the log no wake of the watchdog and leaves the watches alone.
LEMMA QuietStep ==
    ASSUME ClIInv, Extends(clLog, clLog'), clRow' \in ClRowType, clWatch' = clWatch,
           clDelivered' = clDelivered
    PROVE  ClIInv'
<1>1. ClInv' /\ WatchWell'
  BY GrownInv, GrownWatch
<1>2. clLog' \in Seq(ClEntry) /\ clDelivered' \subseteq ClEvents'
  BY DEF ClIInv, ClLogged, Extends, ClEvents
<1>3. QED
  BY <1>1, <1>2 DEF ClIInv, ClLogged

LEMMA SameLog == ASSUME ClLogged PROVE Extends(clLog, clLog)
BY DEF ClLogged, Extends

LEMMA SeesWorkInv == ASSUME ClIInv, ClSeesWork PROVE ClIInv'
<1>1. "owner" \in ClKinds \ ClWatchdog /\ "none" \in ClDigests /\ "" \in ClClasses
  BY DEF ClKinds, ClWatchdog, ClDigests, ClClasses
<1>2. clLog \in Seq(ClEntry) /\ Len(clLog) \in Nat
  BY DEF ClIInv, ClLogged
<1>3. Extends(clLog, clLog')
  BY <1>1, <1>2, AppendExtends, SameLog DEF ClSeesWork, ClIInv
<1>4. clRow' = [ClSeenRow EXCEPT !.told = "", !.toldOf = "none"]
  BY DEF ClSeesWork
<1>5. ClSeenRow \in ClRowType
  BY <1>1, RowsAre DEF ClIInv, ClLogged
<1>6. clRow' \in ClRowType
  BY <1>1, <1>4, <1>5, RowsAre DEF ClIInv
<1>7. QED
  BY <1>3, <1>6, QuietStep DEF ClSeesWork

LEMMA SeesRestInv == ASSUME ClIInv, ClSeesRest PROVE ClIInv'
<1>1. ClSeenRow \in ClRowType
  BY ClassifyIs, RowsAre DEF ClIInv, ClLogged
<1>2. clRow' \in ClRowType
  BY <1>1, ClassifyIs, RowsAre DEF ClSeesRest, ClIInv
<1>3. QED
  BY <1>2, SameLog, QuietStep DEF ClSeesRest, ClIInv

LEMMA AnnouncesInv == ASSUME ClIInv, NEW stops \in BOOLEAN, ClAnnounces(stops) PROVE ClIInv'
<1>1. ClClassify \in ClKinds \ ClWatchdog /\ ClClassify \in ClClasses /\ ClDigest \in ClDigests
  BY ClassifyIs DEF ClAnnounces, ClKinds, ClClasses, ClWatchdog
<1>2. PICK log : log = ClAppend(clLog, ClClassify, ClDigest, 0)
  OBVIOUS
<1>3. clLog \in Seq(ClEntry)
  BY DEF ClIInv, ClLogged
<1>4. Extends(clLog, log) /\ log \in Seq(ClEntry)
  BY <1>1, <1>2, <1>3, AppendExtends DEF Extends
<1>5. clLog' = log \/ clLog' = ClCrashLoop(log)
  BY <1>2 DEF ClAnnounces
<1>6. Extends(clLog, clLog')
  BY <1>3, <1>4, <1>5, CrashLoopExtends, ExtendsTwice
<1>7. ClSeenRow \in ClRowType
  BY ClassifyIs, RowsAre DEF ClIInv, ClLogged
<1>8. clRow' \in ClRowType
  BY <1>1, <1>7, RowsAre DEF ClAnnounces, ClIInv
<1>9. QED
  BY <1>6, <1>8, QuietStep DEF ClAnnounces

LEMMA MissesInv == ASSUME ClIInv, NEW stops \in BOOLEAN, ClMisses(stops) PROVE ClIInv'
<1>1. "vanished" \in ClKinds \ ClWatchdog /\ "none" \in ClDigests /\ "gone" \in ClDigests /\ "crashed" \in ClClasses
  BY DEF ClKinds, ClWatchdog, ClDigests, ClClasses
<1>2. PICK log : log = ClAppend(clLog, "vanished", "none", 0)
  OBVIOUS
<1>3. clLog \in Seq(ClEntry) /\ clRow \in ClRowType
  BY DEF ClIInv, ClLogged
<1>4. Extends(clLog, log) /\ log \in Seq(ClEntry)
  BY <1>1, <1>2, <1>3, AppendExtends DEF Extends
<1>5. clLog' = clLog \/ clLog' = log \/ clLog' = ClCrashLoop(log)
  BY <1>2 DEF ClMisses
<1>6. Extends(clLog, clLog')
  BY <1>3, <1>4, <1>5, CrashLoopExtends, ExtendsTwice, SameLog DEF ClIInv
<1>7. \/ clRow' = clRow \/ clRow' = [clRow EXCEPT !.missed = TRUE]
      \/ clRow' = ClToldRow([clRow EXCEPT !.cls = "crashed", !.digest = "gone"], "crashed", "gone")
  BY DEF ClMisses
<1>8. [clRow EXCEPT !.cls = "crashed", !.digest = "gone"] \in ClRowType /\ [clRow EXCEPT !.missed = TRUE] \in ClRowType
  BY <1>1, <1>3, RowsAre DEF ClIInv
<1>9. clRow' \in ClRowType
  <2>1. PICK row \in ClRowType : row = [clRow EXCEPT !.cls = "crashed", !.digest = "gone"]
    BY <1>8
  <2>2. ClToldRow(row, "crashed", "gone") \in ClRowType
    BY <1>1, RowsAre DEF ClIInv
  <2>3. QED
    BY <1>3, <1>7, <1>8, <2>1, <2>2
<1>10. QED
  BY <1>6, <1>9, QuietStep DEF ClMisses

\* A delivery is watched unless it is of a wake of the watchdog itself.
LEMMA DeliversInv ==
    ASSUME ClIInv, NEW e \in ClEvents, NEW stops \in BOOLEAN, ClDelivers(e, stops) PROVE ClIInv'
<1>1. clDelivered' = clDelivered \cup {e} /\ UNCHANGED <<clLog, clRow>>
  BY DEF ClDelivers
<1>2. ClInv'
  BY <1>1, SameLog, GrownInv DEF ClIInv
<1>3. ClLogged' /\ ClEvents' = ClEvents
  BY <1>1 DEF ClIInv, ClLogged, ClEvents
<1>4. WatchWell'
  <2>1. clWatch' = clWatch \/
            (clLog[e].kind \notin ClWatchdog /\ clWatch' = clWatch \cup {[of |-> e, since |-> Len(clLog), at |-> "open"]})
    BY DEF ClDelivers
  <2>2. Len(clLog) \in Nat /\ e \in Nat
    BY DEF ClIInv, ClLogged, ClEvents
  <2>3. ASSUME NEW w \in clWatch'
        PROVE  /\ w \in [of : Nat, since : Nat, at : {"open", "rewoken", "escalated", "resolved"}]
               /\ w.of \in ClEvents /\ w.of \in clDelivered' /\ clLog[w.of].kind \notin ClWatchdog
               /\ w.at = "rewoken" => \E j \in ClEvents : clLog[j].kind = "again" /\ clLog[j].of = w.of
    <3>1. CASE w \in clWatch
      BY <1>1, <3>1 DEF ClIInv, WatchWell
    <3>2. CASE w \notin clWatch
      <4>1. w = [of |-> e, since |-> Len(clLog), at |-> "open"] /\ clLog[e].kind \notin ClWatchdog
        BY <2>1, <2>3, <3>2
      <4>2. QED
        BY <1>1, <2>2, <4>1
    <3>3. QED
      BY <3>1, <3>2
  <2>4. QED
    BY <1>1, <1>3, <2>3 DEF WatchWell
<1>5. QED
  BY <1>2, <1>3, <1>4 DEF ClIInv

\* A watch that ends, or is woken again with its wake in the log, is well.
LEMMA BecomesWell ==
    ASSUME ClIInv, NEW w \in clWatch, NEW at \in {"rewoken", "escalated", "resolved"}, ClBecomes(w, at),
           clLog' \in Seq(ClEntry), Len(clLog) <= Len(clLog'), \A i \in ClEvents : clLog'[i] = clLog[i],
           clDelivered' = clDelivered,
           at = "rewoken" => \E j \in ClEvents' : clLog'[j].kind = "again" /\ clLog'[j].of = w.of
    PROVE  WatchWell'
<1>1. ClEvents \subseteq ClEvents'
  BY DEF ClIInv, ClLogged, ClEvents
<1>2. ASSUME NEW v \in clWatch'
      PROVE  /\ v \in [of : Nat, since : Nat, at : {"open", "rewoken", "escalated", "resolved"}]
             /\ v.of \in ClEvents' /\ v.of \in clDelivered' /\ clLog'[v.of].kind \notin ClWatchdog
             /\ v.at = "rewoken" => \E j \in ClEvents' : clLog'[j].kind = "again" /\ clLog'[j].of = v.of
  <2>1. CASE v \in clWatch
    BY <1>1, <2>1 DEF ClIInv, WatchWell
  <2>2. CASE v \notin clWatch
    <3>1. v = [w EXCEPT !.at = at]
      BY <1>2, <2>2 DEF ClBecomes
    <3>2. /\ w \in [of : Nat, since : Nat, at : {"open", "rewoken", "escalated", "resolved"}]
          /\ w.of \in ClEvents /\ w.of \in clDelivered /\ clLog[w.of].kind \notin ClWatchdog
      BY DEF ClIInv, WatchWell
    <3>3. v \in [of : Nat, since : Nat, at : {"open", "rewoken", "escalated", "resolved"}]
          /\ v.of = w.of /\ v.at = at
      BY <3>1, <3>2
    <3>4. QED
      BY <1>1, <3>2, <3>3
  <2>3. QED
    BY <2>1, <2>2
<1>3. QED
  BY <1>2 DEF WatchWell

LEMMA ResolvesInv == ASSUME ClIInv, NEW w \in clWatch, ClResolves(w) PROVE ClIInv'
<1>1. UNCHANGED <<clLog, clRow, clDelivered>> /\ ClBecomes(w, "resolved")
  BY DEF ClResolves
<1>2. ClInv' /\ ClLogged' /\ ClEvents' = ClEvents
  BY <1>1, SameLog, GrownInv DEF ClIInv, ClLogged, ClEvents
<1>3. clLog' \in Seq(ClEntry) /\ Len(clLog) <= Len(clLog') /\ \A i \in ClEvents : clLog'[i] = clLog[i]
  BY <1>1 DEF ClIInv, ClLogged
<1>4. WatchWell'
  BY <1>1, <1>3, BecomesWell
<1>5. QED
  BY <1>2, <1>4 DEF ClIInv

LEMMA WakesAgainInv ==
    ASSUME ClIInv, NEW w \in clWatch, NEW stops \in BOOLEAN, ClWakesAgain(w, stops) PROVE ClIInv'
<1> DEFINE kind == IF w.at = "open" THEN "again" ELSE "stalled"
           e == [kind |-> kind, key |-> "none", of |-> w.of]
<1>1. /\ w.at \in {"open", "rewoken"} /\ w.of \in Nat /\ w.of \in ClEvents
      /\ w.of \in clDelivered /\ clLog[w.of].kind \notin ClWatchdog
      /\ w.at = "rewoken" => \E j \in ClEvents : clLog[j].kind = "again" /\ clLog[j].of = w.of
  BY DEF ClIInv, WatchWell, ClWakesAgain, ClOpen
<1>2. /\ kind \in ClKinds /\ kind \in ClDay /\ "none" \in ClDigests
      /\ kind = "stalled" => w.at = "rewoken"
      /\ w.at = "open" <=> kind = "again"
  BY <1>1 DEF ClKinds, ClDay, ClDigests
<1>3. clLog \in Seq(ClEntry) /\ clLog' = ClAppend(clLog, kind, "none", w.of)
      /\ clDelivered' = clDelivered /\ clRow' = clRow
  BY DEF ClIInv, ClLogged, ClWakesAgain
<1>4. clWatch' = clWatch \/ ClBecomes(w, IF w.at = "open" THEN "rewoken" ELSE "escalated")
  BY DEF ClWakesAgain
<1> HIDE DEF kind
<1>5. /\ e \in ClEntry
      /\ \/ clLog' = clLog /\ \E i \in ClEvents : clLog[i] = e
         \/ clLog' = Append(clLog, e) /\ \A i \in ClEvents : clLog[i] # e
  BY <1>1, <1>2, <1>3, AppendIs DEF ClEvents
<1>6. /\ clLog' \in Seq(ClEntry) /\ Len(clLog) <= Len(clLog')
      /\ \A i \in ClEvents : clLog'[i] = clLog[i]
      /\ \E i \in ClEvents' : clLog'[i] = e
  BY <1>3, <1>5 DEF ClEvents
<1>7. WatchWell'
  <2>1. CASE clWatch' = clWatch
    <3>1. ClEvents \subseteq ClEvents'
      BY <1>3, <1>6 DEF ClEvents
    <3>2. QED
      BY <1>3, <1>6, <2>1, <3>1 DEF ClIInv, WatchWell
  <2>2. CASE ClBecomes(w, "rewoken") /\ w.at = "open"
    <3>1. \E j \in ClEvents' : clLog'[j].kind = "again" /\ clLog'[j].of = w.of
      BY <1>2, <1>6, <2>2
    <3>2. QED
      BY <1>3, <1>6, <2>2, <3>1, BecomesWell
  <2>3. CASE ClBecomes(w, "escalated")
    BY <1>3, <1>6, <2>3, BecomesWell
  <2>4. QED
    BY <1>4, <2>1, <2>2, <2>3
<1>8. ClInv'
  <2>1. CASE clLog' = clLog
    BY <1>3, <2>1, SameLog, GrownInv DEF ClIInv
  <2>2. CASE clLog' = Append(clLog, e) /\ \A i \in ClEvents : clLog[i] # e
    <3> DEFINE n == Len(clLog) + 1
    <3>1. /\ ClEvents' = ClEvents \cup {n} /\ n \notin ClEvents /\ clLog'[n] = e
          /\ \A i \in ClEvents : clLog'[i] = clLog[i]
          /\ ClEvents = 1..(n - 1) /\ n \in Nat
      <4>1. Len(clLog) \in Nat /\ ClEvents = 1..Len(clLog) /\ e \in ClEntry
        BY <1>3, <1>5 DEF ClEvents
      <4>2. ClEvents' = 1..n /\ clLog'[n] = e /\ \A i \in ClEvents : clLog'[i] = clLog[i]
        BY <1>3, <2>2, <4>1 DEF ClEvents
      <4>3. QED
        BY <4>1, <4>2
    <3> HIDE DEF n
    <3>2. ASSUME NEW i \in ClEvents', NEW j \in ClEvents',
                 clLog'[i].kind \in ClWatchdog, clLog'[i] = clLog'[j]
          PROVE  i = j
      <4>1. CASE i \in ClEvents /\ j \in ClEvents
        <5>1. clLog'[i] = clLog[i] /\ clLog'[j] = clLog[j]
          BY <3>1, <4>1
        <5>2. QED
          BY <3>2, <4>1, <5>1 DEF ClIInv, ClInv
      <4>2. CASE i = n \/ j = n
        BY <2>2, <3>1, <3>2, <4>2
      <4>3. QED
        BY <3>1, <4>1, <4>2
    <3>3. ASSUME NEW i \in ClEvents', clLog'[i].kind = "stalled"
          PROVE  \E j \in 1..(i - 1) : clLog'[j].kind = "again" /\ clLog'[j].of = clLog'[i].of
      <4>1. CASE i = n
        <5>1. w.at = "rewoken" /\ clLog'[i].of = w.of
          BY <1>2, <3>1, <3>3, <4>1
        <5>2. PICK j \in ClEvents : clLog[j].kind = "again" /\ clLog[j].of = w.of
          BY <1>1, <5>1
        <5>3. QED
          BY <3>1, <4>1, <5>1, <5>2
      <4>2. CASE i # n
        <5>1. i \in ClEvents /\ clLog[i].kind = "stalled"
          BY <3>1, <3>3, <4>2
        <5>2. PICK j \in 1..(i - 1) : clLog[j].kind = "again" /\ clLog[j].of = clLog[i].of
          BY <5>1 DEF ClIInv, ClInv
        <5>3. j \in ClEvents
          BY <3>1, <5>1, <5>2
        <5>4. QED
          BY <3>1, <5>1, <5>2, <5>3
      <4>3. QED
        BY <4>1, <4>2
    <3>4. ASSUME NEW i \in ClEvents', clLog'[i].kind \in ClWatchdog
          PROVE  clLog'[i].of \in clDelivered' /\ clLog'[clLog'[i].of].kind \notin ClWatchdog
      <4>1. CASE i = n
        BY <1>1, <1>3, <3>1, <4>1
      <4>2. CASE i # n
        <5>1. i \in ClEvents /\ clLog[i].kind \in ClWatchdog
          BY <3>1, <3>4, <4>2
        <5>2. clLog[i].of \in clDelivered /\ clLog[i].of \in ClEvents /\ clLog[clLog[i].of].kind \notin ClWatchdog
          BY <5>1 DEF ClIInv, ClInv, ClLogged
        <5>3. QED
          BY <1>3, <3>1, <5>1, <5>2
      <4>3. QED
        BY <4>1, <4>2
    <3>5. QED
      BY <3>2, <3>3, <3>4 DEF ClInv
  <2>3. QED
    BY <1>5, <2>1, <2>2
<1>9. ClLogged'
  BY <1>3, <1>6 DEF ClIInv, ClLogged, ClEvents
<1>10. QED
  BY <1>7, <1>8, <1>9 DEF ClIInv

LEMMA ClStep == ClIInv /\ [ClNext]_ClVars => ClIInv'
<1>1. ASSUME ClIInv, UNCHANGED <<clLog, clDelivered, clWatch>>, clRow' \in ClRowType PROVE ClIInv'
  BY <1>1, SameLog, QuietStep DEF ClIInv
<1>2. ASSUME ClIInv, UNCHANGED ClVars PROVE ClIInv'
  BY <1>1, <1>2 DEF ClVars, ClStore, ClIInv, ClLogged
<1>3. ASSUME ClIInv, ClNext PROVE ClIInv'
  <2>1. CASE ClWatchStep
    BY <1>3, <2>1, SeesWorkInv, SeesRestInv, AnnouncesInv, MissesInv DEF ClWatchStep
  <2>2. CASE ClPaneMoves \/ ClSuppresses \/ ClUnmutes
    BY <1>1, <1>3, <2>2 DEF ClPaneMoves, ClSuppresses, ClUnmutes, ClStore, ClIInv, ClLogged
  <2>3. CASE ClHourPasses
    <3>1. PICK late \in BOOLEAN : clRow' = [clRow EXCEPT !.late = late]
      BY <1>3, <2>3 DEF ClHourPasses, ClIInv, ClLogged, ClRowType
    <3>2. clRow' \in ClRowType
      BY <1>3, <3>1 DEF ClIInv, ClLogged, ClRowType
    <3>3. QED
      BY <1>1, <1>3, <2>3, <3>2 DEF ClHourPasses
  <2>4. ASSUME NEW e \in ClEvents, NEW s \in BOOLEAN, ClDelivers(e, s) PROVE ClIInv'
    BY <1>3, <2>4, DeliversInv
  <2>5. ASSUME NEW e \in ClEvents, ClDismisses(e) PROVE ClIInv'
    BY <1>1, <1>3, <2>5 DEF ClDismisses, ClIInv, ClLogged
  <2>6. ASSUME NEW e \in ClEvents, ClSlo(e) PROVE ClIInv'
    BY <1>3, <2>6, ResolvesInv, WakesAgainInv DEF ClSlo
  <2>7. QED
    BY <1>3, <2>1, <2>2, <2>3, <2>4, <2>5, <2>6 DEF ClNext
<1>4. QED
  BY <1>2, <1>3

\* A delivered wake is followed by at most one more wake and one escalation, in this
\* order, and no wake of the watchdog is watched: for any number of moves of the agent,
\* of hours, of questions and of stops of the companion.
THEOREM ChainEnds == ClSpec => []ClInv
<1>1. ClInit => ClIInv
  <2>1. ASSUME ClInit PROVE ClIInv
    <3>1. clLog = <<>> /\ clDelivered = {} /\ clWatch = {} /\ ClEvents = {}
      <4>1. clLog = <<>> /\ clDelivered = {} /\ clWatch = {}
        BY <2>1 DEF ClInit
      <4>2. clLog \in Seq(ClEntry) /\ Len(clLog) = 0
        BY <4>1
      <4>3. QED
        BY <4>1, <4>2 DEF ClEvents
    <3>2. clRow \in ClRowType
      BY <2>1 DEF ClInit, ClRowType, ClClasses, ClDigests
    <3>3. QED
      BY <3>1, <3>2 DEF ClIInv, ClLogged, WatchWell, ClInv
  <2>2. QED
    BY <2>1
<1>2. ClIInv => ClInv
  BY DEF ClIInv
<1>3. QED
  BY <1>1, <1>2, ClStep, PTL DEF ClSpec

----------------------------------------------------------------------------
(* The types of the closed loop *)

\* The pane shows what the next scan announces, muted or not.
NewsDue ==
    \/ clPane = "crash" /\ clRow.told # "crashed"
    \/ clPane \in ClPrompts /\ (clRow.told # "owner_prompt" \/ clRow.late)
    \/ clPane = "done" /\ clRow.cls = "working"
    \/ clPane = "gone" /\ clRow.cls \in {"working", "owner_prompt"}

\* Every announcement is of a move of the agent or of an hour that passed, and of one
\* that was not announced yet.
NewsIsMade == clRow.emissions + (IF NewsDue THEN 1 ELSE 0) <= clCount.moves + clCount.hours

ClInstance ==
    /\ clCast \in ClCasts /\ clPane \in clCast.panes /\ clMute \in BOOLEAN
    /\ clCount \in [moves : 0..clCast.moves, hours : 0..clCast.hours, crashes : 0..clCast.crashes]
\* What the log is pointed at from.
ClPointers ==
    /\ \A i \in ClEvents : clLog[i].of \in 0..Len(clLog)
    /\ clOld \in 0..Len(clLog)
    /\ clInvalid \cup clOwners \subseteq ClEvents
    /\ \A w \in clWatch : w.since \in ClEvents
ClTIInv == ClIInv /\ ClInstance /\ ClPointers /\ NewsIsMade

LEMMA BoundsAre ==
    ASSUME ClTIInv
    PROVE  /\ clCast.moves \in Nat /\ clCast.hours \in Nat /\ clCast.crashes \in Nat
           /\ clCast.panes \subseteq ClPanes
BY ClAssumption DEF ClTIInv, ClInstance

\* What a scan sees of a pane, by the pane.
LEMMA SeenIs ==
    /\ clPane = "work" => ClClassify = "working"
    /\ clPane = "crash" => ClClassify = "crashed" /\ ClDigest = "gone"
    /\ clPane \in ClPrompts => ClClassify = "owner_prompt" /\ ClDigest = clPane
    /\ clPane = "done" => ClClassify = IF clRow.cls = "working" THEN "completed" ELSE "idle"
    /\ clPane = "quiet" => ClClassify \in {"working", "idle"}
<1>1. /\ "work" \notin ClPrompts /\ "crash" \notin ClPrompts /\ "done" \notin ClPrompts
      /\ "quiet" \notin ClPrompts /\ "gone" \notin ClPrompts
  BY ClAssumption
<1>2. clPane = "work" => ClClassify = "working"
  BY <1>1 DEF ClClassify
<1>3. clPane = "crash" => ClClassify = "crashed" /\ ClDigest = "gone"
  BY <1>1 DEF ClClassify, ClDigest
<1>4. clPane \in ClPrompts => ClClassify = "owner_prompt" /\ ClDigest = clPane
  BY <1>1 DEF ClClassify, ClDigest
<1>5. clPane = "done" => ClClassify = IF clRow.cls = "working" THEN "completed" ELSE "idle"
  BY <1>1 DEF ClClassify
<1>6. clPane = "quiet" => ClClassify \in {"working", "idle"}
  BY <1>1 DEF ClClassify
<1>7. QED
  BY <1>2, <1>3, <1>4, <1>5, <1>6

LEMMA SeenRowIs ==
    ASSUME ClTIInv
    PROVE  /\ ClSeenRow.cls = ClClassify /\ ClSeenRow.told = clRow.told /\ ClSeenRow.late = clRow.late
           /\ ClSeenRow.emissions = clRow.emissions /\ ClSeenRow \in ClRowType
<1>1. ClSeenRow \in ClRowType
  BY ClassifyIs, RowsAre DEF ClTIInv, ClIInv, ClLogged
<1>2. QED
  BY <1>1 DEF ClSeenRow, ClTIInv, ClIInv, ClLogged, ClRowType

LEMMA ToldRowIs ==
    ASSUME NEW row \in ClRowType, NEW cls \in ClClasses, NEW digest \in ClDigests,
           NEW told, told = ClToldRow(row, cls, digest)
    PROVE  /\ told.cls = row.cls /\ told.told = cls /\ ~told.late
           /\ told.emissions = row.emissions + 1
<1>1. PICK n \in Nat : n = row.emissions + 1
  BY DEF ClRowType
<1>2. told = [row EXCEPT !.told = cls, !.toldOf = digest, !.late = FALSE, !.emissions = n]
  BY <1>1 DEF ClToldRow
<1>3. QED
  BY <1>1, <1>2 DEF ClRowType

\* The count of a stop changes neither the moves nor the hours.
LEMMA StopsIs ==
    ASSUME ClTIInv, NEW stops \in BOOLEAN, ClMayStop(stops), ClStops(stops)
    PROVE  /\ clCount'.moves = clCount.moves /\ clCount'.hours = clCount.hours
           /\ clCount' \in [moves : 0..clCast.moves, hours : 0..clCast.hours, crashes : 0..clCast.crashes]
<1>1. PICK n \in 0..clCast.crashes : n = clCount.crashes + (IF stops THEN 1 ELSE 0)
  BY BoundsAre DEF ClTIInv, ClInstance, ClMayStop
<1>2. clCount' = [clCount EXCEPT !.crashes = n]
  BY <1>1 DEF ClStops
<1>3. QED
  BY <1>1, <1>2 DEF ClTIInv, ClInstance

LEMMA MovedIs ==
    ASSUME ClTIInv, ClMoved
    PROVE  /\ clCount'.moves = clCount.moves + 1 /\ clCount'.hours = clCount.hours
           /\ clCount' \in [moves : 0..clCast.moves, hours : 0..clCast.hours, crashes : 0..clCast.crashes]
<1>1. PICK n \in 0..clCast.moves : n = clCount.moves + 1
  BY BoundsAre DEF ClTIInv, ClInstance, ClMoved
<1>2. clCount' = [clCount EXCEPT !.moves = n]
  BY <1>1 DEF ClMoved
<1>3. QED
  BY <1>1, <1>2 DEF ClTIInv, ClInstance

LEMMA HourIs ==
    ASSUME ClTIInv, ClHourPasses
    PROVE  /\ clCount'.moves = clCount.moves /\ clCount'.hours = clCount.hours + 1
           /\ clCount' \in [moves : 0..clCast.moves, hours : 0..clCast.hours, crashes : 0..clCast.crashes]
<1>1. PICK n \in 0..clCast.hours : n = clCount.hours + 1
  BY BoundsAre DEF ClTIInv, ClInstance, ClHourPasses
<1>2. clCount' = [clCount EXCEPT !.hours = n]
  BY <1>1 DEF ClHourPasses
<1>3. QED
  BY <1>1, <1>2 DEF ClTIInv, ClInstance

LEMMA NewsNumbers ==
    ASSUME ClTIInv PROVE clRow.emissions \in Nat /\ clCount.moves \in Nat /\ clCount.hours \in Nat
BY BoundsAre DEF ClTIInv, ClIInv, ClLogged, ClRowType, ClInstance

\* Nothing is announced, and no news comes up.
LEMMA NoNews ==
    ASSUME ClTIInv, clRow'.emissions = clRow.emissions, NewsDue' => NewsDue,
           clCount'.moves = clCount.moves, clCount'.hours = clCount.hours
    PROVE  NewsIsMade'
BY NewsNumbers DEF ClTIInv, NewsIsMade

\* Nothing is announced; a move or an hour may have brought news.
LEMMA MoreNews ==
    ASSUME ClTIInv, clRow'.emissions = clRow.emissions,
           clCount'.moves \in Nat, clCount'.hours \in Nat,
           clCount'.moves + clCount'.hours = clCount.moves + clCount.hours + 1
    PROVE  NewsIsMade'
BY NewsNumbers DEF ClTIInv, NewsIsMade

\* What is announced was due, and is due no more.
LEMMA NewsTold ==
    ASSUME ClTIInv, clRow'.emissions = clRow.emissions + 1, NewsDue, ~NewsDue',
           clCount'.moves = clCount.moves, clCount'.hours = clCount.hours
    PROVE  NewsIsMade'
BY NewsNumbers DEF ClTIInv, NewsIsMade

LEMMA NewsAtRest == ASSUME ClTIInv, ClSeesRest PROVE NewsIsMade'
<1>1. clRow'.cls = ClClassify /\ clRow'.told = clRow.told /\ clRow'.late = clRow.late
      /\ clRow'.emissions = clRow.emissions
  BY SeenRowIs DEF ClSeesRest, ClRowType
<1>2. clPane' = clPane /\ clCount' = clCount /\ clPane # "gone"
      /\ (ClClassify = "idle" \/ (ClClassify # "working" /\ ClTold))
  BY DEF ClSeesRest
<1>3. ~NewsDue'
  <2>1. CASE clPane = "crash"
    BY <1>1, <1>2, <2>1, SeenIs, ClAssumption DEF NewsDue, ClTold
  <2>2. CASE clPane \in ClPrompts
    BY <1>1, <1>2, <2>2, SeenIs, ClAssumption DEF NewsDue, ClTold
  <2>3. CASE clPane \notin ClPrompts \cup {"crash"}
    BY <1>1, <1>2, <2>3, SeenIs DEF NewsDue
  <2>4. QED
    BY <2>1, <2>2, <2>3
<1>4. QED
  BY <1>1, <1>2, <1>3, NoNews

LEMMA NewsAtWork == ASSUME ClTIInv, ClSeesWork PROVE NewsIsMade'
<1>1. clRow'.emissions = clRow.emissions
  BY SeenRowIs DEF ClSeesWork, ClRowType
<1>2. clPane' = clPane /\ clCount' = clCount /\ clPane # "gone" /\ ClClassify = "working"
  BY DEF ClSeesWork
<1>3. clPane \notin ClPrompts \cup {"crash", "done"}
  BY <1>2, SeenIs
<1>4. ~NewsDue'
  BY <1>2, <1>3 DEF NewsDue
<1>5. QED
  BY <1>1, <1>2, <1>4, NoNews

LEMMA NewsAnnounced == ASSUME ClTIInv, NEW stops \in BOOLEAN, ClAnnounces(stops) PROVE NewsIsMade'
<1>1. /\ clPane' = clPane /\ clPane # "gone" /\ ClMayStop(stops) /\ ClStops(stops)
      /\ ClClassify \in {"owner_prompt", "completed", "crashed"} /\ ~ClTold
  BY DEF ClAnnounces
<1>2. clCount'.moves = clCount.moves /\ clCount'.hours = clCount.hours
  BY <1>1, StopsIs
<1>3. clPane \in clCast.panes /\ clPane \in ClPanes /\ clPane \in ClPrompts \cup {"crash", "done"}
  BY <1>1, SeenIs, BoundsAre DEF ClTIInv, ClInstance, ClPanes
<1>4. clRow.cls = "working" \/ clPane # "done"
  BY <1>1, SeenIs
<1>5. CASE stops
  <2>1. clRow' = ClSeenRow
    BY <1>5 DEF ClAnnounces
  <2>2. NewsDue' => NewsDue
    BY <1>1, <1>3, <1>4, <2>1, SeenRowIs DEF NewsDue
  <2>3. QED
    BY <1>2, <2>1, <2>2, SeenRowIs, NoNews
<1>6. CASE ~stops
  <2>1. clRow' = ClToldRow(ClSeenRow, ClClassify, ClDigest)
    BY <1>6 DEF ClAnnounces
  <2>2. /\ clRow'.cls = ClClassify /\ clRow'.told = ClClassify /\ clRow'.late = FALSE
        /\ clRow'.emissions = clRow.emissions + 1
    <3>1. ClClassify \in ClClasses /\ ClDigest \in ClDigests
      BY ClassifyIs
    <3>2. PICK row \in ClRowType : row = ClSeenRow
      BY SeenRowIs
    <3>3. PICK told : told = clRow' /\ told = ClToldRow(row, ClClassify, ClDigest)
      BY <2>1, <3>2
    <3>4. told.cls = row.cls /\ told.told = ClClassify /\ ~told.late /\ told.emissions = row.emissions + 1
      BY <3>1, <3>3, ToldRowIs
    <3>5. QED
      BY <3>2, <3>3, <3>4, SeenRowIs
  <2>3. NewsDue
    <3>1. CASE clPane = "crash"
      BY <1>1, <3>1, SeenIs DEF NewsDue, ClTold
    <3>2. CASE clPane \in ClPrompts
      <4>1. ClClassify = "owner_prompt" /\ ~ClTold
        BY <1>1, <3>2, SeenIs
      <4>2. clRow.told = "owner_prompt" => clRow.late \/ (clRow.toldOf # ClDigest /\ ~ClAdopts)
        BY <4>1 DEF ClTold
      <4>3. QED
        BY <3>2, <4>1, <4>2 DEF NewsDue, ClAdopts
    <3>3. CASE clPane = "done"
      BY <1>4, <3>3 DEF NewsDue
    <3>4. QED
      BY <1>3, <3>1, <3>2, <3>3
  <2>4. ~NewsDue'
    <3>1. clPane = "crash" => ClClassify = "crashed"
      BY SeenIs
    <3>2. clPane \in ClPrompts => ClClassify = "owner_prompt"
      BY SeenIs
    <3>3. ClClassify # "working"
      BY <1>1
    <3>4. QED
      BY <1>1, <2>2, <3>1, <3>2, <3>3 DEF NewsDue
  <2>5. QED
    BY <1>2, <2>2, <2>3, <2>4, NewsTold
<1>7. QED
  BY <1>5, <1>6

LEMMA NewsOfTheGone == ASSUME ClTIInv, NEW stops \in BOOLEAN, ClMisses(stops) PROVE NewsIsMade'
<1>1. /\ clPane' = clPane /\ clPane = "gone" /\ ClMayStop(stops) /\ ClStops(stops)
      /\ clRow.cls \in {"working", "owner_prompt"}
  BY DEF ClMisses
<1>2. clCount'.moves = clCount.moves /\ clCount'.hours = clCount.hours
  BY <1>1, StopsIs
<1>3. NewsDue /\ clPane \notin ClPrompts
  BY <1>1, ClAssumption DEF NewsDue
<1>4. clRow \in ClRowType
  BY DEF ClTIInv, ClIInv, ClLogged
<1>5. \/ clRow' = clRow \/ clRow' = [clRow EXCEPT !.missed = TRUE]
      \/ clRow' = ClToldRow([clRow EXCEPT !.cls = "crashed", !.digest = "gone"], "crashed", "gone")
  BY DEF ClMisses
<1>6. CASE clRow' = clRow \/ clRow' = [clRow EXCEPT !.missed = TRUE]
  <2>1. clRow'.emissions = clRow.emissions
    BY <1>4, <1>6 DEF ClRowType
  <2>2. QED
    BY <1>2, <1>3, <2>1, NoNews
<1>7. CASE clRow' = ClToldRow([clRow EXCEPT !.cls = "crashed", !.digest = "gone"], "crashed", "gone")
  <2>1. "gone" \in ClDigests /\ "crashed" \in ClClasses
    BY DEF ClDigests, ClClasses
  <2>2. PICK row \in ClRowType : row = [clRow EXCEPT !.cls = "crashed", !.digest = "gone"]
    BY <1>4, <2>1, RowsAre DEF ClTIInv, ClIInv
  <2>3. row.cls = "crashed" /\ row.emissions = clRow.emissions
    BY <1>4, <2>2 DEF ClRowType
  <2>4. clRow'.cls = "crashed" /\ clRow'.emissions = clRow.emissions + 1
    <3>1. PICK told : told = clRow' /\ told = ClToldRow(row, "crashed", "gone")
      BY <1>7, <2>2
    <3>2. told.cls = row.cls /\ told.emissions = row.emissions + 1
      BY <2>1, <3>1, ToldRowIs
    <3>3. QED
      BY <2>3, <3>1, <3>2
  <2>5. ~NewsDue'
    BY <1>1, <1>3, <2>4 DEF NewsDue
  <2>6. QED
    BY <1>2, <1>3, <2>4, <2>5, NewsTold
<1>8. QED
  BY <1>5, <1>6, <1>7

LEMMA NewsStep == ASSUME ClTIInv, ClNext PROVE NewsIsMade'
<1>1. CASE ClWatchStep
  BY <1>1, NewsAtRest, NewsAtWork, NewsAnnounced, NewsOfTheGone DEF ClWatchStep
<1>2. ASSUME ClMoved, UNCHANGED clRow PROVE NewsIsMade'
  <2>1. clCount'.moves = clCount.moves + 1 /\ clCount'.hours = clCount.hours
    BY <1>2, MovedIs
  <2>2. QED
    BY <1>2, <2>1, NewsNumbers, MoreNews
<1>3. CASE ClPaneMoves \/ ClSuppresses
  BY <1>2, <1>3 DEF ClPaneMoves, ClSuppresses, ClStore
<1>4. CASE ClUnmutes
  BY <1>4, NoNews DEF ClUnmutes, ClStore, NewsDue
<1>5. CASE ClHourPasses
  <2>1. clCount'.moves = clCount.moves /\ clCount'.hours = clCount.hours + 1
    BY <1>5, HourIs
  <2>2. clRow'.emissions = clRow.emissions
    BY <1>5 DEF ClHourPasses, ClTIInv, ClIInv, ClLogged, ClRowType
  <2>3. QED
    BY <2>1, <2>2, NewsNumbers, MoreNews
<1>6. ASSUME NEW e \in ClEvents, NEW s \in BOOLEAN, ClDelivers(e, s) PROVE NewsIsMade'
  <2>1. clCount'.moves = clCount.moves /\ clCount'.hours = clCount.hours
    BY <1>6, StopsIs DEF ClDelivers
  <2>2. UNCHANGED <<clRow, clPane>>
    BY <1>6 DEF ClDelivers
  <2>3. QED
    BY <2>1, <2>2, NoNews DEF NewsDue
<1>7. ASSUME NEW e \in ClEvents, ClDismisses(e) PROVE NewsIsMade'
  BY <1>2, <1>7 DEF ClDismisses
<1>8. ASSUME NEW w \in clWatch, ClResolves(w) PROVE NewsIsMade'
  BY <1>8, NoNews DEF ClResolves, NewsDue
<1>9. ASSUME NEW w \in clWatch, NEW s \in BOOLEAN, ClWakesAgain(w, s) PROVE NewsIsMade'
  <2>1. clCount'.moves = clCount.moves /\ clCount'.hours = clCount.hours
    BY <1>9, StopsIs DEF ClWakesAgain
  <2>2. UNCHANGED <<clRow, clPane>>
    BY <1>9 DEF ClWakesAgain
  <2>3. QED
    BY <2>1, <2>2, NoNews DEF NewsDue
<1>10. QED
  BY <1>1, <1>3, <1>4, <1>5, <1>6, <1>7, <1>8, <1>9 DEF ClNext, ClSlo

LEMMA InstanceStep == ASSUME ClTIInv, ClNext PROVE ClInstance'
<1>1. clCast \in ClCasts /\ clPane \in clCast.panes /\ clMute \in BOOLEAN
      /\ clCount \in [moves : 0..clCast.moves, hours : 0..clCast.hours, crashes : 0..clCast.crashes]
  BY DEF ClTIInv, ClInstance
<1>2. CASE ClPaneMoves \/ ClSuppresses \/ ClUnmutes
  BY <1>1, <1>2, MovedIs DEF ClPaneMoves, ClSuppresses, ClUnmutes, ClInstance
<1>3. CASE ClSeesWork \/ ClSeesRest
  BY <1>1, <1>3 DEF ClSeesWork, ClSeesRest, ClInstance
<1>4. ASSUME NEW s \in BOOLEAN, ClAnnounces(s) \/ ClMisses(s) PROVE ClInstance'
  BY <1>1, <1>4, StopsIs DEF ClAnnounces, ClMisses, ClInstance
<1>5. CASE ClHourPasses
  BY <1>1, <1>5, HourIs DEF ClHourPasses, ClInstance
<1>6. ASSUME NEW e \in ClEvents, NEW s \in BOOLEAN, ClDelivers(e, s) PROVE ClInstance'
  BY <1>1, <1>6, StopsIs DEF ClDelivers, ClInstance
<1>7. ASSUME NEW e \in ClEvents, ClDismisses(e) PROVE ClInstance'
  BY <1>1, <1>7, MovedIs DEF ClDismisses, ClInstance
<1>8. ASSUME NEW w \in clWatch, ClResolves(w) PROVE ClInstance'
  BY <1>1, <1>8 DEF ClResolves, ClInstance
<1>9. ASSUME NEW w \in clWatch, NEW s \in BOOLEAN, ClWakesAgain(w, s) PROVE ClInstance'
  BY <1>1, <1>9, StopsIs DEF ClWakesAgain, ClInstance
<1>10. QED
  BY <1>2, <1>3, <1>4, <1>5, <1>6, <1>7, <1>8, <1>9 DEF ClNext, ClSlo, ClWatchStep

\* A log that another one is no shorter than, and whose entries point into it.
Pointed(log) == log \in Seq(ClEntry) /\ \A i \in DOMAIN log : log[i].of \in 0..Len(log)
Longer(a, b) == Pointed(b) /\ Len(a) <= Len(b)

LEMMA AppendPoints ==
    ASSUME NEW log, Pointed(log), NEW kind \in ClKinds, NEW key \in ClDigests, NEW of \in 0..Len(log)
    PROVE  Longer(log, ClAppend(log, kind, key, of))
<1> DEFINE e == [kind |-> kind, key |-> key, of |-> of]
<1>1. of \in Nat /\ log \in Seq(ClEntry)
  BY DEF Pointed
<1>2. e \in ClEntry /\ e.of = of /\ (ClAppend(log, kind, key, of) = log \/ ClAppend(log, kind, key, of) = Append(log, e))
  BY <1>1, AppendIs
<1>3. Longer(log, log)
  BY DEF Longer, Pointed
<1>4. Longer(log, Append(log, e))
  <2>1. Append(log, e) \in Seq(ClEntry) /\ Len(Append(log, e)) = Len(log) + 1 /\ Len(log) \in Nat
    BY <1>1, <1>2
  <2>2. \A i \in DOMAIN Append(log, e) : Append(log, e)[i].of \in 0..Len(log)
    BY <1>1, <1>2 DEF Pointed
  <2>3. QED
    BY <2>1, <2>2 DEF Longer, Pointed
<1>5. QED
  BY <1>2, <1>3, <1>4

LEMMA CrashLoopPoints == ASSUME NEW log, Pointed(log) PROVE Longer(log, ClCrashLoop(log))
<1>1. "loop" \in ClKinds /\ "none" \in ClDigests /\ 0 \in 0..Len(log)
  BY DEF ClKinds, ClDigests, Pointed
<1>2. Longer(log, ClAppend(log, "loop", "none", 0))
  BY <1>1, AppendPoints
<1>3. Longer(log, log)
  BY DEF Longer, Pointed
<1>4. QED
  BY <1>2, <1>3 DEF ClCrashLoop

LEMMA LongerTwice ==
    ASSUME NEW a \in Seq(ClEntry), NEW b, NEW c, Longer(a, b), Longer(b, c) PROVE Longer(a, c)
BY DEF Longer, Pointed

\* The log of a scan grows by what points into it.
LEMMA ScanPoints ==
    ASSUME ClTIInv, ClWatchStep PROVE Longer(clLog, clLog')
<1>1. Pointed(clLog) /\ clLog \in Seq(ClEntry) /\ Longer(clLog, clLog) /\ Len(clLog) \in Nat
  BY DEF ClTIInv, ClPointers, ClIInv, ClLogged, ClEvents, Longer, Pointed
<1>2. {"owner", "vanished"} \subseteq ClKinds /\ "none" \in ClDigests
  BY DEF ClKinds, ClDigests
<1>3. CASE ClSeesWork
  <2>1. Longer(clLog, ClAppend(clLog, "owner", "none", Len(clLog)))
    <3>1. Len(clLog) \in 0..Len(clLog)
      BY <1>1
    <3>2. QED
      BY <1>1, <1>2, <3>1, AppendPoints
  <2>2. QED
    BY <1>1, <1>3, <2>1 DEF ClSeesWork
<1>4. CASE ClSeesRest
  BY <1>1, <1>4 DEF ClSeesRest
<1>5. ASSUME NEW stops \in BOOLEAN, ClAnnounces(stops) PROVE Longer(clLog, clLog')
  <2>1. ClClassify \in ClKinds /\ ClDigest \in ClDigests /\ 0 \in 0..Len(clLog)
    <3>1. ClClassify \in {"owner_prompt", "completed", "crashed"}
      BY <1>5 DEF ClAnnounces
    <3>2. ClClassify \in ClKinds
      BY <3>1 DEF ClKinds, ClClasses
    <3>3. QED
      BY <1>1, <3>2, ClassifyIs
  <2>2. PICK log : log = ClAppend(clLog, ClClassify, ClDigest, 0)
    OBVIOUS
  <2>3. Longer(clLog, log)
    BY <1>1, <2>1, <2>2, AppendPoints
  <2>4. clLog' = log \/ clLog' = ClCrashLoop(log)
    BY <1>5, <2>2 DEF ClAnnounces
  <2>5. Longer(log, ClCrashLoop(log))
    BY <2>3, CrashLoopPoints DEF Longer
  <2>6. QED
    BY <1>1, <2>3, <2>4, <2>5, LongerTwice
<1>6. ASSUME NEW stops \in BOOLEAN, ClMisses(stops) PROVE Longer(clLog, clLog')
  <2>1. PICK log : log = ClAppend(clLog, "vanished", "none", 0)
    OBVIOUS
  <2>2. Longer(clLog, log)
    <3>1. 0 \in 0..Len(clLog)
      BY <1>1
    <3>2. QED
      BY <1>1, <1>2, <2>1, <3>1, AppendPoints
  <2>3. clLog' = clLog \/ clLog' = log \/ clLog' = ClCrashLoop(log)
    BY <1>6, <2>1 DEF ClMisses
  <2>4. Longer(log, ClCrashLoop(log))
    BY <2>2, CrashLoopPoints DEF Longer
  <2>5. QED
    BY <1>1, <2>2, <2>3, <2>4, LongerTwice
<1>7. QED
  BY <1>3, <1>4, <1>5, <1>6 DEF ClWatchStep

\* What is pointed at from elsewhere is in the log, and stays there.
LEMMA PointersStay ==
    ASSUME ClTIInv, Longer(clLog, clLog'), clOld' = clOld,
           clInvalid' \cup clOwners' \subseteq ClEvents,
           \A w \in clWatch' : w.since \in ClEvents
    PROVE  ClPointers'
<1>1. clLog \in Seq(ClEntry) /\ Pointed(clLog') /\ clLog' \in Seq(ClEntry)
  BY DEF ClTIInv, ClIInv, ClLogged, Longer, Pointed
<1>2. ClEvents \subseteq ClEvents' /\ clOld' \in 0..Len(clLog')
  BY <1>1 DEF ClTIInv, ClPointers, ClEvents, Longer
<1>3. QED
  BY <1>1, <1>2 DEF ClPointers, Pointed, ClEvents

LEMMA PointersStep == ASSUME ClTIInv, ClNext PROVE ClPointers'
<1>1. /\ clLog \in Seq(ClEntry) /\ Longer(clLog, clLog) /\ Pointed(clLog) /\ ClEvents = 1..Len(clLog)
      /\ clInvalid \cup clOwners \subseteq ClEvents /\ clDelivered \subseteq ClEvents
      /\ \A w \in clWatch : w.since \in ClEvents
  BY DEF ClTIInv, ClIInv, ClLogged, ClPointers, Longer, Pointed, ClEvents
<1>2. CASE ClWatchStep
  <2>1. ClRecovered \subseteq ClEvents
    BY <1>1 DEF ClRecovered
  <2>2. ClOwnerActed => Len(clLog) \in ClEvents
    BY <1>1 DEF ClOwnerActed
  <2>3. clInvalid' \subseteq ClEvents /\ clOwners' \subseteq ClEvents
    BY <1>1, <1>2, <2>1, <2>2 DEF ClWatchStep, ClSeesWork, ClSeesRest, ClAnnounces, ClMisses
  <2>4. clWatch' = clWatch /\ clOld' = clOld
    BY <1>2 DEF ClWatchStep, ClSeesWork, ClSeesRest, ClAnnounces, ClMisses
  <2>5. QED
    BY <1>1, <1>2, <2>3, <2>4, ScanPoints, PointersStay
<1>3. CASE ClPaneMoves \/ ClSuppresses \/ ClUnmutes
  BY <1>1, <1>3, PointersStay DEF ClPaneMoves, ClSuppresses, ClUnmutes, ClStore
<1>4. CASE ClHourPasses
  BY <1>1, <1>4 DEF ClHourPasses, ClPointers, Pointed, ClEvents
<1>5. ASSUME NEW e \in ClEvents, NEW s \in BOOLEAN, ClDelivers(e, s) PROVE ClPointers'
  <2>1. Len(clLog) \in ClEvents
    BY <1>1
  <2>2. \A w \in clWatch' : w \in clWatch \/ w.since = Len(clLog)
    BY <1>5 DEF ClDelivers
  <2>3. QED
    BY <1>1, <1>5, <2>1, <2>2, PointersStay DEF ClDelivers
<1>6. ASSUME NEW e \in ClEvents, ClDismisses(e) PROVE ClPointers'
  BY <1>1, <1>6, PointersStay DEF ClDismisses
<1>7. ASSUME NEW w \in clWatch, NEW at, ClBecomes(w, at) PROVE \A v \in clWatch' : v.since \in ClEvents
  <2>1. w \in [of : Nat, since : Nat, at : {"open", "rewoken", "escalated", "resolved"}]
    BY DEF ClTIInv, ClIInv, WatchWell
  <2>2. [w EXCEPT !.at = at].since = w.since
    BY <2>1
  <2>3. QED
    BY <1>1, <1>7, <2>2 DEF ClBecomes
<1>8. ASSUME NEW w \in clWatch, ClResolves(w) PROVE ClPointers'
  BY <1>1, <1>7, <1>8, PointersStay DEF ClResolves
<1>9. ASSUME NEW w \in clWatch, NEW s \in BOOLEAN, ClWakesAgain(w, s) PROVE ClPointers'
  <2>1. \A v \in clWatch' : v.since \in ClEvents
    BY <1>1, <1>7, <1>9 DEF ClWakesAgain
  <2>2. PICK kind \in ClKinds : clLog' = ClAppend(clLog, kind, "none", w.of)
    BY <1>9 DEF ClWakesAgain, ClKinds
  <2>3. w.of \in 0..Len(clLog) /\ "none" \in ClDigests
    BY <1>1 DEF ClTIInv, ClIInv, WatchWell, ClDigests
  <2>4. Longer(clLog, clLog')
    BY <1>1, <2>2, <2>3, AppendPoints
  <2>5. QED
    BY <1>1, <1>9, <2>1, <2>4, PointersStay DEF ClWakesAgain
<1>10. QED
  BY <1>2, <1>3, <1>4, <1>5, <1>6, <1>8, <1>9 DEF ClNext, ClSlo

LEMMA ClTStep == ClTIInv /\ [ClNext]_ClVars => ClTIInv'
<1>1. ASSUME ClTIInv, UNCHANGED ClVars PROVE ClTIInv'
  <2>1. ClIInv'
    BY <1>1, ClStep DEF ClTIInv
  <2>2. QED
    BY <1>1, <2>1 DEF ClVars, ClStore, ClTIInv, ClInstance, ClPointers, NewsIsMade, NewsDue, ClEvents
<1>2. ASSUME ClTIInv, ClNext PROVE ClTIInv'
  <2>1. ClIInv'
    BY <1>2, ClStep DEF ClTIInv
  <2>2. QED
    BY <1>2, <2>1, NewsStep, InstanceStep, PointersStep DEF ClTIInv
<1>3. QED
  BY <1>1, <1>2

\* The types of the closed loop, for any log: what is pointed at is in the log, and no
\* move of the agent and no hour is announced twice.
THEOREM ClTypeCorrect == ClSpec => []ClTypeOK
<1>1. ClInit => ClTIInv
  <2>1. ASSUME ClInit PROVE ClTIInv
    <3>1. /\ clCast \in ClCasts /\ clPane = "work" /\ clMute = FALSE /\ clOld = 0
          /\ clInvalid = {} /\ clOwners = {}
      BY <2>1 DEF ClInit
    <3>2. clLog = <<>> /\ clDelivered = {} /\ clWatch = {}
      BY <2>1 DEF ClInit
    <3>3. clLog \in Seq(ClEntry) /\ Len(clLog) = 0
      BY <3>2
    <3>4. ClEvents = {}
      BY <3>2, <3>3 DEF ClEvents
    <3>5. clRow = [cls |-> "", digest |-> "none", told |-> "", toldOf |-> "none", late |-> TRUE,
                   missed |-> FALSE, emissions |-> 0]
      BY <2>1 DEF ClInit
    <3>6. clRow \in ClRowType /\ clRow.emissions = 0
      BY <3>5 DEF ClRowType, ClClasses, ClDigests
    <3>7. ClIInv
      BY <3>2, <3>3, <3>4, <3>6 DEF ClIInv, ClLogged, WatchWell, ClInv
    <3>8. clCast.moves \in Nat /\ clCast.hours \in Nat /\ clCast.crashes \in Nat /\ "work" \in clCast.panes
      BY <3>1, ClAssumption
    <3>9. clCount = [moves |-> 0, hours |-> 0, crashes |-> 0]
      BY <2>1 DEF ClInit
    <3>10. ClInstance
      <4>1. 0 \in 0..clCast.moves /\ 0 \in 0..clCast.hours /\ 0 \in 0..clCast.crashes
        BY <3>8
      <4>2. clCount \in [moves : 0..clCast.moves, hours : 0..clCast.hours, crashes : 0..clCast.crashes]
        BY <3>9, <4>1
      <4>3. clPane \in clCast.panes /\ clMute \in BOOLEAN
        BY <3>1, <3>8
      <4>4. QED
        BY <3>1, <4>2, <4>3 DEF ClInstance
    <3>11. ClPointers
      BY <3>1, <3>2, <3>3, <3>4 DEF ClPointers
    <3>12. "work" \notin ClPrompts
      BY ClAssumption
    <3>13. ~NewsDue
      BY <3>1, <3>12 DEF NewsDue
    <3>14. NewsIsMade
      BY <3>6, <3>9, <3>13 DEF NewsIsMade
    <3>15. QED
      BY <3>7, <3>10, <3>11, <3>14 DEF ClTIInv
  <2>2. QED
    BY <2>1
<1>2. ClTIInv => ClTypeOK
  <2>1. ASSUME ClTIInv PROVE ClTypeOK
    <3>1. clCast \in ClCasts /\ clPane \in clCast.panes /\ clMute \in BOOLEAN
          /\ clCount \in [moves : 0..clCast.moves, hours : 0..clCast.hours, crashes : 0..clCast.crashes]
      BY <2>1 DEF ClTIInv, ClInstance
    <3>2. clRow \in ClRowType /\ clRow.emissions \in 0..(clCast.moves + clCast.hours)
      <4>1. clRow.emissions <= clCount.moves + clCount.hours
        BY <2>1, NewsNumbers DEF ClTIInv, NewsIsMade
      <4>2. clRow \in ClRowType /\ clCount.moves <= clCast.moves /\ clCount.hours <= clCast.hours
        BY <2>1, <3>1, BoundsAre DEF ClTIInv, ClIInv, ClLogged
      <4>3. QED
        BY <2>1, <4>1, <4>2, BoundsAre, NewsNumbers
    <3>3. clRow \in [cls : ClClasses, digest : ClDigests, told : ClClasses, toldOf : ClDigests,
                     late : BOOLEAN, missed : BOOLEAN, emissions : 0..(clCast.moves + clCast.hours)]
      BY <3>2 DEF ClRowType
    <3>4. clLog \in Seq([kind : ClKinds, key : ClDigests, of : 0..Len(clLog)])
      <4>1. clLog \in Seq(ClEntry) /\ \A i \in 1..Len(clLog) : clLog[i].of \in 0..Len(clLog)
        BY <2>1 DEF ClTIInv, ClIInv, ClLogged, ClPointers, ClEvents
      <4>2. PICK n \in Nat : n = Len(clLog)
        BY <4>1
      <4>3. \A i \in 1..n : clLog[i] \in ClEntry /\ clLog[i].of \in 0..n
        BY <4>1, <4>2
      <4>4. \A i \in 1..n : clLog[i] \in [kind : ClKinds, key : ClDigests, of : 0..n]
        BY <4>3 DEF ClEntry
      <4>5. clLog = [i \in 1..n |-> clLog[i]]
        BY <4>1, <4>2
      <4>6. clLog \in Seq([kind : ClKinds, key : ClDigests, of : 0..n])
        <5>1. PICK S : S = [kind : ClKinds, key : ClDigests, of : 0..n]
          OBVIOUS
        <5>2. clLog \in [1..n -> S]
          BY <4>4, <4>5, <5>1
        <5>3. clLog \in Seq(S)
          BY <4>2, <5>2
        <5>4. QED
          BY <5>1, <5>3
      <4>7. QED
        BY <4>2, <4>6
    <3>5. clOld \in 0..Len(clLog) /\ clDelivered \cup clInvalid \cup clOwners \subseteq ClEvents
      BY <2>1 DEF ClTIInv, ClIInv, ClLogged, ClPointers
    <3>6. clWatch \subseteq [of : ClEvents, since : ClEvents, at : {"open", "rewoken", "escalated", "resolved"}]
      BY <2>1 DEF ClTIInv, ClIInv, WatchWell, ClPointers
    <3>7. QED
      BY <3>1, <3>3, <3>4, <3>5, <3>6 DEF ClTypeOK
  <2>2. QED
    BY <2>1
<1>3. QED
  BY <1>1, <1>2, ClTStep, PTL DEF ClSpec

----------------------------------------------------------------------------
(* The wake bridge *)

\* The wake rows are of events emitted so far, one row for each.
WkRows ==
    /\ wkCast \in WkCasts /\ wkCount.events \in 0..Len(wkCast.events)
    /\ wkQueue \in Seq(Nat \X WkRoutes)
    /\ \A i \in DOMAIN wkQueue : wkQueue[i][1] \in 1..wkCount.events
    /\ \A i, j \in DOMAIN wkQueue : wkQueue[i][1] = wkQueue[j][1] => i = j
    /\ wkHeld \subseteq 1..wkCount.events
WkOffers == [at : {"poll", "fold", "offered", "claimed", "fired", "latched", "proven"}, event : Nat,
             chat : WkChats \cup {WkNone}, route : WkRoutes \cup {WkNone}, lands : BOOLEAN]
WkShapes ==
    /\ wkRoute \in [WkRoutes -> WkChats \cup {WkNone}]
    /\ wkOffer \in WkOffers
    /\ wkCount \in [events : Nat, faults : Nat, moves : Nat]

\* A folded wake had a row of its own.
WkFoldedRow == \A e, d \in WkEvents : <<e, d, TRUE>> \in wkFolds => e \in WkWoken

\* What the companion carries is not latched before the click, and proven before it is
\* acknowledged.
WkOfferHolds ==
    /\ wkOffer.at \in {"offered", "claimed", "fired"} => wkOffer.event \notin wkLatched
    /\ wkOffer.at = "proven" => wkOffer.event \in wkProven

WkIInv == /\ WkRows /\ WkShapes /\ WkFoldedRow /\ WkOfferHolds
          /\ WkAckedIsServed /\ WkFoldedIntoWake

\* WkPlace finds the one row of an event.
LEMMA PlaceIs ==
    ASSUME NEW q, NEW i \in DOMAIN q, \A j, k \in DOMAIN q : q[j][1] = q[k][1] => j = k
    PROVE  (CHOOSE j \in DOMAIN q : q[j][1] = q[i][1]) = i
<1>1. \E j \in DOMAIN q : q[j][1] = q[i][1]
  OBVIOUS
<1>2. PICK m : m = CHOOSE j \in DOMAIN q : q[j][1] = q[i][1]
  OBVIOUS
<1>3. m \in DOMAIN q /\ q[m][1] = q[i][1]
  BY <1>1, <1>2
<1>4. QED
  BY <1>2, <1>3

LEMMA WokenIs == \A e : e \in WkWoken <=> \E i \in DOMAIN wkQueue : wkQueue[i][1] = e
BY DEF WkWoken, Range

\* Rows that are added at the end leave the route of the others alone.
LEMMA RowsGrow ==
    ASSUME WkRows, WkRows', \A i \in DOMAIN wkQueue : i \in DOMAIN wkQueue' /\ wkQueue'[i] = wkQueue[i]
    PROVE  /\ WkWoken \subseteq WkWoken'
           /\ \A e \in WkWoken : WkRouteOf(e)' = WkRouteOf(e)
<1>1. ASSUME NEW e \in WkWoken PROVE e \in WkWoken' /\ WkRouteOf(e)' = WkRouteOf(e)
  <2>1. PICK i \in DOMAIN wkQueue : wkQueue[i][1] = e
    BY <1>1, WokenIs
  <2>2. i \in DOMAIN wkQueue' /\ wkQueue'[i] = wkQueue[i]
    OBVIOUS
  <2>3. e \in WkWoken'
    BY <2>1, <2>2 DEF WkWoken, Range
  <2>4. WkPlace(e) = i
    BY <2>1, PlaceIs DEF WkPlace, WkRows
  <2>5. WkPlace(e)' = i
    BY <2>1, <2>2, PlaceIs DEF WkPlace, WkRows
  <2>6. QED
    BY <2>2, <2>3, <2>4, <2>5 DEF WkRouteOf
<1>2. QED
  BY <1>1

\* What holds of the folds holds while rows are added.
LEMMA FoldsStand ==
    ASSUME WkIInv, WkRows', wkFolds' = wkFolds, wkCast' = wkCast,
           \A i \in DOMAIN wkQueue : i \in DOMAIN wkQueue' /\ wkQueue'[i] = wkQueue[i]
    PROVE  WkFoldedRow' /\ WkFoldedIntoWake'
<1>1. /\ WkWoken \subseteq WkWoken' /\ \A e \in WkWoken : WkRouteOf(e)' = WkRouteOf(e)
      /\ WkEvents' = WkEvents
  BY RowsGrow DEF WkIInv, WkEvents
<1>2. ASSUME NEW e \in WkEvents, NEW d \in WkEvents, <<e, d, TRUE>> \in wkFolds
      PROVE  /\ e \in WkWoken' /\ d # e /\ d \in WkWoken' /\ wkCast.events[e].act = wkCast.events[d].act
             /\ IF wkCast.events[e].act THEN wkCast.events[d].agent = wkCast.events[e].agent /\ d > e
                                        ELSE WkRouteOf(d)' = WkRouteOf(e)'
  <2>1. /\ e \in WkWoken /\ d # e /\ d \in WkWoken /\ wkCast.events[e].act = wkCast.events[d].act
        /\ IF wkCast.events[e].act THEN wkCast.events[d].agent = wkCast.events[e].agent /\ d > e
                                   ELSE WkRouteOf(d) = WkRouteOf(e)
    BY <1>2 DEF WkIInv, WkFoldedRow, WkFoldedIntoWake
  <2>2. WkRouteOf(d)' = WkRouteOf(d) /\ WkRouteOf(e)' = WkRouteOf(e)
    BY <1>1, <2>1
  <2>3. QED
    BY <1>1, <2>1, <2>2
<1>3. QED
  BY <1>1, <1>2 DEF WkFoldedRow, WkFoldedIntoWake

\* A step that leaves the audit's rows alone.
LEMMA WkQuiet ==
    ASSUME WkIInv, UNCHANGED <<wkCast, wkHeld, wkFolds, wkQueue>>, wkCount'.events = wkCount.events,
           WkShapes', WkOfferHolds', WkAckedIsServed'
    PROVE  WkIInv'
<1>1. WkRows'
  BY DEF WkIInv, WkRows
<1>2. WkFoldedRow' /\ WkFoldedIntoWake'
  BY <1>1, FoldsStand
<1>3. QED
  BY <1>1, <1>2 DEF WkIInv

LEMMA ResolveIs ==
    ASSUME NEW r \in WkRoutes PROVE WkResolve(r).key \in WkRoutes
BY WkAssumption DEF WkResolve

LEMMA EmitInv == ASSUME WkIInv, WkEmit PROVE WkIInv'
<1> DEFINE e == wkCount.events + 1
           key == WkResolve(wkCast.events[e].route).key
<1>1. /\ wkCast' = wkCast /\ e \in WkEvents /\ wkCount' = [wkCount EXCEPT !.events = e]
      /\ wkHeld' \subseteq wkHeld \cup {e}
      /\ wkQueue' = wkQueue \/ wkQueue' = Append(wkQueue, <<e, key>>)
      /\ UNCHANGED <<wkAcked, wkFolds, wkOld, wkLatched, wkProven, wkInvalid, wkAsked, wkOffer, wkRoute>>
  BY DEF WkEmit, WkTrack, WkChatVars
<1>2. e \in 1..Len(wkCast.events) /\ e \in Nat /\ wkCount'.events = e /\ wkCount.events = e - 1
  <2>1. wkCount.events \in Nat /\ Len(wkCast.events) \in Nat
        /\ WkEvents = 1..Len(wkCast.events)
    BY WkAssumption DEF WkIInv, WkRows, WkShapes, WkEvents
  <2>2. wkCount'.events = e
    BY <1>1 DEF WkIInv, WkShapes
  <2>3. QED
    BY <1>1, <2>1, <2>2
<1>3. key \in WkRoutes
  BY <1>1, ResolveIs, WkAssumption DEF WkIInv, WkRows, WkEvents
<1> HIDE DEF e, key
<1>4. <<e, key>> \in Nat \X WkRoutes /\ <<e, key>>[1] = e
  BY <1>2, <1>3
<1>5. /\ wkQueue' \in Seq(Nat \X WkRoutes)
      /\ \A i \in DOMAIN wkQueue : i \in DOMAIN wkQueue' /\ wkQueue'[i] = wkQueue[i]
      /\ \A i \in DOMAIN wkQueue' : i \in DOMAIN wkQueue \/ (i = Len(wkQueue) + 1 /\ wkQueue'[i] = <<e, key>>)
  <2>1. wkQueue \in Seq(Nat \X WkRoutes)
    BY DEF WkIInv, WkRows
  <2>2. CASE wkQueue' = wkQueue
    BY <2>1, <2>2
  <2>3. CASE wkQueue' = Append(wkQueue, <<e, key>>)
    BY <1>4, <2>1, <2>3
  <2>4. QED
    BY <1>1, <2>2, <2>3
<1>6. WkRows'
  <2>1. \A i \in DOMAIN wkQueue : wkQueue[i][1] \in 1..(e - 1)
    BY <1>2 DEF WkIInv, WkRows
  <2>2. \A i \in DOMAIN wkQueue' : wkQueue'[i][1] \in 1..e
    BY <1>2, <1>4, <1>5, <2>1
  <2>3. ASSUME NEW i \in DOMAIN wkQueue', NEW j \in DOMAIN wkQueue', wkQueue'[i][1] = wkQueue'[j][1]
        PROVE  i = j
    <3>1. CASE i \in DOMAIN wkQueue /\ j \in DOMAIN wkQueue
      BY <1>5, <2>3, <3>1 DEF WkIInv, WkRows
    <3>2. CASE i \notin DOMAIN wkQueue /\ j \notin DOMAIN wkQueue
      BY <1>5, <3>2
    <3>3. CASE (i \in DOMAIN wkQueue) # (j \in DOMAIN wkQueue)
      BY <1>2, <1>4, <1>5, <2>1, <2>3, <3>3
    <3>4. QED
      BY <3>1, <3>2, <3>3
  <2>4. wkHeld' \subseteq 1..e
    BY <1>1, <1>2 DEF WkIInv, WkRows
  <2>5. e \in 0..Len(wkCast.events)
    BY <1>2
  <2>6. QED
    BY <1>1, <1>2, <1>5, <2>2, <2>3, <2>4, <2>5 DEF WkIInv, WkRows
<1>7. WkFoldedRow' /\ WkFoldedIntoWake'
  BY <1>1, <1>5, <1>6, FoldsStand
<1>8. WkShapes' /\ WkOfferHolds' /\ WkAckedIsServed'
  BY <1>1, <1>2 DEF WkIInv, WkShapes, WkOfferHolds, WkAckedIsServed
<1>9. QED
  BY <1>6, <1>7, <1>8 DEF WkIInv

LEMMA RedecidedIs ==
    ASSUME WkIInv
    PROVE  /\ WkRedecided \subseteq wkHeld \ WkWoken /\ WkRedecided \subseteq 1..wkCount.events
           /\ Cardinality(WkRedecided) \in Nat
           /\ \A e \in WkRedecided : e \in Nat /\ WkResolve(wkCast.events[e].route).key \in WkRoutes
<1>1. WkRedecided \subseteq wkHeld \ WkWoken
  BY DEF WkRedecided
<1>2. wkCount.events \in 0..Len(wkCast.events) /\ Len(wkCast.events) \in Nat /\ WkEvents = 1..Len(wkCast.events)
  BY WkAssumption DEF WkIInv, WkRows, WkEvents
<1>3. WkRedecided \subseteq 1..wkCount.events
  BY <1>1 DEF WkIInv, WkRows
<1>4. IsFiniteSet(1..wkCount.events)
  BY <1>2, FS_Interval
<1>5. Cardinality(WkRedecided) \in Nat
  BY <1>3, <1>4, FS_Subset, FS_CardinalityType
<1>6. ASSUME NEW e \in WkRedecided PROVE e \in Nat /\ WkResolve(wkCast.events[e].route).key \in WkRoutes
  <2>1. e \in WkEvents /\ e \in Nat
    BY <1>2, <1>3
  <2>2. wkCast.events[e].route \in WkRoutes
    BY <2>1, WkAssumption DEF WkIInv, WkRows, WkEvents
  <2>3. QED
    BY <2>1, <2>2, ResolveIs
<1>7. QED
  BY <1>1, <1>3, <1>5, <1>6

\* The skips decided again get one row each, after the others.
LEMMA RetiresInv == ASSUME WkIInv, WkRetires PROVE WkIInv'
<1> DEFINE key(e) == WkResolve(wkCast.events[e].route).key
           n == Cardinality(WkRedecided)
<1>1. PICK order \in [1..n -> WkRedecided] :
         /\ \A i, j \in DOMAIN order : i < j => order[i] < order[j]
         /\ wkQueue' = wkQueue \o [i \in DOMAIN order |-> <<order[i], key(order[i])>>]
  BY DEF WkRetires
<1>2. /\ UNCHANGED <<wkCast, wkHeld, wkFolds, wkOld, wkLatched, wkProven, wkInvalid, wkAsked, wkCount, wkRoute>>
      /\ wkAcked' = wkAcked \cup WkExpired /\ wkOffer' = [wkOffer EXCEPT !.at = "fold"]
  BY DEF WkRetires, WkTrack, WkChatVars
<1>3. /\ WkRedecided \subseteq wkHeld \ WkWoken /\ WkRedecided \subseteq 1..wkCount.events /\ n \in Nat
      /\ \A e \in WkRedecided : e \in Nat /\ key(e) \in WkRoutes
  BY RedecidedIs
<1> HIDE DEF n, key
<1> DEFINE rows == [i \in DOMAIN order |-> <<order[i], key(order[i])>>]
<1>4. /\ rows \in Seq(Nat \X WkRoutes) /\ Len(rows) = n /\ DOMAIN rows = 1..n
      /\ \A i \in 1..n : rows[i][1] = order[i] /\ order[i] \in WkRedecided
  <2>1. DOMAIN rows = 1..n /\ \A i \in 1..n : rows[i] \in Nat \X WkRoutes
    BY <1>1, <1>3
  <2>2. rows \in [1..n -> Nat \X WkRoutes]
    BY <1>1, <2>1
  <2>3. rows \in Seq(Nat \X WkRoutes) /\ Len(rows) = n
    BY <1>3, <2>2
  <2>4. QED
    BY <1>1, <2>1, <2>3
<1>5. \A i, j \in 1..n : i # j => order[i] # order[j]
  <2>1. ASSUME NEW i \in 1..n, NEW j \in 1..n, i < j PROVE order[i] < order[j]
    BY <1>1, <2>1
  <2>2. \A i \in 1..n : order[i] \in Nat
    BY <1>3, <1>4
  <2>3. QED
    BY <1>3, <2>1, <2>2
<1>6. wkQueue \in Seq(Nat \X WkRoutes) /\ wkQueue' = wkQueue \o rows
  BY <1>1 DEF WkIInv, WkRows
<1> HIDE DEF rows
<1>7. /\ wkQueue' \in Seq(Nat \X WkRoutes) /\ Len(wkQueue') = Len(wkQueue) + n
      /\ \A i \in DOMAIN wkQueue : i \in DOMAIN wkQueue' /\ wkQueue'[i] = wkQueue[i]
      /\ \A i \in DOMAIN wkQueue' : i \in DOMAIN wkQueue
            \/ (i - Len(wkQueue) \in 1..n /\ wkQueue'[i] = rows[i - Len(wkQueue)])
  <2>1. wkQueue' \in Seq(Nat \X WkRoutes) /\ Len(wkQueue') = Len(wkQueue) + n
    BY <1>4, <1>6
  <2>2. \A i \in DOMAIN wkQueue : i \in DOMAIN wkQueue' /\ wkQueue'[i] = wkQueue[i]
    BY <1>4, <1>6, <2>1
  <2>3. ASSUME NEW i \in DOMAIN wkQueue', i \notin DOMAIN wkQueue
        PROVE  i - Len(wkQueue) \in 1..n /\ wkQueue'[i] = rows[i - Len(wkQueue)]
    BY <1>3, <1>4, <1>6, <2>1, <2>3
  <2>4. QED
    BY <2>1, <2>2, <2>3
<1>8. \A i \in DOMAIN wkQueue' : \/ i \in DOMAIN wkQueue /\ wkQueue'[i][1] = wkQueue[i][1] /\ wkQueue'[i][1] \in WkWoken
                                 \/ /\ i \notin DOMAIN wkQueue /\ i - Len(wkQueue) \in 1..n
                                    /\ wkQueue'[i][1] = order[i - Len(wkQueue)]
                                    /\ wkQueue'[i][1] \in WkRedecided
  BY <1>4, <1>7, WokenIs
<1>9. WkRows'
  <2>1. \A i \in DOMAIN wkQueue' : wkQueue'[i][1] \in 1..wkCount.events
    BY <1>3, <1>8 DEF WkIInv, WkRows
  <2>2. ASSUME NEW i \in DOMAIN wkQueue', NEW j \in DOMAIN wkQueue', wkQueue'[i][1] = wkQueue'[j][1]
        PROVE  i = j
    <3>1. CASE i \in DOMAIN wkQueue /\ j \in DOMAIN wkQueue
      BY <1>7, <2>2, <3>1 DEF WkIInv, WkRows
    <3>2. CASE i \notin DOMAIN wkQueue /\ j \notin DOMAIN wkQueue
      <4>1. i - Len(wkQueue) = j - Len(wkQueue)
        <5>1. PICK x \in 1..n : x = i - Len(wkQueue)
          BY <1>8, <3>2
        <5>2. PICK y \in 1..n : y = j - Len(wkQueue)
          BY <1>8, <3>2
        <5>3. order[x] = order[y]
          BY <1>8, <2>2, <3>2, <5>1, <5>2
        <5>4. QED
          BY <1>5, <5>1, <5>2, <5>3
      <4>2. i \in Int /\ j \in Int /\ Len(wkQueue) \in Int
        BY <1>6, <1>7
      <4>3. QED
        BY <4>1, <4>2
    <3>3. \A k \in DOMAIN wkQueue' : k \in DOMAIN wkQueue <=> wkQueue'[k][1] \in WkWoken
      BY <1>3, <1>8
    <3>4. QED
      BY <2>2, <3>1, <3>2, <3>3
  <2>3. QED
    BY <1>2, <1>7, <2>1, <2>2 DEF WkIInv, WkRows
<1>10. WkFoldedRow' /\ WkFoldedIntoWake'
  BY <1>2, <1>7, <1>9, FoldsStand
<1>11. WkShapes' /\ WkOfferHolds' /\ WkAckedIsServed'
  <2>1. wkOffer' \in WkOffers /\ wkOffer'.at = "fold"
    BY <1>2 DEF WkIInv, WkShapes, WkOffers
  <2>2. WkExpired \subseteq wkOld \cup wkInvalid
    BY DEF WkExpired
  <2>3. QED
    BY <1>2, <2>1, <2>2 DEF WkIInv, WkShapes, WkOfferHolds, WkAckedIsServed
<1>12. QED
  BY <1>9, <1>10, <1>11 DEF WkIInv

\* What is folded in a poll: an actionable wake into the newest of its agent, a generic
\* one into a wake of its route.
LEMMA SupersededIs ==
    ASSUME NEW e, NEW d, <<e, d, TRUE>> \in WkSupersedes
    PROVE  /\ e \in WkWoken /\ d \in WkWoken /\ e < d
           /\ wkCast.events[e].act /\ wkCast.events[d].act
           /\ wkCast.events[e].agent = wkCast.events[d].agent
BY DEF WkSupersedes, WkLive

LEMMA CoalescedIs ==
    ASSUME NEW e, NEW d, <<e, d, TRUE>> \in WkCoalesces
    PROVE  /\ e \in WkWoken /\ d \in WkWoken /\ e # d
           /\ ~wkCast.events[e].act /\ ~wkCast.events[d].act
           /\ WkRouteOf(e) = WkRouteOf(d)
<1> DEFINE wakes == {x \in WkLive \ wkOld : ~wkCast.events[x].act}
           skips == {x \in wkHeld \ (wkOld \cup wkLatched \cup WkWoken) :
                        ~WkFolded(x, FALSE) /\ ~wkCast.events[x].act}
           key(x) == IF x \in wakes THEN WkRouteOf(x) ELSE WkResolve(wkCast.events[x].route).key
           after(y, x) == IF x \in wakes THEN y \in wakes /\ WkPlace(y) >= WkPlace(x)
                                         ELSE y \in wakes \/ y >= x
           kept == {y \in wakes \cup skips : \A x \in wakes \cup skips : key(x) = key(y) => after(y, x)}
<1>1. PICK f \in ((wakes \cup skips) \ kept) \X kept \X BOOLEAN :
         f = <<e, d, TRUE>> /\ key(f[1]) = key(f[2]) /\ f[3] = (f[1] \in wakes)
  BY DEF WkCoalesces
<1>2. e \in (wakes \cup skips) \ kept /\ d \in kept /\ key(e) = key(d) /\ e \in wakes
  BY <1>1
<1>3. after(d, e)
  BY <1>2
<1>4. d \in wakes
  BY <1>2, <1>3
<1>5. WkRouteOf(e) = WkRouteOf(d)
  BY <1>2, <1>4
<1>6. e # d
  BY <1>2
<1>7. QED
  BY <1>2, <1>4, <1>5, <1>6 DEF WkLive

LEMMA IdleIs == WkIdle \in WkOffers /\ WkIdle.at = "poll"
BY DEF WkIdle, WkOffers

LEMMA FoldsInv == ASSUME WkIInv, WkFolds PROVE WkIInv'
<1> DEFINE new == WkSupersedes \cup WkCoalesces
           ready == WkReady(WkLive \ {f[1] : f \in new})
<1>1. /\ wkFolds' = wkFolds \cup new
      /\ UNCHANGED <<wkCast, wkHeld, wkAcked, wkQueue, wkOld, wkLatched, wkProven, wkInvalid, wkAsked, wkCount, wkRoute>>
  BY DEF WkFolds, WkTrack, WkChatVars
<1>2. WkRows' /\ WkEvents' = WkEvents /\ WkWoken' = WkWoken /\ \A e : WkRouteOf(e)' = WkRouteOf(e)
  BY <1>1 DEF WkIInv, WkRows, WkEvents, WkWoken, WkRouteOf, WkPlace
<1>3. WkFoldedRow' /\ WkFoldedIntoWake'
  <2>1. ASSUME NEW e \in WkEvents, NEW d \in WkEvents, <<e, d, TRUE>> \in wkFolds'
        PROVE  /\ e \in WkWoken /\ d # e /\ d \in WkWoken /\ wkCast.events[e].act = wkCast.events[d].act
               /\ IF wkCast.events[e].act THEN wkCast.events[d].agent = wkCast.events[e].agent /\ d > e
                                          ELSE WkRouteOf(d) = WkRouteOf(e)
    <3>1. CASE <<e, d, TRUE>> \in wkFolds
      BY <3>1 DEF WkIInv, WkFoldedRow, WkFoldedIntoWake
    <3>2. CASE <<e, d, TRUE>> \in WkSupersedes
      <4>1. e \in Nat /\ d \in Nat
        BY WkAssumption DEF WkIInv, WkRows, WkEvents
      <4>2. e \in WkWoken /\ d \in WkWoken /\ e < d /\ wkCast.events[e].act /\ wkCast.events[d].act
            /\ wkCast.events[e].agent = wkCast.events[d].agent
        BY <3>2, SupersededIs
      <4>3. wkCast.events[e].act \in BOOLEAN /\ wkCast.events[d].act \in BOOLEAN
        BY WkAssumption DEF WkIInv, WkRows, WkEvents
      <4>4. e # d /\ d > e
        BY <4>1, <4>2
      <4>5. wkCast.events[e].act = wkCast.events[d].act
        BY <4>2, <4>3
      <4>6. QED
        BY <4>2, <4>4, <4>5
    <3>3. CASE <<e, d, TRUE>> \in WkCoalesces
      <4>1. e \in WkWoken /\ d \in WkWoken /\ e # d /\ ~wkCast.events[e].act /\ ~wkCast.events[d].act
            /\ WkRouteOf(e) = WkRouteOf(d)
        BY <3>3, CoalescedIs
      <4>2. wkCast.events[e].act \in BOOLEAN /\ wkCast.events[d].act \in BOOLEAN
        BY WkAssumption DEF WkIInv, WkRows, WkEvents
      <4>3. wkCast.events[e].act = wkCast.events[d].act
        BY <4>1, <4>2
      <4>4. QED
        BY <4>1, <4>3
    <3>4. QED
      BY <1>1, <2>1, <3>1, <3>2, <3>3
  <2>2. QED
    BY <1>1, <1>2, <2>1 DEF WkFoldedRow, WkFoldedIntoWake
<1>4. WkShapes' /\ WkOfferHolds' /\ WkAckedIsServed'
  <2>1. CASE ready = {} /\ wkOffer' = WkIdle
    BY <1>1, <2>1 DEF WkIInv, WkShapes, WkOffers, WkIdle, WkOfferHolds, WkAckedIsServed
  <2>2. CASE ready # {}
    <3>1. PICK i \in ready :
             wkOffer' = IF WkResolve(wkCast.events[wkQueue[i][1]].route).chat = WkNone THEN WkIdle
                        ELSE [WkIdle EXCEPT !.at = "offered", !.event = wkQueue[i][1],
                                            !.chat = WkResolve(wkCast.events[wkQueue[i][1]].route).chat,
                                            !.route = WkResolve(wkCast.events[wkQueue[i][1]].route).key]
      BY <2>2 DEF WkFolds
    <3> DEFINE e == wkQueue[i][1]
           target == WkResolve(wkCast.events[e].route)
    <3>2. i \in DOMAIN wkQueue /\ e \in WkLive
      BY DEF WkReady
    <3>3. e \in Nat /\ e \in WkEvents /\ wkCast.events[e].route \in WkRoutes /\ e \notin wkLatched
      <4>1. e \in 1..wkCount.events /\ wkCount.events \in 0..Len(wkCast.events)
        BY <3>2 DEF WkIInv, WkRows
      <4>2. e \in Nat /\ e \in WkEvents
        BY <4>1, WkAssumption DEF WkIInv, WkRows, WkEvents
      <4>3. wkCast.events[e].route \in WkRoutes
        BY <4>2, WkAssumption DEF WkIInv, WkRows, WkEvents
      <4>4. QED
        BY <3>2, <4>2, <4>3 DEF WkLive
    <3>4. target.chat \in WkChats \cup {WkNone} /\ target.key \in WkRoutes
      <4>1. target.key \in WkRoutes /\ target.chat = wkRoute[target.key]
        BY <3>3, ResolveIs DEF WkResolve
      <4>2. QED
        BY <4>1 DEF WkIInv, WkShapes
    <3>9. wkOffer' = IF target.chat = WkNone THEN WkIdle
                     ELSE [WkIdle EXCEPT !.at = "offered", !.event = e,
                                         !.chat = target.chat, !.route = target.key]
      BY <3>1
    <3> HIDE DEF e, target
    <3>5. wkOffer' = WkIdle
          \/ wkOffer' = [at |-> "offered", event |-> e, chat |-> target.chat, route |-> target.key, lands |-> FALSE]
      BY <3>9 DEF WkIdle
    <3>6. wkOffer' \in WkOffers /\ (wkOffer'.at = "poll" \/ (wkOffer'.at = "offered" /\ wkOffer'.event = e))
      <4>1. CASE wkOffer' = WkIdle
        BY <4>1, IdleIs
      <4>2. CASE wkOffer' # WkIdle
        <5>1. PICK chat \in WkChats \cup {WkNone}, route \in WkRoutes :
                 wkOffer' = [at |-> "offered", event |-> e, chat |-> chat, route |-> route, lands |-> FALSE]
          BY <3>4, <3>5, <4>2
        <5>2. QED
          BY <3>3, <5>1 DEF WkOffers
      <4>3. QED
        BY <4>1, <4>2
    <3>7. QED
      BY <1>1, <3>3, <3>6 DEF WkIInv, WkShapes, WkOfferHolds, WkAckedIsServed
  <2>3. QED
    BY <2>1, <2>2 DEF WkFolds
<1>5. QED
  BY <1>2, <1>3, <1>4 DEF WkIInv

\* An attempt that fails leaves the companion idle.
LEMMA FailsInv ==
    ASSUME WkIInv, NEW refused \in BOOLEAN, WkFails(refused), wkCount'.events = wkCount.events,
           wkCount' \in [events : Nat, faults : Nat, moves : Nat]
    PROVE  WkIInv'
<1>1. wkOffer' = WkIdle /\ UNCHANGED <<wkCast, wkHeld, wkAcked, wkFolds, wkQueue, wkOld, wkLatched, wkProven, wkInvalid, wkAsked, wkRoute>>
  BY DEF WkFails, WkAudit, WkTrack
<1>2. WkShapes' /\ WkOfferHolds' /\ WkAckedIsServed'
  BY <1>1 DEF WkIInv, WkShapes, WkOffers, WkIdle, WkOfferHolds, WkAckedIsServed
<1>3. QED
  BY <1>1, <1>2, WkQuiet

LEMMA FaultIs == ASSUME WkShapes, WkFault
    PROVE wkCount'.events = wkCount.events /\ wkCount' \in [events : Nat, faults : Nat, moves : Nat]
BY DEF WkShapes, WkFault

LEMMA SendsInv == ASSUME WkIInv, WkSends \/ WkBroken \/ WkStops PROVE WkIInv'
<1>1. wkCount.events = wkCount.events /\ wkCount \in [events : Nat, faults : Nat, moves : Nat]
      /\ wkOffer \in WkOffers /\ wkRoute \in [WkRoutes -> WkChats \cup {WkNone}]
  BY DEF WkIInv, WkShapes
<1>2. CASE WkUnsent \/ WkNotCleared \/ WkUnproven
  BY <1>1, <1>2, FailsInv DEF WkUnsent, WkNotCleared, WkUnproven
<1>3. CASE WkBroken
  BY <1>3, FailsInv, FaultIs DEF WkBroken, WkIInv
<1>4. CASE WkClaims
  <2>1. UNCHANGED <<wkCast, wkHeld, wkAcked, wkFolds, wkQueue, wkOld, wkLatched, wkProven, wkInvalid, wkAsked, wkRoute, wkCount>>
        /\ wkOffer.at = "offered" /\ (wkOffer' = WkIdle \/ wkOffer' = [wkOffer EXCEPT !.at = "claimed"])
    BY <1>4 DEF WkClaims, WkAudit, WkTrack, WkChatVars
  <2>2. wkOffer' \in WkOffers /\ (wkOffer'.at = "poll" \/ (wkOffer'.at = "claimed" /\ wkOffer'.event = wkOffer.event))
    <3>1. CASE wkOffer' = WkIdle
      BY <3>1, IdleIs
    <3>2. CASE wkOffer' = [wkOffer EXCEPT !.at = "claimed"]
      BY <1>1, <3>2 DEF WkOffers
    <3>3. QED
      BY <2>1, <3>1, <3>2
  <2>3. WkShapes' /\ WkOfferHolds' /\ WkAckedIsServed'
    BY <1>1, <2>1, <2>2 DEF WkIInv, WkShapes, WkOfferHolds, WkAckedIsServed
  <2>4. QED
    BY <2>1, <2>3, WkQuiet
<1>5. CASE WkFires
  <2>1. UNCHANGED <<wkCast, wkHeld, wkAcked, wkFolds, wkQueue, wkOld, wkLatched, wkProven, wkInvalid, wkAsked, wkRoute, wkCount>>
        /\ wkOffer.at = "claimed"
    BY <1>5 DEF WkFires, WkAudit, WkTrack, WkChatVars
  <2>2. wkOffer' \in WkOffers /\ wkOffer'.at = "fired" /\ wkOffer'.event = wkOffer.event
    BY <1>1, <1>5 DEF WkFires, WkOffers
  <2>3. WkShapes' /\ WkOfferHolds' /\ WkAckedIsServed'
    BY <1>1, <2>1, <2>2 DEF WkIInv, WkShapes, WkOfferHolds, WkAckedIsServed
  <2>4. QED
    BY <2>1, <2>3, WkQuiet
<1>6. CASE WkLatches
  <2>1. UNCHANGED <<wkCast, wkHeld, wkAcked, wkFolds, wkQueue, wkOld, wkProven, wkInvalid, wkAsked, wkRoute, wkCount>>
    BY <1>6 DEF WkLatches, WkAudit, WkChatVars
  <2>2. wkOffer' \in WkOffers /\ wkOffer'.at = "latched"
    BY <1>1, <1>6 DEF WkLatches, WkOffers
  <2>3. WkShapes' /\ WkOfferHolds' /\ WkAckedIsServed'
    BY <1>1, <2>1, <2>2 DEF WkIInv, WkShapes, WkOfferHolds, WkAckedIsServed
  <2>4. QED
    BY <2>1, <2>3, WkQuiet
<1>7. CASE WkProves
  <2>1. UNCHANGED <<wkCast, wkHeld, wkAcked, wkFolds, wkQueue, wkOld, wkLatched, wkInvalid, wkAsked, wkRoute, wkCount>>
        /\ wkProven' = wkProven \cup {wkOffer.event}
    BY <1>7 DEF WkProves, WkAudit
  <2>2. wkOffer' \in WkOffers /\ wkOffer'.at = "proven" /\ wkOffer'.event = wkOffer.event
    BY <1>1, <1>7 DEF WkProves, WkOffers
  <2>3. WkShapes' /\ WkOfferHolds' /\ WkAckedIsServed'
    BY <1>1, <2>1, <2>2 DEF WkIInv, WkShapes, WkOfferHolds, WkAckedIsServed
  <2>4. QED
    BY <2>1, <2>3, WkQuiet
<1>8. CASE WkAcknowledges
  <2>1. UNCHANGED <<wkCast, wkHeld, wkFolds, wkQueue, wkOld, wkLatched, wkProven, wkInvalid, wkAsked, wkRoute, wkCount>>
        /\ wkAcked' = wkAcked \cup {wkOffer.event} /\ wkOffer' = WkIdle /\ wkOffer.at = "proven"
    BY <1>8 DEF WkAcknowledges, WkTrack, WkChatVars
  <2>2. WkShapes' /\ WkOfferHolds' /\ WkAckedIsServed'
    BY <1>1, <2>1 DEF WkIInv, WkShapes, WkOffers, WkIdle, WkOfferHolds, WkAckedIsServed
  <2>3. QED
    BY <2>1, <2>2, WkQuiet
<1>9. CASE WkStops
  <2>1. UNCHANGED <<wkCast, wkHeld, wkAcked, wkFolds, wkQueue, wkOld, wkLatched, wkProven, wkInvalid, wkAsked, wkRoute>> /\ wkOffer' = WkIdle
    BY <1>9 DEF WkStops, WkAudit, WkTrack, WkChatVars
  <2>2. wkCount'.events = wkCount.events /\ wkCount' \in [events : Nat, faults : Nat, moves : Nat]
    BY <1>9, FaultIs DEF WkStops, WkIInv
  <2>3. WkShapes' /\ WkOfferHolds' /\ WkAckedIsServed'
    BY <1>1, <2>1, <2>2 DEF WkIInv, WkShapes, WkOffers, WkIdle, WkOfferHolds, WkAckedIsServed
  <2>4. QED
    BY <2>1, <2>2, <2>3, WkQuiet
<1>10. QED
  BY <1>2, <1>3, <1>4, <1>5, <1>6, <1>7, <1>8, <1>9 DEF WkSends

LEMMA WkStep == WkIInv /\ [WkNext]_WkVars => WkIInv'
<1>1. ASSUME WkIInv, UNCHANGED WkVars PROVE WkIInv'
  <2>1. UNCHANGED <<wkCast, wkHeld, wkAcked, wkFolds, wkQueue, wkOld, wkLatched, wkProven, wkInvalid, wkAsked, wkRoute, wkOffer, wkCount>>
    BY <1>1 DEF WkVars, WkAudit, WkTrack, WkChatVars
  <2>2. WkShapes' /\ WkOfferHolds' /\ WkAckedIsServed'
    BY <1>1, <2>1 DEF WkIInv, WkShapes, WkOfferHolds, WkAckedIsServed
  <2>3. QED
    BY <1>1, <2>1, <2>2, WkQuiet
<1>2. ASSUME WkIInv, wkCount'.events = wkCount.events, WkShapes', wkOld \subseteq wkOld',
             wkInvalid \subseteq wkInvalid',
             UNCHANGED <<wkCast, wkHeld, wkAcked, wkFolds, wkQueue, wkLatched, wkProven, wkAsked, wkOffer>>
      PROVE  WkIInv'
  <2>1. WkOfferHolds' /\ WkAckedIsServed'
    BY <1>2 DEF WkIInv, WkOfferHolds, WkAckedIsServed
  <2>2. QED
    BY <1>2, <2>1, WkQuiet
<1>3. ASSUME WkIInv, WkNext PROVE WkIInv'
  <2>1. CASE WkEmit
    BY <1>3, <2>1, EmitInv
  <2>2. CASE WkPolls
    BY <1>3, <2>2, RetiresInv, FoldsInv DEF WkPolls
  <2>3. CASE WkSends \/ WkBroken \/ WkStops
    BY <1>3, <2>3, SendsInv
  <2>4. ASSUME NEW f \in wkFloor, WkFloorLapses(f) PROVE WkIInv'
    <3>1. WkShapes'
      BY <1>3, <2>4 DEF WkFloorLapses, WkChatVars, WkIInv, WkShapes
    <3>2. QED
      BY <1>2, <1>3, <2>4, <3>1 DEF WkFloorLapses, WkAudit, WkTrack
  <2>5. ASSUME NEW e \in WkEvents, WkBenchEnds(e) PROVE WkIInv'
    <3>1. WkShapes'
      BY <1>3, <2>5 DEF WkBenchEnds, WkChatVars, WkIInv, WkShapes
    <3>2. QED
      BY <1>2, <1>3, <2>5, <3>1 DEF WkBenchEnds, WkAudit, WkTrack
  <2>6. ASSUME NEW e \in WkEvents, WkAges(e) PROVE WkIInv'
    <3>1. WkShapes'
      BY <1>3, <2>6 DEF WkAges, WkChatVars, WkIInv, WkShapes
    <3>2. wkOld \subseteq wkOld'
      <4>1. e \in 1..wkCount.events /\ wkCount.events \in Nat /\ wkOld = 1..(e - 1) /\ wkOld' = 1..e
        BY <1>3, <2>6 DEF WkAges, WkIInv, WkShapes
      <4>2. QED
        BY <4>1
    <3>3. QED
      BY <1>2, <1>3, <2>6, <3>1, <3>2 DEF WkAges, WkAudit
  <2>7. ASSUME NEW c \in WkChats, WkAutoBind(c) PROVE WkIInv'
    <3>1. WkShapes'
      BY <1>3, <2>7 DEF WkAutoBind, WkIInv, WkShapes
    <3>2. QED
      BY <1>2, <1>3, <2>7, <3>1 DEF WkAutoBind, WkAudit, WkTrack
  <2>8. ASSUME NEW c \in WkChats, WkRetryWindow(c) PROVE WkIInv'
    <3>1. WkShapes'
      BY <1>3, <2>8 DEF WkRetryWindow, WkIInv, WkShapes
    <3>2. QED
      BY <1>2, <1>3, <2>8, <3>1 DEF WkRetryWindow, WkAudit, WkTrack
  <2>9. ASSUME NEW r \in WkRoutes, NEW c \in WkChats \cup {WkNone}, WkBind(r, c) PROVE WkIInv'
    <3>1. WkShapes' /\ wkCount'.events = wkCount.events
      BY <1>3, <2>9 DEF WkBind, WkIInv, WkShapes
    <3>2. QED
      BY <1>2, <1>3, <2>9, <3>1 DEF WkBind, WkAudit, WkTrack
  <2>10. ASSUME NEW e \in WkEvents, WkMarksInvalid(e) PROVE WkIInv'
    <3>1. WkShapes'
      BY <1>3, <2>10 DEF WkMarksInvalid, WkChatVars, WkIInv, WkShapes
    <3>2. QED
      BY <1>2, <1>3, <2>10, <3>1 DEF WkMarksInvalid, WkAudit
  <2>11. ASSUME NEW e \in WkEvents, WkAcksElsewhere(e) PROVE WkIInv'
    <3>1. WkShapes' /\ WkOfferHolds'
      BY <1>3, <2>11 DEF WkAcksElsewhere, WkChatVars, WkIInv, WkShapes, WkOfferHolds
    <3>2. WkAckedIsServed'
      BY <1>3, <2>11 DEF WkAcksElsewhere, WkIInv, WkAckedIsServed
    <3>3. QED
      BY <1>3, <2>11, <3>1, <3>2, WkQuiet DEF WkAcksElsewhere
  <2>12. QED
    BY <1>3, <2>1, <2>2, <2>3, <2>4, <2>5, <2>6, <2>7, <2>8, <2>9, <2>10, <2>11 DEF WkNext
<1>4. QED
  BY <1>1, <1>3

LEMMA WkStarts == ASSUME WkInit PROVE WkIInv
<1>1. /\ wkCast \in WkCasts /\ wkHeld = {} /\ wkAcked = {} /\ wkFolds = {} /\ wkQueue = <<>>
      /\ wkRoute = wkCast.start /\ wkOffer = WkIdle
      /\ wkCount = [events |-> 0, faults |-> 0, moves |-> 0]
  BY DEF WkInit
<1>2. wkQueue \in Seq(Nat \X WkRoutes) /\ DOMAIN wkQueue = {}
  BY <1>1
<1>3. wkCount.events \in 0..Len(wkCast.events)
  <2>1. Len(wkCast.events) \in Nat
    BY <1>1, WkAssumption
  <2>2. QED
    BY <1>1, <2>1
<1>4. WkRows
  BY <1>1, <1>2, <1>3 DEF WkRows
<1>5. WkShapes
  BY <1>1, IdleIs, WkAssumption DEF WkShapes
<1>6. WkFoldedRow /\ WkFoldedIntoWake /\ WkAckedIsServed
  BY <1>1 DEF WkFoldedRow, WkFoldedIntoWake, WkAckedIsServed
<1>7. WkOfferHolds
  BY <1>1, IdleIs DEF WkOfferHolds
<1>8. QED
  BY <1>4, <1>5, <1>6, <1>7 DEF WkIInv

\* For any events, routes and chats, whatever is bound, lost and found meanwhile and
\* wherever the companion stops: a wake is acknowledged only when it was proven, too old,
\* or retired by another program, is folded only into another wake of its class, and is
\* not sent again once its sending is on record.
THEOREM WakesAreSound == WkSpec => []WkInv
<1>1. WkInit => WkIInv
  BY WkStarts
<1>2. WkIInv => WkInv
  BY DEF WkIInv, WkInv, WkOfferHolds, WkLatchHolds
<1>3. QED
  BY <1>1, <1>2, WkStep, PTL DEF WkSpec

----------------------------------------------------------------------------
(* The types of the wake bridge *)

WkFloors == {"decide", "send"} \X WkRoutes \X BOOLEAN

\* What the companion carries past its polls is an event, for a chat, by a route.
WkCarried ==
    /\ wkOffer.event \in {0} \cup WkEvents
    /\ wkOffer.at \notin {"poll", "fold"} =>
           wkOffer.event \in WkEvents /\ wkOffer.chat \in WkChats /\ wkOffer.route \in WkRoutes
WkMarks ==
    /\ wkAcked \cup wkOld \cup wkBench \cup wkLatched \cup wkProven \cup wkInvalid \cup wkAsked \subseteq WkEvents
    /\ wkFolds \subseteq (WkEvents \X WkEvents \X BOOLEAN) /\ wkFloor \subseteq WkFloors
    /\ wkChat \in [WkChats -> {"active", "dead", "retry"}] /\ wkRefused \subseteq WkChats
WkLimits == wkCount.faults <= wkCast.faults /\ wkCount.moves <= wkCast.moves
WkTIInv == WkIInv /\ WkCarried /\ WkMarks /\ WkLimits

LEMMA EventsAre ==
    ASSUME WkIInv
    PROVE  /\ Len(wkCast.events) \in Nat /\ WkEvents = 1..Len(wkCast.events)
           /\ wkCast.faults \in Nat /\ wkCast.moves \in Nat
           /\ \A e \in WkEvents : wkCast.events[e].act \in BOOLEAN /\ wkCast.events[e].route \in WkRoutes
           /\ 1..wkCount.events \subseteq WkEvents /\ WkWoken \subseteq WkEvents /\ wkHeld \subseteq WkEvents
<1>1. /\ wkCast \in WkCasts /\ Len(wkCast.events) \in Nat /\ WkEvents = 1..Len(wkCast.events)
      /\ wkCast.faults \in Nat /\ wkCast.moves \in Nat
      /\ \A e \in WkEvents : wkCast.events[e].act \in BOOLEAN /\ wkCast.events[e].route \in WkRoutes
  BY WkAssumption DEF WkIInv, WkRows, WkEvents
<1>2. 1..wkCount.events \subseteq WkEvents
  BY <1>1 DEF WkIInv, WkRows
<1>3. WkWoken \subseteq WkEvents
  BY <1>2, WokenIs DEF WkIInv, WkRows
<1>4. QED
  BY <1>1, <1>2, <1>3 DEF WkIInv, WkRows

\* An offer that goes on carries the same; one that ends carries nothing.
LEMMA CarriedOn ==
    ASSUME WkTIInv, wkCast' = wkCast,
           \/ wkOffer' = wkOffer \/ wkOffer' = WkIdle
           \/ /\ wkOffer'.event = wkOffer.event /\ wkOffer'.chat = wkOffer.chat
              /\ wkOffer'.route = wkOffer.route
              /\ wkOffer'.at \in {"poll", "fold"} \/ wkOffer.at \notin {"poll", "fold"}
    PROVE  WkCarried'
<1>1. WkEvents' = WkEvents /\ WkIdle.event = 0 /\ WkIdle.at = "poll"
  BY DEF WkEvents, WkIdle
<1>2. QED
  BY <1>1 DEF WkTIInv, WkCarried

LEMMA FoldersAre ==
    ASSUME WkIInv PROVE WkSupersedes \cup WkCoalesces \subseteq (WkEvents \X WkEvents \X BOOLEAN)
<1>1. WkLive \subseteq WkEvents /\ wkHeld \subseteq WkEvents
  BY EventsAre DEF WkLive
<1>2. WkSupersedes \subseteq (WkEvents \X WkEvents \X BOOLEAN)
  BY <1>1 DEF WkSupersedes
<1>3. WkCoalesces \subseteq (WkEvents \X WkEvents \X BOOLEAN)
  <2> DEFINE wakes == {x \in WkLive \ wkOld : ~wkCast.events[x].act}
             skips == {x \in wkHeld \ (wkOld \cup wkLatched \cup WkWoken) :
                          ~WkFolded(x, FALSE) /\ ~wkCast.events[x].act}
             key(x) == IF x \in wakes THEN WkRouteOf(x) ELSE WkResolve(wkCast.events[x].route).key
             after(y, x) == IF x \in wakes THEN y \in wakes /\ WkPlace(y) >= WkPlace(x)
                                           ELSE y \in wakes \/ y >= x
             kept == {y \in wakes \cup skips : \A x \in wakes \cup skips : key(x) = key(y) => after(y, x)}
  <2>1. WkCoalesces \subseteq ((wakes \cup skips) \ kept) \X kept \X BOOLEAN
    BY DEF WkCoalesces
  <2>2. wakes \cup skips \subseteq WkEvents /\ kept \subseteq WkEvents
    BY <1>1
  <2> HIDE DEF wakes, skips, kept
  <2>3. QED
    BY <2>1, <2>2
<1>4. QED
  BY <1>2, <1>3

\* A floor of the decision is one of the floors.
LEMMA DecideFloorIs ==
    ASSUME WkIInv, NEW e \in WkEvents
    PROVE  WkDecideFloor(e, WkResolve(wkCast.events[e].route).key) \in WkFloors
<1>1. wkCast.events[e].act \in BOOLEAN /\ WkResolve(wkCast.events[e].route).key \in WkRoutes
  BY EventsAre, ResolveIs
<1>2. QED
  BY <1>1 DEF WkDecideFloor, WkFloors

LEMMA EmitTypes == ASSUME WkTIInv, WkEmit PROVE (WkCarried /\ WkMarks /\ WkLimits)'
<1> DEFINE e == wkCount.events + 1
           floor == WkDecideFloor(e, WkResolve(wkCast.events[e].route).key)
<1>1. /\ UNCHANGED <<wkCast, wkAcked, wkFolds, wkOld, wkLatched, wkProven, wkInvalid, wkAsked, wkBench, wkRoute, wkChat,
                     wkRefused, wkOffer>>
      /\ e \in WkEvents /\ wkCount' = [wkCount EXCEPT !.events = e]
      /\ wkFloor' = wkFloor \/ wkFloor' = wkFloor \cup {floor}
  BY DEF WkEmit, WkTrack, WkChatVars
<1>2. floor \in WkFloors
  BY <1>1, DecideFloorIs DEF WkTIInv
<1> HIDE DEF floor, e
<1>3. WkMarks'
  BY <1>1, <1>2 DEF WkTIInv, WkMarks, WkEvents
<1>4. wkCount'.faults = wkCount.faults /\ wkCount'.moves = wkCount.moves
  BY <1>1 DEF WkTIInv, WkIInv, WkShapes
<1>5. QED
  BY <1>1, <1>3, <1>4, CarriedOn DEF WkTIInv, WkLimits

LEMMA RetiresTypes == ASSUME WkTIInv, WkRetires PROVE (WkCarried /\ WkMarks /\ WkLimits)'
<1>1. /\ UNCHANGED <<wkCast, wkFolds, wkOld, wkLatched, wkProven, wkInvalid, wkAsked, wkBench, wkCount, wkRoute, wkChat, wkRefused>>
      /\ wkAcked' = wkAcked \cup WkExpired /\ wkOffer' = [wkOffer EXCEPT !.at = "fold"]
      /\ wkFloor' = wkFloor \cup {WkDecideFloor(e, WkResolve(wkCast.events[e].route).key) : e \in WkRedecided}
  BY DEF WkRetires, WkTrack, WkChatVars
<1>2. WkExpired \subseteq WkEvents /\ WkRedecided \subseteq WkEvents
  BY EventsAre, RedecidedIs DEF WkTIInv, WkExpired
<1>3. {WkDecideFloor(e, WkResolve(wkCast.events[e].route).key) : e \in WkRedecided} \subseteq WkFloors
  BY <1>2, DecideFloorIs DEF WkTIInv
<1>4. WkMarks'
  BY <1>1, <1>2, <1>3 DEF WkTIInv, WkMarks, WkEvents
<1>5. wkOffer'.at = "fold" /\ wkOffer'.event = wkOffer.event /\ wkOffer'.chat = wkOffer.chat
      /\ wkOffer'.route = wkOffer.route
  BY <1>1 DEF WkTIInv, WkIInv, WkShapes, WkOffers
<1>6. QED
  BY <1>1, <1>4, <1>5, CarriedOn DEF WkTIInv, WkLimits

LEMMA FoldsTypes == ASSUME WkTIInv, WkFolds PROVE (WkCarried /\ WkMarks /\ WkLimits)'
<1> DEFINE new == WkSupersedes \cup WkCoalesces
           ready == WkReady(WkLive \ {f[1] : f \in new})
<1>1. /\ UNCHANGED <<wkCast, wkAcked, wkFloor, wkOld, wkLatched, wkProven, wkInvalid, wkAsked, wkBench, wkCount, wkRoute, wkChat, wkRefused>>
      /\ wkFolds' = wkFolds \cup new
  BY DEF WkFolds, WkTrack, WkChatVars
<1>2. new \subseteq (WkEvents \X WkEvents \X BOOLEAN)
  BY FoldersAre DEF WkTIInv
<1>3. WkMarks'
  BY <1>1, <1>2 DEF WkTIInv, WkMarks, WkEvents
<1>4. WkCarried'
  <2>1. CASE wkOffer' = WkIdle
    BY <1>1, <2>1, CarriedOn
  <2>2. CASE wkOffer' # WkIdle
    <3>1. PICK i \in ready :
             wkOffer' = IF WkResolve(wkCast.events[wkQueue[i][1]].route).chat = WkNone THEN WkIdle
                        ELSE [WkIdle EXCEPT !.at = "offered", !.event = wkQueue[i][1],
                                            !.chat = WkResolve(wkCast.events[wkQueue[i][1]].route).chat,
                                            !.route = WkResolve(wkCast.events[wkQueue[i][1]].route).key]
      BY <2>2 DEF WkFolds
    <3>2. i \in DOMAIN wkQueue
      BY DEF WkReady
    <3>3. PICK e \in WkEvents : e = wkQueue[i][1]
      BY <3>2, EventsAre DEF WkTIInv, WkIInv, WkRows
    <3>4. PICK key \in WkRoutes : key = WkResolve(wkCast.events[e].route).key
      BY EventsAre, ResolveIs DEF WkTIInv
    <3>5. PICK chat \in WkChats \cup {WkNone} : chat = WkResolve(wkCast.events[e].route).chat
      <4>1. WkResolve(wkCast.events[e].route).chat = wkRoute[key]
        BY <3>4 DEF WkResolve
      <4>2. QED
        BY <4>1 DEF WkTIInv, WkIInv, WkShapes
    <3>6. chat # WkNone /\ wkOffer' = [WkIdle EXCEPT !.at = "offered", !.event = e, !.chat = chat, !.route = key]
      BY <2>2, <3>1, <3>3, <3>4, <3>5
    <3>7. wkOffer' = [at |-> "offered", event |-> e, chat |-> chat, route |-> key, lands |-> FALSE]
      BY <3>6 DEF WkIdle
    <3>8. QED
      BY <1>1, <3>6, <3>7 DEF WkCarried, WkEvents
  <2>3. QED
    BY <2>1, <2>2
<1>5. QED
  BY <1>1, <1>3, <1>4 DEF WkTIInv, WkLimits

LEMMA FaultTypes == ASSUME WkTIInv, WkFault, wkCast' = wkCast PROVE WkLimits'
<1>1. PICK n \in 0..wkCast.faults : n = wkCount.faults + 1
  BY EventsAre DEF WkTIInv, WkIInv, WkShapes, WkFault
<1>2. wkCount' = [wkCount EXCEPT !.faults = n]
  BY <1>1 DEF WkFault
<1>3. wkCount'.faults = n /\ wkCount'.moves = wkCount.moves
  BY <1>2 DEF WkTIInv, WkIInv, WkShapes
<1>4. QED
  BY <1>1, <1>3 DEF WkTIInv, WkLimits

LEMMA FailsTypes ==
    ASSUME WkTIInv, NEW refused \in BOOLEAN, WkFails(refused), wkOffer.at \notin {"poll", "fold"}
    PROVE  (WkCarried /\ WkMarks)' /\ wkCast' = wkCast
<1>1. /\ UNCHANGED <<wkCast, wkAcked, wkFolds, wkFloor, wkOld, wkLatched, wkProven, wkInvalid, wkAsked>> /\ wkOffer' = WkIdle
      /\ wkBench' \subseteq wkBench \cup {wkOffer.event}
      /\ wkRefused' \subseteq wkRefused \cup {wkOffer.chat}
      /\ wkChat' = wkChat \/ wkChat' = [wkChat EXCEPT ![wkOffer.chat] = "dead"]
  BY DEF WkFails, WkAudit, WkTrack
<1>2. wkOffer.event \in WkEvents /\ wkOffer.chat \in WkChats
  BY DEF WkTIInv, WkCarried
<1>3. wkChat' \in [WkChats -> {"active", "dead", "retry"}]
  BY <1>1 DEF WkTIInv, WkMarks
<1>4. WkMarks'
  BY <1>1, <1>2, <1>3 DEF WkTIInv, WkMarks, WkEvents
<1>5. QED
  BY <1>1, <1>4, CarriedOn

LEMMA SendsTypes == ASSUME WkTIInv, WkSends \/ WkBroken \/ WkStops PROVE (WkCarried /\ WkMarks /\ WkLimits)'
<1>1. wkOffer \in WkOffers /\ (wkOffer.at \notin {"poll", "fold"} =>
          wkOffer.event \in WkEvents /\ wkOffer.chat \in WkChats /\ wkOffer.route \in WkRoutes)
  BY DEF WkTIInv, WkIInv, WkShapes, WkCarried
<1>2. ASSUME wkCount' = wkCount, wkCast' = wkCast PROVE WkLimits'
  BY <1>2 DEF WkTIInv, WkLimits
<1>3. CASE WkUnsent \/ WkNotCleared \/ WkUnproven
  BY <1>2, <1>3, FailsTypes DEF WkUnsent, WkNotCleared, WkUnproven
<1>4. CASE WkBroken
  BY <1>4, FailsTypes, FaultTypes DEF WkBroken
<1>5. CASE WkClaims
  <2> DEFINE floor == <<"send", wkOffer.route, wkCast.events[wkOffer.event].act>>
  <2>1. /\ UNCHANGED <<wkCast, wkAcked, wkFolds, wkOld, wkLatched, wkProven, wkInvalid, wkAsked, wkBench, wkCount, wkChat, wkRefused>>
        /\ wkOffer.at = "offered" /\ wkFloor' = wkFloor \cup {floor}
        /\ wkOffer' = WkIdle \/ wkOffer' = [wkOffer EXCEPT !.at = "claimed"]
    BY <1>5 DEF WkClaims, WkAudit, WkTrack, WkChatVars
  <2>2. floor \in WkFloors
    BY <1>1, <2>1, EventsAre DEF WkTIInv, WkFloors
  <2> HIDE DEF floor
  <2>3. WkMarks'
    BY <2>1, <2>2 DEF WkTIInv, WkMarks, WkEvents
  <2>4. wkOffer' = WkIdle \/ (/\ wkOffer'.event = wkOffer.event /\ wkOffer'.chat = wkOffer.chat
                              /\ wkOffer'.route = wkOffer.route)
    BY <1>1, <2>1 DEF WkOffers
  <2>5. WkCarried'
    BY <2>1, <2>4, CarriedOn
  <2>6. QED
    BY <1>2, <2>1, <2>3, <2>5
<1>6. CASE WkFires
  <2>1. UNCHANGED <<wkCast, wkAcked, wkFolds, wkFloor, wkOld, wkLatched, wkProven, wkInvalid, wkAsked, wkBench, wkCount, wkChat, wkRefused>>
        /\ wkOffer.at = "claimed"
    BY <1>6 DEF WkFires, WkAudit, WkTrack, WkChatVars
  <2>2. wkOffer'.event = wkOffer.event /\ wkOffer'.chat = wkOffer.chat /\ wkOffer'.route = wkOffer.route
    BY <1>1, <1>6 DEF WkFires, WkOffers
  <2>3. WkMarks'
    BY <2>1 DEF WkTIInv, WkMarks, WkEvents
  <2>4. QED
    BY <1>2, <2>1, <2>2, <2>3, CarriedOn
<1>7. CASE WkLatches
  <2>1. /\ UNCHANGED <<wkCast, wkAcked, wkFolds, wkFloor, wkOld, wkProven, wkInvalid, wkAsked, wkBench, wkCount, wkChat, wkRefused>>
        /\ wkOffer.at = "fired" /\ wkLatched' = wkLatched \cup {wkOffer.event}
        /\ wkOffer' = [wkOffer EXCEPT !.at = "latched"]
    BY <1>7 DEF WkLatches, WkAudit, WkChatVars
  <2>2. wkOffer'.event = wkOffer.event /\ wkOffer'.chat = wkOffer.chat /\ wkOffer'.route = wkOffer.route
    BY <1>1, <2>1 DEF WkOffers
  <2>3. WkMarks'
    BY <1>1, <2>1 DEF WkTIInv, WkMarks, WkEvents
  <2>4. QED
    BY <1>2, <2>1, <2>2, <2>3, CarriedOn
<1>8. CASE WkProves
  <2>1. /\ UNCHANGED <<wkCast, wkAcked, wkFolds, wkFloor, wkOld, wkLatched, wkInvalid, wkAsked, wkBench, wkCount>>
        /\ wkOffer.at = "latched" /\ wkProven' = wkProven \cup {wkOffer.event}
        /\ wkRefused' \subseteq wkRefused /\ wkChat' = [wkChat EXCEPT ![wkOffer.chat] = "active"]
        /\ wkOffer' = [wkOffer EXCEPT !.at = "proven"]
    BY <1>8 DEF WkProves, WkAudit
  <2>2. wkOffer'.event = wkOffer.event /\ wkOffer'.chat = wkOffer.chat /\ wkOffer'.route = wkOffer.route
    BY <1>1, <2>1 DEF WkOffers
  <2>3. wkChat' \in [WkChats -> {"active", "dead", "retry"}]
    BY <2>1 DEF WkTIInv, WkMarks
  <2>4. WkMarks'
    BY <1>1, <2>1, <2>3 DEF WkTIInv, WkMarks, WkEvents
  <2>5. QED
    BY <1>2, <2>1, <2>2, <2>4, CarriedOn
<1>9. CASE WkAcknowledges
  <2>1. /\ UNCHANGED <<wkCast, wkFolds, wkFloor, wkOld, wkLatched, wkProven, wkInvalid, wkAsked, wkBench, wkCount, wkChat, wkRefused>>
        /\ wkOffer.at = "proven" /\ wkAcked' = wkAcked \cup {wkOffer.event} /\ wkOffer' = WkIdle
    BY <1>9 DEF WkAcknowledges, WkTrack, WkChatVars
  <2>2. WkMarks'
    BY <1>1, <2>1 DEF WkTIInv, WkMarks, WkEvents
  <2>3. QED
    BY <1>2, <2>1, <2>2, CarriedOn
<1>10. CASE WkStops
  <2>1. /\ UNCHANGED <<wkCast, wkAcked, wkFolds, wkFloor, wkOld, wkLatched, wkProven, wkInvalid, wkAsked, wkBench, wkChat, wkRefused>>
        /\ wkOffer' = WkIdle /\ WkFault
    BY <1>10 DEF WkStops, WkAudit, WkTrack, WkChatVars
  <2>2. WkMarks'
    BY <2>1 DEF WkTIInv, WkMarks, WkEvents
  <2>3. QED
    BY <2>1, <2>2, FaultTypes, CarriedOn
<1>11. QED
  BY <1>3, <1>4, <1>5, <1>6, <1>7, <1>8, <1>9, <1>10 DEF WkSends

LEMMA OthersTypes ==
    ASSUME WkTIInv, WkNext, ~(WkEmit \/ WkPolls \/ WkSends \/ WkBroken \/ WkStops)
    PROVE  (WkCarried /\ WkMarks /\ WkLimits)'
<1>1. ASSUME UNCHANGED <<wkCast, wkOffer, wkCount>>, WkMarks' PROVE (WkCarried /\ WkMarks /\ WkLimits)'
  BY <1>1, CarriedOn DEF WkTIInv, WkLimits
<1>2. ASSUME NEW f \in wkFloor, WkFloorLapses(f) PROVE (WkCarried /\ WkMarks /\ WkLimits)'
  BY <1>1, <1>2 DEF WkFloorLapses, WkAudit, WkTrack, WkChatVars, WkTIInv, WkMarks, WkEvents
<1>3. ASSUME NEW e \in WkEvents, WkBenchEnds(e) PROVE (WkCarried /\ WkMarks /\ WkLimits)'
  BY <1>1, <1>3 DEF WkBenchEnds, WkAudit, WkTrack, WkChatVars, WkTIInv, WkMarks, WkEvents
<1>4. ASSUME NEW e \in WkEvents, WkAges(e) PROVE (WkCarried /\ WkMarks /\ WkLimits)'
  <2>1. wkOld' \subseteq WkEvents
    BY <1>4, EventsAre DEF WkAges, WkTIInv
  <2>2. QED
    BY <1>1, <1>4, <2>1 DEF WkAges, WkAudit, WkChatVars, WkTIInv, WkMarks, WkEvents
<1>5. ASSUME NEW c \in WkChats, WkAutoBind(c) PROVE (WkCarried /\ WkMarks /\ WkLimits)'
  BY <1>1, <1>5 DEF WkAutoBind, WkAudit, WkTrack, WkTIInv, WkMarks, WkEvents
<1>6. ASSUME NEW c \in WkChats, WkRetryWindow(c) PROVE (WkCarried /\ WkMarks /\ WkLimits)'
  BY <1>1, <1>6 DEF WkRetryWindow, WkAudit, WkTrack, WkTIInv, WkMarks, WkEvents
<1>7. ASSUME NEW r \in WkRoutes, NEW c \in WkChats \cup {WkNone}, WkBind(r, c)
      PROVE  (WkCarried /\ WkMarks /\ WkLimits)'
  <2>1. WkMarks' /\ wkCast' = wkCast /\ wkOffer' = wkOffer
    BY <1>7 DEF WkBind, WkAudit, WkTrack, WkTIInv, WkMarks, WkEvents
  <2>2. PICK n \in 0..wkCast.moves : n = wkCount.moves + 1
    BY <1>7, EventsAre DEF WkTIInv, WkIInv, WkShapes, WkBind
  <2>3. wkCount' = [wkCount EXCEPT !.moves = n]
    BY <1>7, <2>2 DEF WkBind
  <2>4. wkCount'.moves = n /\ wkCount'.faults = wkCount.faults
    BY <2>3 DEF WkTIInv, WkIInv, WkShapes
  <2>5. QED
    BY <2>1, <2>2, <2>4, CarriedOn DEF WkTIInv, WkLimits
<1>8. ASSUME NEW e \in WkEvents, WkMarksInvalid(e) \/ WkAcksElsewhere(e) PROVE (WkCarried /\ WkMarks /\ WkLimits)'
  BY <1>1, <1>8 DEF WkMarksInvalid, WkAcksElsewhere, WkAudit, WkChatVars, WkTIInv, WkMarks, WkEvents
<1>9. QED
  BY <1>2, <1>3, <1>4, <1>5, <1>6, <1>7, <1>8 DEF WkNext

LEMMA WkTStep == WkTIInv /\ [WkNext]_WkVars => WkTIInv'
<1>1. ASSUME WkTIInv, UNCHANGED WkVars PROVE WkTIInv'
  <2>1. WkIInv'
    BY <1>1, WkStep DEF WkTIInv
  <2>2. QED
    BY <1>1, <2>1 DEF WkVars, WkAudit, WkTrack, WkChatVars, WkTIInv, WkCarried, WkMarks, WkLimits, WkEvents
<1>2. ASSUME WkTIInv, WkNext PROVE WkTIInv'
  <2>1. WkIInv'
    BY <1>2, WkStep DEF WkTIInv
  <2>2. (WkCarried /\ WkMarks /\ WkLimits)'
    BY <1>2, EmitTypes, RetiresTypes, FoldsTypes, SendsTypes, OthersTypes DEF WkPolls
  <2>3. QED
    BY <2>1, <2>2 DEF WkTIInv
<1>3. QED
  BY <1>1, <1>2

\* One row for each event: the queue is no longer than the events are many.
LEMMA QueueIsBounded == ASSUME WkIInv PROVE wkQueue \in BoundedSeq(WkEvents \X WkRoutes, Len(wkCast.events))
<1>1. PICK n \in Nat : n = Len(wkCast.events) /\ WkEvents = 1..n
  BY EventsAre
<1>2. PICK m \in Nat : m = Len(wkQueue)
  BY DEF WkIInv, WkRows
<1>3. wkQueue \in [1..m -> WkEvents \X WkRoutes]
  <2>1. wkQueue \in [1..m -> Nat \X WkRoutes] /\ DOMAIN wkQueue = 1..m
    BY <1>2 DEF WkIInv, WkRows
  <2>2. \A i \in 1..m : wkQueue[i][1] \in WkEvents
    BY <2>1, EventsAre DEF WkIInv, WkRows
  <2>3. QED
    BY <2>1, <2>2
<1>4. m <= n
  <2>1. SUFFICES ASSUME n < m PROVE FALSE
    BY <1>1, <1>2
  <2>2. PICK f : f = [i \in 1..m |-> wkQueue[i][1]]
    OBVIOUS
  <2>3. f \in [1..m -> WkEvents]
    BY <1>3, <2>2
  <2>4. \A k \in Nat : IsFiniteSet(1..k) /\ Cardinality(1..k) = k
    <3>1. ASSUME NEW k \in Nat PROVE IsFiniteSet(1..k) /\ Cardinality(1..k) = k
      <4>1. 1 \in Int /\ k \in Int
        OBVIOUS
      <4>2. IsFiniteSet(1..k) /\ Cardinality(1..k) = IF 1 > k THEN 0 ELSE k - 1 + 1
        BY <4>1, FS_Interval
      <4>3. QED
        BY <4>2
    <3>2. QED
      BY <3>1
  <2>5. /\ IsFiniteSet(1..m) /\ IsFiniteSet(WkEvents)
        /\ Cardinality(WkEvents) < Cardinality(1..m)
    BY <1>1, <1>2, <2>1, <2>4
  <2>6. PICK i \in 1..m, j \in 1..m : i # j /\ f[i] = f[j]
    BY <2>3, <2>5, FS_PigeonHole
  <2>7. i \in DOMAIN wkQueue /\ j \in DOMAIN wkQueue /\ wkQueue[i][1] = wkQueue[j][1]
    BY <1>3, <2>2, <2>6
  <2>8. QED
    BY <2>6, <2>7 DEF WkIInv, WkRows
<1>5. QED
  BY <1>1, <1>3, <1>4 DEF BoundedSeq, SeqOf

\* The types of the wake bridge, for any events, routes and chats: every mark is on an
\* event, an event has at most one wake row, and what is sent is one event to one chat.
THEOREM WkTypeCorrect == WkSpec => []WkTypeOK
<1>1. WkInit => WkTIInv
  <2>1. ASSUME WkInit PROVE WkTIInv
    <3>1. WkIInv
      BY <2>1, WkStarts
    <3>2. /\ wkAcked = {} /\ wkOld = {} /\ wkBench = {} /\ wkLatched = {} /\ wkProven = {} /\ wkFolds = {}
          /\ wkFloor = {} /\ wkRefused = {} /\ wkInvalid = {} /\ wkAsked = {} /\ wkOffer = WkIdle
      BY <2>1 DEF WkInit
    <3>3. wkChat = [c \in WkChats |-> "active"]
      BY <2>1 DEF WkInit
    <3>4. WkMarks
      BY <3>2, <3>3 DEF WkMarks
    <3>5. WkCarried
      BY <3>2 DEF WkCarried, WkIdle
    <3>6. wkCount = [events |-> 0, faults |-> 0, moves |-> 0]
      BY <2>1 DEF WkInit
    <3>7. WkLimits
      BY <3>1, <3>6, EventsAre DEF WkLimits
    <3>8. QED
      BY <3>1, <3>4, <3>5, <3>7 DEF WkTIInv
  <2>2. QED
    BY <2>1
<1>2. WkTIInv => WkTypeOK
  <2>1. ASSUME WkTIInv PROVE WkTypeOK
    <3>1. wkCast \in WkCasts /\ wkHeld \cup wkAcked \subseteq WkEvents
          /\ wkOld \cup wkBench \cup wkLatched \cup wkProven \cup wkInvalid \cup wkAsked \subseteq WkEvents
      BY <2>1, EventsAre DEF WkTIInv, WkIInv, WkRows, WkMarks
    <3>2. wkQueue \in BoundedSeq(WkEvents \X WkRoutes, Len(wkCast.events))
      BY <2>1, QueueIsBounded DEF WkTIInv
    <3>3. /\ wkFloor \subseteq ({"decide", "send"} \X WkRoutes \X BOOLEAN)
          /\ wkFolds \subseteq (WkEvents \X WkEvents \X BOOLEAN)
          /\ wkChat \in [WkChats -> {"active", "dead", "retry"}] /\ wkRefused \subseteq WkChats
      BY <2>1 DEF WkTIInv, WkMarks, WkFloors
    <3>4. wkRoute \in [WkRoutes -> WkChats \cup {WkNone}]
      BY <2>1 DEF WkTIInv, WkIInv, WkShapes
    <3>5. wkOffer \in [at : {"poll", "fold", "offered", "claimed", "fired", "latched", "proven"},
                       event : {0} \cup WkEvents, chat : WkChats \cup {WkNone},
                       route : WkRoutes \cup {WkNone}, lands : BOOLEAN]
      BY <2>1 DEF WkTIInv, WkIInv, WkShapes, WkOffers, WkCarried
    <3>6. wkCount \in [events : 0..Len(wkCast.events), faults : 0..wkCast.faults, moves : 0..wkCast.moves]
      <4>1. wkCount \in [events : Nat, faults : Nat, moves : Nat]
        BY <2>1 DEF WkTIInv, WkIInv, WkShapes
      <4>2. /\ wkCount.events \in 0..Len(wkCast.events) /\ wkCount.faults \in 0..wkCast.faults
            /\ wkCount.moves \in 0..wkCast.moves
        BY <2>1, <4>1, EventsAre DEF WkTIInv, WkIInv, WkRows, WkLimits
      <4>3. QED
        BY <4>1, <4>2
    <3>7. QED
      BY <3>1, <3>2, <3>3, <3>4, <3>5, <3>6 DEF WkTypeOK
  <2>2. QED
    BY <2>1
<1>3. QED
  BY <1>1, <1>2, WkTStep, PTL DEF WkSpec
=============================================================================

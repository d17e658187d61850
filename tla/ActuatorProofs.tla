--------------------------- MODULE ActuatorProofs ---------------------------
(***************************************************************************)
(* Proofs about the two clients of the actuator: the task ledger, which is *)
(* in order and implements TaskLedger while one thread ticks it, and the   *)
(* continuation watchdog, whose attempts are capped and whose verified     *)
(* sends stand.                                                            *)
(***************************************************************************)
EXTENDS OsTasks, ContinuationWatchdog, WellFoundedInduction, TLAPS

\* active_task and next_queued order by a number: a set of numbers that is not
\* empty has a least one.
LEMMA LeastOf ==
    ASSUME NEW S \in SUBSET Nat, S # {}
    PROVE  \E t \in S : \A u \in S : t <= u
<1> DEFINE R == {ss \in Nat \X Nat : ss[1] < ss[2]}
<1>1. IsWellFoundedOn(R, Nat)
  BY NatLessThanWellFounded DEF OpToRel
<1> HIDE DEF R
<1>2. PICK x \in S : \A y \in S : ~ (<<y, x>> \in R)
  <2>1. S \subseteq Nat
    OBVIOUS
  <2>2. QED
    BY ONLY <1>1, <2>1, S # {}, WFMin, Zenon
<1>3. \A y \in S : ~ (y < x)
  BY <1>2 DEF R
<1>4. QED
  BY <1>3

\* FirstIn returns the oldest row of the set of states, or 0 when there is none.
LEMMA FirstOfStates ==
    ASSUME NEW states
    PROVE  /\ FirstIn(states) = 0 => \A t \in Tasks : task[t].state \notin states
           /\ FirstIn(states) # 0 =>
                 /\ FirstIn(states) \in Tasks
                 /\ task[FirstIn(states)].state \in states
                 /\ \A u \in Tasks : u < FirstIn(states) => task[u].state \notin states
<1> DEFINE S == {t \in Tasks : task[t].state \in states}
<1>1. CASE S = {}
  BY <1>1 DEF FirstIn
<1>2. CASE S # {}
  <2>1. S \in SUBSET Nat /\ 0 \notin S
    BY TaskAssumption DEF Tasks
  <2>2. \E t \in S : \A u \in S : t <= u
    BY <1>2, <2>1, LeastOf
  <2>3. FirstIn(states) = CHOOSE t \in S : \A u \in S : t <= u
    BY <1>2 DEF FirstIn
  <2>4. Tasks \subseteq Nat /\ S \subseteq Nat
    BY <2>1, TaskAssumption DEF Tasks
  <2> HIDE DEF S
  <2>5. PICK m \in S : m = FirstIn(states) /\ \A u \in S : m <= u
    BY <2>2, <2>3
  <2>6. \A u \in Tasks : u < m => u \notin S
    BY <2>4, <2>5
  <2>7. QED
    BY <2>1, <2>5, <2>6 DEF S
<1>3. QED
  BY <1>1, <1>2

----------------------------------------------------------------------------
(* The threads and the types *)

\* A thread in flight carries the text of one attempt.
InFlight(p) == thread[p].at \notin {"idle", "advance"}
Carries == \A p \in Threads : InFlight(p) => thread[p].text \in Text
Carried(w, v) ==
    v.text = w.text /\ v.state = w.state /\ v.attempts = w.attempts /\ v.at \notin {"idle", "advance"}

\* Where an attempt ends for good a rival rests, and a ticker still carries its row.
LEMMA OverIs ==
    ASSUME NEW p \in Threads, NEW w \in Thread, NEW v \in Thread, Carried(w, v)
    PROVE  Over(p, v) \in Thread /\ (p \in Tickers => Carried(w, Over(p, v)))
           /\ (Over(p, v) = Resting \/ Carried(w, Over(p, v)))
<1>1. [v EXCEPT !.at = "settle"] \in Thread /\ Carried(w, [v EXCEPT !.at = "settle"])
  BY DEF Thread, Carried
<1>2. Resting \in Thread
  BY TaskAssumption DEF Resting, Thread, Conv, Open
<1>3. QED
  BY <1>1, <1>2, TaskAssumption DEF Over

LEMMA TaskInitTypes == TaskInit => TaskTypeOK /\ Carries
<1>1. 0 \in Conv /\ 0 \in Nat
  BY TaskAssumption DEF Conv
<1>2. ASSUME TaskInit PROVE TaskTypeOK /\ Carries
  <2>1. NoTask \in TaskRow /\ Resting \in Thread
    BY <1>1 DEF NoTask, TaskRow, Resting, Thread, Open
  <2>2. pane \in Pane
    BY <1>1, <1>2 DEF TaskInit, Pane
  <2>3. Carries
    BY <1>2 DEF TaskInit, Carries, InFlight, Resting
  <2>4. QED
    BY <1>2, <2>1, <2>2, <2>3 DEF TaskInit, TaskTypeOK
<1>3. QED
  BY <1>2

\* What a step of the lease and the actuator does to its thread: the attempt goes on
\* with the text and the row it began with, or a rival rests.
Attempts(p) ==
    /\ InFlight(p)
    /\ \E v \in Thread : /\ thread' = [thread EXCEPT ![p] = v]
                         /\ p \in Tickers => Carried(thread[p], v)
                         /\ v = Resting \/ Carried(thread[p], v)

LEMMA ActuatesIs ==
    ASSUME TaskTypeOK, Carries, NEW p \in Threads, Actuates(p), cast' = cast
    PROVE  TaskTypeOK' /\ Attempts(p) /\ task' = task /\ replied' = replied /\ got \subseteq got'
<1> DEFINE w == thread[p]
<1>1. w \in Thread /\ pane \in Pane /\ (InFlight(p) => w.text \in Text)
  BY DEF TaskTypeOK, Carries
<1>2. ASSUME NEW v \in Thread, thread' = [thread EXCEPT ![p] = v]
      PROVE  thread' \in [Threads -> Thread]
  BY <1>2 DEF TaskTypeOK
<1>3. CASE LeaseRead(p)
  <2>1. PICK a \in {"check", "write"} : thread' = [thread EXCEPT ![p] = [w EXCEPT !.at = a, !.conv = pane.conv]]
    BY <1>3 DEF LeaseRead, TaskTypeOK
  <2>2. [w EXCEPT !.at = a, !.conv = pane.conv] \in Thread /\ Carried(w, [w EXCEPT !.at = a, !.conv = pane.conv])
    BY <1>1 DEF Thread, Pane, Carried
  <2>3. Attempts(p)
    BY <1>3, <2>1, <2>2 DEF LeaseRead, Attempts, InFlight
  <2>4. QED
    BY <1>2, <1>3, <2>1, <2>2, <2>3 DEF LeaseRead, TaskTypeOK
<1>4. CASE LeaseWrite(p)
  <2>1. [w EXCEPT !.at = "check", !.leased = TRUE] \in Thread /\ Carried(w, [w EXCEPT !.at = "check", !.leased = TRUE])
    BY <1>1 DEF Thread, Carried
  <2>2. thread' = [thread EXCEPT ![p] = [w EXCEPT !.at = "check", !.leased = TRUE]]
    BY <1>4 DEF LeaseWrite, TaskTypeOK
  <2>3. Attempts(p)
    BY <1>4, <2>1, <2>2 DEF LeaseWrite, Attempts, InFlight
  <2>4. lease' = [by |-> p, live |-> TRUE] /\ UNCHANGED <<task, verified, pane, got, replied>>
    BY <1>4 DEF LeaseWrite
  <2>5. QED
    BY <1>2, <2>1, <2>2, <2>3, <2>4 DEF TaskTypeOK
<1>5. CASE ActuatorGuards(p)
  <2>1. PICK m \in {"submit", "deliver"} :
           \/ thread' = [thread EXCEPT ![p] = [w EXCEPT !.at = "send", !.mode = m]]
           \/ thread' = [thread EXCEPT ![p] = Over(p, w)]
    BY <1>5 DEF ActuatorGuards, Refuse, TaskTypeOK
  <2>2. [w EXCEPT !.at = "send", !.mode = m] \in Thread /\ Carried(w, [w EXCEPT !.at = "send", !.mode = m])
    BY <1>1 DEF Thread, Carried
  <2>3. InFlight(p)
    BY <1>5 DEF ActuatorGuards, InFlight
  <2>4. Carried(w, w)
    BY <2>3 DEF Carried, InFlight
  <2>5. PICK v \in Thread : /\ thread' = [thread EXCEPT ![p] = v]
                            /\ p \in Tickers => Carried(w, v)
                            /\ v = Resting \/ Carried(w, v)
    BY <1>1, <2>1, <2>2, <2>4, OverIs
  <2>6. QED
    BY <1>2, <1>5, <2>3, <2>5 DEF ActuatorGuards, TaskTypeOK, Attempts
<1>6. CASE DeliverAndVerify(p)
  <2>1. PICK ok \in BOOLEAN : thread' = [thread EXCEPT ![p] = [w EXCEPT !.at = "record", !.ok = ok]]
    BY <1>6 DEF DeliverAndVerify, TaskTypeOK
  <2>2. [w EXCEPT !.at = "record", !.ok = ok] \in Thread /\ Carried(w, [w EXCEPT !.at = "record", !.ok = ok])
    BY <1>1 DEF Thread, Carried
  <2>3. Attempts(p)
    BY <1>6, <2>1, <2>2 DEF DeliverAndVerify, Attempts, InFlight
  <2>4. w.text \in Text
    BY <1>1, <1>6 DEF DeliverAndVerify, InFlight
  <2>5. pane' \in Pane /\ got' \subseteq Tasks /\ got \subseteq got'
    <3>1. got \subseteq Tasks
      BY DEF TaskTypeOK
    <3>2. CASE Types(w.text)
      BY <1>1, <2>4, <3>1, <3>2 DEF Types, Lands, Pane
    <3>3. CASE PressesEnter
      BY <1>1, <3>1, <3>3 DEF PressesEnter, Lands, Pane
    <3>4. QED
      BY <1>6, <3>2, <3>3 DEF DeliverAndVerify
  <2>6. QED
    BY <1>2, <1>6, <2>1, <2>2, <2>3, <2>5 DEF DeliverAndVerify, TaskTypeOK
<1>7. CASE ActuatorRecords(p)
  <2>1. InFlight(p)
    BY <1>7 DEF ActuatorRecords, InFlight
  <2>2. PICK b \in BOOLEAN : thread' = [thread EXCEPT ![p] =
            IF b THEN [w EXCEPT !.at = "again", !.acted = TRUE] ELSE Over(p, [w EXCEPT !.acted = LeaseIsCurrent(p) /\ w.ok])]
    <3>1. (LeaseIsCurrent(p) /\ w.ok /\ w.robust) \in BOOLEAN
      BY DEF LeaseIsCurrent
    <3>2. QED
      BY <1>7, <3>1 DEF ActuatorRecords
  <2>3. [w EXCEPT !.at = "again", !.acted = TRUE] \in Thread /\ Carried(w, [w EXCEPT !.at = "again", !.acted = TRUE])
    BY <1>1 DEF Thread, Carried
  <2>4. [w EXCEPT !.acted = LeaseIsCurrent(p) /\ w.ok] \in Thread
        /\ Carried(w, [w EXCEPT !.acted = LeaseIsCurrent(p) /\ w.ok])
    <3>1. (LeaseIsCurrent(p) /\ w.ok) \in BOOLEAN
      BY DEF LeaseIsCurrent
    <3>2. QED
      BY <1>1, <2>1, <3>1 DEF Thread, Carried, InFlight
  <2>5. PICK v \in Thread : /\ thread' = [thread EXCEPT ![p] = v]
                            /\ p \in Tickers => Carried(w, v)
                            /\ v = Resting \/ Carried(w, v)
    BY <1>1, <2>2, <2>3, <2>4, OverIs
  <2>6. <<w.text, w.conv>> \in ActionKey
    BY <1>1, <2>1 DEF ActionKey, Thread
  <2>7. verified' \subseteq ActionKey
    BY <1>7, <2>6 DEF ActuatorRecords, TaskTypeOK
  <2>8. QED
    BY <1>2, <1>7, <2>1, <2>5, <2>7 DEF ActuatorRecords, TaskTypeOK, Attempts
<1>8. QED
  BY <1>3, <1>4, <1>5, <1>6, <1>7 DEF Actuates

\* What a tick makes of the ledger: nothing, an attempt at the oldest queued row or at
\* the active one, or a new state of the active one.
TsBegins(p, t) ==
    /\ task' = task /\ SinceNow(t)
    /\ \E robust \in BOOLEAN :
          thread' = [thread EXCEPT ![p] = [Resting EXCEPT !.at = "read", !.text = t,
                        !.state = task[t].state, !.attempts = task[t].attempts, !.robust = robust]]
    /\ \/ /\ task[t].state = "queued"
          /\ \A u \in Tasks : task[u].state \notin TaskActive /\ (u < t => task[u].state # "queued")
       \/ task[t].state \in TaskActive /\ t \notin got /\ task[t].attempts < MaxAttempts
TsCloses(p, t) ==
    /\ task[t].state \in TaskActive
    /\ \E s \in TaskActive \cup TaskTerminal :
          /\ Close(p, t, s)
          /\ s = "done" => t \in got \cap replied
          /\ s = "failed" => IF t \in got THEN t \notin replied /\ task[t].stalled
                                ELSE task[t].attempts >= MaxAttempts
          /\ s \in TaskActive => s = task[t].state \/ (s = "working" /\ t \in got)

LEMMA AdvanceIs ==
    ASSUME TaskTypeOK, NEW p \in Tickers, Advance(p)
    PROVE  /\ UNCHANGED <<verified, lease, pane>>
           /\ \/ /\ task' = task /\ thread' = [thread EXCEPT ![p] = Resting]
                 /\ UNCHANGED <<got, replied>>
              \/ \E t \in Tasks : TsBegins(p, t) \/ TsCloses(p, t)
<1> DEFINE active == FirstIn(TaskActive)
           next == FirstIn({"queued"})
<1>1. UNCHANGED <<verified, lease, pane>>
  BY DEF Advance
<1>2. CASE active = 0 /\ next = 0
  BY <1>2 DEF Advance
<1>3. CASE active = 0 /\ next # 0
  <2>1. next \in Tasks /\ task[next].state = "queued"
    BY <1>3, FirstOfStates
  <2>2. \A u \in Tasks : task[u].state \notin TaskActive
    BY <1>3, FirstOfStates
  <2>3. \A u \in Tasks : u < next => task[u].state # "queued"
    BY <1>3, FirstOfStates
  <2>4. Submit(p, next, FALSE)
    BY <1>3 DEF Advance
  <2> HIDE DEF next
  <2>5. TsBegins(p, next)
    BY <2>1, <2>2, <2>3, <2>4 DEF TsBegins, Submit
  <2>6. QED
    BY <1>1, <2>1, <2>5
<1>4. CASE active # 0 /\ active \in got
  <2>1. active \in Tasks /\ task[active].state \in TaskActive
    BY <1>4, FirstOfStates
  <2>2. Acknowledged(p, active)
    BY <1>4 DEF Advance
  <2> HIDE DEF active
  <2>3. PICK s \in {"done", "failed", "working"} :
           /\ Close(p, active, s) /\ (s = "done" => active \in replied)
           /\ s = "failed" => active \notin replied /\ task[active].stalled
    BY <2>2 DEF Acknowledged
  <2>4. TsCloses(p, active)
    BY <1>4, <2>1, <2>3 DEF TsCloses, TaskActive, TaskTerminal
  <2>5. QED
    BY <1>1, <2>1, <2>4
<1>5. CASE active # 0 /\ active \notin got
  <2>1. active \in Tasks /\ task[active].state \in TaskActive
    BY <1>5, FirstOfStates
  <2>2. Unacknowledged(p, active)
    BY <1>5 DEF Advance
  <2> HIDE DEF active
  <2>3. CASE Close(p, active, task[active].state)
    BY <1>1, <2>1, <2>3 DEF TsCloses, TaskActive, TaskTerminal
  <2>4. CASE Submit(p, active, TRUE) /\ task[active].attempts < MaxAttempts
    BY <1>1, <1>5, <2>1, <2>4 DEF TsBegins, Submit
  <2>5. CASE Close(p, active, "failed") /\ task[active].attempts >= MaxAttempts
    BY <1>1, <1>5, <2>1, <2>5 DEF TsCloses, TaskActive, TaskTerminal
  <2>6. task[active].attempts < MaxAttempts \/ task[active].attempts >= MaxAttempts
    <3>1. task[active].attempts \in Nat
      BY <2>1 DEF TaskTypeOK, TaskRow
    <3>2. QED
      BY <3>1, TaskAssumption
  <2>7. QED
    BY <2>2, <2>3, <2>4, <2>5, <2>6 DEF Unacknowledged
<1>6. QED
  BY <1>2, <1>3, <1>4, <1>5

\* A row that Close writes is a row in the state it was told.
LEMMA ClosedRow ==
    ASSUME TaskTypeOK, NEW p \in Threads, NEW t \in Tasks,
           NEW s \in TaskActive \cup TaskTerminal, Close(p, t, s)
    PROVE  /\ task' \in [Tasks -> TaskRow] /\ task'[t].state = s
           /\ \A u \in Tasks \ {t} : task'[u] = task[u]
           /\ thread' = [thread EXCEPT ![p] = Resting]
<1>1. task \in [Tasks -> TaskRow] /\ task[t] \in TaskRow
  BY DEF TaskTypeOK
<1>2. PICK r \in {[NoTask EXCEPT !.state = s], [task[t] EXCEPT !.state = s]} :
         task' = [task EXCEPT ![t] = r]
  <2>1. task' = [task EXCEPT ![t] = IF s \in TaskTerminal
          THEN [NoTask EXCEPT !.state = s] ELSE [task[t] EXCEPT !.state = s]]
    BY <1>1 DEF Close
  <2>2. QED
    BY <2>1
<1>3. r \in TaskRow /\ r.state = s
  <2>1. [NoTask EXCEPT !.state = s] \in TaskRow /\ [NoTask EXCEPT !.state = s].state = s
    <3>1. 0 \in Conv /\ 0 \in Nat
      BY TaskAssumption DEF Conv
    <3>2. NoTask \in TaskRow
      BY <3>1 DEF TaskRow, NoTask
    <3>3. QED
      BY <3>2 DEF TaskRow
  <2>2. [task[t] EXCEPT !.state = s] \in TaskRow /\ [task[t] EXCEPT !.state = s].state = s
    BY <1>1 DEF TaskRow
  <2>3. QED
    BY <1>2, <2>1, <2>2
<1>4. QED
  BY <1>1, <1>2, <1>3 DEF Close

\* The row that Settle writes has the state the thread read, or is submitted.
LEMMA SettledRow ==
    ASSUME TaskTypeOK, NEW p \in Threads, Settle(p)
    PROVE  /\ task' \in [Tasks -> TaskRow]
           /\ \A u \in Tasks : u # thread[p].text => task'[u] = task[u]
           /\ thread[p].text \in Tasks =>
                 task'[thread[p].text].state = IF thread[p].acted THEN "submitted" ELSE thread[p].state
<1> DEFINE w == thread[p]
<1>1. w \in Thread /\ task \in [Tasks -> TaskRow]
  BY DEF TaskTypeOK
<1>2. PICK r : r = [state |-> IF w.acted THEN "submitted" ELSE w.state,
                    attempts |-> w.attempts + (IF w.acted THEN 1 ELSE 0),
                    conv |-> w.conv, waited |-> FALSE, stalled |-> FALSE]
  OBVIOUS
<1>3. task' = [task EXCEPT ![w.text] = r]
  BY <1>2 DEF Settle
<1>4. w.attempts + (IF w.acted THEN 1 ELSE 0) \in Nat /\ w.conv \in Conv /\ w.state \in {"none"} \cup Open
  BY <1>1 DEF Thread
<1>5. r \in TaskRow
  BY <1>2, <1>4 DEF TaskRow, Open, TaskActive
<1>6. QED
  BY <1>1, <1>2, <1>3, <1>5

----------------------------------------------------------------------------
(* Any number of threads *)

TsIInv == TaskTypeOK /\ Carries /\ DoneMeansAnswered

\* A thread that goes on with its attempt, rests or begins an attempt carries a text.
LEMMA ThreadMoves ==
    ASSUME TaskTypeOK, Carries, NEW p \in Threads, NEW v \in Thread,
           thread' = [thread EXCEPT ![p] = v],
           v.at \notin {"idle", "advance"} => v.text \in Text
    PROVE  thread' \in [Threads -> Thread] /\ Carries'
BY DEF TaskTypeOK, Carries, InFlight

\* done stays true of a row that keeps its state, or takes one that is not done.
LEMMA DoneStays ==
    ASSUME DoneMeansAnswered, got \subseteq got', replied \subseteq replied',
           \A t \in Tasks : task'[t].state = "done" => task[t].state = "done" \/ t \in got \cap replied
    PROVE  DoneMeansAnswered'
BY DEF DoneMeansAnswered

LEMMA RestingCarries == Resting \in Thread /\ Resting.at = "idle"
BY TaskAssumption DEF Resting, Thread, Conv, Open

LEMMA AttemptsCarries ==
    ASSUME TaskTypeOK, Carries, NEW p \in Threads, Attempts(p) PROVE Carries'
<1>1. PICK v \in Thread : thread' = [thread EXCEPT ![p] = v] /\ (v = Resting \/ Carried(thread[p], v))
  BY DEF Attempts
<1>2. v.at \notin {"idle", "advance"} => v.text \in Text
  BY <1>1, RestingCarries DEF Attempts, Carried, Carries
<1>3. QED
  BY <1>1, <1>2, ThreadMoves

LEMMA TicksInv == ASSUME TsIInv, NEW p \in Tickers, Ticks(p), cast' = cast PROVE TsIInv'
<1> USE DEF TsIInv
<1>1. p \in Threads /\ thread[p] \in Thread /\ thread \in [Threads -> Thread]
  BY DEF Threads, TaskTypeOK
<1>2. CASE RestoreAfterReset(p)
  <2>1. thread' = [thread EXCEPT ![p] = [thread[p] EXCEPT !.at = "advance"]]
    BY <1>1, <1>2 DEF RestoreAfterReset
  <2>2. [thread[p] EXCEPT !.at = "advance"] \in Thread /\ [thread[p] EXCEPT !.at = "advance"].at = "advance"
    BY <1>1 DEF Thread
  <2>3. thread' \in [Threads -> Thread] /\ Carries'
    BY <1>1, <2>1, <2>2, ThreadMoves
  <2>4. \/ task' = task
        \/ \E t \in Tasks : task' = [task EXCEPT ![t] = [task[t] EXCEPT !.state = "queued"]]
    <3>1. FirstIn(TaskActive) = 0 \/ FirstIn(TaskActive) \in Tasks
      BY FirstOfStates
    <3>2. QED
      BY <1>2, <3>1 DEF RestoreAfterReset, TaskTypeOK
  <2>5. task' \in [Tasks -> TaskRow] /\ \A t \in Tasks : task'[t].state # task[t].state => task'[t].state = "queued"
    <3>1. \A t \in Tasks : [task[t] EXCEPT !.state = "queued"] \in TaskRow
      BY DEF TaskTypeOK, TaskRow
    <3>2. \A t \in Tasks : [task[t] EXCEPT !.state = "queued"].state = "queued"
      BY DEF TaskTypeOK, TaskRow
    <3>3. QED
      BY <2>4, <3>1, <3>2 DEF TaskTypeOK
  <2>6. UNCHANGED <<verified, lease, pane, got, replied, cast>>
    BY <1>2 DEF RestoreAfterReset
  <2>7. DoneMeansAnswered'
    BY <2>5, <2>6, DoneStays
  <2>8. QED
    BY <2>3, <2>5, <2>6, <2>7 DEF TaskTypeOK
<1>3. CASE Advance(p)
  <2>1. UNCHANGED <<verified, lease, pane, cast>>
    BY <1>3, AdvanceIs
  <2>2. CASE task' = task /\ thread' = [thread EXCEPT ![p] = Resting] /\ UNCHANGED <<got, replied>>
    BY <1>1, <2>1, <2>2, RestingCarries, ThreadMoves, DoneStays DEF TaskTypeOK
  <2>3. ASSUME NEW t \in Tasks, TsBegins(p, t) PROVE TsIInv'
    <3>1. PICK robust \in BOOLEAN :
             thread' = [thread EXCEPT ![p] = [Resting EXCEPT !.at = "read", !.text = t,
                        !.state = task[t].state, !.attempts = task[t].attempts, !.robust = robust]]
      BY <2>3 DEF TsBegins
    <3> DEFINE v == [Resting EXCEPT !.at = "read", !.text = t,
                        !.state = task[t].state, !.attempts = task[t].attempts, !.robust = robust]
    <3>2. task[t].state \in Open /\ task[t].attempts \in Nat /\ t \in Text
      BY <2>3 DEF TsBegins, Open, TaskTypeOK, TaskRow, Text
    <3>3. v \in Thread /\ v.text \in Text
      BY <3>2, RestingCarries DEF Thread
    <3>4. thread' \in [Threads -> Thread] /\ Carries'
      BY <1>1, <3>1, <3>3, ThreadMoves
    <3>5. task' = task /\ SinceNow(t)
      BY <2>3 DEF TsBegins
    <3>6. got' \subseteq Tasks /\ replied' \subseteq Tasks
      BY <3>5 DEF SinceNow, TaskTypeOK
    <3>7. task[t].state # "done"
      BY <3>2 DEF Open, TaskActive
    <3>8. DoneMeansAnswered'
      BY <3>5, <3>7 DEF SinceNow, DoneMeansAnswered
    <3>9. QED
      BY <2>1, <3>4, <3>5, <3>6, <3>8 DEF TaskTypeOK
  <2>4. ASSUME NEW t \in Tasks, TsCloses(p, t) PROVE TsIInv'
    <3>1. PICK s \in TaskActive \cup TaskTerminal : Close(p, t, s) /\ (s = "done" => t \in got \cap replied)
      BY <2>4 DEF TsCloses
    <3>0. UNCHANGED <<got, replied>>
      BY <3>1 DEF Close
    <3>2. /\ task' \in [Tasks -> TaskRow] /\ task'[t].state = s
          /\ \A u \in Tasks \ {t} : task'[u] = task[u]
          /\ thread' = [thread EXCEPT ![p] = Resting]
      BY <1>1, <3>1, ClosedRow
    <3>3. thread' \in [Threads -> Thread] /\ Carries'
      BY <1>1, <3>2, RestingCarries, ThreadMoves
    <3>4. DoneMeansAnswered'
      BY <3>0, <3>1, <3>2, DoneStays
    <3>5. QED
      BY <2>1, <3>0, <3>2, <3>3, <3>4 DEF TaskTypeOK
  <2>5. QED
    BY <1>3, <2>2, <2>3, <2>4, AdvanceIs
<1>4. CASE Settle(p)
  <2>1. thread' = [thread EXCEPT ![p] = Resting] /\ UNCHANGED <<verified, pane, got, replied, cast>>
    BY <1>4 DEF Settle
  <2>2. thread' \in [Threads -> Thread] /\ Carries'
    BY <1>1, <2>1, RestingCarries, ThreadMoves
  <2>3. task' \in [Tasks -> TaskRow] /\ \A t \in Tasks : task'[t].state = "done" => task[t].state = "done"
    BY <1>1, <1>4, SettledRow DEF Thread, Open, TaskActive
  <2>4. lease' \in [by : Threads \cup {Nothing}, live : BOOLEAN]
    BY <1>4 DEF Settle, TaskTypeOK
  <2>5. DoneMeansAnswered'
    BY <2>1, <2>3, DoneStays
  <2>6. QED
    BY <2>1, <2>2, <2>3, <2>4, <2>5 DEF TaskTypeOK
<1>5. CASE RobustSubmit(p)
  <2>1. thread' = [thread EXCEPT ![p] = [thread[p] EXCEPT !.at = "settle"]] /\ UNCHANGED <<task, verified, lease, replied, cast>>
    BY <1>1, <1>5 DEF RobustSubmit
  <2>2. thread[p].text \in Text
    BY <1>1, <1>5 DEF RobustSubmit, Carries, InFlight
  <2>3. [thread[p] EXCEPT !.at = "settle"] \in Thread /\ [thread[p] EXCEPT !.at = "settle"].text \in Text
    BY <1>1, <2>2 DEF Thread
  <2>4. thread' \in [Threads -> Thread] /\ Carries'
    BY <1>1, <2>1, <2>3, ThreadMoves
  <2>5. pane' \in Pane /\ got' \subseteq Tasks /\ got \subseteq got'
    BY <1>5, <2>2 DEF RobustSubmit, Lands, Pane, TaskTypeOK
  <2>6. DoneMeansAnswered'
    BY <2>1, <2>5, DoneStays
  <2>7. QED
    BY <2>1, <2>4, <2>5, <2>6 DEF TaskTypeOK
<1>6. CASE Actuates(p)
  <2>1. TaskTypeOK' /\ Attempts(p) /\ task' = task /\ replied' = replied /\ got \subseteq got'
    BY <1>1, <1>6, ActuatesIs
  <2>2. Carries'
    BY <1>1, <2>1, AttemptsCarries
  <2>3. QED
    BY <2>1, <2>2, DoneStays
<1>7. QED
  BY <1>2, <1>3, <1>4, <1>5, <1>6 DEF Ticks

\* A step of a rival or of the world outside the threads.
Outside ==
    \/ \E p \in Rivals : RivalBegins(p)
    \/ AgentReplies \/ AgentAsks \/ OwnerAnswers \/ OwnerTypes \/ AgentResets \/ LeaseExpires

LEMMA OutsideIs ==
    ASSUME TaskTypeOK, Carries, Outside, cast' = cast
    PROVE  /\ TaskTypeOK' /\ Carries' /\ task' = task
           /\ got' = got /\ replied \subseteq replied'
           /\ \A p \in Tickers : thread'[p] = thread[p]
<1>1. ASSUME NEW p \in Rivals, RivalBegins(p)
      PROVE  /\ TaskTypeOK' /\ Carries' /\ UNCHANGED <<task, got, replied>>
             /\ \A q \in Tickers : thread'[q] = thread[q]
  <2>1. p \in Threads /\ p \notin Tickers
    BY TaskAssumption DEF Threads
  <2> DEFINE v == [Resting EXCEPT !.at = "read", !.text = Step]
  <2>2. v \in Thread /\ v.text \in Text
    BY RestingCarries DEF Thread, Text
  <2>3. thread' = [thread EXCEPT ![p] = v]
    BY <1>1 DEF RivalBegins
  <2>4. thread' \in [Threads -> Thread] /\ Carries'
    BY <2>1, <2>2, <2>3, ThreadMoves
  <2>5. \A q \in Tickers : thread'[q] = thread[q]
    BY <2>1, <2>3 DEF Threads, TaskTypeOK
  <2>6. QED
    BY <1>1, <2>4, <2>5 DEF RivalBegins, TaskTypeOK
<1>2. ASSUME AgentReplies \/ AgentAsks \/ OwnerAnswers \/ OwnerTypes \/ AgentResets
      PROVE  /\ TaskTypeOK' /\ Carries' /\ UNCHANGED <<task, got, thread>> /\ replied \subseteq replied'
  <2>1. cast.resets \in 0..MaxConv /\ MaxConv \in Nat
    BY TaskAssumption DEF TaskTypeOK
  <2>2. pane' \in Pane
    <3>1. pane \in Pane
      BY DEF TaskTypeOK
    <3>2. CASE AgentReplies \/ AgentAsks \/ OwnerAnswers \/ OwnerTypes
      BY <3>1, <3>2 DEF AgentReplies, AgentAsks, OwnerAnswers, OwnerTypes, Pane
    <3>3. CASE AgentResets
      <4>1. pane.conv + 1 \in Conv
        BY <2>1, <3>1, <3>3 DEF AgentResets, Pane, Conv
      <4>2. QED
        BY <3>3, <4>1 DEF AgentResets, Pane
    <3>4. QED
      BY <1>2, <3>2, <3>3
  <2>3. /\ UNCHANGED <<task, verified, lease, got, thread>>
        /\ replied \subseteq replied' /\ replied' \subseteq replied \cup got
    BY <1>2 DEF AgentReplies, AgentAsks, OwnerAnswers, OwnerTypes, AgentResets
  <2>4. QED
    BY <2>2, <2>3 DEF TaskTypeOK, Carries, InFlight
<1>3. ASSUME LeaseExpires
      PROVE  /\ TaskTypeOK' /\ Carries' /\ UNCHANGED <<task, got, replied, thread>>
  BY <1>3 DEF LeaseExpires, TaskTypeOK, Carries, InFlight
<1>4. QED
  BY <1>1, <1>2, <1>3 DEF Outside

\* A step of a row by itself: it is added, or one of its times passes.
Ages(t) == Enqueue(t) \/ AckTimeout(t) \/ WorkStall(t)

LEMMA AgesIs ==
    ASSUME TaskTypeOK, Carries, NEW t \in Tasks, Ages(t), cast' = cast
    PROVE  /\ TaskTypeOK' /\ Carries' /\ UNCHANGED <<got, replied, thread>>
           /\ \A u \in Tasks : \/ task'[u].state = task[u].state
                               \/ /\ u = t /\ task[t].state = "none" /\ task'[t].state = "queued"
                                  /\ \A x \in Tasks : x < t => task[x].state # "none"
<1>1. task \in [Tasks -> TaskRow] /\ task[t] \in TaskRow
  BY DEF TaskTypeOK
<1>2. UNCHANGED <<verified, lease, pane, got, replied, thread, cast>>
  BY DEF Ages, Enqueue, AckTimeout, WorkStall
<1>3. PICK r \in {[task[t] EXCEPT !.state = "queued"], [task[t] EXCEPT !.waited = TRUE],
                  [task[t] EXCEPT !.stalled = TRUE]} :
         /\ task' = [task EXCEPT ![t] = r]
         /\ r = [task[t] EXCEPT !.state = "queued"] \/ r.state = task[t].state
         /\ r.state = task[t].state \/
               (task[t].state = "none" /\ r.state = "queued" /\ \A x \in Tasks : x < t => task[x].state # "none")
  <2>1. CASE Enqueue(t)
    BY <1>1, <2>1 DEF Enqueue, TaskRow
  <2>2. CASE AckTimeout(t)
    BY <1>1, <2>2 DEF AckTimeout, TaskRow
  <2>3. CASE WorkStall(t)
    BY <1>1, <2>3 DEF WorkStall, TaskRow
  <2>4. QED
    BY <2>1, <2>2, <2>3 DEF Ages
<1>4. r \in TaskRow
  BY <1>1, <1>3 DEF TaskRow
<1>5. QED
  BY <1>1, <1>2, <1>3, <1>4 DEF TaskTypeOK, Carries, InFlight

\* The steps of the specification, by whose they are.
LEMMA TaskStepIs ==
    ASSUME TaskNext
    PROVE  /\ cast' = cast
           /\ \/ Outside
              \/ \E t \in Tasks : Ages(t)
              \/ \E p \in Tickers : Ticks(p)
              \/ \E p \in Rivals : Actuates(p)
BY DEF TaskNext, TaskMoves, Outside, Ages

LEMMA TsStep == TsIInv /\ [TaskNext]_TaskVars => TsIInv'
<1>1. CASE UNCHANGED TaskVars
  BY <1>1 DEF TsIInv, TaskVars, TaskState, TaskTypeOK, Carries, InFlight, DoneMeansAnswered
<1>2. ASSUME TsIInv, TaskNext PROVE TsIInv'
  <2>1. CASE Outside
    BY <1>2, <2>1, OutsideIs, TaskStepIs, DoneStays DEF TsIInv
  <2>2. ASSUME NEW t \in Tasks, Ages(t) PROVE TsIInv'
    BY <1>2, <2>2, AgesIs, TaskStepIs, DoneStays DEF TsIInv
  <2>3. ASSUME NEW p \in Tickers, Ticks(p) PROVE TsIInv'
    BY <1>2, <2>3, TicksInv, TaskStepIs
  <2>4. ASSUME NEW p \in Rivals, Actuates(p) PROVE TsIInv'
    <3>1. TaskTypeOK' /\ Attempts(p) /\ task' = task /\ replied' = replied /\ got \subseteq got'
      BY <1>2, <2>4, ActuatesIs, TaskStepIs DEF TsIInv, Threads
    <3>2. Carries'
      BY <1>2, <2>4, <3>1, AttemptsCarries DEF TsIInv, Threads
    <3>3. QED
      BY <1>2, <3>1, <3>2, DoneStays DEF TsIInv
  <2>5. QED
    BY <1>2, <2>1, <2>2, <2>3, <2>4, TaskStepIs
<1>3. QED
  BY <1>1, <1>2

LEMMA TsAlways == TaskSpec => []TsIInv
<1>1. TaskInit => TsIInv
  BY TaskInitTypes DEF TsIInv, TaskInit, DoneMeansAnswered, NoTask
<1>2. QED
  BY <1>1, TsStep, PTL DEF TaskSpec

\* The ledger, the lease, the pane and the threads keep their types.
THEOREM TaskTypes == TaskSpec => []TaskTypeOK
BY TsAlways, PTL DEF TsIInv

\* However many threads tick the ledger and whatever the actuator believes it saw, a
\* task is done only when the agent received its text and answered it.
THEOREM DoneIsAnswered == TaskSpec => []DoneMeansAnswered
BY TsAlways, PTL DEF TsIInv

----------------------------------------------------------------------------
(* One thread *)

\* commander_autopilot.run_loop is the one thread of the service that ticks the ledger.
OneTicker == \A p, q \in Tickers : p = q

\* A ticker in flight holds its row: the state it read is still the state of the row,
\* and a queued row it took is the oldest one, with nothing before it.
FromRow(p) ==
    InFlight(p) =>
        LET w == thread[p] IN
        /\ w.text \in Tasks /\ w.state = task[w.text].state
        /\ w.state \in {"queued", "submitted"}
        /\ w.state = "queued" => \A u \in Tasks :
              task[u].state \notin TaskActive /\ (u < w.text => task[u].state # "queued")
NoGap == \A t, u \in Tasks : u < t /\ task[t].state # "none" => task[u].state # "none"
SeenIsGot == \A t \in Tasks : task[t].state \in {"acknowledged", "working"} => t \in got

OneIInv == TsIInv /\ OneTaskInOrder /\ NoGap /\ SeenIsGot /\ \A p \in Tickers : FromRow(p)

\* A step that leaves the states of the rows alone keeps their order.
LEMMA SameStates ==
    ASSUME OneIInv, \A t \in Tasks : task'[t].state = task[t].state, got \subseteq got'
    PROVE  OneTaskInOrder' /\ NoGap' /\ SeenIsGot'
BY DEF OneIInv, OneTaskInOrder, NoGap, SeenIsGot

\* A ticker that goes on with its attempt still holds its row.
LEMMA StillHolds ==
    ASSUME OneIInv, NEW p \in Tickers, \A t \in Tasks : task'[t].state = task[t].state,
           thread'[p] = thread[p] \/ (Carried(thread[p], thread'[p]) /\ InFlight(p))
    PROVE  FromRow(p)'
<1>1. FromRow(p)
  BY DEF OneIInv
<1>2. ASSUME InFlight(p)' PROVE InFlight(p) /\ thread'[p].text = thread[p].text /\ thread'[p].state = thread[p].state
  BY <1>2 DEF InFlight, Carried
<1>3. ASSUME InFlight(p)' PROVE FromRow(p)'
  <2>1. thread'[p].text = thread[p].text /\ thread'[p].state = thread[p].state /\ InFlight(p)
    BY <1>2, <1>3
  <2>2. QED
    BY <1>1, <2>1 DEF FromRow
<1>4. QED
  BY <1>3 DEF FromRow

LEMMA AttemptsOne ==
    ASSUME OneIInv, NEW p \in Threads, Attempts(p), task' = task, got \subseteq got', TsIInv'
    PROVE  OneIInv'
<1>1. PICK v \in Thread : thread' = [thread EXCEPT ![p] = v] /\ (p \in Tickers => Carried(thread[p], v))
  BY DEF Attempts
<1>2. ASSUME NEW q \in Tickers
      PROVE  thread'[q] = thread[q] \/ (Carried(thread[q], thread'[q]) /\ InFlight(q))
  BY <1>1 DEF Attempts, OneIInv, TsIInv, TaskTypeOK, Threads
<1>3. \A q \in Tickers : FromRow(q)'
  BY <1>2, StillHolds
<1>4. QED
  BY <1>3, SameStates DEF OneIInv

\* The row a thread settles: what it read, or submitted.
LEMMA SettleOne ==
    ASSUME OneTicker, OneIInv, NEW p \in Tickers, Settle(p), TsIInv' PROVE OneIInv'
<1> DEFINE t == thread[p].text
<1>1. p \in Threads /\ thread[p] \in Thread
  BY DEF Threads, OneIInv, TsIInv, TaskTypeOK
<1>2. /\ t \in Tasks /\ thread[p].state = task[t].state
      /\ thread[p].state \in {"queued", "submitted"}
      /\ thread[p].state = "queued" => \A u \in Tasks :
            task[u].state \notin TaskActive /\ (u < t => task[u].state # "queued")
  BY DEF Settle, OneIInv, FromRow, InFlight
<1>3. /\ \A u \in Tasks : u # t => task'[u] = task[u]
      /\ task'[t].state = IF thread[p].acted THEN "submitted" ELSE thread[p].state
  BY <1>1, <1>2, SettledRow DEF OneIInv, TsIInv
<1>4. thread' = [thread EXCEPT ![p] = Resting] /\ got' = got
  BY DEF Settle
<1>5. \A q \in Tickers : FromRow(q)'
  BY <1>1, <1>4, RestingCarries DEF OneTicker, FromRow, InFlight, OneIInv, TsIInv, TaskTypeOK
<1> HIDE DEF t
<1>6. CASE task'[t].state = task[t].state
  BY <1>3, <1>4, <1>5, <1>6, SameStates DEF OneIInv
<1>7. CASE task'[t].state # task[t].state
  <2>1. task[t].state = "queued" /\ task'[t].state = "submitted"
    BY <1>2, <1>3, <1>7
  <2>2. \A u \in Tasks : u < t => task[u].state \in TaskTerminal
    <3>1. \A u \in Tasks : task[u].state \in {"none", "queued"} \cup TaskActive \cup TaskTerminal
      BY DEF OneIInv, TsIInv, TaskTypeOK, TaskRow
    <3>2. QED
      BY <1>2, <2>1, <3>1 DEF OneIInv, NoGap
  <2>3. \A u \in Tasks : t < u => task[u].state \notin TaskActive \cup TaskTerminal
    BY <1>2, <2>1 DEF OneIInv, OneTaskInOrder, TaskTerminal
  <2>4. OneTaskInOrder'
    <3>1. ASSUME NEW x \in Tasks, NEW u \in Tasks, x < u, task'[u].state \in TaskActive \cup TaskTerminal
          PROVE  task'[x].state \in TaskTerminal
      <4>1. x # t
        <5>1. x # u
          BY <3>1, TaskAssumption DEF Tasks
        <5>2. QED
          BY <1>3, <2>3, <3>1, <5>1
      <4>2. CASE u = t
        BY <1>3, <2>2, <3>1, <4>1, <4>2
      <4>3. CASE u # t
        BY <1>3, <3>1, <4>1, <4>3 DEF OneIInv, OneTaskInOrder
      <4>4. QED
        BY <4>2, <4>3
    <3>2. QED
      BY <3>1 DEF OneTaskInOrder
  <2>5. NoGap'
    <3>1. \A u \in Tasks : task'[u].state = "none" <=> task[u].state = "none"
      BY <1>3, <2>1
    <3>2. QED
      BY <3>1 DEF OneIInv, NoGap
  <2>6. SeenIsGot'
    BY <1>3, <1>4, <2>1 DEF OneIInv, SeenIsGot
  <2>7. QED
    BY <1>5, <2>4, <2>5, <2>6 DEF OneIInv
<1>8. QED
  BY <1>6, <1>7

\* The new state of the active row.
LEMMA CloseOne ==
    ASSUME OneTicker, OneIInv, NEW p \in Tickers, ~ InFlight(p), NEW t \in Tasks, TsCloses(p, t),
           UNCHANGED <<got, replied>>, TsIInv'
    PROVE  OneIInv'
<1>1. PICK s \in TaskActive \cup TaskTerminal :
         Close(p, t, s) /\ (s \in {"acknowledged", "working"} => t \in got \/ s = task[t].state)
  BY DEF TsCloses, TaskActive
<1>2. /\ task'[t].state = s /\ \A u \in Tasks \ {t} : task'[u] = task[u]
      /\ thread' = [thread EXCEPT ![p] = Resting]
  BY <1>1, ClosedRow DEF Threads, OneIInv, TsIInv
<1>3. task[t].state \in TaskActive
  BY DEF TsCloses
<1>4. \A q \in Tickers : FromRow(q)'
  BY <1>2, RestingCarries DEF OneTicker, FromRow, InFlight, OneIInv, TsIInv, TaskTypeOK, Threads
<1>5. OneTaskInOrder'
  <2>1. ASSUME NEW x \in Tasks, NEW u \in Tasks, x < u, task'[u].state \in TaskActive \cup TaskTerminal
        PROVE  task'[x].state \in TaskTerminal
    <3>1. task[u].state \in TaskActive \cup TaskTerminal
      BY <1>2, <1>3, <2>1
    <3>2. task[x].state \in TaskTerminal
      BY <2>1, <3>1 DEF OneIInv, OneTaskInOrder
    <3>3. x # t
      BY <1>3, <3>2 DEF TaskActive, TaskTerminal
    <3>4. QED
      BY <1>2, <3>2, <3>3
  <2>2. QED
    BY <2>1 DEF OneTaskInOrder
<1>6. NoGap'
  <2>1. \A u \in Tasks : task'[u].state = "none" <=> task[u].state = "none"
    BY <1>2, <1>3 DEF TaskActive, TaskTerminal
  <2>2. QED
    BY <2>1 DEF OneIInv, NoGap
<1>7. SeenIsGot'
  <2>1. ASSUME NEW u \in Tasks, task'[u].state \in {"acknowledged", "working"} PROVE u \in got
    BY <1>1, <1>2, <2>1 DEF OneIInv, SeenIsGot
  <2>2. QED
    BY <2>1 DEF SeenIsGot
<1>8. QED
  BY <1>4, <1>5, <1>6, <1>7 DEF OneIInv

LEMMA TicksOne ==
    ASSUME OneTicker, OneIInv, NEW p \in Tickers, Ticks(p), cast' = cast PROVE OneIInv'
<1>1. TsIInv' /\ p \in Threads /\ thread[p] \in Thread
  BY TicksInv DEF OneIInv, Threads, TsIInv, TaskTypeOK
<1>2. CASE RestoreAfterReset(p)
  <2> DEFINE t == FirstIn(TaskActive)
  <2>1. thread'[p].at = "advance" /\ got' = got
    BY <1>1, <1>2 DEF RestoreAfterReset, OneIInv, TsIInv, TaskTypeOK, Thread
  <2>2. \A q \in Tickers : FromRow(q)'
    BY <2>1 DEF OneTicker, FromRow, InFlight
  <2>3. CASE task' = task
    BY <1>1, <2>1, <2>2, <2>3, SameStates DEF OneIInv
  <2>4. CASE task' # task
    <3>1. t \in Tasks /\ task[t].state = "submitted"
      BY <1>2, <2>4, FirstOfStates DEF RestoreAfterReset
    <3>2. task' = [task EXCEPT ![t] = [task[t] EXCEPT !.state = "queued"]]
      BY <1>2, <2>4, <3>1 DEF RestoreAfterReset
    <3> HIDE DEF t
    <3>3. task'[t].state = "queued" /\ \A u \in Tasks \ {t} : task'[u] = task[u]
      BY <3>1, <3>2 DEF OneIInv, TsIInv, TaskTypeOK, TaskRow
    <3>4. OneTaskInOrder'
      <4>1. ASSUME NEW x \in Tasks, NEW u \in Tasks, x < u, task'[u].state \in TaskActive \cup TaskTerminal
            PROVE  task'[x].state \in TaskTerminal
        <5>1. u # t /\ task[u].state \in TaskActive \cup TaskTerminal
          BY <3>3, <4>1 DEF TaskActive, TaskTerminal
        <5>2. task[x].state \in TaskTerminal
          BY <4>1, <5>1 DEF OneIInv, OneTaskInOrder
        <5>3. x # t
          BY <3>1, <5>2 DEF TaskTerminal
        <5>4. QED
          BY <3>3, <5>2, <5>3
      <4>2. QED
        BY <4>1 DEF OneTaskInOrder
    <3>5. NoGap'
      <4>1. \A u \in Tasks : task'[u].state = "none" <=> task[u].state = "none"
        BY <3>1, <3>3
      <4>2. QED
        BY <4>1 DEF OneIInv, NoGap
    <3>6. SeenIsGot'
      BY <2>1, <3>3 DEF OneIInv, SeenIsGot
    <3>7. QED
      BY <1>1, <2>2, <3>4, <3>5, <3>6 DEF OneIInv
  <2>5. QED
    BY <2>3, <2>4
<1>3. CASE Advance(p)
  <2>1. thread[p].at = "advance" /\ ~ InFlight(p)
    BY <1>3 DEF Advance, InFlight
  <2>2. CASE task' = task /\ thread' = [thread EXCEPT ![p] = Resting] /\ UNCHANGED <<got, replied>>
    <3>1. \A q \in Tickers : FromRow(q)'
      BY <1>1, <2>2, RestingCarries DEF OneTicker, FromRow, InFlight, OneIInv, TsIInv, TaskTypeOK
    <3>2. QED
      BY <1>1, <2>1, <2>2, <3>1, SameStates DEF OneIInv
  <2>3. ASSUME NEW t \in Tasks, TsBegins(p, t) PROVE OneIInv'
    <3>1. task' = task
      BY <2>3 DEF TsBegins
    <3>2. task[t].state \in {"queued", "submitted"}
      <4>1. task[t].state \in TaskActive /\ t \notin got => task[t].state = "submitted"
        BY DEF OneIInv, SeenIsGot, TaskActive
      <4>2. QED
        BY <2>3, <4>1 DEF TsBegins
    <3>3. task[t].state = "queued" => \A u \in Tasks :
            task[u].state \notin TaskActive /\ (u < t => task[u].state # "queued")
      BY <2>3 DEF TsBegins, TaskActive
    <3>4. thread'[p].text = t /\ thread'[p].state = task[t].state
      BY <1>1, <2>3, RestingCarries DEF TsBegins, OneIInv, TsIInv, TaskTypeOK, Thread
    <3>5. FromRow(p)'
      BY <3>1, <3>2, <3>3, <3>4 DEF FromRow
    <3>6. \A u \in Tasks : task[u].state \in {"acknowledged", "working"} => u \in got'
      <4>1. SinceNow(t)
        BY <2>3 DEF TsBegins
      <4>2. QED
        BY <3>2, <4>1 DEF SinceNow, OneIInv, SeenIsGot
    <3>7. OneTaskInOrder' /\ NoGap' /\ SeenIsGot'
      BY <3>1, <3>6 DEF OneIInv, OneTaskInOrder, NoGap, SeenIsGot
    <3>8. QED
      BY <1>1, <3>5, <3>7 DEF OneIInv, OneTicker
  <2>4. ASSUME NEW t \in Tasks, TsCloses(p, t) PROVE OneIInv'
    <3>1. UNCHANGED <<got, replied>>
      BY <2>4 DEF TsCloses, Close
    <3>2. QED
      BY <1>1, <2>1, <2>4, <3>1, CloseOne
  <2>5. QED
    BY <1>3, <2>2, <2>3, <2>4, AdvanceIs DEF OneIInv, TsIInv
<1>4. CASE Settle(p)
  BY <1>1, <1>4, SettleOne
<1>5. CASE RobustSubmit(p)
  <2>1. Attempts(p) /\ task' = task /\ got \subseteq got'
    <3>1. [thread[p] EXCEPT !.at = "settle"] \in Thread /\ Carried(thread[p], [thread[p] EXCEPT !.at = "settle"])
      BY <1>1 DEF Thread, Carried
    <3>2. thread' = [thread EXCEPT ![p] = [thread[p] EXCEPT !.at = "settle"]]
      BY <1>1, <1>5 DEF RobustSubmit, OneIInv, TsIInv, TaskTypeOK
    <3>3. InFlight(p)
      BY <1>5 DEF RobustSubmit, InFlight
    <3>4. task' = task /\ got \subseteq got'
      BY <1>5 DEF RobustSubmit, Lands
    <3>5. QED
      BY <3>1, <3>2, <3>3, <3>4 DEF Attempts
  <2>2. QED
    BY <1>1, <2>1, AttemptsOne
<1>6. CASE Actuates(p)
  BY <1>1, <1>6, ActuatesIs, AttemptsOne DEF OneIInv, TsIInv
<1>7. QED
  BY <1>2, <1>3, <1>4, <1>5, <1>6 DEF Ticks

\* A row that is added is the newest: nothing after it has begun.
LEMMA AgesOne ==
    ASSUME OneIInv, NEW t \in Tasks, Ages(t), cast' = cast PROVE OneIInv'
<1>1. /\ TaskTypeOK' /\ Carries' /\ UNCHANGED <<got, replied, thread>>
      /\ \A u \in Tasks : \/ task'[u].state = task[u].state
                          \/ /\ u = t /\ task[t].state = "none" /\ task'[t].state = "queued"
                             /\ \A x \in Tasks : x < t => task[x].state # "none"
  BY AgesIs DEF OneIInv, TsIInv
<1>2. TsIInv'
  BY <1>1, DoneStays DEF OneIInv, TsIInv
<1>3. CASE \A u \in Tasks : task'[u].state = task[u].state
  BY <1>1, <1>2, <1>3, SameStates, StillHolds DEF OneIInv
<1>4. CASE ~ \A u \in Tasks : task'[u].state = task[u].state
  <2>1. /\ task[t].state = "none" /\ task'[t].state = "queued"
        /\ \A x \in Tasks : x < t => task[x].state # "none"
        /\ \A u \in Tasks \ {t} : task'[u].state = task[u].state
    BY <1>1, <1>4
  <2>2. OneTaskInOrder'
    <3>1. ASSUME NEW x \in Tasks, NEW u \in Tasks, x < u, task'[u].state \in TaskActive \cup TaskTerminal
          PROVE  task'[x].state \in TaskTerminal
      <4>1. u # t /\ task[u].state \in TaskActive \cup TaskTerminal
        BY <2>1, <3>1 DEF TaskActive, TaskTerminal
      <4>2. task[x].state \in TaskTerminal
        BY <3>1, <4>1 DEF OneIInv, OneTaskInOrder
      <4>3. x # t
        BY <2>1, <4>2 DEF TaskTerminal
      <4>4. QED
        BY <2>1, <4>2, <4>3
    <3>2. QED
      BY <3>1 DEF OneTaskInOrder
  <2>3. NoGap'
    <3>1. ASSUME NEW x \in Tasks, NEW u \in Tasks, u < x, task'[x].state # "none" PROVE task'[u].state # "none"
      <4>1. CASE x = t
        <5>1. u # t
          BY <3>1, <4>1, TaskAssumption DEF Tasks
        <5>2. QED
          BY <2>1, <3>1, <4>1, <5>1
      <4>2. CASE x # t
        BY <2>1, <3>1, <4>2 DEF OneIInv, NoGap
      <4>3. QED
        BY <4>1, <4>2
    <3>2. QED
      BY <3>1 DEF NoGap
  <2>4. SeenIsGot'
    <3>1. ASSUME NEW u \in Tasks, task'[u].state \in {"acknowledged", "working"} PROVE u \in got'
      BY <1>1, <2>1, <3>1 DEF OneIInv, SeenIsGot
    <3>2. QED
      BY <3>1 DEF SeenIsGot
  <2>5. ASSUME NEW p \in Tickers PROVE FromRow(p)'
    <3>1. ASSUME InFlight(p)' PROVE FromRow(p)'
      <4> DEFINE w == thread[p]
      <4>1. thread' = thread /\ InFlight(p)
        BY <1>1, <3>1 DEF InFlight
      <4>2. /\ w.text \in Tasks /\ w.state = task[w.text].state
            /\ w.state \in {"queued", "submitted"}
            /\ w.state = "queued" => \A u \in Tasks :
                  task[u].state \notin TaskActive /\ (u < w.text => task[u].state # "queued")
        BY <4>1 DEF OneIInv, FromRow
      <4>3. w.text # t /\ task'[w.text].state = task[w.text].state
        BY <2>1, <4>2
      <4>4. w.state = "queued" => ~ (t < w.text)
        BY <2>1, <4>2 DEF OneIInv, NoGap
      <4>5. w.state = "queued" => \A u \in Tasks :
               task'[u].state \notin TaskActive /\ (u < w.text => task'[u].state # "queued")
        BY <2>1, <4>2, <4>4 DEF TaskActive
      <4>6. QED
        BY <4>1, <4>2, <4>3, <4>5 DEF FromRow
    <3>2. QED
      BY <3>1 DEF FromRow
  <2>6. QED
    BY <1>2, <2>2, <2>3, <2>4, <2>5 DEF OneIInv
<1>5. QED
  BY <1>3, <1>4

LEMMA OneStep == ASSUME OneTicker PROVE OneIInv /\ [TaskNext]_TaskVars => OneIInv'
<1>1. ASSUME OneIInv, UNCHANGED TaskVars PROVE OneIInv'
  <2>1. UNCHANGED <<task, verified, lease, pane, got, replied, thread, cast>>
    BY <1>1 DEF TaskVars, TaskState
  <2>2. TsIInv'
    BY <1>1, TsStep DEF OneIInv
  <2>3. QED
    BY <1>1, <2>1, <2>2, SameStates, StillHolds DEF OneIInv
<1>2. ASSUME OneIInv, TaskNext PROVE OneIInv'
  <2>1. cast' = cast /\ TsIInv'
    BY <1>2, TaskStepIs, TsStep DEF OneIInv
  <2>2. CASE Outside
    <3>1. task' = task /\ got' = got /\ \A p \in Tickers : thread'[p] = thread[p]
      BY <1>2, <2>1, <2>2, OutsideIs DEF OneIInv, TsIInv
    <3>2. QED
      BY <1>2, <2>1, <3>1, SameStates, StillHolds DEF OneIInv
  <2>3. ASSUME NEW t \in Tasks, Ages(t) PROVE OneIInv'
    BY <1>2, <2>1, <2>3, AgesOne
  <2>4. ASSUME NEW p \in Tickers, Ticks(p) PROVE OneIInv'
    BY <1>2, <2>1, <2>4, TicksOne
  <2>5. ASSUME NEW p \in Rivals, Actuates(p) PROVE OneIInv'
    BY <1>2, <2>1, <2>5, ActuatesIs, AttemptsOne DEF OneIInv, TsIInv, Threads
  <2>6. QED
    BY <1>2, <2>2, <2>3, <2>4, <2>5, TaskStepIs
<1>3. QED
  BY <1>1, <1>2

LEMMA OneAlways == ASSUME OneTicker PROVE TaskSpec => []OneIInv
<1>1. TaskInit => OneIInv
  <2>1. ASSUME TaskInit PROVE OneIInv
    <3>1. TsIInv
      BY <2>1, TaskInitTypes DEF TsIInv, TaskInit, DoneMeansAnswered, NoTask
    <3>2. \A t \in Tasks : task[t].state = "none"
      BY <2>1 DEF TaskInit, NoTask
    <3>3. \A p \in Tickers : ~ InFlight(p)
      BY <2>1 DEF TaskInit, InFlight, Resting, Threads
    <3>4. QED
      BY <3>1, <3>2, <3>3 DEF OneIInv, OneTaskInOrder, NoGap, SeenIsGot, FromRow, TaskActive, TaskTerminal
  <2>2. QED
    BY <2>1
<1>2. OneIInv /\ [TaskNext]_TaskVars => OneIInv'
  BY OneStep
<1>3. QED
  BY <1>1, <1>2, PTL DEF TaskSpec

\* While one thread ticks the ledger one task is with the agent at a time, the oldest that
\* has not ended, and done is claimed of an answered task only: for any number of tasks,
\* rivals, resets and expiries of the lease.
THEOREM TasksInOrder == ASSUME OneTicker PROVE TaskSpec => []TaskInv
<1>1. OneIInv => TaskInv
  BY DEF OneIInv, TsIInv, TaskInv
<1>2. QED
  BY <1>1, OneAlways, PTL

\* While one thread ticks the ledger nothing the agent has acknowledged is typed again:
\* the row a thread in flight took is still queued or submitted when it presses the keys.
THEOREM NotTypedAgain == ASSUME OneTicker PROVE TaskSpec => AcknowledgedIsNotResent
<1> DEFINE A == \A p \in Tickers : thread[p].at \in {"send", "again"} /\ thread'[p].at # thread[p].at
                    => task[thread[p].text].state \in {"queued", "submitted"}
<1>1. ASSUME OneIInv PROVE A
  BY <1>1 DEF OneIInv, FromRow, InFlight
<1> HIDE DEF A
<1>2. TaskSpec => [][A]_TaskVars
  BY <1>1, OneAlways, PTL DEF TaskSpec
<1>3. QED
  BY <1>2 DEF AcknowledgedIsNotResent, A

----------------------------------------------------------------------------
(* The ledger of one thread implements TaskLedger *)

\* A text in a thread or on the input line is of a task that was added, and what was
\* answered was received.
Knows ==
    /\ \A p \in Threads : InFlight(p) /\ thread[p].text \in Tasks => task[thread[p].text].state # "none"
    /\ pane.line \in Tasks => task[pane.line].state # "none"
    /\ replied \subseteq got
StallsAtWork == \A t \in Tasks : task[t].stalled => task[t].state \in {"acknowledged", "working"}
\* A ticker in flight counts from the tries of its row; it sends again while some are left.
HoldsTries(p) ==
    InFlight(p) => /\ thread[p].attempts = task[thread[p].text].attempts
                   /\ thread[p].state = "submitted" => thread[p].attempts < MaxAttempts

TlIInv == OneIInv /\ Knows /\ StallsAtWork /\ \A p \in Tickers : HoldsTries(p)
TlMoves == [TheLedger!Next]_(TheLedger!vars)

\* A ledger whose rows keep their states and tries keeps them in the abstract one.
LEMMA LedgerRests ==
    ASSUME \A t \in Tasks : task'[t].state = task[t].state /\ task'[t].attempts = task[t].attempts
    PROVE  UNCHANGED <<TlStatus, TlTries>>
BY DEF TlStatus, TlTries

\* A step of one row is a step of one task of the abstract ledger.
LEMMA LedgerMoves ==
    ASSUME NEW t \in Tasks, \A u \in Tasks \ {t} : task'[u] = task[u]
    PROVE  /\ TlStatus' = [TlStatus EXCEPT ![t] = TlState(task'[t].state)]
           /\ TlTries' = [TlTries EXCEPT ![t] = task'[t].attempts]
           /\ TlStatus[t] = TlState(task[t].state) /\ TlTries[t] = task[t].attempts
<1>1. TlStatus' = [TlStatus EXCEPT ![t] = TlState(task'[t].state)]
  BY DEF TlStatus
<1>2. TlTries' = [TlTries EXCEPT ![t] = task'[t].attempts]
  BY DEF TlTries
<1>3. QED
  BY <1>1, <1>2 DEF TlStatus, TlTries

\* A step of the actuator lets the agent receive at most one task, and one that was added.
LEMMA PaneMoves ==
    ASSUME TaskTypeOK, Carries, Knows, NEW p \in Threads, Actuates(p) \/ RobustSubmit(p)
    PROVE  /\ got' = got \/ \E x \in Tasks : task[x].state # "none" /\ got' = got \cup {x}
           /\ pane'.line \in Tasks => task[pane'.line].state # "none"
<1>1. Foreign \notin Tasks /\ Nothing \notin Tasks
  BY TaskAssumption DEF Tasks
<1>2. pane \in Pane /\ (pane.line \in Tasks => task[pane.line].state # "none")
  BY DEF TaskTypeOK, Knows
<1>3. ASSUME NEW x, x \in Tasks => task[x].state # "none", Lands(x)
      PROVE  /\ got' = got \/ \E y \in Tasks : task[y].state # "none" /\ got' = got \cup {y}
             /\ pane'.line = Nothing
  <2>1. pane'.line = Nothing
    BY <1>2, <1>3 DEF Lands, Pane
  <2>2. got' = got \cup ({x} \cap Tasks)
    BY <1>3 DEF Lands
  <2>3. QED
    BY <1>3, <2>1, <2>2
<1>4. ASSUME NEW x, x \in Tasks => task[x].state # "none",
             pane' = [pane EXCEPT !.line = x], got' = got
      PROVE  pane'.line = x
  BY <1>2, <1>4 DEF Pane
<1>5. CASE UNCHANGED <<pane, got>>
  BY <1>2, <1>5
<1>6. CASE DeliverAndVerify(p)
  <2> DEFINE x == thread[p].text
  <2>1. x \in Tasks => task[x].state # "none"
    BY <1>6 DEF DeliverAndVerify, InFlight, Knows
  <2>2. Types(x) \/ PressesEnter
    BY <1>6 DEF DeliverAndVerify
  <2> HIDE DEF x
  <2>3. CASE PressesEnter
    BY <1>1, <1>2, <1>3, <1>5, <2>3 DEF PressesEnter
  <2>4. CASE Types(x)
    <3>1. CASE Lands(x) \/ Lands(Foreign)
      BY <1>1, <1>3, <2>1, <3>1
    <3>2. CASE (pane' = [pane EXCEPT !.line = x] \/ pane' = [pane EXCEPT !.line = Foreign]) /\ got' = got
      BY <1>1, <1>2, <1>4, <2>1, <3>2
    <3>3. CASE pane' = [pane EXCEPT !.mode = "busy"] /\ got' = got
      BY <1>2, <3>3 DEF Pane
    <3>4. QED
      BY <1>5, <2>4, <3>1, <3>2, <3>3 DEF Types
  <2>5. QED
    BY <2>2, <2>3, <2>4
<1>7. CASE RobustSubmit(p)
  <2> DEFINE x == thread[p].text
  <2>1. x \in Tasks => task[x].state # "none"
    BY <1>7 DEF RobustSubmit, InFlight, Knows
  <2>2. Lands(x) \/ (pane' = [pane EXCEPT !.line = x] /\ got' = got) \/ UNCHANGED <<pane, got>>
    BY <1>7 DEF RobustSubmit
  <2> HIDE DEF x
  <2>3. QED
    BY <1>1, <1>2, <1>3, <1>4, <1>5, <2>1, <2>2
<1>8. CASE LeaseRead(p) \/ LeaseWrite(p) \/ ActuatorGuards(p) \/ ActuatorRecords(p)
  BY <1>5, <1>8 DEF LeaseRead, LeaseWrite, ActuatorGuards, ActuatorRecords
<1>9. QED
  BY <1>6, <1>7, <1>8 DEF Actuates

\* A thread that goes on carries what it knew.
LEMMA AttemptsKnows ==
    ASSUME TaskTypeOK, Knows, NEW p \in Threads, Attempts(p), task' = task,
           pane'.line \in Tasks => task[pane'.line].state # "none",
           replied' \subseteq got'
    PROVE  Knows'
<1>1. PICK v \in Thread : thread' = [thread EXCEPT ![p] = v] /\ (v = Resting \/ Carried(thread[p], v))
  BY DEF Attempts
<1>2. v.at \notin {"idle", "advance"} => v.text = thread[p].text
  BY <1>1, RestingCarries DEF Carried
<1>3. ASSUME NEW q \in Threads, InFlight(q)', thread'[q].text \in Tasks
      PROVE  task[thread'[q].text].state # "none"
  <2>1. CASE q = p
    BY <1>1, <1>2, <1>3, <2>1 DEF TaskTypeOK, InFlight, Attempts, Knows
  <2>2. CASE q # p
    BY <1>1, <1>3, <2>2 DEF TaskTypeOK, InFlight, Knows
  <2>3. QED
    BY <2>1, <2>2
<1>4. QED
  BY <1>3 DEF Knows

LEMMA AttemptsTries ==
    ASSUME TaskTypeOK, \A q \in Tickers : HoldsTries(q), NEW p \in Threads, Attempts(p), task' = task
    PROVE  \A q \in Tickers : HoldsTries(q)'
<1>1. PICK v \in Thread : thread' = [thread EXCEPT ![p] = v] /\ (p \in Tickers => Carried(thread[p], v))
  BY DEF Attempts
<1>2. ASSUME NEW q \in Tickers PROVE HoldsTries(q)'
  <2>1. CASE q = p
    <3>1. thread'[q] = v /\ Carried(thread[q], v) /\ InFlight(q) /\ HoldsTries(q)
      BY <1>1, <2>1 DEF TaskTypeOK, Attempts
    <3>2. QED
      BY <3>1 DEF HoldsTries, Carried
  <2>2. CASE q # p
    <3>1. thread'[q] = thread[q] /\ HoldsTries(q)
      BY <1>1, <2>2 DEF TaskTypeOK, Threads
    <3>2. QED
      BY <3>1 DEF HoldsTries, InFlight
  <2>3. QED
    BY <2>1, <2>2
<1>3. QED
  BY <1>2

\* The actuator, for a ticker or a rival: the agent may receive a task.
LEMMA ActuatesLedger ==
    ASSUME TlIInv, OneIInv', NEW p \in Threads, Attempts(p), UNCHANGED <<task, replied>>,
           Actuates(p) \/ RobustSubmit(p)
    PROVE  TlIInv' /\ TlMoves
<1>1. TaskTypeOK /\ Carries /\ Knows /\ \A q \in Tickers : HoldsTries(q)
  BY DEF TlIInv, OneIInv, TsIInv
<1>2. /\ got' = got \/ \E x \in Tasks : task[x].state # "none" /\ got' = got \cup {x}
      /\ pane'.line \in Tasks => task[pane'.line].state # "none"
  BY <1>1, PaneMoves
<1>3. TlIInv'
  <2>1. replied' \subseteq got'
    BY <1>1, <1>2 DEF Knows
  <2>2. QED
    BY <1>1, <1>2, <2>1, AttemptsKnows, AttemptsTries DEF TlIInv, StallsAtWork
<1>4. UNCHANGED <<TlStatus, TlTries>>
  BY LedgerRests
<1>5. ASSUME NEW x \in Tasks, task[x].state # "none", got' = got \cup {x} PROVE TheLedger!Receive(x)
  BY <1>4, <1>5 DEF TheLedger!Receive, TlStatus, TlState
<1>6. QED
  BY <1>2, <1>3, <1>4, <1>5 DEF TlMoves, TheLedger!Next, TheLedger!vars, TheLedger!Tasks, Tasks

\* A rival takes up its step, the agent or the owner moves, the lease expires.
LEMMA OutsideLedger ==
    ASSUME TlIInv, OneIInv', Outside, cast' = cast PROVE TlIInv' /\ TlMoves
<1>1. TaskTypeOK /\ Carries /\ Knows
  BY DEF TlIInv, OneIInv, TsIInv
<1>2. /\ task' = task /\ got' = got
      /\ \A q \in Tickers : thread'[q] = thread[q]
  BY <1>1, OutsideIs
<1>3. \A q \in Tickers : HoldsTries(q)'
  BY <1>2 DEF HoldsTries, InFlight, TlIInv
<1>4. pane \in Pane /\ Step \notin Tasks /\ Foreign \notin Tasks /\ Nothing \notin Tasks
  BY <1>1, TaskAssumption DEF TaskTypeOK, Tasks
<1>5. pane'.line \in Tasks => pane'.line = pane.line
  <2>1. CASE AgentReplies \/ AgentAsks \/ OwnerAnswers
    BY <1>4, <2>1 DEF AgentReplies, AgentAsks, OwnerAnswers, Pane
  <2>2. CASE OwnerTypes \/ AgentResets
    BY <1>4, <2>2 DEF OwnerTypes, AgentResets, Pane
  <2>3. CASE (\E p \in Rivals : RivalBegins(p)) \/ LeaseExpires
    BY <2>3 DEF RivalBegins, LeaseExpires
  <2>4. QED
    BY <2>1, <2>2, <2>3 DEF Outside
<1>6. \A q \in Threads : thread'[q] = thread[q] \/ (thread'[q].text = Step)
  <2>1. ASSUME NEW p \in Rivals, RivalBegins(p) PROVE \A q \in Threads : thread'[q] = thread[q] \/ thread'[q].text = Step
    <3>1. [Resting EXCEPT !.at = "read", !.text = Step].text = Step
      BY RestingCarries DEF Thread
    <3>2. QED
      BY <1>1, <2>1, <3>1 DEF RivalBegins, TaskTypeOK, Threads
  <2>2. CASE AgentReplies \/ AgentAsks \/ OwnerAnswers \/ OwnerTypes \/ AgentResets \/ LeaseExpires
    BY <2>2 DEF AgentReplies, AgentAsks, OwnerAnswers, OwnerTypes, AgentResets, LeaseExpires
  <2>3. QED
    BY <2>1, <2>2 DEF Outside
<1>7. Knows'
  <2>1. ASSUME NEW q \in Threads, InFlight(q)', thread'[q].text \in Tasks PROVE task[thread'[q].text].state # "none"
    BY <1>1, <1>4, <1>6, <2>1 DEF Knows, InFlight
  <2>2. replied' \subseteq got
    <3>1. CASE AgentReplies
      BY <1>1, <3>1 DEF AgentReplies, Knows
    <3>2. CASE ~ AgentReplies
      BY <1>1, <3>2 DEF Knows, Outside, RivalBegins, AgentAsks, OwnerAnswers, OwnerTypes, AgentResets, LeaseExpires
    <3>3. QED
      BY <3>1, <3>2
  <2>3. QED
    BY <1>1, <1>2, <1>5, <2>1, <2>2 DEF Knows
<1>8. TlIInv'
  BY <1>2, <1>3, <1>7 DEF TlIInv, StallsAtWork
<1>9. UNCHANGED <<TlStatus, TlTries>>
  BY <1>2, LedgerRests
<1>10. replied' = replied \/ \E x \in Tasks : x \in got /\ replied' = replied \cup {x}
  <2>1. CASE AgentReplies
    <3>1. replied' = replied \cup ({pane.doing} \cap got) /\ got \subseteq Tasks
      BY <1>1, <2>1 DEF AgentReplies, TaskTypeOK
    <3>2. QED
      BY <3>1
  <2>2. CASE ~ AgentReplies
    BY <2>2 DEF Outside, RivalBegins, AgentAsks, OwnerAnswers, OwnerTypes, AgentResets, LeaseExpires
  <2>3. QED
    BY <2>1, <2>2
<1>11. ASSUME NEW x \in Tasks, x \in got, replied' = replied \cup {x} PROVE TheLedger!Answer(x)
  BY <1>2, <1>9, <1>11 DEF TheLedger!Answer
<1>12. QED
  BY <1>2, <1>8, <1>9, <1>10, <1>11 DEF TlMoves, TheLedger!Next, TheLedger!vars, TheLedger!Tasks, Tasks

\* A step of one row, while the pane stands still: what is known stays known when no row
\* is dropped.
LEMMA RowKnows ==
    ASSUME TaskTypeOK, Knows, pane' = pane, replied' \subseteq got',
           \A t \in Tasks : task[t].state # "none" => task'[t].state # "none",
           \A q \in Threads : InFlight(q)' =>
              thread'[q] = thread[q] \/ (thread'[q].text \in Tasks => task[thread'[q].text].state # "none")
    PROVE  Knows'
<1>1. ASSUME NEW q \in Threads, InFlight(q)', thread'[q].text \in Tasks
      PROVE  task'[thread'[q].text].state # "none"
  BY <1>1 DEF Knows, InFlight
<1>2. QED
  BY <1>1 DEF Knows

LEMMA AnsweredIsGot == ASSUME Knows, UNCHANGED <<got, replied>> PROVE replied' \subseteq got'
BY DEF Knows

LEMMA AgesLedger ==
    ASSUME TlIInv, OneIInv', NEW t \in Tasks, Ages(t), cast' = cast PROVE TlIInv' /\ TlMoves
<1>1. TaskTypeOK /\ Carries /\ Knows /\ StallsAtWork /\ task \in [Tasks -> TaskRow] /\ task[t] \in TaskRow
  BY DEF TlIInv, OneIInv, TsIInv, TaskTypeOK
<1>2. UNCHANGED <<pane, got, replied, thread>>
  BY DEF Ages, Enqueue, AckTimeout, WorkStall
<1>3. /\ \A u \in Tasks \ {t} : task'[u] = task[u]
      /\ task'[t].attempts = task[t].attempts
      /\ \/ /\ task'[t].state = task[t].state
            /\ task'[t].stalled => task[t].stalled \/ task[t].state \in {"acknowledged", "working"}
         \/ /\ task[t].state = "none" /\ task'[t].state = "queued" /\ task'[t].stalled = task[t].stalled
            /\ \A u \in Tasks : u < t => task[u].state # "none"
  <2>1. CASE Enqueue(t)
    BY <1>1, <2>1 DEF Enqueue, TaskRow
  <2>2. CASE AckTimeout(t)
    BY <1>1, <2>2 DEF AckTimeout, TaskRow
  <2>3. CASE WorkStall(t)
    BY <1>1, <2>3 DEF WorkStall, TaskRow
  <2>4. QED
    BY <2>1, <2>2, <2>3 DEF Ages
<1>4. StallsAtWork'
  BY <1>1, <1>3 DEF StallsAtWork
<1>5. Knows'
  BY <1>1, <1>2, <1>3, AnsweredIsGot, RowKnows
<1>6. ASSUME NEW q \in Tickers PROVE HoldsTries(q)'
  <2>1. HoldsTries(q) /\ (InFlight(q) => thread[q].text \in Tasks)
    BY DEF TlIInv, OneIInv, FromRow
  <2>2. \A u \in Tasks : task'[u].attempts = task[u].attempts
    BY <1>3
  <2>3. QED
    BY <1>2, <2>1, <2>2 DEF HoldsTries, InFlight
<1>7. CASE task'[t].state = task[t].state
  BY <1>2, <1>3, <1>4, <1>5, <1>6, <1>7, LedgerRests DEF TlIInv, TlMoves, TheLedger!vars
<1>8. CASE task[t].state = "none" /\ task'[t].state = "queued" /\ \A u \in Tasks : u < t => task[u].state # "none"
  <2>1. /\ TlStatus' = [TlStatus EXCEPT ![t] = "queued"] /\ TlStatus[t] = "none"
        /\ \A u \in Tasks : u < t => TlStatus[u] # "none"
    BY <1>3, <1>8, LedgerMoves DEF TlState, TlStatus
  <2>2. TlTries' = TlTries
    BY <1>3 DEF TlTries
  <2>3. TheLedger!Add(t)
    BY <1>2, <2>1, <2>2 DEF TheLedger!Add, TheLedger!Moves, TheLedger!Tasks, Tasks
  <2>4. QED
    BY <1>4, <1>5, <1>6, <2>3 DEF TlIInv, TlMoves, TheLedger!Next, TheLedger!Tasks, Tasks
<1>9. QED
  BY <1>3, <1>7, <1>8

\* A task that is lost with its conversation is taken back.
LEMMA RestoreLedger ==
    ASSUME OneTicker, TlIInv, OneIInv', NEW p \in Tickers, RestoreAfterReset(p)
    PROVE  TlIInv' /\ TlMoves
<1> DEFINE t == FirstIn(TaskActive)
<1>1. TaskTypeOK /\ Knows /\ StallsAtWork /\ task \in [Tasks -> TaskRow] /\ thread \in [Threads -> Thread] /\ p \in Threads
  BY DEF TlIInv, OneIInv, TsIInv, TaskTypeOK, Threads
<1>2. UNCHANGED <<pane, got, replied>> /\ thread' = [thread EXCEPT ![p].at = "advance"]
  BY DEF RestoreAfterReset
<1>3. \A q \in Threads : InFlight(q)' => thread'[q] = thread[q]
  BY <1>1, <1>2 DEF InFlight, Thread
<1>4. \A q \in Tickers : HoldsTries(q)'
  BY <1>1, <1>2 DEF OneTicker, HoldsTries, InFlight, Thread
<1>5. CASE task' = task
  <2>1. Knows'
    BY <1>1, <1>2, <1>3, <1>5, AnsweredIsGot, RowKnows
  <2>2. QED
    BY <1>1, <1>2, <1>4, <1>5, <2>1, LedgerRests DEF TlIInv, StallsAtWork, TlMoves, TheLedger!vars
<1>6. CASE task' # task
  <2>1. t \in Tasks /\ task[t].state = "submitted" /\ t \notin got
    BY <1>6, FirstOfStates DEF RestoreAfterReset
  <2>2. task' = [task EXCEPT ![t] = [task[t] EXCEPT !.state = "queued"]]
    BY <1>6, <2>1 DEF RestoreAfterReset
  <2> HIDE DEF t
  <2>3. /\ \A u \in Tasks \ {t} : task'[u] = task[u]
        /\ task'[t].state = "queued" /\ task'[t].attempts = task[t].attempts
        /\ task'[t].stalled = task[t].stalled
    BY <1>1, <2>1, <2>2 DEF TaskRow
  <2>4. ~ task[t].stalled
    BY <1>1, <2>1 DEF StallsAtWork
  <2>5. StallsAtWork'
    BY <1>1, <2>3, <2>4 DEF StallsAtWork
  <2>6. Knows'
    BY <1>1, <1>2, <1>3, <2>3, AnsweredIsGot, RowKnows
  <2>7. /\ TlStatus' = [TlStatus EXCEPT ![t] = "queued"] /\ TlStatus[t] = "submitted"
        /\ TlTries' = TlTries
    BY <2>1, <2>3, LedgerMoves DEF TlState, TlTries
  <2>8. TheLedger!TakeBack(t)
    BY <1>2, <2>1, <2>7 DEF TheLedger!TakeBack, TheLedger!Moves
  <2>9. QED
    BY <1>4, <2>1, <2>5, <2>6, <2>8 DEF TlIInv, TlMoves, TheLedger!Next, TheLedger!Tasks, Tasks
<1>7. QED
  BY <1>5, <1>6

\* The row that Close writes forgets its tries when the task ends.
LEMMA ClosedTries ==
    ASSUME TaskTypeOK, NEW p \in Threads, NEW t \in Tasks,
           NEW s \in TaskActive \cup TaskTerminal, Close(p, t, s)
    PROVE  /\ task'[t].attempts = IF s \in TaskTerminal THEN 0 ELSE task[t].attempts
           /\ task'[t].stalled => task[t].stalled /\ s \notin TaskTerminal
<1>1. task \in [Tasks -> TaskRow] /\ task[t] \in TaskRow
  BY DEF TaskTypeOK
<1>2. task' = [task EXCEPT ![t] = IF s \in TaskTerminal
          THEN [NoTask EXCEPT !.state = s] ELSE [task[t] EXCEPT !.state = s]]
  BY <1>1 DEF Close
<1>3. CASE s \in TaskTerminal
  <2>1. task'[t] = [NoTask EXCEPT !.state = s]
    BY <1>1, <1>2, <1>3
  <2>2. [NoTask EXCEPT !.state = s].attempts = 0 /\ ~ [NoTask EXCEPT !.state = s].stalled
    BY DEF NoTask
  <2>3. QED
    BY <1>3, <2>1, <2>2
<1>4. CASE s \notin TaskTerminal
  <2>1. task'[t] = [task[t] EXCEPT !.state = s]
    BY <1>1, <1>2, <1>4
  <2>2. [task[t] EXCEPT !.state = s].attempts = task[t].attempts /\ [task[t] EXCEPT !.state = s].stalled = task[t].stalled
    BY <1>1 DEF TaskRow
  <2>3. QED
    BY <1>4, <2>1, <2>2
<1>5. QED
  BY <1>3, <1>4

\* The active row gets a new state: the agent is at work, or the task is over.
LEMMA CloseLedger ==
    ASSUME OneTicker, TlIInv, OneIInv', NEW p \in Tickers, NEW t \in Tasks, TsCloses(p, t),
           UNCHANGED <<pane, got, replied>>
    PROVE  TlIInv' /\ TlMoves
<1>1. TaskTypeOK /\ Knows /\ StallsAtWork /\ SeenIsGot /\ thread \in [Threads -> Thread] /\ p \in Threads
  BY DEF TlIInv, OneIInv, TsIInv, TaskTypeOK, Threads
<1>2. task[t].state \in TaskActive
  BY DEF TsCloses
<1>3. PICK s \in TaskActive \cup TaskTerminal :
         /\ Close(p, t, s)
         /\ s = "done" => t \in got \cap replied
         /\ s = "failed" => IF t \in got THEN t \notin replied /\ task[t].stalled ELSE task[t].attempts >= MaxAttempts
         /\ s \in TaskActive => s = task[t].state \/ (s = "working" /\ t \in got)
  BY DEF TsCloses
<1>4. /\ task'[t].state = s /\ \A u \in Tasks \ {t} : task'[u] = task[u]
      /\ thread' = [thread EXCEPT ![p] = Resting]
  BY <1>1, <1>3, ClosedRow
<1>5. /\ task'[t].attempts = IF s \in TaskTerminal THEN 0 ELSE task[t].attempts
      /\ task'[t].stalled => task[t].stalled /\ s \notin TaskTerminal
  BY <1>1, <1>3, ClosedTries
<1>6. StallsAtWork'
  <2>1. task'[t].stalled => task'[t].state \in {"acknowledged", "working"}
    <3>1. task'[t].stalled => s \in TaskActive /\ task[t].state \in {"acknowledged", "working"}
      BY <1>1, <1>5 DEF StallsAtWork
    <3>2. QED
      BY <1>3, <1>4, <3>1
  <2>2. QED
    BY <1>1, <1>4, <2>1 DEF StallsAtWork
<1>7. ~ InFlight(p)' /\ \A q \in Threads : InFlight(q)' => thread'[q] = thread[q]
  BY <1>1, <1>4, RestingCarries DEF InFlight
<1>8. Knows'
  <2>1. \A u \in Tasks : task[u].state # "none" => task'[u].state # "none"
    BY <1>4 DEF TaskActive, TaskTerminal
  <2>2. QED
    BY <1>1, <1>7, <2>1, AnsweredIsGot, RowKnows
<1>9. \A q \in Tickers : HoldsTries(q)'
  BY <1>7 DEF OneTicker, HoldsTries
<1>10. TlIInv'
  BY <1>6, <1>8, <1>9 DEF TlIInv
<1>11. /\ TlStatus' = [TlStatus EXCEPT ![t] = TlState(s)] /\ TlStatus[t] = TlState(task[t].state)
       /\ TlTries' = [TlTries EXCEPT ![t] = task'[t].attempts] /\ TlTries[t] = task[t].attempts
  BY <1>4, LedgerMoves
<1>12. CASE s = task[t].state
  <2>1. s \notin TaskTerminal
    BY <1>2, <1>12 DEF TaskActive, TaskTerminal
  <2>2. UNCHANGED <<TlStatus, TlTries>>
    BY <1>4, <1>5, <1>12, <2>1, LedgerRests
  <2>3. QED
    BY <1>10, <2>2 DEF TlMoves, TheLedger!vars
<1>13. CASE s # task[t].state /\ s \in TaskActive
  <2>1. s = "working" /\ t \in got /\ task'[t].attempts = task[t].attempts
    BY <1>3, <1>5, <1>13 DEF TaskActive, TaskTerminal
  <2>2. TlTries' = TlTries
    BY <1>4, <2>1 DEF TlTries
  <2>3. CASE task[t].state = "submitted"
    <3>1. TheLedger!Work(t)
      BY <1>11, <2>1, <2>2, <2>3 DEF TheLedger!Work, TheLedger!Moves, TlState
    <3>2. QED
      BY <1>10, <3>1 DEF TlMoves, TheLedger!Next, TheLedger!Tasks, Tasks
  <2>4. CASE task[t].state # "submitted"
    <3>1. TlState(s) = TlState(task[t].state)
      BY <1>2, <2>1, <2>4 DEF TlState, TaskActive
    <3>2. TlStatus' = TlStatus
      BY <1>11, <3>1 DEF TlStatus
    <3>3. QED
      BY <1>10, <2>2, <3>2 DEF TlMoves, TheLedger!vars
  <2>5. QED
    BY <2>3, <2>4
<1>14. CASE s \in TaskTerminal
  <2>1. /\ TlStatus' = [TlStatus EXCEPT ![t] = s] /\ TlTries' = [TlTries EXCEPT ![t] = 0]
        /\ TlStatus[t] \in {"submitted", "working"}
    BY <1>2, <1>5, <1>11, <1>14 DEF TlState, TaskActive, TaskTerminal
  <2>2. CASE s = "done"
    <3>1. TheLedger!Complete(t)
      BY <1>3, <2>1, <2>2 DEF TheLedger!Complete, TheLedger!Moves
    <3>2. QED
      BY <1>10, <3>1 DEF TlMoves, TheLedger!Next, TheLedger!Tasks, Tasks
  <2>3. CASE s = "failed"
    <3>1. t \in got => t \notin replied /\ TlStatus[t] = "working"
      BY <1>1, <1>3, <1>11, <2>3 DEF StallsAtWork, TlState
    <3>2. t \notin got => TlTries[t] >= MaxAttempts /\ TlStatus[t] = "submitted"
      BY <1>1, <1>2, <1>3, <1>11, <2>3 DEF SeenIsGot, TlState, TaskActive
    <3>3. TheLedger!Fail(t)
      BY <2>1, <2>3, <3>1, <3>2 DEF TheLedger!Fail, TheLedger!Moves
    <3>4. QED
      BY <1>10, <3>3 DEF TlMoves, TheLedger!Next, TheLedger!Tasks, Tasks
  <2>4. QED
    BY <1>14, <2>2, <2>3 DEF TaskTerminal
<1>15. QED
  BY <1>3, <1>12, <1>13, <1>14

LEMMA AdvanceLedger ==
    ASSUME OneTicker, TlIInv, OneIInv', NEW p \in Tickers, Advance(p) PROVE TlIInv' /\ TlMoves
<1>1. /\ TaskTypeOK /\ Knows /\ StallsAtWork /\ SeenIsGot
      /\ thread \in [Threads -> Thread] /\ task \in [Tasks -> TaskRow] /\ p \in Threads
  BY DEF TlIInv, OneIInv, TsIInv, TaskTypeOK, Threads
<1>2. /\ pane' = pane
      /\ \/ /\ task' = task /\ thread' = [thread EXCEPT ![p] = Resting]
            /\ UNCHANGED <<got, replied>>
         \/ \E t \in Tasks : TsBegins(p, t) \/ TsCloses(p, t)
  BY <1>1, AdvanceIs
<1>3. ASSUME NEW v \in Thread, task' = task, thread' = [thread EXCEPT ![p] = v],
             v.at = "idle" \/ (/\ task[v.text].state # "none" /\ v.attempts = task[v.text].attempts
                               /\ v.state = "submitted" => v.attempts < MaxAttempts),
             replied' \subseteq got'
      PROVE  TlIInv' /\ UNCHANGED <<TlStatus, TlTries>>
  <2>1. thread'[p] = v /\ \A q \in Threads : q # p => thread'[q] = thread[q]
    BY <1>1, <1>3
  <2>2. Knows'
    BY <1>1, <1>2, <1>3, <2>1, RowKnows DEF InFlight
  <2>3. \A q \in Tickers : HoldsTries(q)'
    BY <1>3, <2>1 DEF OneTicker, HoldsTries, InFlight
  <2>4. QED
    BY <1>1, <1>2, <1>3, <2>2, <2>3, LedgerRests DEF TlIInv, StallsAtWork
<1>4. CASE task' = task /\ thread' = [thread EXCEPT ![p] = Resting] /\ UNCHANGED <<got, replied>>
  BY <1>1, <1>3, <1>4, RestingCarries, AnsweredIsGot DEF TlMoves, TheLedger!vars
<1>5. ASSUME NEW t \in Tasks, TsBegins(p, t) PROVE TlIInv' /\ TlMoves
  <2>1. PICK robust \in BOOLEAN :
           thread' = [thread EXCEPT ![p] = [Resting EXCEPT !.at = "read", !.text = t,
                        !.state = task[t].state, !.attempts = task[t].attempts, !.robust = robust]]
    BY <1>5 DEF TsBegins
  <2> DEFINE v == [Resting EXCEPT !.at = "read", !.text = t,
                        !.state = task[t].state, !.attempts = task[t].attempts, !.robust = robust]
  <2>2. task[t].state \in Open /\ task[t].attempts \in Nat /\ t \in Text
    BY <1>1, <1>5 DEF TsBegins, Open, TaskRow, Text
  <2>3. v \in Thread /\ v.text = t /\ v.attempts = task[t].attempts /\ v.state = task[t].state
    BY <2>2, RestingCarries DEF Thread
  <2>4. task' = task /\ task[t].state # "none"
    BY <1>5 DEF TsBegins, TaskActive
  <2>5. task[t].state = "submitted" => task[t].attempts < MaxAttempts
    BY <1>5 DEF TsBegins
  <2> HIDE DEF v
  <2>6. SinceNow(t) /\ replied \subseteq got
    BY <1>1, <1>5 DEF TsBegins, Knows
  <2>7. replied' \subseteq got'
    BY <2>6 DEF SinceNow
  <2>8. TlIInv' /\ UNCHANGED <<TlStatus, TlTries>>
    BY <1>3, <2>1, <2>3, <2>4, <2>5, <2>7 DEF v
  <2>9. CASE UNCHANGED <<got, replied>>
    BY <2>8, <2>9 DEF TlMoves, TheLedger!vars
  <2>10. CASE got' = got \ {t} /\ replied' = replied \ {t} /\ task[t].state = "queued"
    <3>1. TheLedger!Forget(t)
      BY <2>8, <2>10 DEF TheLedger!Forget, TlStatus, TlState
    <3>2. QED
      BY <2>8, <3>1 DEF TlMoves, TheLedger!Next, TheLedger!Tasks, Tasks
  <2>11. t \notin got \/ task[t].state = "queued"
    BY <1>5 DEF TsBegins
  <2>12. t \notin got => got \ {t} = got /\ replied \ {t} = replied
    BY <2>6
  <2>13. QED
    BY <2>6, <2>9, <2>10, <2>11, <2>12 DEF SinceNow
<1>6. ASSUME NEW t \in Tasks, TsCloses(p, t) PROVE TlIInv' /\ TlMoves
  <2>1. UNCHANGED <<got, replied>>
    BY <1>6 DEF TsCloses, Close
  <2>2. QED
    BY <1>2, <1>6, <2>1, CloseLedger
<1>7. QED
  BY <1>2, <1>4, <1>5, <1>6

\* An attempt that is verified is a send in turn or a retry; one that is refused is
\* neither, and its row keeps its state and its tries.
LEMMA SettleLedger ==
    ASSUME OneTicker, TlIInv, OneIInv', NEW p \in Tickers, Settle(p) PROVE TlIInv' /\ TlMoves
<1> DEFINE t == thread[p].text
<1>1. /\ TaskTypeOK /\ Knows /\ StallsAtWork /\ HoldsTries(p) /\ FromRow(p)
      /\ thread \in [Threads -> Thread] /\ task \in [Tasks -> TaskRow] /\ p \in Threads
  BY DEF TlIInv, OneIInv, TsIInv, TaskTypeOK, Threads
<1>2. /\ UNCHANGED <<pane, got, replied>> /\ thread' = [thread EXCEPT ![p] = Resting] /\ InFlight(p)
  BY DEF Settle, InFlight
<1>3. /\ t \in Tasks /\ thread[p].state = task[t].state /\ task[t].state \in {"queued", "submitted"}
      /\ thread[p].attempts = task[t].attempts
      /\ task[t].state = "submitted" => task[t].attempts < MaxAttempts
  BY <1>1, <1>2 DEF FromRow, HoldsTries
<1>4. /\ \A u \in Tasks \ {t} : task'[u] = task[u]
      /\ task'[t].state = IF thread[p].acted THEN "submitted" ELSE task[t].state
      /\ task'[t].attempts = task[t].attempts + (IF thread[p].acted THEN 1 ELSE 0)
      /\ ~ task'[t].stalled
  <2>1. task'[t] = [state |-> IF thread[p].acted THEN "submitted" ELSE thread[p].state,
                    attempts |-> thread[p].attempts + (IF thread[p].acted THEN 1 ELSE 0),
                    conv |-> thread[p].conv, waited |-> FALSE, stalled |-> FALSE]
    BY <1>1, <1>3 DEF Settle
  <2>2. \A u \in Tasks \ {t} : task'[u] = task[u]
    BY <1>1 DEF Settle
  <2>3. QED
    BY <1>3, <2>1, <2>2
<1>5. ~ InFlight(p)' /\ \A q \in Threads : InFlight(q)' => thread'[q] = thread[q]
  BY <1>1, <1>2, RestingCarries DEF InFlight
<1> HIDE DEF t
<1>6. StallsAtWork'
  BY <1>1, <1>4 DEF StallsAtWork
<1>7. Knows'
  BY <1>1, <1>2, <1>3, <1>4, <1>5, AnsweredIsGot, RowKnows
<1>8. TlIInv'
  BY <1>5, <1>6, <1>7 DEF TlIInv, OneTicker, HoldsTries
<1>9. CASE ~ thread[p].acted
  <2>1. task'[t].state = task[t].state /\ task'[t].attempts = task[t].attempts
    BY <1>1, <1>3, <1>4, <1>9 DEF TaskRow
  <2>2. UNCHANGED <<TlStatus, TlTries>>
    BY <1>4, <2>1, LedgerRests
  <2>3. QED
    BY <1>2, <1>8, <2>2 DEF TlMoves, TheLedger!vars
<1>10. CASE thread[p].acted
  <2>1. /\ TlStatus' = [TlStatus EXCEPT ![t] = "submitted"] /\ TlStatus[t] = task[t].state
        /\ TlTries' = [TlTries EXCEPT ![t] = task[t].attempts + 1] /\ TlTries[t] = task[t].attempts
    BY <1>3, <1>4, <1>10, LedgerMoves DEF TlState
  <2>2. TlTries' = [TlTries EXCEPT ![t] = TlTries[t] + 1]
    BY <2>1
  <2>3. CASE task[t].state = "submitted"
    <3>1. TheLedger!Retry(t)
      BY <1>2, <1>3, <2>1, <2>2, <2>3 DEF TheLedger!Retry, TheLedger!Moves
    <3>2. QED
      BY <1>3, <1>8, <3>1 DEF TlMoves, TheLedger!Next, TheLedger!Tasks, Tasks
  <2>4. CASE task[t].state = "queued"
    <3>1. task'[t].state = "submitted"
      BY <1>4, <1>10
    <3>2. \A u \in Tasks : u < t => task[u].state \in TaskTerminal
      <4>1. \A u \in Tasks : u < t => u # t /\ task'[u].state \in TaskTerminal
        BY <1>3, <3>1, TaskAssumption DEF OneIInv, OneTaskInOrder, TaskActive, Tasks
      <4>2. QED
        BY <1>4, <4>1
    <3>3. \A u \in Tasks : t < u => task[u].state \in {"none", "queued"}
      <4>1. \A u \in Tasks : t < u => task[u].state \notin TaskActive \cup TaskTerminal
        BY <1>3, <2>4 DEF TlIInv, OneIInv, OneTaskInOrder, TaskTerminal
      <4>2. QED
        BY <1>1, <4>1 DEF TaskRow
    <3>4. TheLedger!InTurn(t)
      BY <3>2, <3>3 DEF TheLedger!InTurn, TheLedger!Tasks, Tasks, TlStatus, TlState, TaskTerminal
    <3>5. TheLedger!Send(t)
      BY <1>2, <2>1, <2>2, <2>4, <3>4 DEF TheLedger!Send, TheLedger!Moves
    <3>6. QED
      BY <1>3, <1>8, <3>5 DEF TlMoves, TheLedger!Next, TheLedger!Tasks, Tasks
  <2>5. QED
    BY <1>3, <2>3, <2>4
<1>11. QED
  BY <1>9, <1>10

LEMMA LedgerStep ==
    ASSUME OneTicker, TlIInv, [TaskNext]_TaskVars PROVE TlIInv' /\ TlMoves
<1>1. OneIInv /\ OneIInv' /\ TaskTypeOK /\ Carries
  BY OneStep DEF TlIInv, OneIInv, TsIInv
<1>2. CASE UNCHANGED TaskVars
  <2>1. UNCHANGED <<task, pane, got, replied, thread>>
    BY <1>2 DEF TaskVars, TaskState
  <2>2. Knows' /\ StallsAtWork' /\ \A p \in Tickers : HoldsTries(p)'
    BY <2>1 DEF TlIInv, Knows, StallsAtWork, HoldsTries, InFlight
  <2>3. UNCHANGED <<TlStatus, TlTries>>
    BY <2>1, LedgerRests
  <2>4. QED
    BY <1>1, <2>1, <2>2, <2>3 DEF TlIInv, TlMoves, TheLedger!vars
<1>3. ASSUME TaskNext PROVE TlIInv' /\ TlMoves
  <2>1. cast' = cast
    BY <1>3, TaskStepIs
  <2>2. ASSUME NEW p \in Threads, Actuates(p) PROVE TlIInv' /\ TlMoves
    BY <1>1, <2>1, <2>2, ActuatesIs, ActuatesLedger
  <2>3. ASSUME NEW p \in Tickers, RobustSubmit(p) PROVE TlIInv' /\ TlMoves
    <3>1. p \in Threads /\ thread[p] \in Thread /\ thread \in [Threads -> Thread]
      BY <1>1 DEF TaskTypeOK, Threads
    <3>2. [thread[p] EXCEPT !.at = "settle"] \in Thread /\ Carried(thread[p], [thread[p] EXCEPT !.at = "settle"])
      BY <3>1 DEF Thread, Carried
    <3>3. thread' = [thread EXCEPT ![p] = [thread[p] EXCEPT !.at = "settle"]] /\ InFlight(p)
      BY <2>3, <3>1 DEF RobustSubmit, InFlight
    <3>4. Attempts(p)
      BY <3>2, <3>3 DEF Attempts
    <3>5. UNCHANGED <<task, replied>>
      BY <2>3 DEF RobustSubmit
    <3>6. QED
      BY <1>1, <2>3, <3>1, <3>4, <3>5, ActuatesLedger
  <2>4. ASSUME NEW p \in Tickers, Ticks(p) PROVE TlIInv' /\ TlMoves
    BY <1>1, <2>2, <2>3, <2>4, RestoreLedger, AdvanceLedger, SettleLedger DEF Ticks, Threads
  <2>5. QED
    BY <1>1, <1>3, <2>1, <2>2, <2>4, OutsideLedger, AgesLedger, TaskStepIs DEF Threads
<1>4. QED
  BY <1>2, <1>3

\* While one thread ticks it the queue implements TaskLedger, for any number of tasks,
\* attempts, rivals and resets: whatever a step of a thread, the pane, the agent or the
\* lease does is one step of the ledger or none.
THEOREM TasksAreALedger == ASSUME OneTicker PROVE TaskSpec => ImplementsTaskLedger
<1>1. ASSUME TaskInit, OneIInv PROVE TlIInv /\ TheLedger!Init
  <2>1. /\ task = [t \in Tasks |-> NoTask] /\ got = {} /\ replied = {}
        /\ pane = [line |-> Nothing, mode |-> "idle", doing |-> Nothing, conv |-> 0]
    BY <1>1 DEF TaskInit
  <2>2. \A p \in Threads : ~ InFlight(p)
    BY <1>1 DEF TaskInit, InFlight, Resting
  <2>3. Nothing \notin Tasks
    BY TaskAssumption DEF Tasks
  <2>4. TlIInv
    BY <1>1, <2>1, <2>2, <2>3 DEF TlIInv, Knows, StallsAtWork, HoldsTries, NoTask, Threads
  <2>5. TlStatus = [t \in Tasks |-> "none"] /\ TlTries = [t \in Tasks |-> 0]
    BY <2>1 DEF TlStatus, TlTries, TlState, NoTask
  <2>6. QED
    BY <2>1, <2>4, <2>5 DEF TheLedger!Init, TheLedger!Tasks, Tasks
<1>2. ASSUME TlIInv, [TaskNext]_TaskVars PROVE TlIInv' /\ TlMoves
  BY <1>2, LedgerStep
<1>3. QED
  BY <1>1, <1>2, OneAlways, PTL DEF TaskSpec, TlMoves, ImplementsTaskLedger, TheLedger!Spec

----------------------------------------------------------------------------
(* The continuation watchdog *)

\* What the pass under way has typed of a step and not yet written down.
CwTypings(k) ==
    IF cwPass.at = "verify" /\ ~cwPass.late /\ cwPass.key = k THEN cwPass.typed ELSE 0

\* A typing of the conversation is counted in its row, or by the pass that made it,
\* unless that pass was cut off.
Counted == \A k \in CwKey : cwSent[k] <= cwStep[k].attempts + CwTypings(k) + 2 * cwStops

\* An attempted step was executed or is blocked; an executed one does not cool.
Judged ==
    \A k \in CwKey :
        /\ cwStep[k].attempts > 0 => cwStep[k].verified \/ cwStep[k].blocked
        /\ cwStep[k].verified => ~cwStep[k].cooling

\* What a pass types in its own conversation was due when it decided, and nothing
\* since made it less so.
Due ==
    cwPass.at \in {"send", "verify"} /\ ~cwPass.late =>
        ~cwStep[cwPass.key].verified /\ cwStep[cwPass.key].attempts < CwMaxAttempts

\* Only a pass that verifies has typed anything.
Phased == cwPass.at = "verify" \/ cwPass.typed = 0

CwIInv == CwTypeOK /\ Counted /\ Judged /\ Due /\ Phased

CwPassType == [at : {"idle", "decide", "send", "verify"}, key : CwKey,
               action : {"skip", "submit", "deliver"}, late : BOOLEAN, typed : 0..2]

\* A step that should_skip_prior lets through has not used up its attempts.
LEMMA DueAfterSkip ==
    ASSUME CwTypeOK, Judged, NEW k \in CwKey, ~CwSkips(cwStep[k])
    PROVE  ~cwStep[k].verified /\ cwStep[k].attempts < CwMaxAttempts
<1>1. cwStep[k].attempts \in Nat /\ CwMaxAttempts \in Nat /\ CwMaxAttempts > 0
  BY CwAssumption DEF CwTypeOK, CwRow
<1>2. CASE cwStep[k].attempts = 0
  BY <1>1, <1>2 DEF CwSkips
<1>3. CASE cwStep[k].attempts > 0
  BY <1>1, <1>3 DEF CwSkips, Judged
<1>4. QED
  BY <1>1, <1>2, <1>3

\* What is counted, in rows below the cap and in the pass under way, is capped.
LEMMA CappedByCount == CwIInv => CwAttemptsCapped
<1> SUFFICES ASSUME CwIInv, NEW k \in CwKey
             PROVE  cwSent[k] <= CwMaxAttempts + 1 + 2 * cwStops
  BY DEF CwAttemptsCapped
<1>1. /\ cwSent[k] \in Nat /\ cwStops \in Nat /\ CwMaxAttempts \in Nat
      /\ cwStep[k].attempts \in Nat /\ cwStep[k].attempts <= CwMaxAttempts + 1
      /\ cwPass.typed \in 0..2
  BY CwAssumption DEF CwIInv, CwTypeOK, CwRow
<1>2. cwSent[k] <= cwStep[k].attempts + CwTypings(k) + 2 * cwStops
  BY DEF CwIInv, Counted
<1>3. CASE cwPass.at = "verify" /\ ~cwPass.late /\ cwPass.key = k
  <2>1. cwStep[k].attempts < CwMaxAttempts /\ CwTypings(k) = cwPass.typed
    BY <1>3 DEF CwIInv, Due, CwTypings
  <2>2. QED
    BY <1>1, <1>2, <2>1
<1>4. CASE ~(cwPass.at = "verify" /\ ~cwPass.late /\ cwPass.key = k)
  BY <1>1, <1>2, <1>4 DEF CwTypings
<1>5. QED
  BY <1>3, <1>4

LEMMA CwInitInv == CwInit => CwIInv
BY CwAssumption
DEF CwInit, CwIInv, CwTypeOK, Counted, CwTypings, Judged, Due, Phased, CwNewPane, CwNoRow, CwRow,
    CwIdle, CwKey, CwLine, CwMode

LEMMA CwObserveInv == ASSUME CwIInv, CwObserve PROVE CwIInv'
BY DEF CwObserve, CwIInv, CwTypeOK, Counted, CwTypings, Judged, Due, Phased

\* The decision is a key, and a row that is due when something is to be typed.
LEMMA CwDecideInv == ASSUME CwIInv, CwDecide PROVE CwIInv'
<1> DEFINE key == CwDecision[2]
<1> USE DEF CwIInv
<1>1. key \in CwKey /\ CwDecision[1] \in {"skip", "blocker", "submit", "deliver"}
  BY DEF CwDecision, CwKey, CwLine
<1>2. CwIdle \in CwPassType /\ CwIdle.at = "idle" /\ cwPass.at = "decide"
  BY DEF CwDecide, CwPassType, CwIdle, CwKey, CwLine
<1>3. CASE CwDecision[1] = "skip" \/ CwSkips(cwStep[key])
  <2>1. cwPass' = CwIdle /\ UNCHANGED <<cwPane, cwAuto, cwStep, cwTarget, cwReported, cwSent, cwStops>>
    BY <1>3 DEF CwDecide
  <2>2. \A k \in CwKey : CwTypings(k)' = CwTypings(k)
    BY <1>2, <2>1 DEF CwTypings
  <2>3. QED
    BY <1>2, <2>1, <2>2 DEF CwTypeOK, CwPassType, Counted, Judged, Due, Phased, CwIdle
<1>4. CASE CwDecision[1] = "blocker" /\ ~CwSkips(cwStep[key])
  <2>1. /\ CwBlock(key) /\ cwPass' = CwIdle
        /\ UNCHANGED <<cwPane, cwAuto, cwTarget, cwSent, cwStops>>
    BY <1>4 DEF CwDecide
  <2>2. ~cwStep[key].verified
    BY <1>1, <1>4, DueAfterSkip
  <2>3. /\ cwStep' \in [CwKey -> CwRow]
        /\ \A k \in CwKey : cwStep'[k].attempts = cwStep[k].attempts
    <3> DEFINE row == [cwStep[key] EXCEPT !.verified = FALSE, !.blocked = TRUE, !.cooling = TRUE]
    <3>1. row \in CwRow /\ row.attempts = cwStep[key].attempts
      BY <1>1 DEF CwTypeOK, CwRow
    <3>2. cwStep' = [cwStep EXCEPT ![key] = row]
      BY <2>1 DEF CwBlock
    <3>3. QED
      BY <1>1, <3>1, <3>2 DEF CwTypeOK
  <2>4. CwTypeOK'
    BY <1>1, <1>2, <2>1, <2>3 DEF CwBlock, CwTypeOK, CwPassType
  <2>5. Judged'
    BY <1>1, <2>1, <2>2 DEF CwBlock, Judged, CwTypeOK, CwRow
  <2>6. \A k \in CwKey : CwTypings(k)' = CwTypings(k)
    BY <1>2, <2>1 DEF CwTypings
  <2>7. QED
    BY <1>2, <2>1, <2>3, <2>4, <2>5, <2>6 DEF Counted, Due, Phased, CwIdle
<1>5. CASE CwDecision[1] \in {"submit", "deliver"} /\ ~CwSkips(cwStep[key])
  <2>1. /\ cwPass' = [CwIdle EXCEPT !.at = "send", !.action = CwDecision[1], !.key = key]
        /\ UNCHANGED <<cwPane, cwAuto, cwStep, cwTarget, cwReported, cwSent, cwStops>>
    BY <1>5 DEF CwDecide
  <2>2. cwPass' \in CwPassType /\ cwPass'.at = "send" /\ cwPass'.key = key
    <3>1. cwPass' = [at |-> "send", action |-> CwDecision[1], key |-> key, late |-> FALSE, typed |-> 0]
      BY <2>1 DEF CwIdle
    <3>2. QED
      BY <1>1, <1>5, <3>1 DEF CwPassType
  <2>3. Due'
    BY <1>1, <1>5, <2>1, <2>2, DueAfterSkip DEF Due
  <2>4. \A k \in CwKey : CwTypings(k)' = CwTypings(k)
    BY <1>2, <2>2 DEF CwTypings
  <2>5. QED
    BY <2>1, <2>2, <2>3, <2>4 DEF CwTypeOK, CwPassType, Counted, Judged, Phased, CwIdle
<1>6. QED
  BY <1>1, <1>3, <1>4, <1>5

\* Keystrokes are counted by the pass that makes them, which has made one at most.
LEMMA CwTypesInv ==
    ASSUME CwIInv, CwKeystrokes, cwPass.at \in {"send", "verify"},
           cwPass.at = "verify" => cwPass.typed = 1
    PROVE  CwIInv'
<1> USE DEF CwIInv
<1> DEFINE key == cwPass.key
<1>1. /\ key \in CwKey /\ cwPass.late \in BOOLEAN /\ cwPass.typed \in 0..1 /\ cwPass \in CwPassType
      /\ CwMaxAttempts \in Nat /\ CwCrashes \in Nat /\ cwStops \in Nat /\ cwStops <= CwCrashes
      /\ \A k \in CwKey : cwSent[k] \in Nat /\ cwStep[k].attempts \in Nat
  BY CwAssumption DEF CwTypeOK, CwRow, CwPassType, Phased
<1>2. cwPane' \in [line : CwLine \cup {"none"}, mode : CwMode]
  <2>1. cwPane \in [line : CwLine \cup {"none"}, mode : CwMode]
    BY DEF CwTypeOK
  <2>2. "none" \in CwLine \cup {"none"} /\ "safe" \in CwLine /\ "unsafe" \in CwLine /\ "busy" \in CwMode
    BY DEF CwLine, CwMode
  <2>3. \A p \in CwTyped(cwPane) : p \in [line : CwLine \cup {"none"}, mode : CwMode]
    BY <2>1, <2>2 DEF CwTyped
  <2>4. QED
    BY <2>3 DEF CwKeystrokes
<1>3. /\ cwPass' \in CwPassType /\ cwPass'.at = "verify" /\ cwPass'.key = key
      /\ cwPass'.late = cwPass.late /\ cwPass'.typed = cwPass.typed + 1
      /\ UNCHANGED <<cwAuto, cwStep, cwTarget, cwReported, cwStops>>
  <2>1. /\ cwPass' = [cwPass EXCEPT !.at = "verify", !.typed = cwPass.typed + 1]
        /\ UNCHANGED <<cwAuto, cwStep, cwTarget, cwReported, cwStops>>
    BY DEF CwKeystrokes
  <2>2. cwPass.typed + 1 \in 0..2
    BY <1>1
  <2>3. QED
    BY <1>1, <2>1, <2>2 DEF CwPassType
<1>4. Due' /\ Judged' /\ Phased'
  BY <1>3 DEF Due, Judged, Phased
<1>5. \A k \in CwKey : /\ cwSent'[k] \in Nat
                       /\ cwSent'[k] <= cwStep'[k].attempts + CwTypings(k)' + 2 * cwStops'
  <2>1. CASE cwPass.late
    <3>1. cwSent' = cwSent /\ \A k \in CwKey : CwTypings(k)' = CwTypings(k)
      BY <1>3, <2>1 DEF CwKeystrokes, CwTypings
    <3>2. QED
      BY <1>1, <1>3, <3>1 DEF Counted
  <2>2. CASE ~cwPass.late
    <3>1. cwSent' = [cwSent EXCEPT ![key] = @ + 1]
      BY <2>2 DEF CwKeystrokes
    <3>2. /\ CwTypings(key)' = cwPass.typed + 1
          /\ CwTypings(key) <= cwPass.typed
          /\ CwTypings(key) \in 0..2
      BY <1>1, <1>3, <2>2 DEF CwTypings
    <3>3. cwSent'[key] = cwSent[key] + 1
      BY <1>1, <3>1 DEF CwTypeOK
    <3>4. cwSent[key] <= cwStep[key].attempts + CwTypings(key) + 2 * cwStops
      BY <1>1 DEF Counted
    <3>5. cwSent'[key] \in Nat /\ cwSent'[key] <= cwStep'[key].attempts + CwTypings(key)' + 2 * cwStops'
      BY <1>1, <1>3, <3>2, <3>3, <3>4
    <3>6. ASSUME NEW k \in CwKey, k # key
          PROVE  cwSent'[k] = cwSent[k] /\ CwTypings(k)' = CwTypings(k)
      BY <1>3, <3>1, <3>6 DEF CwTypings, CwTypeOK
    <3>7. QED
      BY <1>1, <1>3, <3>5, <3>6 DEF Counted
  <2>3. QED
    BY <1>1, <2>1, <2>2
<1>6. \A k \in CwKey : cwSent'[k] <= CwMaxAttempts + 1 + 2 * CwCrashes
  <2> SUFFICES ASSUME NEW k \in CwKey PROVE cwSent'[k] <= CwMaxAttempts + 1 + 2 * CwCrashes
    OBVIOUS
  <2>1. cwSent[k] <= CwMaxAttempts + 1 + 2 * cwStops
    BY CappedByCount DEF CwAttemptsCapped
  <2>2. CASE cwSent'[k] = cwSent[k]
    BY <1>1, <2>1, <2>2
  <2>3. CASE k = key /\ ~cwPass.late
    <3>1. cwStep[k].attempts < CwMaxAttempts
      BY <2>3 DEF Due
    <3>2. CwTypings(k)' = cwPass.typed + 1
      BY <1>3, <2>3 DEF CwTypings
    <3>3. cwSent'[k] <= cwStep[k].attempts + (cwPass.typed + 1) + 2 * cwStops
      BY <1>3, <1>5, <3>2
    <3>4. QED
      BY <1>1, <1>5, <3>1, <3>3
  <2>4. QED
    BY <2>2, <2>3 DEF CwKeystrokes, CwTypeOK
<1>7. cwSent' \in [CwKey -> 0..CwMaxAttempts + 1 + 2 * CwCrashes]
  <2>1. \A k \in CwKey : cwSent'[k] \in 0..CwMaxAttempts + 1 + 2 * CwCrashes
    BY <1>1, <1>5, <1>6
  <2>2. cwSent' = [k \in CwKey |-> cwSent'[k]]
    BY DEF CwKeystrokes, CwTypeOK
  <2>3. QED
    BY <2>1, <2>2
<1>8. QED
  BY <1>1, <1>2, <1>3, <1>4, <1>5, <1>7 DEF CwTypeOK, CwPassType, Counted

\* The record counts what was typed, and the row it overwrites was due.
LEMMA CwConcludeInv == ASSUME CwIInv, CwConclude PROVE CwIInv'
<1> USE DEF CwIInv
<1>1. /\ cwPass.key \in CwKey /\ cwPass.late \in BOOLEAN /\ cwPass.typed \in 0..2
      /\ CwMaxAttempts \in Nat /\ cwStops \in Nat
      /\ \A k \in CwKey : cwSent[k] \in Nat /\ cwStep[k].attempts \in Nat
  BY CwAssumption DEF CwTypeOK, CwRow
<1>2. /\ cwPass.at = "verify" /\ cwPass' = CwIdle
      /\ CwIdle \in CwPassType /\ CwIdle.at = "idle"
      /\ UNCHANGED <<cwPane, cwAuto, cwTarget, cwSent, cwStops>>
  BY DEF CwConclude, CwPassType, CwIdle, CwKey, CwLine
<1>3. \A k \in CwKey : CwTypings(k)' = 0
  BY <1>2 DEF CwTypings
<1>4. CASE cwPass.late
  <2>1. UNCHANGED <<cwStep, cwReported>> /\ \A k \in CwKey : CwTypings(k) = 0
    BY <1>4 DEF CwConclude, CwTypings
  <2>2. QED
    <3>1. Counted' /\ Judged' /\ Due'
      BY <1>2, <1>3, <2>1 DEF Counted, Judged, Due
    <3>2. CwTypeOK' /\ Phased'
      BY <1>2, <2>1 DEF CwTypeOK, CwPassType, Phased, CwIdle
    <3>3. QED
      BY <3>1, <3>2
<1>5. CASE ~cwPass.late
  <2> DEFINE key == cwPass.key
             retried == cwPass.typed = 2
  <2>1. PICK ok \in BOOLEAN : CwRecord(key, ok, retried)
    BY <1>5 DEF CwConclude
  <2>2. cwStep[key].attempts < CwMaxAttempts
    BY <1>2, <1>5 DEF Due
  <2> DEFINE n == cwStep[key].attempts + (IF retried THEN 2 ELSE 1)
             row == [attempts |-> n, verified |-> ok, blocked |-> ~ok, cooling |-> ~ok]
  <2>3. n \in 0..CwMaxAttempts + 1 /\ n >= 1
    BY <1>1, <2>2
  <2>5. n >= cwStep[key].attempts + cwPass.typed
    BY <1>1
  <2>6. row \in CwRow
    BY <2>3 DEF CwRow
  <2>7. cwStep' = [cwStep EXCEPT ![key] = row]
    BY <2>1 DEF CwRecord
  <2>8. cwStep' \in [CwKey -> CwRow] /\ cwReported' \subseteq CwKey
    BY <1>1, <2>1, <2>6, <2>7 DEF CwRecord, CwTypeOK
  <2>9. Counted'
    <3>1. cwStep'[key].attempts = n
      BY <1>1, <2>7 DEF CwTypeOK
    <3>2. cwSent[key] <= cwStep[key].attempts + cwPass.typed + 2 * cwStops
      BY <1>1, <1>2, <1>5 DEF Counted, CwTypings
    <3>3. cwSent'[key] <= cwStep'[key].attempts + 0 + 2 * cwStops'
      BY <1>1, <1>2, <2>3, <2>5, <3>1, <3>2
    <3>4. ASSUME NEW k \in CwKey, k # key
          PROVE  cwSent'[k] <= cwStep'[k].attempts + 0 + 2 * cwStops'
      <4>1. CwTypings(k) = 0 /\ cwStep'[k] = cwStep[k]
        BY <2>7, <3>4 DEF CwTypings, CwTypeOK
      <4>2. QED
        BY <1>2, <4>1 DEF Counted
    <3>5. QED
      BY <1>3, <3>3, <3>4 DEF Counted
  <2>10. Judged'
    BY <1>1, <2>7 DEF Judged, CwTypeOK
  <2>11. QED
    BY <1>2, <2>8, <2>9, <2>10 DEF CwTypeOK, CwPassType, Due, Phased, CwIdle
<1>6. QED
  BY <1>1, <1>4, <1>5

\* A stop loses the record of a pass, which typed twice at most, and is counted itself.
LEMMA CwStopInv == ASSUME CwIInv, CwStop PROVE CwIInv'
<1> USE DEF CwIInv
<1>1. /\ cwPass.typed \in 0..2 /\ cwStops \in Nat /\ cwStops < CwCrashes /\ CwCrashes \in Nat
      /\ cwStops' = cwStops + 1
      /\ \A k \in CwKey : cwSent[k] \in Nat /\ cwStep[k].attempts \in Nat
  BY CwAssumption DEF CwTypeOK, CwStop, CwRow
<1>2. /\ cwPass' = CwIdle /\ CwIdle \in CwPassType /\ CwIdle.at = "idle"
      /\ UNCHANGED <<cwPane, cwAuto, cwStep, cwTarget, cwReported, cwSent>>
  BY DEF CwStop, CwPassType, CwIdle, CwKey, CwLine
<1>3. \A k \in CwKey : CwTypings(k)' = 0 /\ CwTypings(k) \in 0..2
  BY <1>1, <1>2 DEF CwTypings
<1>4. Counted'
  <2> SUFFICES ASSUME NEW k \in CwKey
               PROVE  cwSent'[k] <= cwStep'[k].attempts + CwTypings(k)' + 2 * cwStops'
    BY DEF Counted
  <2>1. cwSent[k] <= cwStep[k].attempts + CwTypings(k) + 2 * cwStops
    BY DEF Counted
  <2>2. QED
    BY <1>1, <1>2, <1>3, <2>1
<1>5. QED
  <2>1. CwTypeOK'
    BY <1>1, <1>2 DEF CwTypeOK, CwPassType
  <2>2. Judged' /\ Due' /\ Phased'
    BY <1>2 DEF Judged, Due, Phased, CwIdle
  <2>3. QED
    BY <1>4, <2>1, <2>2

\* Time, the agent and the owner touch neither a row's verdict nor its count.
LEMMA CwOthersInv ==
    ASSUME CwIInv,
           \/ CwDwell \/ CwPaneMoves \/ CwNewConversation
           \/ \E k \in CwKey : CwCooled(k)
           \/ UNCHANGED CwVars
    PROVE  CwIInv'
<1> USE DEF CwIInv
<1>1. CASE CwDwell
  BY <1>1 DEF CwDwell, CwTypeOK, Counted, CwTypings, Judged, Due, Phased
<1>2. CASE CwPaneMoves
  <2>1. cwPane' \in [line : CwLine \cup {"none"}, mode : CwMode]
    BY <1>2 DEF CwPaneMoves, CwTypeOK, CwMode, CwAsking
  <2>2. QED
    BY <1>2, <2>1 DEF CwPaneMoves, CwTypeOK, Counted, CwTypings, Judged, Due, Phased
<1>3. CASE CwNewConversation
  <2>1. CwNoRow \in CwRow /\ cwStops \in Nat /\ CwMaxAttempts \in Nat /\ CwCrashes \in Nat
    BY CwAssumption DEF CwNoRow, CwRow, CwTypeOK
  <2>2. cwPass' \in CwPassType
    BY <1>3 DEF CwNewConversation, CwTypeOK, CwPassType
  <2>3. CwTypeOK'
    BY <1>3, <2>1, <2>2 DEF CwNewConversation, CwTypeOK, CwPassType, CwNewPane, CwLine, CwMode
  <2>4. Due' /\ Judged' /\ Phased'
    <3>1. cwPass'.at = cwPass.at /\ cwPass'.typed = cwPass.typed
          /\ (cwPass.at \in {"send", "verify"} => cwPass'.late)
      BY <1>3 DEF CwNewConversation, CwTypeOK
    <3>2. QED
      BY <1>3, <3>1 DEF CwNewConversation, Due, Judged, Phased, CwNoRow
  <2>5. Counted'
    <3>1. \A k \in CwKey : CwTypings(k)' \in 0..2
      BY <2>2 DEF CwTypings, CwPassType
    <3>2. \A k \in CwKey : cwSent'[k] = 0 /\ cwStep'[k].attempts = 0
      BY <1>3 DEF CwNewConversation, CwNoRow
    <3>3. cwStops' = cwStops
      BY <1>3 DEF CwNewConversation
    <3>4. QED
      BY <2>1, <3>1, <3>2, <3>3 DEF Counted
  <2>6. QED
    BY <2>3, <2>4, <2>5
<1>4. ASSUME NEW k \in CwKey, CwCooled(k) PROVE CwIInv'
  <2>1. /\ cwStep' \in [CwKey -> CwRow]
        /\ \A q \in CwKey : /\ cwStep'[q].attempts = cwStep[q].attempts
                            /\ cwStep'[q].verified = cwStep[q].verified
                            /\ cwStep'[q].blocked = cwStep[q].blocked
                            /\ cwStep'[q].cooling => cwStep[q].cooling
    BY <1>4 DEF CwCooled, CwTypeOK, CwRow
  <2>2. QED
    BY <1>4, <2>1 DEF CwCooled, CwTypeOK, Counted, CwTypings, Judged, Due, Phased
<1>5. CASE UNCHANGED CwVars
  BY <1>5 DEF CwVars, CwTypeOK, Counted, CwTypings, Judged, Due, Phased
<1>6. QED
  BY <1>1, <1>2, <1>3, <1>4, <1>5

LEMMA CwInductive == CwSpec => []CwIInv
<1>1. CwIInv /\ [CwNext]_CwVars => CwIInv'
  <2>1. ASSUME CwIInv, CwSend \/ CwRetry PROVE CwIInv'
    BY <2>1, CwTypesInv DEF CwSend, CwRetry
  <2>2. QED
    BY <2>1, CwObserveInv, CwDecideInv, CwConcludeInv, CwStopInv, CwOthersInv DEF CwNext, CwSweep
<1>2. QED
  BY <1>1, CwInitInv, PTL DEF CwSpec

\* The state of the sweep always has its declared types: the ledger's count of a step
\* exceeds the cap by at most the retry of its last delivery.
THEOREM CwTypeCorrect == CwSpec => []CwTypeOK
BY CwInductive, PTL DEF CwIInv

\* A step is typed at most CwMaxAttempts times in a conversation, once more by the
\* retry of its last delivery and twice more for each pass cut off before its row,
\* for every cap and any number of stops.
THEOREM AttemptsCapped == CwSpec => []CwAttemptsCapped
BY CwInductive, CappedByCount, PTL

\* Only a new conversation touches the record of an executed step or types it again.
LEMMA VerifiedStep ==
    CwIInv /\ [CwNext]_CwVars =>
    [CwNewConversation \/ \A k \in CwKey :
          cwStep[k].verified => cwSent'[k] = cwSent[k] /\ cwStep'[k] = cwStep[k]]_CwVars
<1> SUFFICES ASSUME CwIInv, CwNext, ~CwNewConversation, NEW k \in CwKey, cwStep[k].verified
             PROVE  cwSent'[k] = cwSent[k] /\ cwStep'[k] = cwStep[k]
  OBVIOUS
<1>1. CASE CwObserve \/ CwDwell \/ CwPaneMoves
  BY <1>1 DEF CwObserve, CwDwell, CwPaneMoves
<1>2. CASE CwDecide
  <2> DEFINE key == CwDecision[2]
  <2>1. key \in CwKey
    BY DEF CwDecision, CwKey, CwLine
  <2>2. cwStep' = cwStep \/ (CwBlock(key) /\ ~CwSkips(cwStep[key]))
    BY <1>2 DEF CwDecide
  <2>3. CASE cwStep' = cwStep
    BY <1>2, <2>3 DEF CwDecide
  <2>4. CASE CwBlock(key) /\ ~CwSkips(cwStep[key])
    <3>1. key # k
      BY <2>1, <2>4, DueAfterSkip DEF CwIInv
    <3>2. QED
      BY <1>2, <2>4, <3>1 DEF CwDecide, CwBlock, CwIInv, CwTypeOK
  <2>5. QED
    BY <2>2, <2>3, <2>4
<1>3. CASE CwSend \/ CwRetry \/ CwConclude \/ CwStop
  <2>1. CASE cwPass.late
    BY <1>3, <2>1 DEF CwSend, CwRetry, CwConclude, CwStop, CwKeystrokes
  <2>2. CASE ~cwPass.late
    <3>1. cwPass.key # k
      BY <1>3, <2>2 DEF CwIInv, Due, CwSend, CwRetry, CwConclude, CwStop
    <3>2. CASE CwSend \/ CwRetry \/ CwStop
      BY <2>2, <3>1, <3>2 DEF CwSend, CwRetry, CwStop, CwKeystrokes, CwIInv, CwTypeOK
    <3>3. CASE CwConclude
      BY <2>2, <3>1, <3>3 DEF CwConclude, CwRecord, CwIInv, CwTypeOK
    <3>4. QED
      BY <1>3, <3>2, <3>3
  <2>3. QED
    BY <2>1, <2>2 DEF CwIInv, CwTypeOK
<1>4. ASSUME NEW q \in CwKey, CwCooled(q) PROVE cwSent'[k] = cwSent[k] /\ cwStep'[k] = cwStep[k]
  BY <1>4 DEF CwCooled, CwIInv, Judged, CwTypeOK
<1>5. QED
  BY <1>1, <1>2, <1>3, <1>4 DEF CwNext, CwSweep

\* A step recorded as executed is not typed again in its conversation and keeps its
\* record.
THEOREM ExecutedStands == CwSpec => CwVerifiedStands
<1>1. CwIInv /\ [CwNext]_CwVars
      => [CwNewConversation \/ \A k \in CwKey :
              cwStep[k].verified => cwSent'[k] = cwSent[k] /\ cwStep'[k] = cwStep[k]]_CwVars
  BY VerifiedStep
<1>2. QED
  BY <1>1, CwInductive, PTL DEF CwSpec, CwVerifiedStands
=============================================================================

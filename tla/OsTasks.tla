------------------------------ MODULE OsTasks ------------------------------
(***************************************************************************)
(* The ledger of continuations of one agent (core/os_task_queue.py), the   *)
(* lease-gated actuator that types them into the agent's pane              *)
(* (core/control_plane/actuator.py, the delivery half of                   *)
(* core/agent_continuation_watchdog.py) and the lease itself               *)
(* (core/control_plane/api.py).                                            *)
(*                                                                         *)
(* A ticker is a thread that advances the ledger, a rival a controller     *)
(* that sends a step of its own through the same actuator.  A step of a    *)
(* thread is what it does between two points where another thread can get  *)
(* in: the two statements of the lease, the guards over one snapshot of    *)
(* the pane, the keystrokes with their verification, the record, the       *)
(* ledger's row.  Clocks are flags that say a bound has passed.            *)
(***************************************************************************)
EXTENDS Integers, FiniteSets

CONSTANTS
    NTasks,       \* tasks 1..NTasks, numbered by seq
    Tickers,      \* threads inside os_task_queue
    Rivals,       \* threads of the other controllers
    Step,         \* the text a rival sends
    Foreign,      \* what the owner types, or two texts run together
    Nothing,      \* an empty input line, no lease row
    MaxAttempts,  \* MAX_ATTEMPTS
    MaxConv,      \* bound: conversations after the first; the newest four are read
    Casts         \* bound: how many tasks, which rivals, how many resets take part

ASSUME TaskAssumption ==
    /\ NTasks \in Nat \ {0} /\ MaxAttempts \in Nat \ {0} /\ MaxConv \in 0..3
    /\ Step \notin 1..NTasks /\ Foreign \notin (1..NTasks) \cup {Step}
    /\ Nothing \notin (1..NTasks) \cup Tickers \cup Rivals \cup {Step, Foreign}
    /\ Tickers \cap Rivals = {}
    /\ Casts \subseteq [tasks : 0..NTasks, rivals : SUBSET Rivals, resets : 0..MaxConv]

VARIABLES
    task,     \* os_task
    verified, \* cp_action: texts recorded as verified, with their conversation
    lease,    \* resource_lease of the agent: its last writer, unexpired?
    pane,     \* the agent's pane
    got,      \* tasks the transcripts show as user messages since their submitted_ts
    replied,  \* those of them with an assistant message after it
    thread,   \* where each thread is
    cast      \* the member of Casts this behaviour is bounded by; constant

TaskState == <<task, verified, lease, pane, got, replied, thread>>
TaskVars == <<TaskState, cast>>

----------------------------------------------------------------------------
(* State *)

Tasks == 1..NTasks
Text == Tasks \cup {Step}
Conv == 0..MaxConv
ActionKey == Text \X Conv      \* action_hash
Threads == Tickers \cup Rivals

TaskActive == {"submitted", "acknowledged", "working"}
Open == {"queued"} \cup TaskActive
TaskTerminal == {"done", "failed"}

\* waited: ACK_TIMEOUT_SECS since submitted_ts.  stalled: WORK_STALL_SECS since
\* ack_ts.
TaskRow == [state : {"none", "queued"} \cup TaskActive \cup TaskTerminal,
            attempts : Nat, conv : Conv, waited : BOOLEAN, stalled : BOOLEAN]
NoTask == [state |-> "none", attempts |-> 0, conv |-> 0, waited |-> FALSE,
           stalled |-> FALSE]

Pane == [line : Text \cup {Foreign, Nothing}, mode : {"idle", "busy", "dialog"},
         doing : Text \cup {Foreign, Nothing}, conv : Conv]

\* state, attempts: the ledger row as the thread read it.  mode: deliver_and_verify's action.
Thread == [at : {"idle", "advance", "read", "write", "check", "send", "record", "again",
                 "settle"},
           text : Text \cup {Nothing}, state : {"none"} \cup Open, robust : BOOLEAN, conv : Conv,
           leased : BOOLEAN, attempts : Nat, mode : {"deliver", "submit"}, ok : BOOLEAN, acted : BOOLEAN]
Resting == [at |-> "idle", text |-> Nothing, state |-> "none", robust |-> FALSE, conv |-> 0,
            leased |-> FALSE, attempts |-> 0, mode |-> "deliver", ok |-> FALSE, acted |-> FALSE]

TaskTypeOK ==
    /\ task \in [Tasks -> TaskRow]
    /\ verified \subseteq ActionKey
    /\ lease \in [by : Threads \cup {Nothing}, live : BOOLEAN]
    /\ pane \in Pane
    /\ got \subseteq Tasks /\ replied \subseteq Tasks
    /\ thread \in [Threads -> Thread]
    /\ cast \in Casts

TaskInit ==
    /\ task = [t \in Tasks |-> NoTask]
    /\ verified = {}
    /\ lease = [by |-> Nothing, live |-> FALSE]
    /\ pane = [line |-> Nothing, mode |-> "idle", doing |-> Nothing, conv |-> 0]
    /\ got = {} /\ replied = {}
    /\ thread = [p \in Threads |-> Resting]
    /\ cast \in Casts

\* active_task, next_queued: the first row of a set of states.
FirstIn(states) ==
    LET S == {t \in Tasks : task[t].state \in states}
    IN  IF S = {} THEN 0 ELSE CHOOSE t \in S : \A u \in S : t <= u

----------------------------------------------------------------------------
(* The ledger *)

\* enqueue: rows are numbered in the order they are added.
Enqueue(t) ==
    /\ t <= cast.tasks
    /\ task[t].state = "none" /\ \A u \in Tasks : u < t => task[u].state # "none"
    /\ task' = [task EXCEPT ![t].state = "queued"]
    /\ UNCHANGED <<verified, lease, pane, got, replied, thread>>

\* A tick with pending_for: a task sent but not received in a conversation that
\* has been replaced goes back to the queue.
RestoreAfterReset(p) ==
    LET t == FirstIn(TaskActive)
        lost == /\ t # 0 /\ task[t].conv # pane.conv
                /\ task[t].state = "submitted" /\ t \notin got
    IN  /\ thread[p].at = "idle"
        /\ \E u \in Tasks : task[u].state \in Open
        /\ task' = IF lost THEN [task EXCEPT ![t].state = "queued"] ELSE task
        /\ thread' = [thread EXCEPT ![p].at = "advance"]
        /\ UNCHANGED <<verified, lease, pane, got, replied>>

\* find_ack is t \in got: it finds no message older than submitted_ts, which every
\* attempt moves to the time it began.  What the agent read before that does not count
\* any more, unless it was in the last five seconds.
SinceNow(t) ==
    \/ UNCHANGED <<got, replied>>
    \/ got' = got \ {t} /\ replied' = replied \ {t}

\* submit reads the row once and writes it back when the attempt is over.
Submit(p, t, robust) ==
    /\ SinceNow(t)
    /\ thread' = [thread EXCEPT ![p] = [Resting EXCEPT !.at = "read", !.text = t,
                                             !.state = task[t].state,
                                             !.attempts = task[t].attempts, !.robust = robust]]
    /\ task' = task

Close(p, t, state) ==
    /\ task' = [task EXCEPT ![t] = IF state \in TaskTerminal
          THEN [NoTask EXCEPT !.state = state] ELSE [@ EXCEPT !.state = state]]
    /\ thread' = [thread EXCEPT ![p] = Resting]
    /\ UNCHANGED <<got, replied>>

\* Mutant: the reply is not looked for.
AcknowledgedAtRest(p, t) ==
    IF pane.mode # "busy" THEN Close(p, t, "done") ELSE Close(p, t, "working")

\* Mutant: a stalled task is sent again.
AcknowledgedRetries(p, t) ==
    IF t \in replied /\ pane.mode # "busy" THEN Close(p, t, "done")
    ELSE IF task[t].stalled /\ pane.mode # "busy" THEN Submit(p, t, TRUE)
    ELSE Close(p, t, "working")

\* Mutant: a stalled task is waited for.
AcknowledgedWaits(p, t) ==
    IF t \in replied /\ pane.mode # "busy" THEN Close(p, t, "done") ELSE Close(p, t, "working")

\* turn_finished asks for a reply and a pane at rest.
Acknowledged(p, t) ==
    IF t \in replied /\ pane.mode # "busy" THEN Close(p, t, "done")
    ELSE IF task[t].stalled /\ pane.mode # "busy" THEN Close(p, t, "failed")
    ELSE Close(p, t, "working")

Unacknowledged(p, t) ==
    IF ~task[t].waited THEN Close(p, t, task[t].state)
    ELSE IF task[t].attempts < MaxAttempts THEN Submit(p, t, TRUE)
    ELSE Close(p, t, "failed")

Advance(p) ==
    LET active == FirstIn(TaskActive)
        next == FirstIn({"queued"})
    IN  /\ thread[p].at = "advance"
        /\ IF active = 0
           THEN IF next = 0 THEN thread' = [thread EXCEPT ![p] = Resting] /\ UNCHANGED <<task, got, replied>>
                ELSE Submit(p, next, FALSE)
           ELSE IF active \in got THEN Acknowledged(p, active) ELSE Unacknowledged(p, active)
        /\ UNCHANGED <<verified, lease, pane>>

\* The rest of submit.  A refusal keeps the state that was read and gives the
\* lease back; either way submitted_ts moves.
Settle(p) ==
    LET w == thread[p] IN
    /\ w.at = "settle"
    /\ task' = [task EXCEPT ![w.text] =
          [state |-> IF w.acted THEN "submitted" ELSE w.state,
           attempts |-> w.attempts + (IF w.acted THEN 1 ELSE 0),
           conv |-> w.conv, waited |-> FALSE, stalled |-> FALSE]]
    /\ lease' = IF ~w.acted /\ w.leased /\ lease.by = p THEN [lease EXCEPT !.live = FALSE]
                ELSE lease
    /\ thread' = [thread EXCEPT ![p] = Resting]
    /\ UNCHANGED <<verified, pane, got, replied>>

----------------------------------------------------------------------------
(* The lease and the actuator *)

RivalBegins(p) ==
    /\ p \in cast.rivals /\ thread[p].at = "idle"
    /\ thread' = [thread EXCEPT ![p] = [Resting EXCEPT !.at = "read", !.text = Step]]
    /\ UNCHANGED <<task, verified, lease, pane, got, replied>>

\* Where an attempt ends: the ledger has a row to write, a rival has not.
Over(p, w) == IF p \in Rivals THEN Resting ELSE [w EXCEPT !.at = "settle"]
Refuse(p) == thread' = [thread EXCEPT ![p] = Over(p, @)]

\* acquire_lease is a SELECT and an upsert.  Tickers share one holder name.
SameHolder(p, q) == p = q \/ {p, q} \subseteq Tickers

LeaseRead(p) ==
    LET held == lease.by # Nothing /\ lease.live /\ ~SameHolder(p, lease.by) IN
    /\ thread[p].at = "read"
    /\ thread' = [thread EXCEPT ![p].at = IF held THEN "check" ELSE "write",
                                ![p].conv = pane.conv]
    /\ UNCHANGED <<task, verified, lease, pane, got, replied>>

LeaseWrite(p) ==
    /\ thread[p].at = "write"
    /\ lease' = [by |-> p, live |-> TRUE]
    /\ thread' = [thread EXCEPT ![p].at = "check", ![p].leased = TRUE]
    /\ UNCHANGED <<task, verified, pane, got, replied>>

\* lease_is_current compares the id, new at each upsert: the row is the one this
\* thread wrote last.  Its expiry is not looked at.
LeaseIsCurrent(p) == thread[p].leased /\ lease.by = p

\* actuate up to the keystrokes.  The texts sent here are of the class
\* autonomous_safe.
ActuatorGuards(p) ==
    LET w == thread[p]
        clear == /\ LeaseIsCurrent(p)
                 /\ <<w.text, w.conv>> \in verified => pane.line = w.text
                 /\ pane.mode = "idle"
                 /\ pane.line \in {Nothing, w.text}
    IN  /\ w.at = "check"
        /\ IF clear
           THEN \/ thread' = [thread EXCEPT ![p].at = "send",
                    ![p].mode = IF pane.line = w.text THEN "submit" ELSE "deliver"]
                \/ Refuse(p)          \* the pane could not be captured
           ELSE Refuse(p)
        /\ UNCHANGED <<task, verified, lease, pane, got, replied>>

\* What keystrokes do to the pane: run at once, stay on the line, or are lost.
Lands(x) ==
    /\ pane' = [pane EXCEPT !.line = Nothing, !.mode = "busy", !.doing = x]
    /\ got' = got \cup ({x} \cap Tasks)
Types(x) ==
    \/ /\ pane.mode # "dialog" /\ pane.line = Nothing
       /\ (Lands(x) \/ (pane' = [pane EXCEPT !.line = x] /\ got' = got))
    \/ /\ pane.mode # "dialog" /\ pane.line # Nothing
       /\ (Lands(Foreign) \/ (pane' = [pane EXCEPT !.line = Foreign] /\ got' = got))
    \/ pane.mode = "dialog" /\ pane' = [pane EXCEPT !.mode = "busy"] /\ got' = got
    \/ UNCHANGED <<pane, got>>
PressesEnter ==
    \/ pane.line # Nothing /\ pane.mode # "dialog" /\ Lands(pane.line)
    \/ UNCHANGED <<pane, got>>

\* deliver_and_verify: the keystrokes, at most one repair of a line that is still
\* there, and a verdict read off the screen, which may be wrong either way.
DeliverAndVerify(p) ==
    LET w == thread[p] IN
    /\ w.at = "send"
    /\ IF w.mode = "deliver" THEN Types(w.text) ELSE PressesEnter
    /\ \E ok \in BOOLEAN :
          /\ ok => pane'.line # w.text
          /\ thread' = [thread EXCEPT ![p].at = "record", ![p].ok = ok]
    /\ UNCHANGED <<task, verified, lease, replied>>

\* The fence is read again before anything is recorded.
ActuatorRecords(p) ==
    LET w == thread[p]
        ours == LeaseIsCurrent(p)
    IN  /\ w.at = "record"
        /\ verified' = IF ~ours THEN verified
                       ELSE IF w.ok THEN verified \cup {<<w.text, w.conv>>}
                       ELSE verified \ {<<w.text, w.conv>>}
        /\ thread' = [thread EXCEPT ![p] =
              IF ours /\ w.ok /\ w.robust THEN [w EXCEPT !.at = "again", !.acted = TRUE]
              ELSE Over(p, [w EXCEPT !.acted = ours /\ w.ok])]
        /\ UNCHANGED <<task, lease, pane, got, replied>>

\* robust_submit: clear the line and type the text once more.
RobustSubmit(p) ==
    LET w == thread[p] IN
    /\ w.at = "again"
    /\ \/ Lands(w.text)
       \/ pane' = [pane EXCEPT !.line = w.text] /\ got' = got
       \/ UNCHANGED <<pane, got>>
    /\ thread' = [thread EXCEPT ![p].at = "settle"]
    /\ UNCHANGED <<task, verified, lease, replied>>

----------------------------------------------------------------------------
(* The agent, the owner and time *)

AgentReplies ==
    /\ pane.mode = "busy"
    /\ replied' = replied \cup ({pane.doing} \cap got)
    /\ pane' = [pane EXCEPT !.mode = "idle", !.doing = Nothing]
    /\ UNCHANGED <<task, verified, lease, got, thread>>

AgentAsks ==
    /\ pane.mode = "busy" /\ pane' = [pane EXCEPT !.mode = "dialog"]
    /\ UNCHANGED <<task, verified, lease, got, replied, thread>>

OwnerAnswers ==
    /\ pane.mode = "dialog" /\ pane' = [pane EXCEPT !.mode = "busy"]
    /\ UNCHANGED <<task, verified, lease, got, replied, thread>>

OwnerTypes ==
    /\ pane.line \in {Nothing, Foreign}
    /\ pane' = [pane EXCEPT !.line = IF @ = Nothing THEN Foreign ELSE Nothing]
    /\ UNCHANGED <<task, verified, lease, got, replied, thread>>

\* /clear, a restart or a crash of the agent.
AgentResets ==
    /\ pane.conv < cast.resets
    /\ pane' = [line |-> Nothing, mode |-> "idle", doing |-> Nothing, conv |-> pane.conv + 1]
    /\ UNCHANGED <<task, verified, lease, got, replied, thread>>

LeaseExpires ==
    /\ lease.live /\ lease' = [lease EXCEPT !.live = FALSE]
    /\ UNCHANGED <<task, verified, pane, got, replied, thread>>

AckTimeout(t) ==
    /\ task[t].state = "submitted" /\ ~task[t].waited
    /\ task' = [task EXCEPT ![t].waited = TRUE]
    /\ UNCHANGED <<verified, lease, pane, got, replied, thread>>

WorkStall(t) ==
    /\ task[t].state \in {"acknowledged", "working"} /\ ~task[t].stalled
    /\ task' = [task EXCEPT ![t].stalled = TRUE]
    /\ UNCHANGED <<verified, lease, pane, got, replied, thread>>

----------------------------------------------------------------------------
Actuates(p) ==
    \/ LeaseRead(p) \/ LeaseWrite(p) \/ ActuatorGuards(p)
    \/ DeliverAndVerify(p) \/ ActuatorRecords(p)

Ticks(p) == RestoreAfterReset(p) \/ Advance(p) \/ Settle(p) \/ RobustSubmit(p) \/ Actuates(p)

TaskMoves ==
    \/ \E t \in Tasks : Enqueue(t) \/ AckTimeout(t) \/ WorkStall(t)
    \/ \E p \in Tickers : Ticks(p)
    \/ \E p \in Rivals : RivalBegins(p) \/ Actuates(p)
    \/ AgentReplies \/ AgentAsks \/ OwnerAnswers \/ OwnerTypes \/ AgentResets \/ LeaseExpires

TaskNext == TaskMoves /\ cast' = cast

\* The loops run for ever, time passes, the owner answers
\* and a turn asks finitely often, so it ends.
TaskFairness ==
    /\ \A p \in Tickers : WF_TaskState(Ticks(p))
    /\ \A p \in Rivals : WF_TaskState(Actuates(p))
    /\ \A t \in Tasks : WF_TaskState(AckTimeout(t)) /\ WF_TaskState(WorkStall(t))
    /\ SF_TaskState(AgentReplies) /\ WF_TaskState(OwnerAnswers)

TaskSpec == TaskInit /\ [][TaskNext]_TaskVars
TaskFairSpec == TaskSpec /\ TaskFairness

----------------------------------------------------------------------------
(* Properties *)

\* One task of the ledger is with the agent at a time, and it is the oldest one
\* that has not ended, whatever is requeued after a reset or refused.
OneTaskInOrder ==
    \A t, u \in Tasks : t < u /\ task[u].state \in TaskActive \cup TaskTerminal
        => task[t].state \in TaskTerminal

\* done is never claimed for a text the agent did not receive and answer after it was
\* sent, whatever the screen made the actuator believe.
DoneMeansAnswered == \A t \in Tasks : task[t].state = "done" => t \in got \cap replied

\* Of the task queue: one task at a time, in order, and done only when answered.
TaskInv == OneTaskInOrder /\ DoneMeansAnswered

\* Once the ledger has seen the acknowledgement no thread types the task again:
\* neither the retry nor the requeue after a reset repeats work the agent has read.
AcknowledgedIsNotResent ==
    [][\A p \in Tickers : thread[p].at \in {"send", "again"} /\ thread'[p].at # thread[p].at
         => task[thread[p].text].state \in {"queued", "submitted"}]_TaskVars

\* While no other controller keeps the pane busy, a task the agent has received since
\* its last attempt began is eventually closed: done, or failed with a notice.  What it
\* read of an earlier attempt, the ledger cannot see: that task is sent again.
ReceivedIsSettled ==
    \A t \in Tasks : (cast.rivals = {} /\ task[t].state \in TaskActive /\ t \in got)
                         ~> task[t].state \in TaskTerminal

\* "No acknowledgement inside the timeout: retry exactly once with the SAME
\* idempotency key, then mark failed and notify the owner. A stall is never silent."
SubmittedIsSettled ==
    \A t \in Tasks : task[t].state = "submitted"
                         ~> task[t].state \in TaskTerminal \cup {"queued", "working"}
----------------------------------------------------------------------------
(* The ledger of TaskLedger: acknowledged is a state of work, and a task is *)
(* received and answered when the transcripts show it of its last attempt.  *)

TlState(s) == IF s = "acknowledged" THEN "working" ELSE s
TlStatus == [t \in Tasks |-> TlState(task[t].state)]
TlTries == [t \in Tasks |-> task[t].attempts]

TheLedger == INSTANCE TaskLedger
                 WITH status <- TlStatus, tries <- TlTries, received <- got, answered <- replied

\* While one thread ticks it the queue, over its actuator, pane and lease, does what a
\* ledger in order does: what the actuator believed it saw on the screen is not enough to
\* close a task, to send it out of turn or to send again what the agent was seen to read.
ImplementsTaskLedger == TheLedger!Spec
=============================================================================

---------------------------- MODULE TaskLedger ----------------------------
(***************************************************************************)
(* What the task queue promises for its tasks, whatever the pane, the      *)
(* screen and the other controllers do: tasks are sent one at a time in    *)
(* the order they were added, one that was not received may be taken back  *)
(* or sent again a bounded number of times, one that is known to be        *)
(* received is not sent again, done is said of an answered task, failed of *)
(* one that was not received in time or not answered, and what is closed   *)
(* stays closed.  Only what the agent read of the last attempt counts: a   *)
(* new attempt to send a queued task forgets what it read before.          *)
(***************************************************************************)
EXTENDS Integers

CONSTANTS
    NTasks,       \* tasks 1..NTasks, in the order they are added
    MaxAttempts   \* sends of a task that is not taken back

VARIABLES
    status,    \* "none", "queued", "submitted", "working", "done", "failed"
    tries,     \* sends of a task that is not closed
    received,  \* tasks the agent has read, of their last attempt
    answered   \* tasks the agent has replied to after it

vars == <<status, tries, received, answered>>
Tasks == 1..NTasks

Init ==
    /\ status = [t \in Tasks |-> "none"] /\ tries = [t \in Tasks |-> 0]
    /\ received = {} /\ answered = {}

Moves(t, from, to) ==
    /\ status[t] \in from /\ status' = [status EXCEPT ![t] = to]
    /\ UNCHANGED <<received, answered>>

Add(t) ==
    /\ \A u \in Tasks : u < t => status[u] # "none"
    /\ Moves(t, {"none"}, "queued") /\ tries' = tries

\* Everything before it is closed, and nothing after it has been sent.
InTurn(t) ==
    /\ \A u \in Tasks : u < t => status[u] \in {"done", "failed"}
    /\ \A u \in Tasks : t < u => status[u] \in {"none", "queued"}

Send(t) ==
    /\ InTurn(t) /\ Moves(t, {"queued"}, "submitted")
    /\ tries' = [tries EXCEPT ![t] = @ + 1]

Retry(t) ==
    /\ tries[t] < MaxAttempts /\ Moves(t, {"submitted"}, "submitted")
    /\ tries' = [tries EXCEPT ![t] = @ + 1]

TakeBack(t) == t \notin received /\ Moves(t, {"submitted"}, "queued") /\ tries' = tries
Work(t) == t \in received /\ Moves(t, {"submitted"}, "working") /\ tries' = tries

Complete(t) ==
    /\ t \in received \cap answered /\ Moves(t, {"submitted", "working"}, "done")
    /\ tries' = [tries EXCEPT ![t] = 0]

Fail(t) ==
    /\ \/ t \notin received /\ tries[t] >= MaxAttempts /\ Moves(t, {"submitted"}, "failed")
       \/ t \in received \ answered /\ Moves(t, {"working"}, "failed")
    /\ tries' = [tries EXCEPT ![t] = 0]

\* The agent may read a text late, after its task was given up or taken back.
Receive(t) ==
    /\ status[t] # "none" /\ received' = received \cup {t}
    /\ UNCHANGED <<status, tries, answered>>
Answer(t) ==
    /\ t \in received /\ answered' = answered \cup {t}
    /\ UNCHANGED <<status, tries, received>>

Forget(t) ==
    /\ status[t] = "queued" /\ received' = received \ {t} /\ answered' = answered \ {t}
    /\ UNCHANGED <<status, tries>>

Next == \E t \in Tasks :
    \/ Add(t) \/ Send(t) \/ Retry(t) \/ TakeBack(t) \/ Work(t) \/ Complete(t) \/ Fail(t)
    \/ Receive(t) \/ Answer(t) \/ Forget(t)

Spec == Init /\ [][Next]_vars
=============================================================================

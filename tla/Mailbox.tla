------------------------------ MODULE Mailbox ------------------------------
(***************************************************************************)
(* What the outbox promises for its notices, whatever the channels and the *)
(* process do: a posted notice stays, it is marked sent only when it was   *)
(* received, it is given up only after MaxAttempts failures, and one that  *)
(* was given up is not tried again.  The inbox is told only of notices     *)
(* that were given up, and once it was told it stays so; of one whose      *)
(* giving up was cut off it is never told.  A notice may be received more  *)
(* than once: the mark may be lost, and one that was sent may be tried     *)
(* anew.                                                                   *)
(***************************************************************************)
EXTENDS Naturals, Sequences

CONSTANT MaxAttempts

VARIABLES
    box,       \* the notices: [state, attempts]
    received,  \* notices a channel answered with a receipt
    alerts     \* notices the inbox was told of

vars == <<box, received, alerts>>

Init == box = <<>> /\ received = {} /\ alerts = {}

Post ==
    /\ box' = Append(box, [state |-> "pending", attempts |-> 0])
    /\ UNCHANGED <<received, alerts>>

GivenUp(n) == box[n].state = "dead_letter"

Send(n) ==
    /\ ~ GivenUp(n) /\ box' = [box EXCEPT ![n].state = "sent"]
    /\ received' = received \cup {n} /\ alerts' = alerts

\* The notice arrives and its mark is lost.
Forget(n) == ~ GivenUp(n) /\ received' = received \cup {n} /\ UNCHANGED <<box, alerts>>

Fail(n) ==
    /\ ~ GivenUp(n)
    /\ box' = [box EXCEPT ![n] = [state |-> "failed", attempts |-> @.attempts + 1]]
    /\ UNCHANGED <<received, alerts>>

GiveUp(n) ==
    /\ box[n].state \in {"pending", "failed"} /\ box[n].attempts >= MaxAttempts
    /\ box' = [box EXCEPT ![n].state = "dead_letter"] /\ UNCHANGED <<received, alerts>>

Tell(n) == GivenUp(n) /\ alerts' = alerts \cup {n} /\ UNCHANGED <<box, received>>

Next == Post \/ \E n \in DOMAIN box : Send(n) \/ Forget(n) \/ Fail(n) \/ GiveUp(n) \/ Tell(n)

Spec == Init /\ [][Next]_vars
=============================================================================

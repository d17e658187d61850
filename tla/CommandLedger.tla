--------------------------- MODULE CommandLedger ---------------------------
(***************************************************************************)
(* What the Windows command queue promises for one command, whatever the   *)
(* network, the device and the owner's threads do: it is accepted once,    *)
(* chosen for a device while it is queued and handed out once, started at  *)
(* most once and only by a device it was given to, and settled once:       *)
(* succeeded after it was started, failed, or refused.  A refusal that     *)
(* falls between the choice and the hand-out, or between the reading of a  *)
(* report and its recording, does not call them back: those are the only   *)
(* ways in which a refused command still runs or is still answered.        *)
(***************************************************************************)
CONSTANT Commands

VARIABLES
    status,   \* "none", "queued", "handed", "succeeded", "failed", "refused"
    given,    \* commands some agent holds or has started
    started,  \* commands that were started
    chosen,   \* commands chosen for a device and not yet handed out
    reported  \* the command whose report was read and is not yet recorded

vars == <<status, given, started, chosen, reported>>

Init ==
    /\ status = [c \in Commands |-> "none"]
    /\ given = {} /\ started = {} /\ chosen = {} /\ reported = {}

Accept(c) ==
    /\ status[c] = "none"
    /\ status' = [status EXCEPT ![c] = "queued"]
    /\ UNCHANGED <<given, started, chosen, reported>>

Choose(S) ==
    /\ chosen = {} /\ S # {} /\ \A c \in S : status[c] = "queued"
    /\ chosen' = S
    /\ UNCHANGED <<status, given, started, reported>>

\* The answer that carries the commands may be lost.
Hand ==
    /\ chosen # {} /\ chosen' = {}
    /\ status' = [c \in Commands |-> IF c \in chosen /\ status[c] = "queued"
                                     THEN "handed" ELSE status[c]]
    /\ given' \in {given, given \cup chosen}
    /\ UNCHANGED <<started, reported>>

Start(c) ==
    /\ c \in given \ started
    /\ started' = started \cup {c}
    /\ UNCHANGED <<status, given, chosen, reported>>

\* An agent drops what it has not started.
Drop(S) ==
    /\ S # {} /\ S \subseteq given \ started
    /\ given' = given \ S
    /\ UNCHANGED <<status, started, chosen, reported>>

Report(c) ==
    /\ reported = {} /\ status[c] = "handed"
    /\ reported' = {c}
    /\ UNCHANGED <<status, given, started, chosen>>

Settle(c, s) ==
    /\ c \in reported /\ status[c] \in {"handed", "refused"}
    /\ reported' = {}
    /\ status' = [status EXCEPT ![c] = s]
    /\ UNCHANGED <<given, started, chosen>>

Succeed(c) == c \in started /\ Settle(c, "succeeded")
Fail(c) == Settle(c, "failed")

Refuse(S) ==
    /\ S # {} /\ \A c \in S : status[c] \in {"queued", "handed"}
    /\ status' = [c \in Commands |-> IF c \in S THEN "refused" ELSE status[c]]
    /\ UNCHANGED <<given, started, chosen, reported>>

Next ==
    \/ \E c \in Commands : Accept(c) \/ Start(c) \/ Report(c) \/ Succeed(c) \/ Fail(c)
    \/ \E S \in SUBSET Commands : Choose(S) \/ Drop(S) \/ Refuse(S)
    \/ Hand

Spec == Init /\ [][Next]_vars
=============================================================================

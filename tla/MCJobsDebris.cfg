\* Part of a plan is applied before an exception.
SPECIFICATION Spec
CONSTANTS
    Jobs = {j1}
    Wishes <- FullWishes
    Workers = {w1}
    Approvable <- AfterRecovery
    IsRepo = FALSE
    Layouts = {FALSE}
    PulseFails = FALSE
    SlowSweeps = FALSE
    MaxRepairs = 1
    None = None
INVARIANTS NoDebris
CHECK_DEADLOCK FALSE

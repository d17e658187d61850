\* A heartbeat write fails once.
SPECIFICATION Spec
CONSTANTS
    Jobs = {j1}
    Wishes <- FullWishes
    Workers = {w1}
    Approvable <- AfterRecovery
    IsRepo = TRUE
    Layouts = {TRUE}
    PulseFails = TRUE
    SlowSweeps = FALSE
    MaxRepairs = 1
    None = None
INVARIANTS LiveNeverOrphaned
CHECK_DEADLOCK FALSE

\* A sweep held up between its read and its write.
SPECIFICATION Spec
CONSTANTS
    Jobs = {j1}
    Wishes <- FullWishes
    Workers = {w1, w2}
    Approvable <- AfterRecovery
    IsRepo = TRUE
    Layouts = {TRUE}
    PulseFails = FALSE
    SlowSweeps = TRUE
    MaxRepairs = 1
    None = None
INVARIANTS NoWorkBehindApproval
CHECK_DEADLOCK FALSE

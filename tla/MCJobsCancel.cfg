\* A job is cancelled while its worker runs.
SPECIFICATION Spec
CONSTANTS
    Jobs = {j1}
    Wishes <- FullWishes
    Workers = {w1}
    Approvable <- AfterRecovery
    IsRepo = TRUE
    Layouts = {TRUE}
    PulseFails = FALSE
    SlowSweeps = FALSE
    MaxRepairs = 1
    None = None
PROPERTIES CancelledStays
CHECK_DEADLOCK FALSE

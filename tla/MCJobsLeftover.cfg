\* The owner approves a job whose worker is still running.
SPECIFICATION Spec
CONSTANTS
    Jobs = {j1}
    Wishes <- FullWishes
    Workers = {w1, w2}
    Approvable <- AnyStatus
    IsRepo = TRUE
    Layouts = {TRUE}
    PulseFails = FALSE
    SlowSweeps = FALSE
    MaxRepairs = 1
    None = None
PROPERTIES LeftoverIsDead
CHECK_DEADLOCK FALSE

\* The service dies and is restarted at once.
SPECIFICATION FairSpec
CONSTANTS
    Jobs = {j1}
    Wishes <- FullWishes
    Workers = {w1}
    Approvable <- AfterRecovery
    IsRepo = TRUE
    Layouts = {TRUE}
    PulseFails = FALSE
    SlowSweeps = FALSE
    MaxRepairs = 1
    None = None
PROPERTIES NeverStuck
CHECK_DEADLOCK FALSE

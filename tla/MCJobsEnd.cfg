\* Fair threads: every worker ends, with heartbeats that may fail.
SPECIFICATION FairSpec
CONSTANTS
    Jobs = {j1}
    Wishes <- SomeWishes
    Workers = {w1}
    Approvable <- AfterRecovery
    IsRepo = TRUE
    Layouts = {TRUE}
    PulseFails = TRUE
    SlowSweeps = TRUE
    MaxRepairs = 1
    None = None
PROPERTIES WorkEnds
CHECK_DEADLOCK FALSE

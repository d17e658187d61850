\* An exception between the worktree and the finally that removes it.
SPECIFICATION Spec
CONSTANTS
    Jobs = {j1}
    Wishes <- FullWishes
    Workers = {w1}
    Approvable <- AfterRecovery
    IsRepo = TRUE
    Layouts = {TRUE}
    PulseFails = FALSE
    SlowSweeps = FALSE
    MaxRepairs = 1
    None = None
INVARIANTS EveryExitRemoves
CHECK_DEADLOCK FALSE

\* One job, in its own worktree and in the project tree, run twice: the
\* owner approves what waits.
SPECIFICATION Spec
CONSTANTS
    Jobs = {j1}
    Wishes <- SomeWishes
    Workers = {w1, w2}
    Approvable <- AfterRecovery
    IsRepo = TRUE
    Layouts = {TRUE, FALSE}
    PulseFails = FALSE
    SlowSweeps = FALSE
    MaxRepairs = 1
    None = None
SYMMETRY Symmetry
VIEW View
INVARIANTS TypeOK OneWorker NoWorkBehindApproval WorktreeHeld WorktreeRemoved Truthful Earned RolledBackClean
PROPERTIES OwnerEditsSurvive
CHECK_DEADLOCK FALSE

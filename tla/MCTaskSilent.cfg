\* A task whose record says verified is never typed again, and never given up.
SPECIFICATION ProgressSpec
CONSTANTS
    ProgressParts = {"tasks"}
    NTasks = 1
    Tickers = {commander}
    Rivals = {watchdog}
    Step = Step
    Foreign = Foreign
    Nothing = Nothing
    MaxAttempts = 2
    MaxConv = 1
    Casts <- SomeCasts
    CwMaxAttempts = 2
    CwMaxPerConv = 2
    CwCrashes = 0
    ApStages = 1
    ApMaxNudges = 1
    ApCasts <- SomeApCasts
PROPERTY SubmittedIsSettled
CHECK_DEADLOCK FALSE

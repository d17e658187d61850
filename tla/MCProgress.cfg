\* What must happen in the end, one part at a time.
SPECIFICATION ProgressSpec
CONSTANTS
    ProgressParts = {"tasks", "watchdog", "autopilot"}
    NTasks = 1
    Tickers = {commander}
    Rivals = {watchdog}
    Step = Step
    Foreign = Foreign
    Nothing = Nothing
    MaxAttempts = 2
    MaxConv = 1
    Casts <- SomeCasts
    CwMaxAttempts = 2
    CwMaxPerConv = 2
    CwCrashes = 0
    ApStages = 1
    ApMaxNudges = 1
    ApCasts <- SomeApCasts
PROPERTIES LinesAreReported ReceivedIsSettled
CHECK_DEADLOCK FALSE

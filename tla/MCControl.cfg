\* The parts of the control plane that act on a pane, one at a time.
SPECIFICATION ControlSpec
CONSTANTS
    ControlParts = {"tasks", "watchdog", "autopilot", "rotation", "lifecycle", "orchestrator"}
    NTasks = 2
    Tickers = {commander}
    Rivals = {watchdog}
    Step = Step
    Foreign = Foreign
    Nothing = Nothing
    MaxAttempts = 2
    MaxConv = 1
    Casts <- SomeCasts
    CwMaxAttempts = 2
    CwMaxPerConv = 2
    CwCrashes = 1
    ApStages = 2
    ApMaxNudges = 2
    ApCasts <- SomeApCasts
    RcConvs = 1
    RcFacts = 1
    RcLosses = 1
    RcCasts <- SomeRcCasts
    LfConvs = 2
    LfErrors = 1
    OrTasks = {1, 2}
    OrDepends <- OneThenTwo
    OrPhases = 2
    OrMaxResumes = 1
    OrLosses = 1
    OrSettings <- SomeOrSettings
INVARIANTS ControlTypeOK TaskInv CwAttemptsCapped ApNudgesCapped RcClearedOnce OrInv
PROPERTIES AcknowledgedIsNotResent CwVerifiedStands LfNoFalseCompletion
CHECK_DEADLOCK FALSE

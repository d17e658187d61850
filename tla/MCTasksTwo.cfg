\* Two threads that tick the ledger: a row the one has closed is written back over.
SPECIFICATION ControlSpec
CONSTANTS
    ControlParts = {"tasks"}
    NTasks = 2
    Tickers = {commander, supervisor}
    Rivals = {}
    Step = Step
    Foreign = Foreign
    Nothing = Nothing
    MaxAttempts = 2
    MaxConv = 1
    Casts <- SomeCasts
    CwMaxAttempts = 2
    CwMaxPerConv = 2
    CwCrashes = 1
    ApStages = 2
    ApMaxNudges = 2
    ApCasts <- SomeApCasts
    RcConvs = 1
    RcFacts = 1
    RcLosses = 1
    RcCasts <- SomeRcCasts
    LfConvs = 2
    LfErrors = 1
    OrTasks = {1, 2}
    OrDepends <- OneThenTwo
    OrPhases = 2
    OrMaxResumes = 1
    OrLosses = 1
    OrSettings <- SomeOrSettings
INVARIANT TaskInv
CHECK_DEADLOCK FALSE

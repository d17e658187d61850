\* A prompt that comes back within the hour is announced by no event.
SPECIFICATION PlaneSpec
CONSTANTS
    PlaneParts = {"watch"}
    WkRoutes = {"own", "p"}
    WkOwner = "own"
    WkChats = {"c1", "c2"}
    WkTitle <- Titles
    WkNone = "none"
    WkCasts <- SomeWkCasts
    ClPrompts = {"p", "q"}
    ClCasts <- SomeClCasts
    ClLoopAt = 2
    CtCasts <- SomeCtCasts
    CtMaxAttempts = 2
    OxCasts <- SomeOxCasts
    OxMaxAttempts = 2
    AcKeys = {k1}
    AcCallers = {api, owner}
    AcInternal = loop
    AcSessions = {s1, s2}
    AcStops = 1
    AcTogether = 2
    SvCommands <- SomeCommands
    SvNested <- SomeNested
    SvAgain <- OnlyCat
    SvNone = none
    SvPrompts = 1
    SvCrashes = 1
    SvExpiries = 1
INVARIANT ClAnnouncedIsAnEvent
CHECK_DEADLOCK FALSE

\* The parts of the control plane that carry events and answers, one at a time.
SPECIFICATION PlaneSpec
CONSTANTS
    PlaneParts = {"wakes", "watch", "cto", "outbox", "messages", "conditions", "prompts"}
    WkRoutes = {"own", "p"}
    WkOwner = "own"
    WkChats = {"c1", "c2"}
    WkTitle <- Titles
    WkNone = "none"
    WkCasts <- SomeWkCasts
    ClPrompts = {"p", "q"}
    ClCasts <- SomeClCasts
    ClLoopAt = 2
    CtCasts <- SomeCtCasts
    CtMaxAttempts = 2
    OxCasts <- SomeOxCasts
    OxMaxAttempts = 2
    AcKeys = {k1}
    AcCallers = {api, owner}
    AcInternal = loop
    AcSessions = {s1, s2}
    AcStops = 1
    AcTogether = 2
    SvCommands <- SomeCommands
    SvNested <- SomeNested
    SvAgain <- OnlyCat
    SvNone = none
    SvPrompts = 1
    SvCrashes = 1
    SvExpiries = 1
INVARIANTS PlaneTypeOK WkInv ClInv CtInv OxInv AcInv SvInv
CHECK_DEADLOCK FALSE

\* One device, two commands, an owner who waits for results.
SPECIFICATION Spec
CONSTANTS
    Commands = {c1, c2}
    Devices = {d1}
    Workspaces = {w1}
    Threads = {t1}
    Waits = {TRUE, FALSE}
    MaxLease = 2
    None = None
SYMMETRY Symmetry
INVARIANTS TypeOK BridgeInv AtMostOnce DoneMeansRan
PROPERTIES AnswerIsFinal InOrder
CHECK_DEADLOCK FALSE

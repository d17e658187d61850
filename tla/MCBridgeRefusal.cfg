\* An expired row is flipped to done by a result racing a waiting owner.
SPECIFICATION Spec
CONSTANTS
    Commands = {c1}
    Devices = {d1}
    Workspaces = {w1}
    Threads = {t1}
    Waits = {TRUE}
    MaxLease = 1
    None = None
PROPERTIES RefusalIsFinal
CHECK_DEADLOCK FALSE

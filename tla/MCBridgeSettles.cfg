\* Every command settles while its device keeps coming back.
SPECIFICATION FairSpec
CONSTANTS
    Commands = {c1}
    Devices = {d1}
    Workspaces = {w1}
    Threads = {t1, t2}
    Waits = {TRUE, FALSE}
    MaxLease = 1
    None = None
PROPERTIES Settles
CHECK_DEADLOCK FALSE

\* An agent on a failing network.
SPECIFICATION Spec
CONSTANTS
    Commands = {c1}
    Devices = {d1}
    Workspaces = {w1}
    Threads = {t1}
    Waits = {FALSE}
    MaxLease = 1
    None = None
INVARIANTS AgentNeverExits
CHECK_DEADLOCK FALSE

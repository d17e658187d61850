\* Two commands for one workspace in one batch.
SPECIFICATION Spec
CONSTANTS
    Commands = {c1, c2}
    Devices = {d1}
    Workspaces = {w1}
    Threads = {t1}
    Waits = {FALSE}
    MaxLease = 2
    None = None
PROPERTIES BusyIsARefusal
CHECK_DEADLOCK FALSE

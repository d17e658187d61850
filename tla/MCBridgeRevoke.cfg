\* A command checked before a revocation is leased after it.
SPECIFICATION Spec
CONSTANTS
    Commands = {c1}
    Devices = {d1}
    Workspaces = {w1}
    Threads = {t1}
    Waits = {FALSE}
    MaxLease = 1
    None = None
PROPERTIES NoLeaseAfterRevoke
CHECK_DEADLOCK FALSE

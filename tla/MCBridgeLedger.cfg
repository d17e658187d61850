\* Owner threads wait and expire rows too: the queue implements the ledger.
SPECIFICATION Spec
CONSTANTS
    Commands = {c1, c2}
    Devices = {d1}
    Workspaces = {w1}
    Threads = {t1}
    Waits = {TRUE, FALSE}
    MaxLease = 1
    None = None
PROPERTIES ImplementsLedger
SYMMETRY Symmetry
CHECK_DEADLOCK FALSE

\* Two codes, two devices and a clock that passes the purge: late and repeated
\* deliveries, rotation and lost answers.
SPECIFICATION Spec
CONSTANTS
    Codes = {k1, k2}
    Devices = {d1, d2}
    Machines = {m1}
    Nonces = {n1, n2}
    ClockSkew = 1
    NonceTTL = 2
    CodeTTL = 1
    Drift = 1
    MaxTime = 4
    MaxSecret = 3
SYMMETRY Symmetry
INVARIANTS TypeOK NoReplay CodeIsSingleUse SecretHeld
CHECK_DEADLOCK FALSE

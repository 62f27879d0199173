SPECIFICATION Spec
CONSTANTS
    Tx = {t1, t2}
    NoTx = NoTx
    Procs = {p1}
    NoKeys = {}
    OneAtATime = TRUE
    MaxStamp = 3
    MaxFaults = 0
INVARIANTS AbortAvailable

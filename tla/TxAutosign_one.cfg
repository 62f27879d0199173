SPECIFICATION FairSpec
CONSTANTS
    Tx = {t1, t2, t3}
    NoTx = NoTx
    Procs = {p1}
    NoKeys = {t3}
    OneAtATime = TRUE
    MaxStamp = 2
    MaxFaults = 1
INVARIANTS TypeOK OneInFlight WayOut NewestLast
PROPERTIES Lifecycle EventuallySigned

SPECIFICATION FairSpec
CONSTANTS
    MaxFiles = 1
    MaxInserts = 2
    MaxSignals = 2
INVARIANTS OneBlinker RestoredAtExit StandbyIsReady
PROPERTIES CallsReturn GivenBack InsertionServed
CHECK_DEADLOCK FALSE

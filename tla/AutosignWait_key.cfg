SPECIFICATION Spec
CONSTANTS
    MaxFiles = 2
    MaxInserts = 1
    MaxSignals = 0
INVARIANTS WrongKeyReported
CHECK_DEADLOCK FALSE

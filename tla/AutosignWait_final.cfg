SPECIFICATION Spec
CONSTANTS
    MaxFiles = 2
    MaxInserts = 1
    MaxSignals = 1
PROPERTIES ExitIsFinal
CHECK_DEADLOCK FALSE

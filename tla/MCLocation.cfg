SPECIFICATION Spec
CONSTANTS
    MaxAge = 2
    Offsets <- MCOffsets
    MaxTime = 5
INVARIANTS NoParkedPosition
PROPERTIES ReaderEnds Recovers
CHECK_DEADLOCK FALSE

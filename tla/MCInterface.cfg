SPECIFICATION FairSpec
CONSTANTS
    Callers = {c1, c2}
    MaxQueue = 1
    NoThread = NoThread
    MaxPackets = 3
CHECK_DEADLOCK FALSE
INVARIANTS RadioExclusive Listening QueueBounded FatalIsReal AtMostOneAfterStop
PROPERTIES WorkersStop QueueMoves FaultGoesOffline

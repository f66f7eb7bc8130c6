SPECIFICATION FairSpec
CONSTANTS
    Launches = {n1, n2}
    Clients = {c1, c2}
    NoProc = NoProc
    Foreign = Foreign
    Overlap = FALSE
CHECK_DEADLOCK FALSE
INVARIANTS ReadyMeansOwner NoBorrowedReadiness ClientNeverFirst
PROPERTIES RadioLossEnds

SPECIFICATION Spec
CONSTANTS
    Launches = {n1, n2}
    Clients = {c1}
    NoProc = NoProc
    Foreign = Foreign
    Overlap = FALSE
CHECK_DEADLOCK FALSE
INVARIANT TermClearsMarker

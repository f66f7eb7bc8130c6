SPECIFICATION Spec
CONSTANTS
    RX = RX
    TX = TX
    Writers = {RX, TX}
    Nobody = Nobody
    MaxBytes = 3
    MaxLines = 3
    MaxTransfers = 1
INVARIANTS PeerUndisturbed LockReturned LinesWhole Retained
PROPERTIES CallsReturn
CHECK_DEADLOCK FALSE

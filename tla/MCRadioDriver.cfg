SPECIFICATION Spec
CONSTANTS
    Families = {"sx127x", "sx126x"}
    MaxPackets = 3
    MaxFrames = 2
CHECK_DEADLOCK FALSE
INVARIANTS PollExact ConfirmedWasAired TxenReleased

SPECIFICATION Spec
CONSTANTS
    Stations = {box, rnode}
    RNodes = {rnode}
    Seqs = {q1, q2}
    Unset = Unset
    FramePayload = 2
    Lengths = {2, 3, 4}
    MaxAge = 1
    MaxPackets = 3
    MaxTime = 2
SYMMETRY SeqSymmetry
CHECK_DEADLOCK FALSE
INVARIANTS Conservation GluedBackToBack ChimeraNeedsCollision LostOnlyByCollision FirmwareUntilGuard

\* Honest wire: both directions, two rotations of each half; callers ask
\* for messages of 5 and of 65536 bytes.
CONSTANTS
    RekeyAt = 4
    MaxMsgs = 5
    MsgLens = {5, 65536}
    MaxFaults = 0
    CK <- MCCK
SPECIFICATION Spec
INVARIANTS TypeOK NonceUnique NonceBelowRekey NoSpuriousFailure
CHECK_DEADLOCK FALSE

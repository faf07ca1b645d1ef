\* Active attacker: up to two drops, replays or tamperings of chunks.
CONSTANTS
    RekeyAt = 2
    MaxMsgs = 2
    MsgLens = {5, 65536}
    MaxFaults = 2
    CK <- MCCK
SPECIFICATION Spec
PROPERTIES ChannelSafety
\* The connection ends: after a DisconnectPeer, or once the callers have
\* nothing more to send.
CHECK_DEADLOCK FALSE

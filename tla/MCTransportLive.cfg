\* Honest wire, liveness: three messages each way, so that each half
\* rotates twice (before messages 2 and 3), the second time from a
\* rotated sck.
CONSTANTS
    RekeyAt = 2
    MaxMsgs = 3
    MsgLens = {5}
    MaxFaults = 0
    CK <- MCCK
SPECIFICATION Spec
PROPERTIES EventuallyDelivered
\* Both callers stop sending after MaxMsgs; the connection then idles.
CHECK_DEADLOCK FALSE

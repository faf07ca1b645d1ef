\* Honest network: one connection, three messages each way, so that each
\* half rotates twice (RekeyAt 2), the second time from a rotated sck.
CONSTANTS
    Initiators = {"i1"}
    AttackerInits = {}
    Responders = {"r1"}
    Static <- HonestStatic
    Eph <- HonestEph
    RespStatic = "sR"
    AttackerEph = "eM"
    ActTampering = FALSE
    Tampering = FALSE
    RekeyAt = 2
    MaxMsgs = 3
    MsgLen = 5
    MaxFaults = 0
SPECIFICATION Spec
PROPERTIES EventuallyConnected
\* The connection goes idle once the callers have nothing more to send.
CHECK_DEADLOCK FALSE

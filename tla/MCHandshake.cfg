\* Honest delivery: three connections to the node run to completion.
CONSTANTS
    Initiators = {"i1", "i2", "i3"}
    AttackerInits = {}
    Responders = {"r1", "r2", "r3"}
    Static <- HonestStatic
    Eph <- HonestEph
    RespStatic = "sR"
    AttackerEph = "eM"
    Tampering = FALSE
SPECIFICATION Spec

PROPERTIES EventuallyEstablished
\* Both handshakes end in Finished; the objects then have nothing left to do.
CHECK_DEADLOCK FALSE

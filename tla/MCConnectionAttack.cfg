\* The attacker runs an initiator session of its own, which may claim any
\* identity, and copies a whole encrypt_message output of any connection
\* onto any connection, its own and reflections included.  Acts are
\* delivered as sent (MCConnectionReplay rewrites and replays them).
CONSTANTS
    Initiators = {"i1"}
    AttackerInits = {"m1"}
    Responders = {"r1", "r2"}
    Static <- AttackStatic
    Eph <- AttackEph
    RespStatic = "sR"
    AttackerEph = "eM"
    ActTampering = FALSE
    Tampering = TRUE
    RekeyAt = 2
    MaxMsgs = 1
    MsgLen = 5
    MaxFaults = 1
SPECIFICATION Spec
INVARIANTS ConnectionAuthentic
\* Every session ends Finished and idle, Failed, or disconnected.
CHECK_DEADLOCK FALSE

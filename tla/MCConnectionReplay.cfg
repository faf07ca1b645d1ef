\* The attacker rewrites, replays and misroutes acts (an act one replayed
\* onto the second responder session), and copies a whole encrypt_message
\* output of any connection onto any connection; two messages each way, the
\* second under rotated keys.
CONSTANTS
    Initiators = {"i1"}
    AttackerInits = {}
    Responders = {"r1", "r2"}
    Static <- AttackStatic
    Eph <- AttackEph
    RespStatic = "sR"
    AttackerEph = "eM"
    ActTampering = TRUE
    Tampering = TRUE
    RekeyAt = 2
    MaxMsgs = 2
    MsgLen = 5
    MaxFaults = 1
SPECIFICATION Spec
INVARIANTS ConnectionAuthentic
\* Every session ends Finished and idle, Failed, or disconnected.
CHECK_DEADLOCK FALSE

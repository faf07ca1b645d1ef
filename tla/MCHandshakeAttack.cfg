\* Active attacker: rewrites, replays and misroutes acts, and runs an
\* initiator session of its own that may claim any identity.
CONSTANTS
    Initiators = {"i1"}
    AttackerInits = {"m1"}
    Responders = {"r1", "r2"}
    Static <- AttackStatic
    Eph <- AttackEph
    RespStatic = "sR"
    AttackerEph = "eM"
    Tampering = TRUE
SPECIFICATION Spec
INVARIANTS ResponderAuthenticated InitiatorAuthenticated
PROPERTIES KeyAgreementSafety
\* Every session ends in Finished or Failed.
CHECK_DEADLOCK FALSE

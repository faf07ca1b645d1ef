\* Active attacker against two honest connections to the node: acts of
\* either connection may be rewritten, replayed, spliced or misrouted, and
\* the attacker's own session claims any identity.
CONSTANTS
    Initiators = {"i1", "i2"}
    AttackerInits = {"m1"}
    Responders = {"r1", "r2"}
    Static <- WideStatic
    Eph <- WideEph
    RespStatic = "sR"
    AttackerEph = "eM"
    Tampering = TRUE
SPECIFICATION Spec
PROPERTIES KeyAgreementSafety
\* Every session ends in Finished or Failed.
CHECK_DEADLOCK FALSE

----------------------------- MODULE MCHandshake -----------------------------
(* Model-checking instance of Handshake: the keys of the sessions.          *)
EXTENDS Handshake

(* Honest run: three initiators dial the node, which accepts each          *)
(* connection with a fresh responder session.                              *)
HonestStatic == [s \in {"i1", "i2", "i3", "r1", "r2", "r3"} |->
                    IF s \in {"r1", "r2", "r3"} THEN "sR" ELSE "s" \o s]
HonestEph == [s \in {"i1", "i2", "i3", "r1", "r2", "r3"} |-> "e" \o s]

(* Attack run: one honest initiator, one initiator run by the attacker     *)
(* with its own static key, two responder sessions of the node.            *)
AttackStatic == [s \in {"i1", "m1", "r1", "r2"} |->
                    IF s \in {"r1", "r2"} THEN "sR" ELSE "s" \o s]
AttackEph == [s \in {"i1", "m1", "r1", "r2"} |-> "e" \o s]

(* Larger attack run: two honest initiators, so that the attacker can     *)
(* splice acts of two honest connections, and its own initiator session,  *)
(* against two responder sessions.                                          *)
WideStatic == [s \in {"i1", "i2", "m1", "r1", "r2"} |->
                  IF s \in {"r1", "r2"} THEN "sR" ELSE "s" \o s]
WideEph == [s \in {"i1", "i2", "m1", "r1", "r2"} |-> "e" \o s]

==============================================================================

---------------------------- MODULE MCConnection ----------------------------
(* Model-checking instance of Connection: the keys of the sessions.          *)
EXTENDS Connection

(* Honest run: two initiators dial the node, which accepts each connection *)
(* with a fresh responder session.                                         *)
HonestStatic == [s \in {"i1", "i2", "r1", "r2"} |->
                    IF s \in {"r1", "r2"} THEN "sR" ELSE "s" \o s]
HonestEph == [s \in {"i1", "i2", "r1", "r2"} |-> "e" \o s]

(* Attack run: one honest initiator, one initiator run by the attacker     *)
(* with its own static key, two responder sessions of the node.            *)
AttackStatic == [s \in {"i1", "m1", "r1", "r2"} |->
                    IF s \in {"r1", "r2"} THEN "sR" ELSE "s" \o s]
AttackEph == [s \in {"i1", "m1", "r1", "r2"} |-> "e" \o s]

==============================================================================

----------------------------- MODULE MCTransport -----------------------------
(* Model-checking instance of Transport.                                    *)
EXTENDS Transport

(* The chaining key left by the handshake; its value is irrelevant, only   *)
(* that both peers hold the same one.                                      *)
MCCK == <<"ck">>

==============================================================================

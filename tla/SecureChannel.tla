---------------------------- MODULE SecureChannel ----------------------------
(***************************************************************************)
(* What the BOLT-8 transport promises for one direction of a connection:  *)
(* the receiver is handed exactly the messages the sender encrypted, in    *)
(* the order it encrypted them, without loss, duplication or forgery,      *)
(* until the connection is torn down.  Delivery of a message the sender   *)
(* produced is eventually made while the connection stays open.            *)
(***************************************************************************)
EXTENDS Naturals, Sequences

CONSTANT Msgs          \* the messages the sender may encrypt

VARIABLES
    sent,              \* the messages the sender has encrypted, in order
    delivered,         \* the messages handed to the receiver, in order
    open               \* FALSE once the connection is torn down

vars == <<sent, delivered, open>>

Init ==
    /\ sent = <<>>
    /\ delivered = <<>>
    /\ open = TRUE

Send(m) ==
    /\ open
    /\ sent' = Append(sent, m)
    /\ UNCHANGED <<delivered, open>>

(* The receiver is handed the oldest message it has not been handed yet.  *)
Deliver ==
    /\ open
    /\ Len(delivered) < Len(sent)
    /\ delivered' = Append(delivered, sent[Len(delivered) + 1])
    /\ UNCHANGED <<sent, open>>

Close ==
    /\ open
    /\ open' = FALSE
    /\ UNCHANGED <<sent, delivered>>

Next ==
    \/ \E m \in Msgs : Send(m)
    \/ Deliver
    \/ Close

SafetySpec == Init /\ [][Next]_vars

Spec == SafetySpec /\ WF_vars(Deliver)

==============================================================================

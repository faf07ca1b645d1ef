----------------------------- MODULE KeyAgreement -----------------------------
(***************************************************************************)
(* What the BOLT-8 handshake promises the honest sessions of a network,   *)
(* in the presence of an attacker that runs sessions of its own:          *)
(*   - a responder session accepts an act one either from an honest        *)
(*     initiator that has sent one, or from the attacker;                  *)
(*   - an initiator finishes only with a responder session of the node it *)
(*     dialled that accepted its act one;                                  *)
(*   - a responder finishes with an honest initiator's identity only after *)
(*     that initiator finished with it, and then the two, and only the    *)
(*     two, share a key; a responder finishing with the attacker shares    *)
(*     its key with no honest session;                                     *)
(*   - every key is fresh: no honest session of another connection holds  *)
(*     it.                                                                 *)
(* A key is represented by the set of honest sessions that hold it.        *)
(***************************************************************************)
EXTENDS FiniteSets

CONSTANTS
    Initiators,   \* the honest initiator sessions
    Responders    \* the responder sessions of the node

Honest == Initiators \cup Responders

VARIABLES
    phase,    \* phase[s]: "start", "sent" (initiator), "accepted"
              \* (responder), "finished" or "failed"
    partner,  \* partner[s]: the session s is running the handshake with,
              \* "attacker", or "none" before it knows one
    peer,     \* peer[r]: the initiator a responder authenticated, "other"
              \* for an identity of the attacker, "none" before it finishes
    key       \* key[s]: the honest sessions that hold s's key; {} until s
              \* finishes

vars == <<phase, partner, peer, key>>

Init ==
    /\ phase = [s \in Honest |-> "start"]
    /\ partner = [s \in Honest |-> "none"]
    /\ peer = [r \in Responders |-> "none"]
    /\ key = [s \in Honest |-> {}]

(* An initiator sends its act one.                                         *)
Dial(i) ==
    /\ phase[i] = "start"
    /\ phase' = [phase EXCEPT ![i] = "sent"]
    /\ UNCHANGED <<partner, peer, key>>

(* A responder accepts an act one, of an initiator that sent one or of the *)
(* attacker.                                                               *)
Accept(r, p) ==
    /\ phase[r] = "start"
    /\ p \in {i \in Initiators : phase[i] # "start"} \cup {"attacker"}
    /\ phase' = [phase EXCEPT ![r] = "accepted"]
    /\ partner' = [partner EXCEPT ![r] = p]
    /\ UNCHANGED <<peer, key>>

(* An initiator finishes with a responder that accepted its act one (that *)
(* responder may have failed since), under a key no one else holds.       *)
Confirm(i, r) ==
    /\ phase[i] = "sent"
    /\ phase[r] \in {"accepted", "failed"}
    /\ partner[r] = i
    /\ phase' = [phase EXCEPT ![i] = "finished"]
    /\ partner' = [partner EXCEPT ![i] = r]
    /\ key' = [key EXCEPT ![i] = {i}]
    /\ UNCHANGED peer

(* A responder finishes: with its honest partner, once that partner       *)
(* finished with it, the two then sharing one key; or with the attacker,  *)
(* under a key no honest session holds.                                    *)
Complete(r) ==
    /\ phase[r] = "accepted"
    /\ phase' = [phase EXCEPT ![r] = "finished"]
    /\ UNCHANGED partner
    /\ \/ /\ partner[r] \in Initiators
          /\ phase[partner[r]] = "finished"
          /\ partner[partner[r]] = r
          /\ peer' = [peer EXCEPT ![r] = partner[r]]
          /\ key' = [key EXCEPT ![r] = {r, partner[r]}, ![partner[r]] = {r, partner[r]}]
       \/ /\ partner[r] = "attacker"
          /\ peer' = [peer EXCEPT ![r] = "other"]
          /\ key' = [key EXCEPT ![r] = {r}]

(* Any handshake in progress may fail.                                     *)
Abort(s) ==
    /\ phase[s] \in {"start", "sent", "accepted"}
    /\ phase' = [phase EXCEPT ![s] = "failed"]
    /\ UNCHANGED <<partner, peer, key>>

Next ==
    \/ \E i \in Initiators : Dial(i)
    \/ \E r \in Responders, p \in Initiators \cup {"attacker"} : Accept(r, p)
    \/ \E i \in Initiators, r \in Responders : Confirm(i, r)
    \/ \E r \in Responders : Complete(r)
    \/ \E s \in Honest : Abort(s)

Spec == Init /\ [][Next]_vars

==============================================================================

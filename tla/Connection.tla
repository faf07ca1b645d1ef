------------------------------ MODULE Connection ------------------------------
(***************************************************************************)
(* Handshake and transport of PeerChannelEncryptor composed: every session *)
(* of Handshake that reaches Finished goes on to encrypt_message,          *)
(* decrypt_length_header and decrypt_message with the Finished struct its *)
(* own process_act_two / process_act_three built.  Each session writes its *)
(* chunks onto the TCP connection it ran the handshake on (the session it *)
(* sent its act one or act two to); the caller reads 18 bytes, then L + 16 *)
(* bytes, and disconnects on any Err.  With ActTampering the attacker      *)
(* rewrites and replays acts as in Handshake; with Tampering it copies the *)
(* bytes of any encrypt_message output, from any connection, onto any      *)
(* connection (single chunks are replayed in Transport).                   *)
(***************************************************************************)
EXTENDS Integers, Sequences, SequencesExt, NoiseCrypto

CONSTANTS
    Initiators, AttackerInits, Responders, Static, Eph, RespStatic,
    AttackerEph,  \* as in Handshake
    ActTampering, \* the Tampering of Handshake: the attacker rewrites acts
    Tampering,    \* the attacker copies encrypt_message outputs
    RekeyAt,     \* the literal 1000 of the rotation checks
    MaxMsgs,     \* messages each session encrypts at most
    MsgLen,      \* the length of every message the callers encrypt
    MaxFaults    \* encrypt_message outputs the attacker copies at most

VARIABLES
    sess, acts,  \* the handshake state (Handshake); sess[s].fin is mutated
    wire,        \* wire[s]: chunks in flight towards session s, oldest first
    rdr,         \* rdr[s]: the caller's next read of s, or "closed"
    out,         \* out[s]: plaintexts s encrypted (history)
    got,         \* got[s]: plaintexts s decrypted (history)
    sealed,      \* every output of encrypt_message, header and payload (history)
    faults       \* outputs the attacker copied

hsVars == <<sess, acts>>
tVars  == <<wire, rdr, out, got, sealed, faults>>
vars   == <<sess, acts, wire, rdr, out, got, sealed, faults>>

HS == INSTANCE Handshake WITH Tampering <- ActTampering

(* Only the operators of Transport on one Finished struct are used here.  *)
TR == INSTANCE Transport WITH CK <- HS!NoiseCK, MsgLens <- {MsgLen},
        enc <- <<>>, wire <- <<>>, rdr <- <<>>, conn <- "open",
        sent <- <<>>, delivered <- <<>>, sealed <- <<>>, faults <- 0

Sessions == HS!Sessions

(* The session at the other end of s's TCP connection: the addressee of   *)
(* the act one (initiator) or act two (responder) s sent.                  *)
Dest(s) == (CHOOSE a \in acts : a.from = s /\ a.n \in {1, 2}).to

Live(s) == sess[s].step = "Finished" /\ rdr[s].phase # "closed"

-----------------------------------------------------------------------------
Init ==
    /\ HS!Init
    /\ wire = [s \in Sessions |-> <<>>]
    /\ rdr = [s \in Sessions |-> [phase |-> "hdr", len |-> 0]]
    /\ out = [s \in Sessions |-> <<>>]
    /\ got = [s \in Sessions |-> <<>>]
    /\ sealed = {}
    /\ faults = 0

(* A step of the handshake of Handshake; the transport is untouched.       *)
HandshakeStep == HS!Next /\ UNCHANGED tVars

(* encrypt_message("...") on a Finished session and the caller writing    *)
(* the result to its TCP connection.                                       *)
EncryptMessage(s) ==
    /\ Live(s)
    /\ Len(out[s]) < MaxMsgs
    /\ MsgLen <= 65535
    /\ LET msg == TR!Payload(s, Len(out[s]) + 1, MsgLen)
           r   == TR!EncryptMsg(sess[s].fin, msg, MsgLen)
       IN  /\ sess' = [sess EXCEPT ![s].fin = r.fin]
           /\ wire' = [wire EXCEPT ![Dest(s)] = @ \o <<r.hdr, r.bdy>>]
           /\ out' = [out EXCEPT ![s] = Append(@, msg)]
           /\ sealed' = sealed \cup {<<r.hdr, r.bdy>>}
    /\ UNCHANGED <<acts, rdr, got, faults>>

(* The caller reads 18 bytes and calls decrypt_length_header; on an Err   *)
(* it disconnects.                                                         *)
DecryptLengthHeader(s) ==
    /\ Live(s)
    /\ rdr[s].phase = "hdr"
    /\ wire[s] # <<>>
    /\ LET r == TR!DecryptHeader(sess[s].fin, TR!Framed(Head(wire[s]), 18))
       IN  /\ wire' = [wire EXCEPT ![s] = Tail(@)]
           /\ sess' = [sess EXCEPT ![s].fin = r.fin]
           /\ rdr' = [rdr EXCEPT ![s] = IF r.ok THEN [phase |-> "body", len |-> r.len]
                                                ELSE [@ EXCEPT !.phase = "closed"]]
    /\ UNCHANGED <<acts, out, got, sealed, faults>>

(* The caller reads L + 16 bytes and calls decrypt_message; on an Err it   *)
(* disconnects.                                                            *)
DecryptMessage(s) ==
    /\ Live(s)
    /\ rdr[s].phase = "body"
    /\ wire[s] # <<>>
    /\ LET r == TR!DecryptMsg(sess[s].fin, TR!Framed(Head(wire[s]), rdr[s].len + 16))
       IN  /\ wire' = [wire EXCEPT ![s] = Tail(@)]
           /\ sess' = [sess EXCEPT ![s].fin = r.fin]
           /\ IF r.ok
              THEN /\ got' = [got EXCEPT ![s] = Append(@, r.pt)]
                   /\ rdr' = [rdr EXCEPT ![s] = [phase |-> "hdr", len |-> 0]]
              ELSE /\ rdr' = [rdr EXCEPT ![s].phase = "closed"]
                   /\ UNCHANGED got
    /\ UNCHANGED <<acts, out, sealed, faults>>

(* The attacker copies an encrypt_message output of any connection onto   *)
(* s's connection.                                                         *)
Inject(s, m) ==
    /\ Tampering
    /\ faults < MaxFaults
    /\ wire' = [wire EXCEPT ![s] = @ \o m]
    /\ faults' = faults + 1
    /\ UNCHANGED <<sess, acts, rdr, out, got, sealed>>

Next ==
    \/ HandshakeStep
    \/ \E s \in Sessions :
          EncryptMessage(s) \/ DecryptLengthHeader(s) \/ DecryptMessage(s)
    \/ \E s \in Sessions, m \in sealed : Inject(s, m)

(* Honest delivery of the acts over TCP, and each caller's read loop.      *)
Fairness ==
    /\ WF_vars(HandshakeStep)
    /\ \A s \in Sessions : WF_vars(DecryptLengthHeader(s)) /\ WF_vars(DecryptMessage(s))

Spec == Init /\ [][Next]_vars /\ Fairness

-----------------------------------------------------------------------------
(* Properties.                                                             *)

TypeOK ==
    /\ HS!TypeOK
    /\ \A s \in Sessions :
         /\ rdr[s] \in [phase : {"hdr", "body", "closed"}, len : 0..65535]
         /\ Len(out[s]) <= MaxMsgs
         /\ wire[s] \in Seq(UNION {{m[1], m[2]} : m \in sealed})
    /\ faults \in 0..MaxFaults

(* An initiator and a responder session holding each other's ephemeral   *)
(* keys, in either order.                                                  *)
Peers(s, t) ==
    \/ s \in HS!Inits /\ t \in Responders /\ HS!Partners(s, t)
    \/ t \in HS!Inits /\ s \in Responders /\ HS!Partners(t, s)

(* What BOLT-8 is for, end to end: whatever the attacker does to the acts *)
(* and to the chunks of every connection (replaying an act one on a new    *)
(* connection, reflecting a session's chunks back at it, copying chunks   *)
(* of the attacker's own connection onto an honest one), a session hands  *)
(* its caller only messages its handshake partner encrypted, in order,    *)
(* without loss or duplication.                                            *)
ConnectionAuthentic ==
    \A s \in Sessions :
        got[s] # <<>> => \E t \in Sessions : Peers(s, t) /\ IsPrefix(got[s], out[t])

(* With honest delivery and the callers' read loops, every initiator's     *)
(* handshake completes and both directions of its connection deliver      *)
(* everything its two ends encrypted, across the key rotations.           *)
EventuallyConnected ==
    <>[](\A i \in Initiators : \E r \in Responders :
            /\ HS!Partners(i, r)
            /\ Live(i) /\ Live(r)
            /\ got[r] = out[i] /\ got[i] = out[r])

==============================================================================

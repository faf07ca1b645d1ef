------------------------------ MODULE Transport ------------------------------
(***************************************************************************)
(* The Finished state of PeerChannelEncryptor (peer_channel_encryptor.rs) *)
(* on both ends of one connection: encrypt_message on the sending half,   *)
(* decrypt_length_header and decrypt_message on the receiving half, with  *)
(* key rotation every RekeyAt nonces.  The bytes travel over a wire that  *)
(* an active attacker may drop, replay or tamper with, up to MaxFaults    *)
(* times.  The caller's framing (read 18 bytes, then L + 16 bytes) and    *)
(* its reaction to an error (the HandleError action DisconnectPeer) are   *)
(* part of the model, since the encryptor is only meaningful with them.   *)
(***************************************************************************)
EXTENDS Integers, Sequences, SequencesExt, NoiseCrypto

CONSTANTS
    RekeyAt,     \* the literal 1000 of encrypt_message / decrypt_length_header
    MaxMsgs,     \* messages each peer encrypts at most (bounds the model)
    MsgLens,     \* lengths of the messages the callers ask to encrypt
    MaxFaults,   \* attacker steps at most (drop, replay, tamper)
    CK           \* the chaining key ck both peers hold when the handshake ends

ASSUME RekeyAt \in Nat \ {0}
ASSUME MaxMsgs \in Nat /\ MaxFaults \in Nat
ASSUME MsgLens \subseteq Nat

Peers == {"I", "R"}          \* the initiator and the responder
Other(p) == IF p = "I" THEN "R" ELSE "I"

(* A plaintext names its sender and its place in the sender's stream, so  *)
(* a delivered message shows where it came from.                          *)
Payload(p, k, len) == <<p, k, len>>

VARIABLES
    enc,        \* enc[p]: the Finished struct of p (sk, sn, sck, rk, rn, rck)
    wire,       \* wire[p]: the chunks in flight towards p, oldest first
    rdr,        \* rdr[p]: the caller's framing state, next read of p
    conn,       \* "open", or "closed" after a DisconnectPeer
    sent,       \* sent[p]: plaintexts p encrypted (history)
    delivered,  \* delivered[p]: plaintexts p decrypted (history)
    sealed,     \* every AEAD output of the transport, in order (history)
    faults      \* attacker steps taken

vars == <<enc, wire, rdr, conn, sent, delivered, sealed, faults>>

-----------------------------------------------------------------------------
(* The Finished states built at the end of process_act_two (initiator)    *)
(* and process_act_three (responder): final_hkdf = hkdf(ck, empty), the   *)
(* initiator takes (sk, rk) = final_hkdf and the responder (rk, sk).       *)
(* Mutant: the initiator copies T1 into rk as well as sk.                  *)
FinishedInitiatorSameKey(ck) ==
    LET fk == HkdfExtractExpand(ck, Empty)
    IN  [sk |-> fk[1], sn |-> 0, sck |-> ck, rk |-> fk[1], rn |-> 0, rck |-> ck]

FinishedInitiator(ck) ==
    LET fk == HkdfExtractExpand(ck, Empty)
    IN  [sk |-> fk[1], sn |-> 0, sck |-> ck, rk |-> fk[2], rn |-> 0, rck |-> ck]

FinishedResponder(ck) ==
    LET fk == HkdfExtractExpand(ck, Empty)
    IN  [sk |-> fk[2], sn |-> 0, sck |-> ck, rk |-> fk[1], rn |-> 0, rck |-> ck]

(* Mutant: the rotation forgets to reset sn.                               *)
RotateSendNoReset(f) ==
    IF f.sn >= RekeyAt
    THEN LET nk == HkdfExtractExpand(f.sck, f.sk)
         IN  [f EXCEPT !.sck = nk[1], !.sk = nk[2]]
    ELSE f

(* Mutant: the rotation tests sn > 1000 instead of sn >= 1000.             *)
RotateSendGt(f) ==
    IF f.sn > RekeyAt
    THEN LET nk == HkdfExtractExpand(f.sck, f.sk)
         IN  [f EXCEPT !.sck = nk[1], !.sk = nk[2], !.sn = 0]
    ELSE f

(* The rotation at the top of encrypt_message: when sn >= 1000,           *)
(* (sck, sk) := hkdf(sck, sk) and sn := 0.                                 *)
RotateSend(f) ==
    IF f.sn >= RekeyAt
    THEN LET nk == HkdfExtractExpand(f.sck, f.sk)
         IN  [f EXCEPT !.sck = nk[1], !.sk = nk[2], !.sn = 0]
    ELSE f

(* Mutant: the receiving rotation passes (rk, rck) as (salt, ikm).          *)
RotateRecvSwapped(f) ==
    IF f.rn >= RekeyAt
    THEN LET nk == HkdfExtractExpand(f.rk, f.rck)
         IN  [f EXCEPT !.rck = nk[1], !.rk = nk[2], !.rn = 0]
    ELSE f

(* The same rotation of the receiving half in decrypt_length_header.      *)
RotateRecv(f) ==
    IF f.rn >= RekeyAt
    THEN LET nk == HkdfExtractExpand(f.rck, f.rk)
         IN  [f EXCEPT !.rck = nk[1], !.rk = nk[2], !.rn = 0]
    ELSE f

(* Mutant: the payload is sealed without advancing sn after the header.    *)
EncryptMsgSameNonce(f, msg, len) ==
    LET g == RotateSend(f)
    IN  [fin |-> [g EXCEPT !.sn = g.sn + 1],
         hdr |-> EncryptWithAd(g.sn, g.sk, Empty, Be16ToArray(len % 65536), 2),
         bdy |-> EncryptWithAd(g.sn, g.sk, Empty, msg, len)]

(* encrypt_message(msg) on the Finished struct f: rotate if sn >= 1000,   *)
(* seal the 2-byte length (msg.len() as u16) under nonce sn, sn += 1,     *)
(* seal msg under nonce sn, sn += 1.  The struct after the call and the    *)
(* bytes returned, header and payload.                                     *)
EncryptMsg(f, msg, len) ==
    LET g == RotateSend(f)
    IN  [fin |-> [g EXCEPT !.sn = g.sn + 2],
         hdr |-> EncryptWithAd(g.sn, g.sk, Empty, Be16ToArray(len % 65536), 2),
         bdy |-> EncryptWithAd(g.sn + 1, g.sk, Empty, msg, len)]

(* decrypt_length_header(c) on f: rotate if rn >= 1000, open c under      *)
(* nonce rn, rn += 1, return the length.  On Bad MAC the rotation already  *)
(* made stays and rn is not advanced.                                      *)
DecryptHeader(f, c) ==
    LET g  == RotateRecv(f)
        ok == DecryptOk(g.rn, g.rk, Empty, c)
    IN  [ok |-> ok, len |-> IF ok THEN SliceToBe16(c.pt) ELSE 0,
         fin |-> IF ok THEN [g EXCEPT !.rn = g.rn + 1] ELSE g]

(* Mutant: decrypt_message leaves rn where it was.                         *)
DecryptMsgNoAdvance(f, c) ==
    LET ok == DecryptOk(f.rn, f.rk, Empty, c)
    IN  [ok |-> ok, pt |-> c.pt, fin |-> f]

(* decrypt_message(c) on f: open c under nonce rn with the current rk (no *)
(* rotation here), rn += 1, return the plaintext.                          *)
DecryptMsg(f, c) ==
    LET ok == DecryptOk(f.rn, f.rk, Empty, c)
    IN  [ok |-> ok, pt |-> c.pt, fin |-> IF ok THEN [f EXCEPT !.rn = f.rn + 1] ELSE f]

(* The bytes the caller hands over when it reads n bytes and the next     *)
(* chunk is c: c itself if it is n bytes long, otherwise bytes that are    *)
(* not one sealed chunk and never verify.                                  *)
Framed(c, n) == IF c.size = n THEN c ELSE [c EXCEPT !.key = <<"misframed">>]

-----------------------------------------------------------------------------
Init ==
    /\ enc = [p \in Peers |-> IF p = "I" THEN FinishedInitiator(CK)
                                          ELSE FinishedResponder(CK)]
    /\ wire = [p \in Peers |-> <<>>]
    /\ rdr = [p \in Peers |-> [phase |-> "hdr", len |-> 0]]
    /\ conn = "open"
    /\ sent = [p \in Peers |-> <<>>]
    /\ delivered = [p \in Peers |-> <<>>]
    /\ sealed = <<>>
    /\ faults = 0

(* Mutant: encrypt_message does not panic on a msg longer than 65535.     *)
EncryptMessageNoPanic(p, len) ==
    /\ conn = "open"
    /\ Len(sent[p]) < MaxMsgs
    /\ LET msg == Payload(p, Len(sent[p]) + 1, len)
           r   == EncryptMsg(enc[p], msg, len)
       IN  /\ enc' = [enc EXCEPT ![p] = r.fin]
           /\ wire' = [wire EXCEPT ![Other(p)] = @ \o <<r.hdr, r.bdy>>]
           /\ sent' = [sent EXCEPT ![p] = Append(@, msg)]
           /\ sealed' = sealed \o <<r.hdr, r.bdy>>
    /\ UNCHANGED <<rdr, conn, delivered, faults>>

(* encrypt_message(msg) on p and the caller writing the result to the      *)
(* wire.  A msg longer than 65535 panics; no state changes.                *)
EncryptMessage(p, len) ==
    /\ conn = "open"
    /\ Len(sent[p]) < MaxMsgs
    /\ len <= 65535
    /\ LET msg == Payload(p, Len(sent[p]) + 1, len)
           r   == EncryptMsg(enc[p], msg, len)
       IN  /\ enc' = [enc EXCEPT ![p] = r.fin]
           /\ wire' = [wire EXCEPT ![Other(p)] = @ \o <<r.hdr, r.bdy>>]
           /\ sent' = [sent EXCEPT ![p] = Append(@, msg)]
           /\ sealed' = sealed \o <<r.hdr, r.bdy>>
    /\ UNCHANGED <<rdr, conn, delivered, faults>>

(* The caller reads 18 bytes and calls decrypt_length_header; on an Err   *)
(* it disconnects.                                                         *)
DecryptLengthHeader(p) ==
    /\ conn = "open"
    /\ rdr[p].phase = "hdr"
    /\ wire[p] # <<>>
    /\ LET r == DecryptHeader(enc[p], Framed(Head(wire[p]), 18))
       IN  /\ wire' = [wire EXCEPT ![p] = Tail(@)]
           /\ enc' = [enc EXCEPT ![p] = r.fin]
           /\ IF r.ok
              THEN /\ rdr' = [rdr EXCEPT ![p] = [phase |-> "body", len |-> r.len]]
                   /\ UNCHANGED conn
              ELSE /\ conn' = "closed"
                   /\ UNCHANGED rdr
    /\ UNCHANGED <<sent, delivered, sealed, faults>>

(* The caller reads L + 16 bytes and calls decrypt_message; on an Err it   *)
(* disconnects.                                                            *)
DecryptMessage(p) ==
    /\ conn = "open"
    /\ rdr[p].phase = "body"
    /\ wire[p] # <<>>
    /\ LET r == DecryptMsg(enc[p], Framed(Head(wire[p]), rdr[p].len + 16))
       IN  /\ wire' = [wire EXCEPT ![p] = Tail(@)]
           /\ enc' = [enc EXCEPT ![p] = r.fin]
           /\ IF r.ok
              THEN /\ delivered' = [delivered EXCEPT ![p] = Append(@, r.pt)]
                   /\ rdr' = [rdr EXCEPT ![p] = [phase |-> "hdr", len |-> 0]]
                   /\ UNCHANGED conn
              ELSE /\ conn' = "closed"
                   /\ UNCHANGED <<delivered, rdr>>
    /\ UNCHANGED <<sent, sealed, faults>>

-----------------------------------------------------------------------------
(* The attacker on the wire.                                               *)

Drop(p, i) ==
    /\ faults < MaxFaults
    /\ i \in DOMAIN wire[p]
    /\ wire' = [wire EXCEPT ![p] = RemoveAt(@, i)]
    /\ faults' = faults + 1
    /\ UNCHANGED <<enc, rdr, conn, sent, delivered, sealed>>

(* Replays any chunk ever sent, in either direction, towards p.            *)
Replay(p, i) ==
    /\ faults < MaxFaults
    /\ i \in DOMAIN sealed
    /\ wire' = [wire EXCEPT ![p] = Append(@, sealed[i])]
    /\ faults' = faults + 1
    /\ UNCHANGED <<enc, rdr, conn, sent, delivered, sealed>>

(* Flips bits of a chunk in flight: it no longer verifies under any key.  *)
Tamper(p, i) ==
    /\ faults < MaxFaults
    /\ i \in DOMAIN wire[p]
    /\ wire' = [wire EXCEPT ![p][i].key = <<"tampered">>]
    /\ faults' = faults + 1
    /\ UNCHANGED <<enc, rdr, conn, sent, delivered, sealed>>

Attacker ==
    \E p \in Peers :
        \/ \E i \in 1..Len(wire[p]) : Drop(p, i) \/ Tamper(p, i)
        \/ \E i \in 1..Len(sealed) : Replay(p, i)

Next ==
    \/ \E p \in Peers, len \in MsgLens : EncryptMessage(p, len)
    \/ \E p \in Peers : DecryptLengthHeader(p) \/ DecryptMessage(p)
    \/ Attacker

(* The caller's read loop reads whatever arrives: each receiving half is  *)
(* weakly fair.                                                            *)
Fairness ==
    \A p \in Peers : WF_vars(DecryptLengthHeader(p)) /\ WF_vars(DecryptMessage(p))

Spec == Init /\ [][Next]_vars /\ Fairness

-----------------------------------------------------------------------------
(* Properties.                                                             *)

(* Every plaintext a peer may encrypt. *)
Msgs == {Payload(p, k, len) : p \in Peers, k \in 1..MaxMsgs, len \in MsgLens}

TypeOK ==
    /\ \A p \in Peers :
         /\ DOMAIN enc[p] = {"sk", "sn", "sck", "rk", "rn", "rck"}
         /\ enc[p].sn \in 0..RekeyAt
         /\ enc[p].rn \in 0..RekeyAt
         /\ rdr[p] \in [phase : {"hdr", "body"}, len : 0..65535]
         /\ sent[p] \in Seq(Msgs) /\ Len(sent[p]) <= MaxMsgs
         /\ delivered[p] \in Seq(Msgs)
    /\ conn \in {"open", "closed"}
    /\ faults \in 0..MaxFaults

(* The 12-byte nonces of the counter values 0 .. 999.                     *)
NoncesBelowRekey == {Nonce(n) : n \in 0..RekeyAt - 1}

(* encrypt_message never seals two chunks under one key and nonce, across *)
(* both directions and every rotation: the length header and the payload  *)
(* of a message take consecutive nonces and a rotation resets sn to 0      *)
(* only together with a fresh sk.                                          *)
NonceUnique ==
    Cardinality({<<sealed[i].key, sealed[i].nonce>> : i \in DOMAIN sealed}) = Len(sealed)

(* No AEAD of encrypt_message uses nonce 1000 (RekeyAt) or above: the      *)
(* single rotation check at its top suffices although each call uses two   *)
(* nonces, because sn is always even on entry.                             *)
NonceBelowRekey ==
    \A i \in DOMAIN sealed : sealed[i].nonce \in NoncesBelowRekey

(* With no attacker step, no decryption of either peer ever fails, so the *)
(* caller never disconnects: both halves rotate their keys in step, and    *)
(* the length a header carries (msg.len() as u16) is the length of the     *)
(* payload that follows, since encrypt_message panics rather than wrap a  *)
(* msg of 65536 bytes or more into a short header that misframes the next  *)
(* read.                                                                   *)
NoSpuriousFailure == faults = 0 => conn = "open"

(* On an honest wire, every message a peer encrypts is eventually handed,  *)
(* in order, to the other peer: the two halves of each direction stay in   *)
(* step across every rotation, so no decryption fails and the connection  *)
(* stays open.  (The callers encrypt finitely often in the model.)          *)
EventuallyDelivered ==
    <>[](\A p \in Peers : delivered[Other(p)] = sent[p])

(* Each direction refines SecureChannel: whatever the attacker does, the   *)
(* receiver is handed a prefix of what the other peer encrypted, in order. *)
ChannelIR == INSTANCE SecureChannel WITH
    sent <- sent["I"], delivered <- delivered["R"], open <- conn = "open"
ChannelRI == INSTANCE SecureChannel WITH
    sent <- sent["R"], delivered <- delivered["I"], open <- conn = "open"

ChannelSafety == ChannelIR!SafetySpec /\ ChannelRI!SafetySpec

==============================================================================

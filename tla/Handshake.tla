------------------------------ MODULE Handshake ------------------------------
(***************************************************************************)
(* The Noise_XK handshake of PeerChannelEncryptor (peer_channel_encryptor *)
(* .rs): new_outbound / get_act_one / process_act_two on the initiator,   *)
(* new_inbound / process_act_one_with_keys / process_act_three on the      *)
(* responder.  Each session is one encryptor object; its typed state       *)
(* (PreActOne, PostActOne, PostActTwo, Finished) is the field step, and   *)
(* an Err consumes the object (step "Failed").  Acts travel through a set  *)
(* of sent acts: any act may be delivered to any session, any number of    *)
(* times, in any order, as sent or as the attacker rewrites it.  The       *)
(* attacker also runs initiator sessions of its own, with its own static  *)
(* key, and may claim any identity in their act three.                     *)
(***************************************************************************)
EXTENDS Integers, Sequences, FiniteSets, NoiseCrypto

CONSTANTS
    Initiators,   \* honest initiator sessions
    AttackerInits,\* initiator sessions run by the attacker
    Responders,   \* responder sessions of the honest node
    Static,       \* Static[s]: our_node_secret of session s
    Eph,          \* Eph[s]: the ephemeral secret the caller gives session s
    RespStatic,   \* the responder node's secret; initiators know Pub of it
    AttackerEph,  \* an ephemeral secret the attacker substitutes in acts
    Tampering     \* TRUE: the attacker may rewrite acts and claim identities

Inits == Initiators \cup AttackerInits
Sessions == Inits \cup Responders

NoiseCK == <<"NOISE_CK">>   \* Sha256("Noise_XK_secp256k1_ChaChaPoly_SHA256")
NoiseH  == <<"NOISE_H">>    \* Sha256(NOISE_CK || "lightning")

VARIABLES
    sess,   \* sess[s]: the state of the encryptor object of session s
    acts    \* every act sent: [n |-> 1, 2 or 3, to |-> session, body |-> bytes]

vars == <<sess, acts>>

-----------------------------------------------------------------------------
(* new_outbound(their_node_id, ephemeral_key): h = Sha256(NOISE_H || rs).  *)
NewOutbound(s) ==
    [step |-> "PreActOne", h |-> MixHash(NoiseH, Pub(RespStatic)), ck |-> NoiseCK,
     ie |-> Eph[s], their_node_id |-> Pub(RespStatic), re |-> Invalid,
     temp_k2 |-> Empty, fin |-> Empty, peer |-> Invalid, err |-> ""]

(* new_inbound(our_node_secret): h = Sha256(NOISE_H || our_node_id).       *)
NewInbound(s) ==
    [step |-> "PreActOne", h |-> MixHash(NoiseH, Pub(Static[s])), ck |-> NoiseCK,
     ie |-> Invalid, their_node_id |-> Invalid, re |-> Invalid,
     temp_k2 |-> Empty, fin |-> Empty, peer |-> Invalid, err |-> ""]

(* hkdf(state, ss): (ck, temp_k) = hkdf_extract_expand(state.ck, ss).      *)
Hkdf(ck, ss) == HkdfExtractExpand(ck, ss)

(* outbound_noise_act(state, our_key, their_key): mix our ephemeral public *)
(* key into h, ck from ECDH, seal an empty plaintext with nonce 0 and ad h *)
(* into the tag, mix the tag into h.  The act is 0 || our_pub || tag.       *)
OutboundNoiseAct(h, ck, ourKey, theirKey) ==
    LET h1  == MixHash(h, Pub(ourKey))
        kdf == Hkdf(ck, Ecdh(theirKey, ourKey))
        tag == EncryptWithAd(0, kdf[2], h1, Empty, 0)
    IN  [h |-> MixHash(h1, tag), ck |-> kdf[1], temp_k |-> kdf[2],
         act |-> [ver |-> 0, point |-> Pub(ourKey), tag |-> tag]]

(* Mutant: the tag of act one / act two is not verified.                  *)
InboundNoiseActNoMac(h, ck, act, ourKey) ==
    LET h1  == MixHash(h, act.point)
        kdf == Hkdf(ck, Ecdh(act.point, ourKey))
    IN  IF act.ver # 0 THEN [err |-> "Unknown handshake version number"]
        ELSE IF ~IsPoint(act.point) THEN [err |-> "Invalid public key"]
        ELSE [err |-> "", h |-> MixHash(h1, act.tag), ck |-> kdf[1],
              their_pub |-> act.point, temp_k |-> kdf[2]]

(* inbound_noise_act(state, act, our_key): the version and point checks    *)
(* return before state changes; a bad tag returns after h and ck have      *)
(* been updated (the object is consumed by the Err either way).            *)
InboundNoiseAct(h, ck, act, ourKey) ==
    LET h1  == MixHash(h, act.point)
        kdf == Hkdf(ck, Ecdh(act.point, ourKey))
    IN  IF act.ver # 0 THEN [err |-> "Unknown handshake version number"]
        ELSE IF ~IsPoint(act.point) THEN [err |-> "Invalid public key"]
        ELSE IF ~DecryptOk(0, kdf[2], h1, act.tag) THEN [err |-> "Bad MAC"]
        ELSE [err |-> "", h |-> MixHash(h1, act.tag), ck |-> kdf[1],
              their_pub |-> act.point, temp_k |-> kdf[2]]

(* Mutant: the initiator copies T1 into rk as well as sk.                  *)
FinishedStateSameKey(ck, isInitiator) ==
    LET fk == HkdfExtractExpand(ck, Empty)
    IN  [sk  |-> IF isInitiator THEN fk[1] ELSE fk[2], sn |-> 0, sck |-> ck,
         rk  |-> fk[1], rn |-> 0, rck |-> ck]

(* Mutant: final_hkdf is taken over the initial chaining key NOISE_CK     *)
(* instead of the ck the handshake built.                                  *)
FinishedStateFixedCk(ck, isInitiator) ==
    LET fk == HkdfExtractExpand(NoiseCK, Empty)
    IN  [sk  |-> IF isInitiator THEN fk[1] ELSE fk[2], sn |-> 0, sck |-> ck,
         rk  |-> IF isInitiator THEN fk[2] ELSE fk[1], rn |-> 0, rck |-> ck]

(* The Finished struct: final_hkdf = hkdf_extract_expand(ck, empty), the  *)
(* initiator takes (sk, rk) and the responder (rk, sk); sck = rck = ck.   *)
FinishedState(ck, isInitiator) ==
    LET fk == HkdfExtractExpand(ck, Empty)
    IN  [sk  |-> IF isInitiator THEN fk[1] ELSE fk[2], sn |-> 0, sck |-> ck,
         rk  |-> IF isInitiator THEN fk[2] ELSE fk[1], rn |-> 0, rck |-> ck]

(* Returning Err(HandleError) consumes the encryptor object.               *)
Fail(s, e) == sess' = [sess EXCEPT ![s].step = "Failed", ![s].err = e]

Send(n, from, to, body) ==
    acts' = acts \cup {[n |-> n, from |-> from, to |-> to, body |-> body]}

-----------------------------------------------------------------------------
Init ==
    /\ sess = [s \in Sessions |-> IF s \in Inits THEN NewOutbound(s)
                                                ELSE NewInbound(s)]
    /\ acts = {}

(* get_act_one: PreActOne(Outbound) -> PostActOne(Outbound), emits act 1  *)
(* on a new connection to the node, which the node serves with a responder *)
(* session of its own.                                                     *)
GetActOne(s, to) ==
    /\ sess[s].step = "PreActOne"
    /\ s \in Inits
    /\ ~\E a \in acts : a.n = 1 /\ a.to = to
    /\ LET o == OutboundNoiseAct(sess[s].h, sess[s].ck, sess[s].ie, sess[s].their_node_id)
       IN  /\ sess' = [sess EXCEPT ![s].step = "PostActOne", ![s].h = o.h, ![s].ck = o.ck]
           /\ Send(1, s, to, o.act)

(* process_act_one_with_keys(act_one, our_node_secret, our_ephemeral),    *)
(* with our_ephemeral = Eph[s] supplied by the caller.                     *)
ProcessActOneWithKeys(s, a) ==
    /\ sess[s].step = "PreActOne"
    /\ s \in Responders
    /\ a.n = 1
    /\ LET st == sess[s]
           in  == InboundNoiseAct(st.h, st.ck, a.body, Static[s])
           out == OutboundNoiseAct(in.h, in.ck, Eph[s], in.their_pub)
       IN  IF in.err # ""
           THEN Fail(s, in.err) /\ UNCHANGED acts
           ELSE /\ sess' = [sess EXCEPT ![s] = [st EXCEPT !.step = "PostActTwo",
                              !.h = out.h, !.ck = out.ck, !.ie = in.their_pub,
                              !.re = Eph[s], !.temp_k2 = out.temp_k]]
                /\ Send(2, s, a.from, out.act)

(* process_act_two(act_two, our_node_secret): PostActOne(Outbound) ->     *)
(* Finished, emits act 3: the static key sealed with nonce 1 under temp_k2 *)
(* and ad h, h mixed with it, ck from ECDH(re, s), an empty plaintext      *)
(* sealed with nonce 0 under the new temp_k.  claim is our_node_id; an     *)
(* attacker session may put any 33 bytes there.                            *)
ProcessActTwo(s, a, claim) ==
    /\ sess[s].step = "PostActOne"
    /\ a.n = 2
    /\ LET st  == sess[s]
           in  == InboundNoiseAct(st.h, st.ck, a.body, st.ie)
           c   == EncryptWithAd(1, in.temp_k, in.h, claim, 33)
           h2  == MixHash(in.h, c)
           kdf == Hkdf(in.ck, Ecdh(in.their_pub, Static[s]))
           tag == EncryptWithAd(0, kdf[2], h2, Empty, 0)
       IN  IF in.err # ""
           THEN Fail(s, in.err) /\ UNCHANGED acts
           ELSE /\ sess' = [sess EXCEPT ![s] = [st EXCEPT !.step = "Finished",
                              !.h = h2, !.ck = kdf[1], !.re = in.their_pub,
                              !.fin = FinishedState(kdf[1], TRUE),
                              !.peer = st.their_node_id]]
                /\ Send(3, s, a.from, [ver |-> 0, c |-> c, tag |-> tag])

(* Mutant: the MAC of the final tag is never checked.                     *)
ProcessActThreeNoFinalMac(s, a) ==
    /\ sess[s].step = "PostActTwo"
    /\ a.n = 3
    /\ LET st  == sess[s]
           act == a.body
           rs  == act.c.pt
           h2  == MixHash(st.h, act.c)
           kdf == Hkdf(st.ck, Ecdh(rs, st.re))
       IN  /\ acts' = acts
           /\ IF act.ver # 0 THEN Fail(s, "Unknown handshake version number")
              ELSE IF ~DecryptOk(1, st.temp_k2, st.h, act.c) THEN Fail(s, "Bad MAC")
              ELSE IF ~IsPoint(rs) THEN Fail(s, "Bad node_id from peer")
              ELSE sess' = [sess EXCEPT ![s] = [st EXCEPT !.step = "Finished",
                              !.h = h2, !.ck = kdf[1],
                              !.fin = FinishedState(kdf[1], FALSE), !.peer = rs]]

(* Mutant: the sealed static key is opened with nonce 0 instead of 1.     *)
ProcessActThreeNonceZero(s, a) ==
    /\ sess[s].step = "PostActTwo"
    /\ a.n = 3
    /\ LET st  == sess[s]
           act == a.body
           rs  == act.c.pt
           h2  == MixHash(st.h, act.c)
           kdf == Hkdf(st.ck, Ecdh(rs, st.re))
       IN  /\ acts' = acts
           /\ IF act.ver # 0 THEN Fail(s, "Unknown handshake version number")
              ELSE IF ~DecryptOk(0, st.temp_k2, st.h, act.c) THEN Fail(s, "Bad MAC")
              ELSE IF ~IsPoint(rs) THEN Fail(s, "Bad node_id from peer")
              ELSE IF ~DecryptOk(0, kdf[2], h2, act.tag) THEN Fail(s, "Bad MAC")
              ELSE sess' = [sess EXCEPT ![s] = [st EXCEPT !.step = "Finished",
                              !.h = h2, !.ck = kdf[1],
                              !.fin = FinishedState(kdf[1], FALSE), !.peer = rs]]

(* process_act_three(act_three): PostActTwo(Inbound) -> Finished, returns *)
(* the remote static key.  Checks in order: version, the MAC of the sealed *)
(* static key, that it parses, then the MAC of the final tag.              *)
ProcessActThree(s, a) ==
    /\ sess[s].step = "PostActTwo"
    /\ a.n = 3
    /\ LET st  == sess[s]
           act == a.body
           rs  == act.c.pt
           h2  == MixHash(st.h, act.c)
           kdf == Hkdf(st.ck, Ecdh(rs, st.re))
       IN  /\ acts' = acts
           /\ IF act.ver # 0 THEN Fail(s, "Unknown handshake version number")
              ELSE IF ~DecryptOk(1, st.temp_k2, st.h, act.c) THEN Fail(s, "Bad MAC")
              ELSE IF ~IsPoint(rs) THEN Fail(s, "Bad node_id from peer")
              ELSE IF ~DecryptOk(0, kdf[2], h2, act.tag) THEN Fail(s, "Bad MAC")
              ELSE sess' = [sess EXCEPT ![s] = [st EXCEPT !.step = "Finished",
                              !.h = h2, !.ck = kdf[1],
                              !.fin = FinishedState(kdf[1], FALSE), !.peer = rs]]

-----------------------------------------------------------------------------
(* The network and the attacker.                                           *)

Tampered(m) == [m EXCEPT !.key = <<"tampered">>]

(* The bodies an act can arrive with: as sent, or, with Tampering, with a  *)
(* bad version byte, bytes that are not a point, the attacker's own        *)
(* ephemeral key in place of the sender's, or flipped MAC bytes.           *)
Arrivals(a) ==
    IF ~Tampering THEN {a.body}
    ELSE IF a.n \in {1, 2}
    THEN {a.body, [a.body EXCEPT !.ver = 1], [a.body EXCEPT !.point = Invalid],
          [a.body EXCEPT !.point = Pub(AttackerEph)], [a.body EXCEPT !.tag = Tampered(@)]}
    ELSE {a.body, [a.body EXCEPT !.ver = 1], [a.body EXCEPT !.c = Tampered(@)],
          [a.body EXCEPT !.tag = Tampered(@)]}

(* Honest delivery hands an act to the session it is addressed to; the    *)
(* attacker hands any act to any session, any number of times.            *)
Deliverable(s) ==
    UNION {{[a EXCEPT !.body = b] : b \in Arrivals(a)} :
               a \in {x \in acts : Tampering \/ x.to = s}}

(* The identities an initiator session puts in act three: its own, or for *)
(* an attacker session any honest initiator's or bytes that are no point.  *)
Claims(s) ==
    IF s \in Initiators THEN {Pub(Static[s])}
    ELSE {Pub(Static[s]), Invalid} \cup {Pub(Static[i]) : i \in Initiators}

Next ==
    \/ \E s \in Inits, r \in Responders : GetActOne(s, r)
    \/ \E s \in Responders : \E a \in Deliverable(s) : ProcessActOneWithKeys(s, a)
    \/ \E s \in Inits : \E a \in Deliverable(s), claim \in Claims(s) :
           ProcessActTwo(s, a, claim)
    \/ \E s \in Responders : \E a \in Deliverable(s) : ProcessActThree(s, a)

Fairness == WF_vars(Next)

Spec == Init /\ [][Next]_vars /\ Fairness

-----------------------------------------------------------------------------
(* Properties.                                                             *)

Steps == {"PreActOne", "PostActOne", "PostActTwo", "Finished", "Failed"}
Errors == {"", "Unknown handshake version number", "Invalid public key",
           "Bad MAC", "Bad node_id from peer"}

TypeOK ==
    /\ \A s \in Sessions :
         /\ sess[s].step \in Steps
         /\ sess[s].err \in Errors
         /\ (sess[s].step = "Failed") <=> (sess[s].err # "")
         /\ (sess[s].step = "Finished") =>
              DOMAIN sess[s].fin = {"sk", "sn", "sck", "rk", "rn", "rck"}
    /\ \A a \in acts : a.n \in 1..3 /\ a.from \in Sessions /\ a.to \in Sessions

(* Two sessions are partners when each holds the ephemeral key the other  *)
(* generated: they saw the same act one and act two.                       *)
Partners(i, r) ==
    /\ sess[r].ie = Pub(Eph[i])
    /\ sess[i].re = Pub(Eph[r])

(* The identity process_act_three returns is authentic: when a responder  *)
(* finishes with the static key of an honest initiator, that initiator    *)
(* finished a handshake with this very session, and the two hold the same *)
(* transcript and mirrored transport keys (initiator sk = responder rk,   *)
(* rk = sk, sck = rck = ck).  The attacker's sessions may claim any       *)
(* identity and rewrite any act.                                           *)
ResponderAuthenticated ==
    \A r \in Responders, i \in Initiators :
        (sess[r].step = "Finished" /\ sess[r].peer = Pub(Static[i])) =>
            /\ sess[i].step = "Finished"
            /\ Partners(i, r)
            /\ sess[i].h = sess[r].h
            /\ sess[i].fin.sk = sess[r].fin.rk
            /\ sess[i].fin.rk = sess[r].fin.sk
            /\ sess[i].fin.sck = sess[r].fin.rck

(* process_act_two authenticates the responder node: an honest initiator  *)
(* finishes only after a session of the node whose key it dialled took    *)
(* its act one and produced the act two it accepted (that session may     *)
(* still fail later, on an act three the attacker rewrote).                *)
InitiatorAuthenticated ==
    \A i \in Initiators :
        sess[i].step = "Finished" =>
            \E r \in Responders : Static[r] = RespStatic /\ Partners(i, r)

(* With honest delivery, every initiator eventually finishes, and so does *)
(* the responder session that took its act one, with mirrored keys.        *)
EventuallyEstablished ==
    <>(\A i \in Initiators : \E r \in Responders :
          /\ sess[i].step = "Finished" /\ sess[r].step = "Finished"
          /\ Partners(i, r)
          /\ sess[i].fin.sk = sess[r].fin.rk /\ sess[i].fin.rk = sess[r].fin.sk)

(* The refinement mapping onto KeyAgreement, over the honest sessions.     *)
Honest == Initiators \cup Responders

PhaseOf == [PreActOne |-> "start", PostActOne |-> "sent", PostActTwo |-> "accepted",
            Finished |-> "finished", Failed |-> "failed"]

(* The honest session of S whose ephemeral public key is pub, "attacker"  *)
(* for any other key, "none" while no key has been received.              *)
OwnerOfEph(pub, S) ==
    IF pub = Invalid THEN "none"
    ELSE IF \E t \in S : Pub(Eph[t]) = pub THEN CHOOSE t \in S : Pub(Eph[t]) = pub
    ELSE "attacker"

PeerOf(r) ==
    IF sess[r].step # "Finished" THEN "none"
    ELSE IF \E i \in Initiators : Pub(Static[i]) = sess[r].peer
         THEN CHOOSE i \in Initiators : Pub(Static[i]) = sess[r].peer
    ELSE "other"

(* Two finished sessions hold a transport key in common.                  *)
SharesKey(s, t) ==
    /\ sess[s].step = "Finished" /\ sess[t].step = "Finished"
    /\ {sess[s].fin.sk, sess[s].fin.rk} \cap {sess[t].fin.sk, sess[t].fin.rk} # {}

KeyHolders(s) ==
    IF sess[s].step = "Finished" THEN {s} \cup {t \in Honest : SharesKey(s, t)} ELSE {}

KA == INSTANCE KeyAgreement WITH
    phase   <- [s \in Honest |-> PhaseOf[sess[s].step]],
    partner <- [s \in Honest |-> IF s \in Initiators THEN OwnerOfEph(sess[s].re, Responders)
                                                    ELSE OwnerOfEph(sess[s].ie, Initiators)],
    peer    <- [r \in Responders |-> PeerOf(r)],
    key     <- [s \in Honest |-> KeyHolders(s)]

(* The handshake implements KeyAgreement, whatever the attacker does to   *)
(* the acts and whatever identity its own sessions claim: a responder     *)
(* accepts only an act one an initiator sent or the attacker made; an     *)
(* initiator finishes only with a node session that accepted its act one; *)
(* a responder finishes with an honest identity only after that initiator *)
(* finished with it; and the keys of every connection are fresh, shared   *)
(* with no honest session of another connection (an act one replayed to a *)
(* second responder session, or the attacker's own connection to the     *)
(* node, never yields an honest session's key).                            *)
KeyAgreementSafety == KA!Spec

==============================================================================

----------------------------- MODULE TestVectors -----------------------------
(***************************************************************************)
(* The unit tests of peer_channel_encryptor.rs, driven through Handshake   *)
(* and Transport: noise_initiator_test_vectors, noise_responder_test_     *)
(* vectors and message_encryption_decryption_test_vectors, each block of  *)
(* them in turn with fresh encryptors.  The hex vectors are abstracted to  *)
(* their keys (s11 = 0x11.., e12 = 0x12.. of the initiator, s21, e22 of    *)
(* the responder) and to the corruption each bad vector carries.  The      *)
(* transport test runs with the literal 1000 and its 1005 iterations.      *)
(***************************************************************************)
EXTENDS Integers, Sequences, NoiseCrypto

VARIABLES
    sess, acts,  \* the two encryptors of the current handshake block
    enc,         \* enc["I"], enc["R"]: outbound_peer and inbound_peer, Finished
    res,         \* the last output of encrypt_message: header and payload
    ret,         \* the value the last decrypt call returned
    i,           \* the loop index of the transport test
    blk,         \* the index of the current test block
    pc           \* the next step of the block

vars == <<sess, acts, enc, res, ret, i, blk, pc>>
hsVars == <<sess, acts>>
tVars == <<enc, res, ret, i>>

Keys == [s \in {"i", "r"} |-> IF s = "i" THEN "s11" ELSE "s21"]
Ephs == [s \in {"i", "r"} |-> IF s = "i" THEN "e12" ELSE "e22"]

HS == INSTANCE Handshake WITH Initiators <- {"i"}, AttackerInits <- {},
        Responders <- {"r"}, Static <- Keys, Eph <- Ephs, RespStatic <- "s21",
        AttackerEph <- "eM", Tampering <- FALSE

Iterations == 1005

(* Only the operators of Transport on one Finished struct are used here.  *)
TR == INSTANCE Transport WITH RekeyAt <- 1000, MaxMsgs <- Iterations,
        MsgLens <- {5}, MaxFaults <- 0, CK <- HS!NoiseCK,
        wire <- <<>>, rdr <- <<>>, conn <- "open", sent <- <<>>,
        delivered <- <<>>, sealed <- <<>>, faults <- 0

(* The message of the loop: the five bytes of "hello".                     *)
Hello == <<104, 101, 108, 108, 111>>

(* The test blocks, in the order the source lists them.                    *)
Blocks == <<"initiator-success", "act2-bad-version", "act2-bad-key", "act2-bad-mac",
            "responder-success", "act1-bad-version", "act1-bad-key", "act1-bad-mac",
            "act3-bad-version", "act3-bad-mac-ciphertext", "act3-bad-rs",
            "act3-bad-mac", "encryption">>

Block == Blocks[blk]

(* The last handshake call of a block: process_act_one_with_keys (2),     *)
(* process_act_two (3) or process_act_three (4).                           *)
LastStep(t) ==
    IF t \in {"act1-bad-version", "act1-bad-key", "act1-bad-mac"} THEN 2
    ELSE IF t \in {"initiator-success", "act2-bad-version", "act2-bad-key",
                   "act2-bad-mac"} THEN 3
    ELSE 4

(* The bad act one vectors: 01.. (version), 0004.. (not a point), and the *)
(* last byte of the tag flipped.                                           *)
MutateActOne(t, b) ==
    CASE t = "act1-bad-version" -> [b EXCEPT !.ver = 1]
      [] t = "act1-bad-key"     -> [b EXCEPT !.point = Invalid]
      [] t = "act1-bad-mac"     -> [b EXCEPT !.tag.key = <<"tampered">>]
      [] OTHER                  -> b

(* The bad act two vectors of noise_initiator_test_vectors.                *)
MutateActTwo(t, b) ==
    CASE t = "act2-bad-version" -> [b EXCEPT !.ver = 1]
      [] t = "act2-bad-key"     -> [b EXCEPT !.point = Invalid]
      [] t = "act2-bad-mac"     -> [b EXCEPT !.tag.key = <<"tampered">>]
      [] OTHER                  -> b

(* The bad act three vectors: 01.. (version), a byte of the sealed static *)
(* key flipped, a static key that is no point sealed correctly (bad rs),  *)
(* and the last byte of the final tag flipped.                             *)
MutateActThree(t, b) ==
    CASE t = "act3-bad-version"        -> [b EXCEPT !.ver = 1]
      [] t = "act3-bad-mac-ciphertext" -> [b EXCEPT !.c.key = <<"tampered">>]
      [] t = "act3-bad-rs"             -> [b EXCEPT !.c.pt = Invalid]
      [] t = "act3-bad-mac"            -> [b EXCEPT !.tag.key = <<"tampered">>]
      [] OTHER                         -> b

Act(n) == CHOOSE a \in acts : a.n = n

(* The handshake calls of a block, in order; pc names the next one.       *)
Step == <<"get_act_one", "process_act_one", "process_act_two", "process_act_three">>

Advance(n) == pc' = IF n = LastStep(Block) THEN "done" ELSE Step[n + 1]

-----------------------------------------------------------------------------
Init ==
    /\ HS!Init
    /\ enc = [p \in TR!Peers |-> Empty]
    /\ res = <<>>
    /\ ret = 0
    /\ i = 0
    /\ blk = 1
    /\ pc = Step[1]

(* get_outbound_peer_for_initiator_test_vectors: new_outbound with rs and *)
(* e12, then get_act_one.                                                  *)
GetOutboundPeer ==
    /\ pc = Step[1]
    /\ HS!GetActOne("i", "r")
    /\ Advance(1)
    /\ UNCHANGED <<tVars, blk>>

(* new_inbound(s21), process_act_one_with_keys(act_one, s21, e22).         *)
ResponderActOne ==
    /\ pc = Step[2]
    /\ HS!ProcessActOneWithKeys("r", [Act(1) EXCEPT !.body = MutateActOne(Block, @)])
    /\ Advance(2)
    /\ UNCHANGED <<tVars, blk>>

(* process_act_two(act_two, s11) on the outbound peer.                     *)
InitiatorActTwo ==
    /\ pc = Step[3]
    /\ HS!ProcessActTwo("i", [Act(2) EXCEPT !.body = MutateActTwo(Block, @)], Pub("s11"))
    /\ Advance(3)
    /\ UNCHANGED <<tVars, blk>>

(* process_act_three(act_three) on the inbound peer.                       *)
ResponderActThree ==
    /\ pc = Step[4]
    /\ HS!ProcessActThree("r", [Act(3) EXCEPT !.body = MutateActThree(Block, @)])
    /\ Advance(4)
    /\ UNCHANGED <<tVars, blk>>

(* The next block starts with fresh encryptors.                            *)
NextBlock ==
    /\ pc = "done"
    /\ Block # "encryption"
    /\ blk' = blk + 1
    /\ sess' = [s \in HS!Sessions |-> IF s = "i" THEN HS!NewOutbound(s)
                                                ELSE HS!NewInbound(s)]
    /\ acts' = {}
    /\ pc' = Step[1]
    /\ UNCHANGED tVars

(* message_encryption_decryption_test_vectors: the outbound and inbound    *)
(* peers of the two successful handshakes become the two transport ends.   *)
StartTransport ==
    /\ pc = "done"
    /\ Block = "encryption"
    /\ enc' = [p \in TR!Peers |-> IF p = "I" THEN sess["i"].fin ELSE sess["r"].fin]
    /\ pc' = "encrypt"
    /\ UNCHANGED <<hsVars, res, ret, i, blk>>

(* One iteration of `for i in 0..1005`: res = encrypt_message(msg) on    *)
(* the outbound peer, then on the inbound peer decrypt_length_header of    *)
(* res[0..18] and decrypt_message of res[18..].  An Err makes unwrap()     *)
(* panic and ends the test.                                                *)
LoopEncrypt ==
    /\ pc = "encrypt"
    /\ i < Iterations
    /\ LET r == TR!EncryptMsg(enc["I"], Hello, 5)
       IN  /\ enc' = [enc EXCEPT !["I"] = r.fin]
           /\ res' = <<r.hdr, r.bdy>>
    /\ pc' = "header"
    /\ UNCHANGED <<hsVars, ret, i, blk>>

LoopHeader ==
    /\ pc = "header"
    /\ LET r == TR!DecryptHeader(enc["R"], res[1])
       IN  /\ enc' = [enc EXCEPT !["R"] = r.fin]
           /\ ret' = r.len
           /\ pc' = IF r.ok THEN "message" ELSE "panic"
    /\ UNCHANGED <<hsVars, res, i, blk>>

LoopMessage ==
    /\ pc = "message"
    /\ LET r == TR!DecryptMsg(enc["R"], res[2])
       IN  /\ enc' = [enc EXCEPT !["R"] = r.fin]
           /\ ret' = r.pt
           /\ pc' = IF r.ok THEN "encrypt" ELSE "panic"
    /\ i' = i + 1
    /\ UNCHANGED <<hsVars, res, blk>>

Next ==
    \/ GetOutboundPeer \/ ResponderActOne \/ InitiatorActTwo \/ ResponderActThree
    \/ NextBlock \/ StartTransport
    \/ LoopEncrypt \/ LoopHeader \/ LoopMessage

Spec == Init /\ [][Next]_vars

-----------------------------------------------------------------------------
(* Properties.                                                             *)

(* The error kind of spec section 7 each bad vector must be rejected with. *)
ExpectedErr(t) ==
    CASE t \in {"act1-bad-version", "act2-bad-version", "act3-bad-version"} ->
              "Unknown handshake version number"
      [] t \in {"act1-bad-key", "act2-bad-key"} -> "Invalid public key"
      [] t = "act3-bad-rs" -> "Bad node_id from peer"
      [] t \in {"act1-bad-mac", "act2-bad-mac", "act3-bad-mac-ciphertext",
                "act3-bad-mac"} -> "Bad MAC"
      [] OTHER -> ""

(* The encryptor the last act of a block is fed to.                        *)
Receiver(t) == IF LastStep(t) = 3 THEN "i" ELSE "r"

(* Scenarios A to D of the spec, as the test functions run them: each bad *)
(* vector is rejected with its own error kind (the checks of version,     *)
(* point and MAC run in that order, so a vector with one fault meets only *)
(* its own check) and nothing is sent after it; each successful handshake *)
(* ends Finished, and when both ends finished, the responder recovered     *)
(* the initiator's static key and the two hold mirrored keys with all four *)
(* counters at 0.                                                          *)
HandshakeVectorsHold ==
    pc = "done" =>
        IF ExpectedErr(Block) # ""
        THEN /\ sess[Receiver(Block)].step = "Failed"
             /\ sess[Receiver(Block)].err = ExpectedErr(Block)
             /\ \A a \in acts : a.n < LastStep(Block)
        ELSE /\ sess[Receiver(Block)].step = "Finished"
             /\ LastStep(Block) = 4 =>
                  /\ sess["r"].peer = Pub("s11")
                  /\ sess["i"].fin.sk = sess["r"].fin.rk
                  /\ sess["i"].fin.rk = sess["r"].fin.sk
                  /\ sess["i"].fin.sck = sess["r"].fin.rck
                  /\ {sess["i"].fin.sn, sess["i"].fin.rn,
                      sess["r"].fin.sn, sess["r"].fin.rn} = {0}

(* The assertions of the loop of message_encryption_decryption_test_      *)
(* vectors: every output is 5 + 2 * 16 + 2 bytes, every header decrypts   *)
(* to 5, every payload to the message, and no unwrap fails (the inbound    *)
(* peer never disconnects), across both rotations of each half.            *)
LoopAssertionsHold ==
    /\ pc # "panic"
    /\ pc = "header" => res[1].size + res[2].size = 39
    /\ pc = "message" => ret = 5
    /\ pc = "encrypt" /\ i > 0 => ret = Hello

(* (sck, sk) of the outbound peer after j rotations, by the rekey law of   *)
(* spec section 8: (ck', k') = hkdf_extract_expand(ck, k).                 *)
RECURSIVE SendChain(_)
SendChain(j) ==
    IF j = 0 THEN <<sess["i"].fin.sck, sess["i"].fin.sk>>
    ELSE LET prev == SendChain(j - 1) IN HkdfExtractExpand(prev[1], prev[2])

(* The key schedule the hex vectors of iterations 0, 1, 500, 501, 1000 and *)
(* 1001 pin: iteration i seals its header under nonce 2 (i % 500) and its  *)
(* payload under the next nonce, with the key of i \div 500 rotations; the *)
(* 1001st AEAD is the first under a rotated key.                           *)
KeySchedule ==
    pc = "header" =>
        LET key == SendChain(i \div 500)[2]
        IN  /\ res[1].key = key
            /\ res[1].nonce = Nonce(2 * (i % 500))
            /\ res[2].key = key
            /\ res[2].nonce = Nonce(2 * (i % 500) + 1)

==============================================================================

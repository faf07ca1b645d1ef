----------------------------- MODULE NoiseCrypto -----------------------------
(***************************************************************************)
(* Symbolic (perfect) cryptography for the BOLT-8 encryptor of            *)
(* src/src/ln/peer_channel_encryptor.rs.                                   *)
(*                                                                         *)
(* Hash, HMAC, ECDH and ChaCha20-Poly1305 are external collaborators.     *)
(* They are modelled as free constructors: a hash or HKDF output is the    *)
(* tuple of its inputs, so two outputs are equal exactly when the inputs   *)
(* are, and an AEAD ciphertext is a record that opens only under the key,  *)
(* nonce and associated data it was sealed with.  Every term is a tuple   *)
(* or record, so any two terms can be compared by TLC.                     *)
(***************************************************************************)
EXTENDS Integers, Sequences

(* The empty byte string, used as empty plaintext, ad and HKDF ikm.        *)
Empty == <<>>

(* Byte k (k = 0 the least significant) of the little-endian encoding of *)
(* n, computed by repeated division so no power beyond 256 is formed.     *)
RECURSIVE LeByte(_, _)
LeByte(n, k) == IF k = 0 THEN n % 256 ELSE LeByte(n \div 256, k - 1)

(* The 12-byte ChaCha nonce of encrypt_with_ad / decrypt_with_ad: four     *)
(* zero bytes followed by le64_to_array(n).  Bytes are indexed 0..11.     *)
Nonce(n) == [i \in 0..11 |-> IF i < 4 THEN 0 ELSE LeByte(n, i - 4)]

(* encrypt_with_ad(res, n, key, h, plaintext): the ciphertext followed by  *)
(* its 16-byte tag; size is the number of bytes written to res.            *)
EncryptWithAd(n, key, ad, pt, ptLen) ==
    [key |-> key, nonce |-> Nonce(n), ad |-> ad, pt |-> pt, size |-> ptLen + 16]

(* The tag check of decrypt_with_ad: ChaCha20Poly1305RFC::decrypt returns  *)
(* true exactly when the bytes were sealed under this key, nonce and ad.  *)
DecryptOk(n, key, ad, c) ==
    /\ c.key = key
    /\ c.nonce = Nonce(n)
    /\ c.ad = ad

(* hkdf_extract_expand(salt, ikm): PRK = HMAC(salt, ikm), T1 = HMAC(PRK,1),*)
(* T2 = HMAC(PRK, T1 || 2).  T1 and T2 are distinct terms of the inputs.   *)
HkdfExtractExpand(salt, ikm) ==
    LET prk == <<"hmac", salt, ikm>>
        t1  == <<"hmac", prk, 1>>
    IN  <<t1, <<"hmac", prk, t1, 2>>>>

(* be16_to_array(x): the 2-byte big-endian encoding of a u16.              *)
Be16ToArray(x) == <<(x \div 256) % 256, x % 256>>

(* slice_to_be16(b): the u16 a 2-byte big-endian slice encodes.            *)
SliceToBe16(b) == b[1] * 256 + b[2]

(* secp256k1: Pub(x) is the 33-byte compressed serialization of the public *)
(* key of secret x; Invalid stands for 33 bytes that are not a point.      *)
Pub(x) == <<"pub", x>>
Invalid == <<"not-a-point">>

(* PublicKey::from_slice succeeds exactly on the serialization of a point. *)
IsPoint(b) == b # Invalid

(* SharedSecret::new(their_key, our_key): ECDH commutes, so the secret is  *)
(* a function of the set of the two secret scalars.                         *)
Ecdh(theirPub, ourSec) == <<"ecdh", {theirPub[2], ourSec}>>

(* The Sha256 engine fed h then data.                                      *)
MixHash(h, data) == <<"sha256", h, data>>

==============================================================================

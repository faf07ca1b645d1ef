# TLA+ models of the BOLT-8 peer channel encryptor

This directory holds TLA+ models of `src/src/ln/peer_channel_encryptor.rs`, the
Noise_XK handshake and transport cipher of rust-lightning. It also holds the TLC
configurations that check the models.

## 1. Inventory

The repository has two source files. `src/src/lib.rs` only declares modules.
`peer_channel_encryptor.rs` holds the whole system: one object,
`PeerChannelEncryptor<T>`, whose type parameter is its handshake state.

| Component | State | Operations (lines) |
|---|---|---|
| Symmetric state `BidirectionalNoiseState` | `h`, `ck` | mixed by every handshake step |
| Initiator (`Outbound`) | `OutboundData {ie, their_node_id}` | `new_outbound` (101), `get_act_one` (279), `process_act_two` (355) |
| Responder (`Inbound`) | `InboundPostActTwo {ie, re, temp_k2}` | `new_inbound` (124), `process_act_one_with_keys` (307), `process_act_three` (420) |
| Helpers | none | `encrypt_with_ad` (149), `decrypt_with_ad` (160), `hkdf_extract_expand` (184), `hkdf` (198), `outbound_noise_act` (205), `inbound_noise_act` (234) |
| Transport (`Finished`) | `sk, sn, sck` (send half), `rk, rn, rck` (receive half) | `encrypt_message` (492), `decrypt_length_header` (535), `decrypt_message` (564) |
| External | secp256k1, SHA-256/HMAC, ChaCha20-Poly1305, `byte_utils` | not in `src/` |

How the parts interact:

- The two roles run on two machines. They talk only through the acts (50, 50
  and 66 bytes) and then through transport chunks. Each chunk is an 18-byte
  length header followed by a payload of L + 16 bytes.
- The caller (the peer handler, not in this repository) moves the bytes. It
  reads 18 bytes, then L + 16 bytes. On any `HandleError` it disconnects the
  peer.
- Each handshake method takes `self` by value. A step or an `Err` therefore
  consumes the object; the Rust type system enforces the order of steps.
  `Finished` is mutated in place on every send and receive.

What is hard:

- An active network. Acts and chunks may be dropped, replayed, reflected,
  reordered, misrouted or tampered with. The attacker may also run the
  protocol with keys of its own.
- Key rotation at nonce 1000. `encrypt_message` uses two nonces per call but
  checks for rotation once. The receive side rotates only in
  `decrypt_length_header`.
- Partial updates before an error. `h` and `ck` are mixed before a MAC
  check, and `rk` is rotated before the header MAC check.
- The agreement of two separately computed key schedules.

The properties that make each part correct:

- Transport: no key/nonce pair is used twice. No nonce reaches 1000. The
  receiver gets exactly a prefix of what the sender sent, whatever the
  network does. On an honest network everything is delivered.
- Handshake: the responder learns the identity of an honest initiator only if
  that initiator really took part. The initiator finishes only with a session
  of the node it dialled. Partners derive mirrored keys. On an honest network
  every handshake completes.

## 2. Modules

| Module | Models |
|---|---|
| `NoiseCrypto` | Symbolic cryptography. Hash, HMAC/HKDF and ECDH are free constructors. An AEAD ciphertext opens only under its key, nonce and ad. The 12-byte nonce and the big-endian length encoding are computed byte by byte. |
| `Transport` | Both peers' `Finished` states with the three transport operations. It also models the caller's framing and disconnect, and a wire with an attacker (`Drop`, `Replay`, `Tamper`, bounded by `MaxFaults`). `RekeyAt` stands for the literal 1000. |
| `SecureChannel` | Abstract specification of one direction: `Send`, in-order `Deliver`, `Close`. `Transport` instantiates it per direction (`ChannelIR`, `ChannelRI`) and checks it as a property, which is the refinement. |
| `Handshake` | Sessions, each one encryptor object: its `step` (the Rust type), `h`, `ck` and directional data. It has one action per handshake method; every check and early return is kept in order. Sent acts form a set. Honest delivery hands an act to its addressee. With `Tampering`, the attacker hands any act to any session, rewritten or not, and runs initiator sessions of its own that claim any identity. |
| `KeyAgreement` | Abstract specification of what the handshake promises the honest sessions: `Dial`, `Accept` (of an act one an initiator sent, or of the attacker's), `Confirm` (an initiator finishes with a session that accepted it), `Complete` (a responder finishes with its honest partner, once that partner finished, or with the attacker) and `Abort`. A key is the set of honest sessions holding it. `Handshake` maps onto it (`KA`): the typestate gives `phase`, whose ephemeral key a session holds gives `partner`, the identity `process_act_three` returned gives `peer`, and the honest sessions sharing a transport key give `key`. `KeyAgreementSafety` checks the refinement. |
| `Connection` | `Handshake` and `Transport` composed. Every session that reaches `Finished` encrypts and decrypts with the `Finished` struct its own handshake built (`TR!EncryptMsg`, `TR!DecryptHeader`, `TR!DecryptMsg`), and writes to the connection it sent its act to. With `ActTampering`, the attacker rewrites and replays acts as in `Handshake`. With `Tampering`, it copies whole header and payload pairs across connections or back to their sender (`Inject`). |
| `TestVectors` | The three test functions, block by block in source order. `MutateActOne/Two/Three` rewrite an act as each bad vector does (version byte, unparsable key, flipped tag, bad `rs`). `pc` follows the calls of a block; `NextBlock` starts one with fresh encryptors. The last block runs the 1005-iteration loop with the literal 1000. |
| `MCTransport`, `MCHandshake`, `MCConnection` | Constants for TLC. |

How the code maps to the model:

- A state variable or record field keeps the name of the Rust field.
- Each action translates one public method, together with the helpers it
  calls.
- An `Err` return is `Fail`, which marks the session `Failed`. In the
  transport, an `Err` sets `conn = "closed"`, because the caller disconnects
  on it.
- `Transport` keeps each method's effect on one `Finished` struct as a pure
  operator (`EncryptMsg`, `DecryptHeader`, `DecryptMsg`), so that
  `Connection` and `TestVectors` reuse it unchanged.
- `Transport` starts from the `Finished` states that `process_act_two` and
  `process_act_three` build from a common `ck`. `Handshake` checks
  separately that partners do reach such states.

## 3. Runs

| Run | Bounds | Checks |
|---|---|---|
| `transport_honest` | RekeyAt 4, 5 messages each way of 5 or 65536 bytes, no faults | `NonceUnique`, `NonceBelowRekey`, `NoSpuriousFailure` (no Bad MAC on an honest wire, so the 65535 panic is what keeps a wrapped u16 header from misframing the next read), `TypeOK` |
| `transport_live` | RekeyAt 2, 3 messages each way, no faults | `EventuallyDelivered` |
| `transport_attack` | RekeyAt 2, 2 messages each way, 2 faults | `ChannelSafety` (refinement of `SecureChannel`) |
| `handshake_honest` | 3 initiators, 3 responder sessions | `EventuallyEstablished` |
| `handshake_attack` | 1 honest initiator, 1 attacker initiator, 2 responder sessions, tampering | `ResponderAuthenticated`, `InitiatorAuthenticated`, `KeyAgreementSafety` |
| `handshake_wide` | 2 honest initiators, 1 attacker initiator, 2 responder sessions, tampering | `KeyAgreementSafety` |
| `connection_honest` | 1 connection, RekeyAt 2, 3 messages each way | `EventuallyConnected` |
| `connection_attack` | 1 honest and 1 attacker initiator, 2 responder sessions, acts as sent, 1 message per session, 1 copied pair | `ConnectionAuthentic` |
| `connection_replay` | 1 honest initiator, 2 responder sessions, acts rewritten and replayed, RekeyAt 2, 2 messages per session, 1 copied pair | `ConnectionAuthentic` |
| `test_vectors` | the literal 1000 and 1005 iterations | `HandshakeVectorsHold`, `LoopAssertionsHold`, `KeySchedule` |

Why the bounds are enough:

- `RekeyAt` is even, like 1000. Parity is what matters, because each message
  advances `sn` by two.
- With RekeyAt 4 and 5 messages, each half rotates twice, and the second
  rotation starts from a rotated `sck`. Two messages share each key, so
  `NonceUnique` also compares nonces across messages under one key.
- Liveness is checked at RekeyAt 2 and 3 messages each way
  (`transport_live`, `connection_honest`). There each half also rotates
  twice, the second time from a rotated `sck`. At RekeyAt 4 and 5 messages
  the liveness check alone took 3 minutes.
- With RekeyAt 2, every message after the first uses a rotated key. Two
  attacker steps are enough to replay or reflect a whole header and payload
  pair.
- Two responder sessions let an act one be replayed onto a second connection.
- The attacker's own initiator session can seal any claimed identity under a
  `temp_k2` it knows. That is the strongest act three an attacker can build.

- `handshake_wide` has two honest connections, so acts of one can be
  spliced into the other, and the attacker's own session beside them. A
  third responder session, for a replayed act one with both honest
  connections up, takes more than 15 minutes.
- `Connection` separates the attacker's two powers: `ActTampering` rewrites
  and replays acts, and `Tampering` copies `encrypt_message` outputs. With
  both powers, the attacker's own session and two responder sessions, the
  run took over 2 minutes here. So the attacks are split over two runs:
  - `connection_attack` has the attacker's session, and so a second
    finished connection to copy from and into.
  - `connection_replay` has act replay onto the second responder session,
    and two messages, so copied chunks also meet rotated keys.
  One copied pair is enough for each cross-connection attack. In
  `connection_attack` these are the attacker's output onto an honest
  connection, and the reverse. In `connection_replay` the copied pair
  meets sessions whose acts were rewritten or replayed. In both runs it is a session's
  output reflected back at it. With two messages, `connection_attack` took
  13 minutes.
- `test_vectors` needs no bound: the tests are deterministic, so the model
  is one behaviour of about 3000 states, with the real literals.

What the new runs show:

- `ConnectionAuthentic`: end to end, a session only delivers a prefix of
  what its handshake partner encrypted. This needs the two halves together;
  neither `Handshake` nor `Transport` alone states it.
- `EventuallyConnected`: keys computed separately by the two sides agree
  through every rotation.
- `HandshakeVectorsHold`: every bad vector fails with the error the spec
  names and no later act is sent, which the tests only check as `is_err()`.
- `KeyAgreementSafety`: the handshake refines `KeyAgreement`. Beyond the
  two authentication invariants, it says when each side may finish
  (a responder never before its honest partner), and that transport keys
  are fresh to each connection: no act one replayed to a second responder
  session, and no connection of the attacker to the node, gives an honest
  session a key that another honest session holds.
- `KeySchedule`: at iteration i the header is sealed under the key of the
  reference chain after i div 500 rotations, at nonces 2(i mod 500) and
  2(i mod 500)+1.

Every property has a mutant in `PROJECT.json`. A mutant is a plausible bug
that TLC must catch under the run's own configuration: a missing reset, a
`>` for `>=`, swapped HKDF arguments, a missing nonce increment, a copy-paste
of a key, a skipped MAC check, nonce 0 for 1, or an error that leaves the
object usable.

Deadlock checking is off in every run. The encryptor has no activity of its
own, so a connection that has disconnected, or whose callers have nothing
left to send, really does stop.

## 4. Fairness

- Transport: each peer's `DecryptLengthHeader` and `DecryptMessage` are
  weakly fair. The caller's read loop reads whatever arrives; the encryptor
  itself never blocks.
- Handshake: `Next` is weakly fair, for honest delivery over TCP.
- Connection: the handshake steps, and each session's `DecryptLengthHeader`
  and `DecryptMessage`, are weakly fair, for the same two reasons.
  `EncryptMessage` is not fair; callers need not send anything.
- The attacker gets no fairness.
- Liveness is checked only in the runs without an attacker.

## 5. Not modelled

- The cryptographic primitives. They are assumed perfect.
- The byte-exact hex values of the test vectors. `TestVectors` keeps their
  control and their non-byte assertions only.
- The `assert!` length checks on acts. They are the caller's contract.
- `u64` overflow of `sn`/`rn`. The counters never exceed 1000.
- Thread safety. Everything is synchronous `&mut self`, so nothing runs
  concurrently.

- Properties that the model's shape makes true are not checked. Handshake's
  `TypeOK` (an `Err` leaves the session `Failed`) restates `Fail`. Since every
  handshake method takes `self` by value, the half-mixed `h`/`ck` before a
  failed MAC can never be reused, and the model drops it. The Connection
  clauses of `TypeOK` follow from the guards of its actions. Only Transport's
  `TypeOK` is checked, once, in `transport_honest`.
- The rotation that `decrypt_length_header` keeps after a Bad MAC (547-555)
  is modelled, but no property observes it: the caller disconnects on every
  `Err`, so that state is never used again.

## 6. Plan

Done:

1. `Transport` with `SecureChannel` refinement.
2. `Handshake`.
3. `Connection`, composing the two.
4. The error taxonomy and the tests' scenarios, in `TestVectors`.
5. The literal 1000 (in `TestVectors`): the spec's "open question" of a
   payload sealed at nonce 1000 cannot happen, because `sn` stays even.
6. `KeyAgreement`, refined by `Handshake` (`KeyAgreementSafety`), and the
   wider attack instance `handshake_wide`.

Next:

7. Liveness of `KeyAgreement`. It is not stated yet. Weak fairness on
   `Complete` would say little, because `Abort` may always pre-empt it. The abstract
   fairness would be false as written, because with honest delivery a
   responder session that no act one reaches stays in `start` forever.

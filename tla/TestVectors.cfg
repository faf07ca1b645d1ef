\* The unit tests of peer_channel_encryptor.rs, one block after the other.
SPECIFICATION Spec
INVARIANTS HandshakeVectorsHold LoopAssertionsHold KeySchedule
\* The tests end after the 1005th iteration.
CHECK_DEADLOCK FALSE

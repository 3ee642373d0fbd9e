----------------------------- MODULE LinkConfig -----------------------------
(* The configuration of a link (src/src/service/link.rs): LinkConfig::validate *)
(* of the strict constructors and the clamps of create_link, which accepts     *)
(* any configuration for compatibility.                                        *)
EXTENDS Integers

CONSTANTS
    MAXIMUM_QUEUE_CAPACITY, MAXIMUM_LINK_READ_BUFFER, MAXIMUM_LINK_DECODER_BUFFER,
    MAX_ENCODED_FRAME_SIZE

ASSUME LimitsAssumption ==
    /\ MAXIMUM_QUEUE_CAPACITY \in Nat \ {0}
    /\ MAXIMUM_LINK_READ_BUFFER \in Nat /\ MAXIMUM_LINK_READ_BUFFER >= 64
    /\ MAX_ENCODED_FRAME_SIZE \in Nat /\ MAX_ENCODED_FRAME_SIZE >= 255
    /\ MAXIMUM_LINK_DECODER_BUFFER \in Nat
    /\ MAXIMUM_LINK_DECODER_BUFFER >= MAX_ENCODED_FRAME_SIZE

(* usize values are naturals, u8 values end at 255; -1: no source node. *)
Config == [queue_capacity : Nat, read_buffer_size : Nat, buffer_capacity : Nat,
           minimum_preambles : 0..255, checksum_source_node : -1..255]

required_decoder_capacity(minimum_preambles) ==
    MAX_ENCODED_FRAME_SIZE - 255 + minimum_preambles

\* LinkConfig::validate
ConfigValid(c) ==
    /\ c.queue_capacity \in 1..MAXIMUM_QUEUE_CAPACITY
    /\ c.read_buffer_size \in 1..MAXIMUM_LINK_READ_BUFFER
    /\ c.minimum_preambles # 0
    /\ c.checksum_source_node <= 63
    /\ c.buffer_capacity <= MAXIMUM_LINK_DECODER_BUFFER
    /\ c.buffer_capacity >= required_decoder_capacity(c.minimum_preambles)

Within(n, low, high) == IF n < low THEN low ELSE IF n > high THEN high ELSE n

\* create_link; the decoder is sized for the preambles as they will be.
Normalized(c) ==
    LET preambles == Within(c.minimum_preambles, 1, 255) IN
    [queue_capacity |-> Within(c.queue_capacity, 1, MAXIMUM_QUEUE_CAPACITY),
     read_buffer_size |-> Within(c.read_buffer_size, 64, MAXIMUM_LINK_READ_BUFFER),
     buffer_capacity |-> Within(c.buffer_capacity, required_decoder_capacity(preambles),
                                MAXIMUM_LINK_DECODER_BUFFER),
     minimum_preambles |-> preambles,
     checksum_source_node |-> IF c.checksum_source_node > 63 THEN -1 ELSE c.checksum_source_node]
=============================================================================

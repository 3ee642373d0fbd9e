------------------------------ MODULE Transfer ------------------------------
(* Block transfer (src/src/service/transfer.rs): a BlockSender cuts a source *)
(* into numbered blocks, a BlockReceiver puts them together.  What carries   *)
(* the blocks is external: it may lose, repeat and reorder them, and the     *)
(* caller may send a block again until it is acknowledged.                   *)
EXTENDS Integers, SequencesExt

CONSTANTS
    Sources,            \* sources to transfer: sequences of bytes
    BlockSizes,
    Limits,             \* the receiver's maximum_bytes
    MAXIMUM_TRANSFER_BYTES,
    SequenceSpace       \* 65536: block numbers are u16

Byte == 0..255

ASSUME TransferTypes ==
    /\ Sources \subseteq Seq(Byte)
    /\ BlockSizes \subseteq Nat /\ Limits \subseteq Nat
    /\ MAXIMUM_TRANSFER_BYTES \in Nat /\ SequenceSpace \in Nat

VARIABLES
    source, sender,     \* BlockSender
    receiver,           \* BlockReceiver
    carried             \* every block sent so far: deliverable at any time again

transferVars == <<source, sender, receiver, carried>>

\* A sender that does not count its blocks.
UncheckedSender(s, size) == size > 0 /\ Len(s) <= MAXIMUM_TRANSFER_BYTES

\* BlockSender::new, where it succeeds (block sizes within 1..251).
NewSender(s, size) ==
    LET length == IF Len(s) = 0 THEN 1 ELSE Len(s) IN
    /\ size > 0 /\ Len(s) <= MAXIMUM_TRANSFER_BYTES
    /\ (length + size - 1) \div size <= SequenceSpace

\* BlockReceiver::new: the limit asked for, lowered to the one of the crate.
ReceiverLimit(limit) ==
    IF limit > MAXIMUM_TRANSFER_BYTES THEN MAXIMUM_TRANSFER_BYTES ELSE limit

TransferInit ==
    \E s \in Sources, size \in BlockSizes, limit \in Limits :
        /\ NewSender(s, size)
        /\ source = s
        /\ sender = [size |-> size, offset |-> 0, sequence |-> 0, complete |-> FALSE]
        /\ receiver = [bytes |-> <<>>, maximum |-> ReceiverLimit(limit), next |-> 0, complete |-> FALSE]
        /\ carried = {}

\* next_block; running out of numbers is an error that yields no block.
NextBlock ==
    /\ ~sender.complete
    /\ LET all == sender.offset + sender.size
           end == IF all > Len(source) THEN Len(source) ELSE all
           last == end = Len(source)
       IN /\ sender' = [sender EXCEPT !.offset = end, !.complete = last,
                          !.sequence = IF last \/ @ + 1 = SequenceSpace THEN @ ELSE @ + 1]
          /\ carried' = IF ~last /\ sender.sequence + 1 = SequenceSpace THEN carried
                        ELSE carried \union
                             {[sequence |-> sender.sequence, last |-> last,
                               data |-> SubSeq(source, sender.offset + 1, end)]}
    /\ UNCHANGED <<source, receiver>>

\* accept: a block is refused without effect, but for the last number of the
\* space in a block that is not the last, whose data stay.
Accept(block) ==
    /\ ~receiver.complete
    /\ block.data # <<>> \/ block.last
    /\ block.sequence = receiver.next
    /\ Len(receiver.bytes) + Len(block.data) <= receiver.maximum
    /\ receiver' = [receiver EXCEPT
         !.bytes = @ \o block.data, !.complete = block.last,
         !.next = IF block.last \/ @ + 1 = SequenceSpace THEN @ ELSE @ + 1]
    /\ UNCHANGED <<source, sender, carried>>

TransferNext == NextBlock \/ \E block \in carried : Accept(block)

TransferSpec == TransferInit /\ [][TransferNext]_transferVars

-----------------------------------------------------------------------------
(* Whatever is lost, repeated or reordered, the receiver holds a prefix of   *)
(* the source within its limit, and all of it when complete; and it is never *)
(* stuck: the block it waits for has been sent or will be, unless that block *)
(* exceeds its limit.                                                        *)
TransferExact ==
    /\ IsPrefix(receiver.bytes, source)
    /\ Len(receiver.bytes) <= receiver.maximum
    /\ receiver.complete => receiver.bytes = source
    /\ ~receiver.complete /\ sender.complete =>
         \E block \in carried : block.sequence = receiver.next
=============================================================================

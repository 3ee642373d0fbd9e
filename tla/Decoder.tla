------------------------------ MODULE Decoder ------------------------------
(* The wire format (src/src/wire/frame.rs, address.rs) and the streaming     *)
(* decoder (wire/decoder.rs), on real bytes: a line delivers encoded frames, *)
(* noise and false headers, cut into fragments anywhere.                     *)
EXTENDS Integers, SequencesExt, Bitwise

CONSTANTS
    Chunks,             \* what the line delivers: byte sequences, frames among them
    TestFrames,         \* frames whose encodings are among the chunks
    Policies,           \* ChecksumPolicy values
    MinimumPreambles, BufferCapacity, MaximumEvents,
    MaxChunks           \* bound: chunks delivered

DecodeLimitsValid ==
    /\ BufferCapacity \in 1..16 * 1024 * 1024 /\ MinimumPreambles > 0
    /\ \A p \in Policies : p.source \in -1..63      \* -1: no checksum source node

ASSUME LimitsValid == DecodeLimitsValid

VARIABLES
    decoder,    \* FrameDecoder: bytes and counters
    policy,
    line,       \* what is left of the chunk under way
    stream,     \* history: all bytes delivered
    reported,   \* history: frames reported, with their place in the stream
    lost        \* history: the last position lost to a limit or to clear, the
                \* bytes cleared; chunks: how many the line has brought

decoderVars == <<decoder, policy, line, stream, reported, lost>>

-----------------------------------------------------------------------------
(* Bytes.                                                                    *)

Preamble == 255
NoRepair == "none"

\* Exclusive or of two bytes, by a table for the halves.
HalfXor == [a \in 0..15, b \in 0..15 |-> a ^^ b]
Xor8(a, b) == 16 * HalfXor[a \div 16, b \div 16] + HalfXor[a % 16, b % 16]

xor_checksum(s) == FoldLeft(Xor8, 0, s)

DelimiterBase == [Request |-> 2, Response |-> 6, Burst |-> 1]

\* FrameKind::from_delimiter: the low five bits but for the physical layer's.
KindsOf(delimiter) ==
    {k \in DOMAIN DelimiterBase : delimiter % 32 \in {DelimiterBase[k], DelimiterBase[k] + 8}}

AddressLength(long) == IF long THEN 5 ELSE 1

\* Address::write_to and read_from.  A long address has 14 bits of type, 24 of
\* id; the first byte also carries the master and, written only, the burst bit.
AddressBytes(address, burst) ==
    LET top == (IF address.primary THEN 128 ELSE 0) + (IF burst THEN 64 ELSE 0) IN
    IF ~address.long THEN <<top + address.node>>
    ELSE <<top + address.type \div 256, address.type % 256, address.id \div 65536,
           (address.id \div 256) % 256, address.id % 256>>

ReadAddress(s, long) ==
    IF ~long THEN [long |-> FALSE, primary |-> s[1] >= 128, node |-> s[1] % 64]
    ELSE [long |-> TRUE, primary |-> s[1] >= 128, type |-> (s[1] % 64) * 256 + s[2],
          id |-> s[3] * 65536 + s[4] * 256 + s[5]]

Delimiter(frame) ==
    DelimiterBase[frame.kind] + (IF frame.psk THEN 8 ELSE 0)
    + (IF frame.address.long THEN 128 ELSE 0) + 32 * Len(frame.expansion)

\* Frame::encode, of a frame with at most 3 expansion and 255 payload bytes.
Encode(frame) ==
    LET body == <<Delimiter(frame)>> \o AddressBytes(frame.address, frame.kind = "Burst")
                \o frame.expansion \o <<frame.command, Len(frame.payload)>> \o frame.payload
    IN [i \in 1..frame.preambles |-> Preamble] \o body \o <<xor_checksum(body)>>

Encoding == [f \in TestFrames |-> Encode(f)]

-----------------------------------------------------------------------------
(* analyze: what the decoder does with the bytes it holds.                   *)

Repairable(delimiter) == policy.delimiter_bit /\ KindsOf(Xor8(delimiter, 16)) # {}

\* find_candidate: the first delimiter after enough preambles, or 0.  (The run
\* of preambles is not cut at 255 here: no bound reaches it.)
PreamblesBefore(s, i) ==
    CHOOSE n \in 0..i - 1 :
        /\ \A j \in i - n..i - 1 : s[j] = Preamble
        /\ n = i - 1 \/ s[i - n - 1] # Preamble

FindCandidate(s) ==
    LET found == {i \in 1..Len(s) : /\ PreamblesBefore(s, i) >= MinimumPreambles
                                    /\ KindsOf(s[i]) # {} \/ Repairable(s[i])}
    IN IF found = {} THEN 0 ELSE CHOOSE i \in found : \A j \in found : i <= j

\* short_address_repair: the checksum is right for the source node's address.
AddressRepair(received, expected, actual) ==
    LET reconstructed == Xor8(Xor8(received, expected), actual) IN
    /\ policy.source >= 0
    /\ reconstructed \div 64 = received \div 64
    /\ reconstructed % 64 = policy.source

RejectWhole(at, checksum) == [step |-> "Rejected", consumed |-> checksum]

\* A frame with a wrong checksum costs its preambles and delimiter only.
RejectedStep(at, checksum) == [step |-> "Rejected", consumed |-> at]

\* The candidate at `at`: its delimiter, as repaired, and where its command is.
HeaderAt(at, delimiter) ==
    [at |-> at, delimiter |-> delimiter, long |-> delimiter >= 128,
     command |-> at + 1 + AddressLength(delimiter >= 128) + ((delimiter \div 32) % 4)]

DecodedFrame(s, h, checksum, repair) ==
    [preambles |-> PreamblesBefore(s, h.at),
     kind |-> CHOOSE k \in KindsOf(h.delimiter) : TRUE,
     psk |-> (h.delimiter \div 8) % 2 = 1,
     address |-> ReadAddress(SubSeq(s, h.at + 1, h.command - 1), h.long),
     expansion |-> SubSeq(s, h.at + 1 + AddressLength(h.long), h.command - 1),
     command |-> s[h.command],
     payload |-> SubSeq(s, h.command + 2, checksum - 1),
     repair |-> repair]

\* A complete candidate, by its checksum; every wrong one is rejected but
\* those a known gateway leaves.
Judge(s, h, checksum, expected) ==
    LET actual == s[checksum]
        bit == policy.delimiter_bit /\ Xor8(expected, 16) = actual
        frame(repair) == [step |-> "Frame", consumed |-> checksum,
                          frame |-> DecodedFrame(s, h, checksum, repair)]
    IN IF bit THEN frame("DelimiterBit")
       ELSE IF expected = actual
       THEN frame(IF s[h.at] = h.delimiter THEN NoRepair ELSE "DelimiterBit")
       ELSE IF ~h.long /\ AddressRepair(s[h.at + 1], expected, actual)
       THEN frame("ShortAddressRewrite")
       ELSE RejectedStep(h.at, checksum)

Measured(s, h) ==
    IF Len(s) <= h.command \/ Len(s) < h.command + 2 + s[h.command + 1]
    THEN [step |-> "NeedMore"]
    ELSE Judge(s, h, h.command + 2 + s[h.command + 1],
               xor_checksum(SubSeq(s, h.at, h.command + 1 + s[h.command + 1])))

AnalyzeAt(s, at, preambles) ==
    IF at = 0 THEN [step |-> "NoCandidate"]
    ELSE IF at - preambles > 1 THEN [step |-> "Discard", consumed |-> at - preambles - 1]
    ELSE Measured(s, HeaderAt(at, IF KindsOf(s[at]) = {} THEN Xor8(s[at], 16) ELSE s[at]))

FromCandidate(s, at) == AnalyzeAt(s, at, PreamblesBefore(s, at))
Analyze(s) == FromCandidate(s, FindCandidate(s))

-----------------------------------------------------------------------------
(* push: append within the capacity, then event after event.                 *)

DropBytes(d, n) == [d EXCEPT !.bytes = SubSeq(@, n + 1, Len(@))]

Discard(d, n) == [DropBytes(d, n) EXCEPT !.discarded = @ + n]

\* retain_possible_preambles: the trailing preambles may begin a frame.
RetainNothing(d) == Discard(d, Len(d.bytes))

RetainPossiblePreambles(d) ==
    Discard(d, Len(d.bytes) - PreamblesBefore(Append(d.bytes, 0), Len(d.bytes) + 1))

\* next_event, and push's loop around it, up to the limit of events.
RECURSIVE Events(_, _)
Continue(d, n, a) ==
    CASE a.step = "NoCandidate" -> RetainPossiblePreambles(d)
      [] a.step = "NeedMore" -> d
      [] a.step \in {"Discard", "Rejected"} ->
           Events(Discard(d, a.consumed), IF a.step = "Rejected" THEN n + 1 ELSE n)
      [] a.step = "Frame" ->
           Events([DropBytes(d, a.consumed) EXCEPT
                     !.frames = Append(@, [frame |-> a.frame, length |-> a.consumed,
                                           left |-> Len(d.bytes) - a.consumed])], n + 1)
Events(d, n) ==
    IF n < MaximumEvents THEN Continue(d, n, Analyze(d.bytes))
    ELSE IF d.bytes = <<>> THEN d
    ELSE [RetainPossiblePreambles(d) EXCEPT !.event_limit_hits = @ + 1]

AppendBounded(d, fragment) ==
    LET over == Len(d.bytes) + Len(fragment) - BufferCapacity IN
    IF over <= 0 THEN [d EXCEPT !.bytes = @ \o fragment]
    ELSE [DropBytes([d EXCEPT !.bytes = @ \o fragment], over) EXCEPT !.overflow = @ + over]

\* `frames` are the Frame events of the push, with the bytes left after each.
Pushed(d, fragment) == Events([AppendBounded(d, fragment) EXCEPT !.frames = <<>>], 0)

NewDecoder ==
    [bytes |-> <<>>, discarded |-> 0, overflow |-> 0, event_limit_hits |-> 0, frames |-> <<>>]

\* The frames of a push that brings the stream to `length` bytes, with the
\* place of each in the stream.
Placed(d, length) ==
    [i \in DOMAIN d.frames |->
       [frame |-> d.frames[i].frame, end |-> length - d.frames[i].left,
        start |-> length - d.frames[i].left - d.frames[i].length + 1]]

DecoderInit ==
    /\ decoder = NewDecoder
    /\ policy \in Policies
    /\ line = <<>> /\ stream = <<>> /\ reported = <<>>
    /\ lost = [upTo |-> 0, cleared |-> 0, chunks |-> 0]

\* The line brings the next chunk.
Transmit(chunk) ==
    /\ line = <<>> /\ lost.chunks < MaxChunks
    /\ line' = chunk
    /\ lost' = [lost EXCEPT !.chunks = @ + 1]
    /\ UNCHANGED <<decoder, policy, stream, reported>>

Push(n) ==
    /\ n \in 1..Len(line)
    /\ stream' = stream \o SubSeq(line, 1, n)
    /\ line' = SubSeq(line, n + 1, Len(line))
    /\ LET d == Pushed(decoder, SubSeq(line, 1, n)) IN
         /\ decoder' = [d EXCEPT !.frames = <<>>]
         /\ reported' = reported \o Placed(d, Len(stream'))
    /\ lost' = IF /\ decoder'.overflow = decoder.overflow
                 /\ decoder'.event_limit_hits = decoder.event_limit_hits
               THEN lost ELSE [lost EXCEPT !.upTo = Len(stream') - Len(decoder'.bytes)]
    /\ UNCHANGED policy

\* clear; the model does it once.
Clear ==
    /\ decoder.bytes # <<>> /\ lost.cleared = 0
    /\ decoder' = [decoder EXCEPT !.bytes = <<>>]
    /\ lost' = [lost EXCEPT !.upTo = Len(stream), !.cleared = @ + Len(decoder.bytes)]
    /\ UNCHANGED <<policy, line, stream, reported>>

DecoderNext ==
    \/ \E chunk \in Chunks : Transmit(chunk)
    \/ \E n \in 1..Len(line) : Push(n)
    \/ Clear

-----------------------------------------------------------------------------
(* What the decoder reports does not depend on how the stream was cut into   *)
(* fragments: it is what one push of the whole stream would report, as long  *)
(* as no limit was met and the tail was not cleared.                         *)
FragmentationIrrelevant ==
    lost.upTo = 0 =>
        LET whole == Pushed(NewDecoder, stream) IN
        whole.overflow = 0 /\ whole.event_limit_hits = 0 =>
            reported = Placed(whole, Len(stream))

(* Every frame the line carries unaltered is reported, as it was sent and    *)
(* not as repaired, whatever precedes it and however it is cut: unless       *)
(* another reported frame overlaps it, its end is still in the buffer behind *)
(* an unfinished candidate, or a limit or clear took some of its bytes.      *)
(* Every byte is accounted for once: in the buffer, which keeps its limit,   *)
(* in a reported frame, counted as discarded or as overflow, or cleared.     *)
NoFrameLost ==
    /\ Len(decoder.bytes) <= BufferCapacity
    /\ Len(stream) = Len(decoder.bytes) + decoder.discarded + decoder.overflow + lost.cleared
                     + FoldLeft(LAMBDA n, e : n + (e.end - e.start + 1), 0, reported)
    /\ \A f \in TestFrames, end \in 1..Len(stream) :
           LET start == end - Len(Encoding[f]) + 1
               Same(e) == e.end = end /\ [e.frame EXCEPT !.preambles = f.preambles] = f
               Overlaps(e) == e.start <= end /\ start <= e.end
           IN (start > lost.upTo /\ SubSeq(stream, start, end) = Encoding[f]) =>
                \/ end > Len(stream) - Len(decoder.bytes)
                \/ \E i \in DOMAIN reported : Same(reported[i])
                \/ \E i \in DOMAIN reported :
                     Overlaps(reported[i]) /\ reported[i].end # end
=============================================================================

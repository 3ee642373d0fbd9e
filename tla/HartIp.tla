------------------------------- MODULE HartIp -------------------------------
(* The HART-IP session (src/src/ip.rs) over a byte stream to a server, used  *)
(* directly by an application or, through IpPacketChannel, by the link       *)
(* runner.  A packet is read in two awaits, header and body, and written in  *)
(* one; the future of an operation may be dropped in any of them.  Bodies    *)
(* are reduced to their length and to the request they answer.  The server   *)
(* is external: it answers each request once, late or not at all, echoes     *)
(* sequence number and message id, and publishes whenever it likes.          *)
EXTENDS Integers, FiniteSets, SequencesExt

CONSTANTS
    SequenceModulus,    \* 2^16: next_sequence is a u16 that wraps
    MaximumPublished, MaximumPublishedBytes, MaximumUnmatched, MaximumBody,
    BodyLengths,        \* lengths of published bodies, the ones too long included
    CancelPoints,       \* where futures may be dropped: "boundary", "write", "read"
    Users,              \* who uses the session: "application", "runner"
    MaxRequests,        \* bound: requests, below SequenceModulus
    MaxPublishes,       \* bound: Publish packets sent by the server
    MaxInbound          \* bound: packets on the stream

ASSUME IpLimits == /\ SequenceModulus \in Nat \ {0, 1}
                   /\ MaxRequests \in 0 .. SequenceModulus - 1

VARIABLES
    ip,         \* IpSession
    op,         \* the operation under way
    inbound,    \* packets on the stream; inHeader: the first one's header is read
    inHeader,
    server,     \* requests the server has and has not answered, publishes sent
    user,       \* who calls, and where the runner stands
    pending,    \* IpPacketChannel::pending, by body
    outcome     \* history: replies to other requests, Publish packets by fate; cut: a
                \* packet was written or read in part; torn: a future was dropped
                \* inside a packet

ipVars == <<ip, op, inbound, inHeader, server, user, pending, outcome>>

Idle == [at |-> "idle"]
IpInit ==
    /\ ip = [next |-> 1, open |-> FALSE, usable |-> TRUE, published |-> <<>>]
    /\ op = Idle
    /\ inbound = <<>> /\ inHeader = FALSE
    /\ server = [asked |-> {}, requests |-> 0, publishes |-> 0]
    /\ user \in [who : Users, at : {"idle"}]
    /\ pending = <<>>
    /\ outcome = [foreign |-> 0, dropped |-> 0, refused |-> 0, taken |-> 0,
                  cut |-> FALSE, torn |-> FALSE]

Wrapped == user.who = "runner" /\ ip.open       \* the session is inside the channel
Bytes(s) == FoldLeft(LAMBDA n, q : n + q.length, 0, s)

-----------------------------------------------------------------------------
(* The server and the stream.                                                *)

Packet(kind, seq, id, request, length) ==
    [kind |-> kind, seq |-> seq, id |-> id, request |-> request, length |-> length]

Answer(r, kind) ==
    /\ ip.usable /\ Len(inbound) < MaxInbound /\ r \in server.asked
    /\ inbound' = Append(inbound, Packet(kind, r.seq, r.id, r.request, 1))
    /\ server' = [server EXCEPT !.asked = @ \ {r}]
    /\ UNCHANGED <<ip, op, inHeader, user, pending, outcome>>

PublishPacket(length) ==
    /\ ip.usable /\ Len(inbound) < MaxInbound /\ server.publishes < MaxPublishes
    /\ inbound' = Append(inbound, Packet("publish", 0, "publish", 0, length))
    /\ server' = [server EXCEPT !.publishes = @ + 1]
    /\ UNCHANGED <<ip, op, inHeader, user, pending, outcome>>

-----------------------------------------------------------------------------
(* send: the sequence number is used up only by a write that completes.      *)

\* open, request, keep_alive, token_passing and close, past their own refusals.
Begin(id) ==
    /\ op = Idle /\ ip.usable
    /\ server.requests < MaxRequests
    /\ (id = "initiate") = ~ip.open
    /\ op' = [at |-> "write", id |-> id, seq |-> ip.next, unmatched |-> 0,
              request |-> server.requests + 1]
    /\ server' = [server EXCEPT !.requests = @ + 1]
    /\ UNCHANGED <<ip, inbound, inHeader, pending, outcome>>

Asked == [seq |-> op.seq, id |-> op.id, request |-> op.request]

WriteKeepsSequence ==
    /\ op.at = "write"
    /\ op' = [op EXCEPT !.at = "read"]
    /\ server' = [server EXCEPT !.asked = @ \union {Asked}]
    /\ UNCHANGED <<ip, inbound, inHeader, user, pending, outcome>>

Write ==
    /\ op.at = "write"
    /\ op' = [op EXCEPT !.at = "read"]
    /\ ip' = [ip EXCEPT !.next = (@ + 1) % SequenceModulus]
    /\ server' = [server EXCEPT !.asked = @ \union {Asked}]
    /\ UNCHANGED <<inbound, inHeader, user, pending, outcome>>

-----------------------------------------------------------------------------
(* receive_unbounded: header, then body; a body over the limit is discarded. *)

ReadHeader ==
    /\ op.at = "read" /\ inbound # <<>> /\ ~inHeader
    /\ inHeader' = TRUE
    /\ UNCHANGED <<ip, op, inbound, server, user, pending, outcome>>

\* retain_published: what is too long is dropped, else the oldest make room.
Room(length) ==
    CHOOSE n \in 0..Len(ip.published) :
        LET kept == SubSeq(ip.published, n + 1, Len(ip.published))
            Fits(s) == Len(s) < MaximumPublished /\ Bytes(s) + length <= MaximumPublishedBytes
        IN /\ n = Len(ip.published) \/ Fits(kept)
           /\ \A m \in 0..n - 1 : ~Fits(SubSeq(ip.published, m + 1, Len(ip.published)))

RetainUncounted(packet) ==
    /\ ip' = [ip EXCEPT !.published =
                 Append(SubSeq(@, Room(packet.length) + 1, Len(@)), packet)]
    /\ UNCHANGED outcome

Retain(packet) ==
    IF MaximumPublished = 0 \/ MaximumPublishedBytes = 0
       \/ packet.length > MaximumPublishedBytes
    THEN /\ outcome' = [outcome EXCEPT !.dropped = @ + 1]
         /\ UNCHANGED ip
    ELSE LET n == Room(packet.length) IN
         /\ outcome' = [outcome EXCEPT !.dropped = @ + n]
         /\ ip' = [ip EXCEPT !.published =
                      Append(SubSeq(@, n + 1, Len(@)), packet)]

\* How an operation ends: in the application, or in the runner's exchange,
\* which takes an error of the channel as the end of the channel.
OpEnds(ok) ==
    /\ op' = Idle
    /\ user' = IF user.at = "idle" THEN user
               ELSE [user EXCEPT !.at = IF ok THEN "receiving" ELSE "failed"]

Matches(packet) == packet.seq = op.seq /\ packet.id = op.id

\* Undecodable, of another version, or longer than the limit.
Refused(packet) == packet.kind = "broken" \/ packet.length > MaximumBody

TakePublish(packet) ==
    /\ packet.kind = "publish" /\ ~Refused(packet)
    /\ Retain(packet)
    /\ UNCHANGED <<op, user, pending>>

TakeUnmatched(packet) ==
    /\ packet.kind # "publish" /\ ~Refused(packet) /\ ~Matches(packet)
    /\ IF op.unmatched + 1 > MaximumUnmatched
       THEN OpEnds(FALSE)
       ELSE op' = [op EXCEPT !.unmatched = @ + 1] /\ UNCHANGED user
    /\ UNCHANGED <<ip, pending, outcome>>

\* ProtocolVersion, MessageType or BodyLimit; of the matching packets, also
\* RemoteStatus and UnexpectedMessageType: the operation fails, the session
\* stays usable.
TakeFailure(packet) ==
    /\ Refused(packet) \/ (packet.kind = "failure" /\ Matches(packet))
    /\ OpEnds(FALSE)
    /\ outcome' = [outcome EXCEPT !.refused = IF packet.kind = "publish" THEN @ + 1 ELSE @]
    /\ UNCHANGED <<ip, pending>>

\* The response; the channel hands over what was published, then the response.
TakeResponse(packet) ==
    /\ packet.kind = "response" /\ ~Refused(packet) /\ Matches(packet)
    /\ OpEnds(TRUE)
    /\ ip' = [ip EXCEPT !.open = (@ \/ op.id = "initiate") /\ op.id # "close",
                        !.published = IF user.at = "sending" THEN <<>> ELSE @]
    /\ pending' = IF user.at = "sending" THEN Append(ip.published, packet) ELSE pending
    /\ outcome' = [outcome EXCEPT
          !.foreign = IF packet.request = op.request THEN @ ELSE @ + 1,
          !.taken = IF user.at = "sending" THEN @ + Len(ip.published) ELSE @]

\* What the bytes of a stream that has lost its framing may look like: packets
\* of every fate.
Garbage ==
    {Packet("response", seq, op.id, 0, 1) : seq \in {op.seq, op.seq + 1}}
    \union {Packet("publish", 0, "publish", 0, n) : n \in BodyLengths}

ReadBody ==
    /\ op.at = "read" /\ inHeader
    /\ inHeader' = FALSE
    /\ inbound' = Tail(inbound)
    /\ \E packet \in IF outcome.cut THEN Garbage ELSE {Head(inbound)} :
         TakePublish(packet) \/ TakeUnmatched(packet)
         \/ TakeFailure(packet) \/ TakeResponse(packet)
    /\ UNCHANGED server

\* The operation has begun a packet, in either direction.
InPacket == op.at = "write" \/ inHeader

\* An I/O error, an impossible length, or the I/O or exchange timeout.
FailStream ==
    /\ op # Idle
    /\ OpEnds(FALSE)
    /\ ip' = [ip EXCEPT !.usable = FALSE]
    /\ inHeader' = FALSE
    /\ outcome' = [outcome EXCEPT !.cut = @ \/ InPacket]
    /\ UNCHANGED <<inbound, server, pending>>

\* The caller drops the future: no code runs, whatever the stream has done.
\* A dropped write has sent nothing, a part of the packet, or (waiting for the
\* flush) all of it; the sequence number is not used up.
CancelOp(sent) ==
    /\ op # Idle
    /\ (IF op.at = "write" THEN "write" ELSE IF inHeader THEN "read" ELSE "boundary")
           \in CancelPoints
    /\ op.at = "read" => sent = "all"
    /\ OpEnds(FALSE)
    /\ inHeader' = FALSE
    /\ outcome' = [outcome EXCEPT !.cut = @ \/ sent = "part" \/ inHeader,
                                  !.torn = @ \/ (InPacket /\ sent # "nothing")]
    /\ server' = IF op.at = "write" /\ sent = "all"
                 THEN [server EXCEPT !.asked = @ \union {Asked}] ELSE server
    /\ UNCHANGED <<ip, inbound, pending>>

-----------------------------------------------------------------------------
(* The callers.                                                              *)

\* The application opens, asks and closes; it wraps an open session only once.
CallSession(id) ==
    /\ ~Wrapped
    /\ Begin(id)
    /\ UNCHANGED user

TakePublished ==
    /\ ~Wrapped /\ op = Idle /\ ip.published # <<>>
    /\ ip' = [ip EXCEPT !.published = Tail(@)]
    /\ outcome' = [outcome EXCEPT !.taken = @ + 1]
    /\ UNCHANGED <<op, inbound, inHeader, server, user, pending>>

\* The runner sends a job through IpPacketChannel::send, which refuses it while
\* bytes of the response before it are left.
ChannelSend ==
    /\ Wrapped /\ user.at = "idle" /\ pending = <<>>
    /\ Begin("pdu")
    /\ user' = [user EXCEPT !.at = "sending"]

ChannelRefuses ==
    /\ Wrapped /\ user.at = "idle" /\ pending # <<>>
    /\ user' = [user EXCEPT !.at = "failed"]
    /\ UNCHANGED <<ip, op, inbound, inHeader, server, pending, outcome>>

\* IpPacketChannel::receive takes the first n pieces of what is pending.
Receives(n) ==
    /\ n \in 1..Len(pending)
    /\ pending' = SubSeq(pending, n + 1, Len(pending))

\* In an exchange the runner is done with the frame that matches its request;
\* with none in all that was pending the channel says Closed.
ChannelReceive(n, matched) ==
    /\ Wrapped /\ user.at = "receiving" /\ Receives(n)
    /\ user' = [user EXCEPT !.at = IF matched THEN "idle" ELSE "receiving"]
    /\ UNCHANGED <<ip, op, inbound, inHeader, server, outcome>>

ChannelClosed ==
    /\ Wrapped /\ user.at = "receiving" /\ pending = <<>>
    /\ user' = [user EXCEPT !.at = "failed"]
    /\ UNCHANGED <<ip, op, inbound, inHeader, server, pending, outcome>>

\* next_job with empty queues listens on the channel: what is left is idle
\* input; with nothing pending the channel says Closed, and the runner ends.
ChannelIdleInput(n) ==
    /\ Wrapped /\ user.at = "idle" /\ Receives(n)
    /\ UNCHANGED <<ip, op, inbound, inHeader, server, user, outcome>>

ChannelIdle ==
    /\ Wrapped /\ user.at = "idle" /\ pending = <<>>
    /\ user' = [user EXCEPT !.at = "stopped"]
    /\ UNCHANGED <<ip, op, inbound, inHeader, server, pending, outcome>>

IpNext ==
    \/ \E r \in server.asked, k \in {"response", "failure", "broken"} :
         Answer(r, k)
    \/ \E n \in BodyLengths : PublishPacket(n)
    \/ \E id \in {"initiate", "close", "pdu"} : CallSession(id)
    \/ Write \/ ReadHeader \/ ReadBody \/ FailStream
    \/ \E sent \in {"nothing", "part", "all"} : CancelOp(sent)
    \/ TakePublished \/ ChannelSend \/ ChannelRefuses \/ ChannelClosed \/ ChannelIdle
    \/ \E n \in 1..Len(pending) :
         ChannelIdleInput(n) \/ \E matched \in BOOLEAN : ChannelReceive(n, matched)

IpSpec == IpInit /\ [][IpNext]_ipVars

-----------------------------------------------------------------------------
(* As long as no future was dropped inside a packet, a request is never      *)
(* answered with the response to another one, although responses to requests *)
(* cancelled between two packets, given up after too many foreign packets or *)
(* failed arrive while later requests wait, and although a request may end   *)
(* at any point of a packet by a timeout or an error.  A future dropped in   *)
(* the flush leaves its number to the next request (send counts it up only   *)
(* afterwards), and one dropped inside a packet leaves a stream without      *)
(* framing: for these sessions nothing is claimed.                           *)
ReplyIsOwn == ~outcome.torn => outcome.foreign = 0

(* "A previous cancelled or failed I/O operation left stream framing         *)
(* uncertain" is what an unusable session says: one that says it is usable,  *)
(* that framed I/O can continue, stands between two packets in both          *)
(* directions whenever no operation is under way, however the last one ended.*)
UsableMeansFramed == ip.usable /\ op = Idle => ~outcome.cut

(* Published packets that come between request and response are all          *)
(* accounted for: kept, handed over, counted as dropped, or the reason that  *)
(* the request they interrupted failed, unless a future was dropped inside a *)
(* packet.  Both limits hold for what is kept, whatever the stream carries.  *)
PublishedAccounted ==
    /\ Len(ip.published) <= MaximumPublished /\ Bytes(ip.published) <= MaximumPublishedBytes
    /\ ip.usable /\ ~outcome.torn =>
         Len(ip.published) + outcome.taken + outcome.dropped + outcome.refused
         + Len(SelectSeq(inbound, LAMBDA q : q.kind = "publish")) = server.publishes

(* The link runner that uses the packet channel goes on while the session    *)
(* is usable and no operation has failed.                                    *)
RunnerGoesOn == user.at = "stopped" => ~ip.usable
=============================================================================

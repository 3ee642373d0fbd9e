------------------------------- MODULE Bench -------------------------------
(* The in-memory bench: a host and an emulated device on the two ends of a   *)
(* MemoryChannel with injected faults (src/src/emulator.rs); the host's end  *)
(* is wrapped in a RecordingChannel, and what was recorded is replayed to    *)
(* the host by a ReplayChannel (trace.rs).  A byte is a symbol that names    *)
(* the frame it belongs to; both ends decode by what Decoder guarantees: a   *)
(* frame arrives when all its bytes come unaltered and in a row.             *)
EXTENDS Integers, FiniteSets, SequencesExt

CONSTANTS
    FrameLength,        \* bytes of a frame
    Capacity,           \* of each direction's mpsc channel, in fragments
    FaultPlans,         \* plans a test may set: [drop, corrupt, noise, echo, size]
    NoFaults,           \* the plan without faults (size 0: no fragment_size)
    Targets,            \* addresses the host asks: "own" is the device's, others not
    TraceLimits,        \* limits a recorder is made with: [maximum_records, maximum_bytes]
    MAXIMUM_TRACE_RECORDS, MAXIMUM_TRACE_BYTES,
    MaxBenchRequests, MaxPlans          \* bounds

VARIABLES
    plan,       \* FaultPlan of each end
    wire,       \* fragments under way to each end
    out,        \* what each end's transmit has still to send: [to, bytes]
    tail,       \* each end's decoder: the bytes of an unfinished frame
    host,       \* the host's channel calls
    trace,      \* Trace
    replay      \* ReplayChannel: steps, pending; and what the host got of it, and
                \* whether it sent before it had read what was pending

benchVars == <<plan, wire, out, tail, host, trace, replay>>

Sides == {"host", "device"}
Peer(e) == IF e = "host" THEN "device" ELSE "host"
FrameOf(kind, n, target) ==
    [i \in 1..FrameLength |-> [kind |-> kind, n |-> n, target |-> target, i |-> i, good |-> TRUE]]
NoiseByte == [kind |-> "noise", n |-> 0, target |-> "none", i |-> 0, good |-> FALSE]

\* Vec::chunks
Cut(s, size) ==
    [i \in 1..(Len(s) + size - 1) \div size |->
       SubSeq(s, (i - 1) * size + 1, IF i * size > Len(s) THEN Len(s) ELSE i * size)]

\* Trace::with_limits clamps what it is given.
WithLimits(limits) ==
    LET Clamped(n, high) == IF n < 1 THEN 1 ELSE IF n > high THEN high ELSE n IN
    [maximum_records |-> Clamped(limits.maximum_records, MAXIMUM_TRACE_RECORDS),
     maximum_bytes |-> Clamped(limits.maximum_bytes, MAXIMUM_TRACE_BYTES)]

BenchInit ==
    /\ plan = [e \in Sides |-> NoFaults]
    /\ wire = [e \in Sides |-> <<>>] /\ out = [e \in Sides |-> <<>>]
    /\ tail = [e \in Sides |-> <<>>]
    /\ host = [at |-> "idle", asked |-> 0, bytes |-> <<>>, plans |-> 0, costs |-> 0,
               foreign |-> {}, faulted |-> {}, answered |-> <<>>, torn |-> FALSE, calls |-> <<>>]
    /\ \E l \in TraceLimits :
         trace = [limits |-> WithLimits(l), records |-> <<>>, dropped |-> 0, dropped_bytes |-> 0]
    /\ replay = [steps |-> <<>>, pending |-> <<>>, got |-> <<>>, early |-> FALSE]

-----------------------------------------------------------------------------
(* MemoryChannel                                                             *)

SetFaults(e, p) ==
    /\ host.plans < MaxPlans /\ host.at = "idle"
    /\ plan' = [plan EXCEPT ![e] = p]
    /\ host' = [host EXCEPT !.plans = @ + 1, !.costs = IF p.drop \/ p.corrupt THEN @ + 1 ELSE @]
    /\ UNCHANGED <<wire, out, tail, trace, replay>>

\* What stays of a plan when a transmission takes its one-shot faults.
KeepDrop(p) == [p EXCEPT !.corrupt = FALSE, !.noise = 0]

TakeOnce(p) == [p EXCEPT !.drop = FALSE, !.corrupt = FALSE, !.noise = 0]

\* transmit, up to its first send: the echo comes before the rest.
Fragments(e, bytes) ==
    LET p == plan[e]
        noisy == [i \in 1..p.noise |-> NoiseByte] \o bytes
        output == IF p.corrupt THEN [noisy EXCEPT ![Len(noisy)].good = FALSE] ELSE noisy
        size == IF p.size = 0 THEN Len(bytes) ELSE p.size
        echo == IF p.echo THEN <<[to |-> e, bytes |-> bytes]>> ELSE <<>>
    IN echo \o IF p.drop THEN <<>>
               ELSE [i \in 1..Len(Cut(output, size)) |->
                       [to |-> Peer(e), bytes |-> Cut(output, size)[i]]]

\* The last byte sent to the end e is inside a frame.
MidFrame(e) ==
    LET all == FoldLeft(LAMBDA s, t : s \o t, tail[e], wire[e])
    IN all # <<>> /\ Last(all).i \in 1..FrameLength - 1

\* One fragment enters the channel when it has room.
SendFragment(e) ==
    /\ out[e] # <<>>
    /\ LET f == Head(out[e]) IN
         /\ Len(wire[f.to]) < Capacity
         /\ wire' = [wire EXCEPT ![f.to] = Append(@, f.bytes)]
         /\ host' = [host EXCEPT !.torn = @ \/ (f.to = e /\ MidFrame(e))]
    /\ out' = [out EXCEPT ![e] = Tail(@)]
    /\ UNCHANGED <<plan, tail, trace, replay>>

\* The frames completed by the bytes `more` at the end e.
Completed(e, more) ==
    LET all == tail[e] \o more
        At(j) == SubSeq(all, j - FrameLength + 1, j)
        ends == SelectSeq([j \in 1..Len(all) |-> j],
                    LAMBDA j : /\ j >= FrameLength /\ j > Len(tail[e])
                               /\ At(j) = FrameOf(all[j].kind, all[j].n, all[j].target))
    IN [i \in DOMAIN ends |-> all[ends[i]]]

Unfinished(e, more) ==
    LET all == tail[e] \o more
        keep == IF Len(all) < FrameLength THEN Len(all) ELSE FrameLength - 1
    IN SubSeq(all, Len(all) - keep + 1, Len(all))

-----------------------------------------------------------------------------
(* EmulatedDevice::run: every good request to its address gets a response.   *)

DeviceReceive ==
    /\ out["device"] = <<>> /\ wire["device"] # <<>>
    /\ LET more == Head(wire["device"])
           requests == SelectSeq(Completed("device", more),
                                 LAMBDA f : f.kind = "request" /\ f.target = "own")
           n == Len(requests)
           response == FrameOf("response", requests[1].n, "own")
       IN /\ wire' = [wire EXCEPT !["device"] = Tail(@)]
          /\ tail' = [tail EXCEPT !["device"] = Unfinished("device", more)]
          /\ IF n = 0 THEN UNCHANGED <<out, plan, host>>
             ELSE /\ out' = [out EXCEPT !["device"] = Fragments("device", response)]
                  /\ plan' = [plan EXCEPT !["device"] = TakeOnce(@)]
                  /\ host' = [host EXCEPT
                       !.faulted = IF plan["device"].drop \/ plan["device"].corrupt
                                   THEN @ \union {requests[1].n} ELSE @]
    /\ UNCHANGED <<trace, replay>>

-----------------------------------------------------------------------------
(* Trace::push and RecordingChannel: a call is recorded when it succeeds.    *)

Size(records) == FoldLeft(LAMBDA k, r : k + Len(r.bytes), 0, records)

\* The eviction that looks at both limits once.
EvictedOnce(records, bytes) ==
    IF \/ Len(records) >= trace.limits.maximum_records
       \/ Size(records) + bytes > trace.limits.maximum_bytes
    THEN 1 ELSE 0

\* How many of the oldest records make room for `bytes` more.
EvictedRecords(records, bytes) ==
    CHOOSE n \in 0..Len(records) :
        LET Fits(k) == /\ Len(records) - k < trace.limits.maximum_records
                       /\ Size(SubSeq(records, k + 1, Len(records))) + bytes
                            <= trace.limits.maximum_bytes
        IN /\ Fits(n) \/ n = Len(records)
           /\ \A k \in 0..n - 1 : ~Fits(k)

PushRecord(record) ==
    IF Len(record.bytes) > trace.limits.maximum_bytes
    THEN [trace EXCEPT !.dropped = @ + 1, !.dropped_bytes = @ + Len(record.bytes)]
    ELSE LET n == EvictedRecords(trace.records, Len(record.bytes)) IN
         [trace EXCEPT !.records = Append(SubSeq(@, n + 1, Len(@)), record),
                       !.dropped = @ + n,
                       !.dropped_bytes = @ + Size(SubSeq(trace.records, 1, n))]

Call(direction, bytes) == [direction |-> direction, bytes |-> bytes]

HostSend(target) ==
    /\ host.at = "idle" /\ host.asked < MaxBenchRequests
    /\ LET n == host.asked + 1
           bytes == FrameOf("request", n, target)
       IN /\ out' = [out EXCEPT !["host"] = Fragments("host", bytes)]
          /\ host' = [host EXCEPT !.at = "sending", !.asked = n, !.bytes = bytes,
               !.foreign = IF target # "own" THEN @ \union {n} ELSE @,
               !.faulted = IF plan["host"].drop \/ plan["host"].corrupt
                           THEN @ \union {n} ELSE @]
    /\ plan' = [plan EXCEPT !["host"] = TakeOnce(@)]
    /\ UNCHANGED <<wire, tail, trace, replay>>

HostSent ==
    /\ host.at = "sending" /\ out["host"] = <<>>
    /\ trace' = PushRecord(Call("Outbound", host.bytes))
    /\ host' = [host EXCEPT !.at = "reading", !.bytes = <<>>,
                            !.calls = Append(@, Call("Outbound", host.bytes))]
    /\ UNCHANGED <<plan, wire, out, tail, replay>>

HostReceive ==
    /\ host.at = "reading" /\ wire["host"] # <<>>
    /\ LET more == Head(wire["host"])
           answers == SelectSeq(Completed("host", more), LAMBDA f : f.kind = "response")
       IN /\ wire' = [wire EXCEPT !["host"] = Tail(@)]
          /\ tail' = [tail EXCEPT !["host"] = Unfinished("host", more)]
          /\ trace' = PushRecord(Call("Inbound", more))
          /\ host' = [host EXCEPT
               !.calls = Append(@, Call("Inbound", more)),
               !.answered = @ \o [i \in DOMAIN answers |-> answers[i].n],
               !.at = IF \E i \in DOMAIN answers : answers[i].n = host.asked
                      THEN "idle" ELSE @]
    /\ UNCHANGED <<plan, out, replay>>

\* The response time is up; what is under way still arrives later.
HostGivesUp ==
    /\ host.at = "reading"
    /\ host' = [host EXCEPT !.at = "idle"]
    /\ UNCHANGED <<plan, wire, out, tail, trace, replay>>

\* The write time is up while a fragment waits for room: the send is dropped
\* unrecorded, and the host closes its end; nothing moves any more.
HostSendTimeout ==
    /\ host.at = "sending" /\ out["host"] # <<>>
    /\ host' = [host EXCEPT !.at = "closed"]
    /\ wire' = [e \in Sides |-> <<>>] /\ out' = [e \in Sides |-> <<>>]
    /\ UNCHANGED <<plan, tail, trace, replay>>

-----------------------------------------------------------------------------
(* ReplayChannel over what was recorded; the host repeats its calls, reading *)
(* with whatever buffer it likes.                                            *)

BeginReplay ==
    /\ host.at = "idle" /\ host.asked = MaxBenchRequests /\ trace.dropped = 0
    /\ \A e \in Sides : wire[e] = <<>> /\ out[e] = <<>>
    /\ host' = [host EXCEPT !.at = "replaying"]
    /\ replay' = [replay EXCEPT !.steps = trace.records]
    /\ UNCHANGED <<plan, wire, out, tail, trace>>

\* send: the next step must expect these bytes, whatever is pending.
ReplaySend ==
    /\ host.at = "replaying" /\ replay.steps # <<>>
    /\ Head(replay.steps).direction = "Outbound"
    /\ replay' = [replay EXCEPT !.steps = Tail(@), !.got = Append(@, Head(replay.steps)),
                                !.early = @ \/ replay.pending # <<>>]
    /\ UNCHANGED <<plan, wire, out, tail, host, trace>>

\* receive: from what is pending, else from the next step, as much as fits.
Given(buffer) ==
    LET bytes == IF replay.pending = <<>> THEN Head(replay.steps).bytes ELSE replay.pending
        n == IF buffer < Len(bytes) THEN buffer ELSE Len(bytes)
    IN [bytes |-> SubSeq(bytes, 1, n), pending |-> SubSeq(bytes, n + 1, Len(bytes))]

ReplayReceive(buffer) ==
    /\ host.at = "replaying"
    /\ \/ replay.pending # <<>>
       \/ replay.steps # <<>> /\ Head(replay.steps).direction = "Inbound"
    /\ LET g == Given(buffer) IN
         replay' = [replay EXCEPT !.steps = IF replay.pending = <<>> THEN Tail(@) ELSE @,
                                  !.pending = g.pending,
                                  !.got = Append(@, Call("Inbound", g.bytes))]
    /\ UNCHANGED <<plan, wire, out, tail, host, trace>>

BenchNext ==
    \/ \E e \in Sides, p \in FaultPlans : SetFaults(e, p)
    \/ \E e \in Sides : SendFragment(e)
    \/ \E target \in Targets : HostSend(target)
    \/ DeviceReceive \/ HostSent \/ HostReceive \/ HostGivesUp \/ HostSendTimeout
    \/ BeginReplay \/ ReplaySend \/ \E buffer \in {1, 2} : ReplayReceive(buffer)

-----------------------------------------------------------------------------
(* Each injected fault costs at most one exchange: a drop or a corruption    *)
(* takes one request, answers come at most once and in the order of the      *)
(* requests, late ones too, and when nothing is under way every request has  *)
(* its answer but those that a fault or a foreign address took.  Noise and   *)
(* fragmentation take none, and an echo takes one only when it is sent into  *)
(* a frame under way.                                                        *)
FaultsCostOnce ==
    LET due == SelectSeq([n \in 1..host.asked |-> n],
                         LAMBDA n : n \notin host.foreign \union host.faulted)
    IN /\ Cardinality(host.faulted) <= host.costs
       /\ \A i, j \in DOMAIN host.answered : i < j => host.answered[i] < host.answered[j]
       /\ /\ host.at \in {"idle", "reading"} /\ ~host.torn
          /\ \A e \in Sides : wire[e] = <<>> /\ out[e] = <<>>
          => host.answered = due

(* The trace holds the newest calls of the host, as many as both limits      *)
(* allow, in order, each outbound one before the inbound ones it caused, and *)
(* counts the records and bytes it dropped; a record too long for the trace  *)
(* is dropped alone.  A complete trace, replayed to a host that makes the    *)
(* same sends and reads with other buffers, takes the same bytes from it and *)
(* gives it the same bytes, between the same sends if it reads what was      *)
(* provided before it sends.                                                 *)
TraceReproduces ==
    LET fitting == SelectSeq(host.calls, LAMBDA c : Len(c.bytes) <= trace.limits.maximum_bytes)
        kept == Len(trace.records)
        Newest(k) == SubSeq(fitting, Len(fitting) - k + 1, Len(fitting))
        Allowed(k) == /\ k <= trace.limits.maximum_records
                      /\ Size(Newest(k)) <= trace.limits.maximum_bytes
        Flat(s) == FoldLeft(LAMBDA b, c : b \o c.bytes, <<>>, s)
        Way(s, d) == Flat(SelectSeq(s, LAMBDA c : c.direction = d))
    IN /\ Allowed(kept) /\ trace.records = Newest(kept)
       /\ kept < Len(fitting) => ~Allowed(kept + 1)
       /\ trace.dropped = Len(host.calls) - kept
       /\ trace.dropped_bytes = Size(host.calls) - Size(trace.records)
       /\ host.at = "replaying" =>
            /\ Way(replay.got, "Outbound") \o Way(replay.steps, "Outbound")
                 = Way(host.calls, "Outbound")
            /\ Way(replay.got, "Inbound") \o replay.pending \o Way(replay.steps, "Inbound")
                 = Way(host.calls, "Inbound")
            /\ ~replay.early =>
                 Flat(replay.got) \o replay.pending \o Flat(replay.steps) = Flat(host.calls)
=============================================================================

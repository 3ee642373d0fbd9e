----------------------------- MODULE Admission -----------------------------
(* What LinkClient does with a request before and after the queues           *)
(* (src/src/service/link.rs, operation/mod.rs): the link's configuration,    *)
(* routing, the command policy, the job, the frame it becomes and the        *)
(* logical command of the reply.  Several tasks share the client: the id of a *)
(* job is taken before, and not together with, its push.  The queues          *)
(* themselves are QueueSet; here a queue is a FIFO with room for so many.     *)
EXTENDS LinkConfig, SequencesExt

CONSTANTS
    Catalog,            \* command numbers the registry knows -> their OperationSafety
    Requests,           \* [command, data (a length), first (the number that the first two
                        \*   bytes of data spell), expansion, retry_safety]
    Clients,            \* tasks that start requests, one after the other
    Queues,             \* configured queue ids; Elsewhere is not one of them
    Elsewhere,
    LinkPolicies,       \* CommandPolicy values
    Routings,           \* CommandRouting values: [to, commands]
    RetryPolicies,      \* [response_timeout, total_timeout, retry_delay]
    PrefixLengths,      \* lengths of transmit prefixes
    Configs,            \* LinkConfig values
    MAXIMUM_RETRY_DURATION, MAXIMUM_TRANSMIT_PREFIX,
    MaxCalls            \* bound

VARIABLES
    settings,   \* command_policy, command_routing, config; made: the link exists
    jobs,       \* the jobs of each queue
    hand,       \* the job each client has made and not pushed, with its queue
    counters,   \* next_id, denied
    calls,      \* how many calls were made
    frames      \* frames the runner sent, each with the job it carries

admissionVars == <<settings, jobs, hand, counters, calls, frames>>

Unknown == "unknown"
Empty == [queue |-> Elsewhere]

-----------------------------------------------------------------------------
(* Creating the link                                                         *)

AdmissionInit ==
    /\ settings \in [policy : LinkPolicies, routing : Routings, config : Configs, made : {FALSE}]
    /\ jobs = [q \in Queues |-> <<>>] /\ hand = [c \in Clients |-> Empty]
    /\ counters = [next_id |-> 0, denied |-> 0]
    /\ calls = 0 /\ frames = <<>>

\* try_create_link and LinkBuilder::build refuse an invalid configuration.
TryCreateLink ==
    /\ ~settings.made /\ ConfigValid(settings.config)
    /\ settings' = [settings EXCEPT !.made = TRUE]
    /\ UNCHANGED <<jobs, hand, counters, calls, frames>>

CreateLink ==
    /\ ~settings.made
    /\ settings' = [settings EXCEPT !.made = TRUE, !.config = Normalized(@)]
    /\ UNCHANGED <<jobs, hand, counters, calls, frames>>

-----------------------------------------------------------------------------
(* Admission                                                                 *)

catalog_safety(request) ==
    IF request.command \in DOMAIN Catalog THEN Catalog[request.command] ELSE Unknown

resolved_safety(request) ==
    IF request.retry_safety # Unknown THEN request.retry_safety
    ELSE IF catalog_safety(request) = Unknown THEN "Action" ELSE catalog_safety(request)

Context(request, queue) ==
    [command |-> request.command, safety |-> resolved_safety(request),
     catalog_safety |-> catalog_safety(request), queue |-> queue]

RECURSIVE Admits(_, _)
Admits(policy, context) ==
    CASE policy.kind = "allow-all" -> TRUE
      [] policy.kind = "read-only" -> context.catalog_safety = "ReadOnly"
      [] policy.kind = "retry-safe" -> context.catalog_safety \in {"ReadOnly", "IdempotentWrite"}
      [] policy.kind = "allow-list" -> context.command \in policy.commands
      [] policy.kind = "deny-list" -> context.command \notin policy.commands
      [] policy.kind = "queue-allow-list" ->
             context.queue # policy.queue \/ context.command \in policy.commands
      [] policy.kind = "and" -> Admits(policy.left, context) /\ Admits(policy.right, context)
      [] policy.kind = "or" -> Admits(policy.left, context) \/ Admits(policy.right, context)

Route(context) ==
    IF context.command \in settings.routing.commands THEN settings.routing.to ELSE context.queue

is_expanded(command) == command > 255

RequestValid(request) ==
    /\ request.data + (IF is_expanded(request.command) THEN 2 ELSE 0) <= 255
    /\ request.expansion <= 3

validate_runtime(p) ==
    /\ p.response_timeout \in 1..MAXIMUM_RETRY_DURATION
    /\ p.total_timeout \in 1..MAXIMUM_RETRY_DURATION
    /\ p.retry_delay <= MAXIMUM_RETRY_DURATION

\* The queue the policy is asked about: not the one the caller named.
AsRequested(requested, queue) == requested

Effective(requested, queue) == queue

\* The outcome of resolve_queue and make_job, in the order of their tests.
Verdict(request, requested, retry, prefix) ==
    LET queue == Route(Context(request, requested)) IN
    CASE requested \notin Queues -> "UnknownQueue"
      [] requested \in Queues /\ queue \notin Queues -> "UnknownQueue"
      [] OTHER ->
         IF ~validate_runtime(retry) THEN "RetryPolicy"
         ELSE IF ~RequestValid(request) THEN "Operation"
         ELSE IF ~Admits(settings.policy, Context(request, Effective(requested, queue)))
              THEN "CommandDenied"
         ELSE IF prefix > MAXIMUM_TRANSMIT_PREFIX THEN "TransmitPrefix"
         ELSE "Made"

MakeJob(c, request, requested, retry, prefix) ==
    /\ settings.made /\ hand[c] = Empty
    /\ calls < MaxCalls /\ calls' = calls + 1
    /\ LET verdict == Verdict(request, requested, retry, prefix)
           queue == Route(Context(request, requested))
           id == counters.next_id + 1
       IN IF verdict = "Made"
          THEN /\ counters' = [counters EXCEPT !.next_id = id]
               /\ hand' = [hand EXCEPT ![c] = [queue |-> queue, job |->
                                [id |-> id, request |-> request, client |-> c]]]
          ELSE /\ counters' = [counters EXCEPT
                      !.denied = IF verdict = "CommandDenied" THEN @ + 1 ELSE @]
               /\ UNCHANGED hand
    /\ UNCHANGED <<settings, jobs, frames>>

HasRoom(q) == Len(jobs[q]) < settings.config.queue_capacity

PushJob(c) ==
    /\ hand[c] # Empty /\ HasRoom(hand[c].queue)
    /\ jobs' = [jobs EXCEPT ![hand[c].queue] = Append(@, hand[c].job)]
    /\ hand' = [hand EXCEPT ![c] = Empty]
    /\ UNCHANGED <<settings, counters, calls, frames>>

\* try_push finds no room, or push waits for it until the deadline.
PushFails(c) ==
    /\ hand[c] # Empty /\ ~HasRoom(hand[c].queue)
    /\ hand' = [hand EXCEPT ![c] = Empty]
    /\ UNCHANGED <<settings, jobs, counters, calls, frames>>

-----------------------------------------------------------------------------
(* The frame of a request and the command of a reply                         *)

BigEndian(n) == <<n \div 256, n % 256>>
FromBigEndian(bytes) == bytes[1] * 256 + bytes[2]

\* Request::to_frame; the payload is its first two bytes and its length.
ToFrame(request) ==
    IF is_expanded(request.command)
    THEN [wire_command |-> 31, head |-> BigEndian(request.command), length |-> request.data + 2]
    ELSE [wire_command |-> request.command, head |-> BigEndian(request.first),
          length |-> request.data]

\* The command that the runner expects a reply to name.
logical_command(frame) ==
    IF frame.wire_command = 31 /\ frame.length >= 2 THEN FromBigEndian(frame.head)
    ELSE frame.wire_command

\* The device answers on the same wire command with the same payload, status
\* bytes first.
ReplyFrame(frame) == [frame EXCEPT !.head = <<0, 0>> \o @, !.length = @ + 2]

\* DeviceReply::from_frame
TooShort == -1
ReplyCommand(frame) ==
    IF frame.wire_command # 31 THEN frame.wire_command
    ELSE IF frame.length < 4 THEN TooShort ELSE FromBigEndian(SubSeq(frame.head, 3, 4))

\* The runner takes the oldest job of a queue and sends its frame.
SendRequest(q) ==
    /\ jobs[q] # <<>>
    /\ frames' = Append(frames, [frame |-> ToFrame(Head(jobs[q]).request),
                                 job |-> Head(jobs[q]), queue |-> q])
    /\ jobs' = [jobs EXCEPT ![q] = Tail(@)]
    /\ UNCHANGED <<settings, hand, counters, calls>>

AdmissionNext ==
    \/ TryCreateLink \/ CreateLink
    \/ \E c \in Clients, r \in Requests, q \in Queues \union {Elsewhere}, p \in RetryPolicies,
          n \in PrefixLengths : MakeJob(c, r, q, p, n)
    \/ \E c \in Clients : PushJob(c) \/ PushFails(c)
    \/ \E q \in Queues : SendRequest(q)

-----------------------------------------------------------------------------
(* Whatever the routing, the declared retry safety and the mix of calls,     *)
(* every job that waits or was sent is one the policy admits in the very     *)
(* queue that holds it, judged by the registry and not by the caller's       *)
(* declaration.  Each job has an id of its own, however the clients' calls   *)
(* interleave; along a queue the ids of one client grow, while those of two  *)
(* clients need not.  What is sent fits the one-byte length field, the       *)
(* runner expects the reply to name the command that was judged, standard or *)
(* expanded, and a reply that echoes the payload does so.  The exception is  *)
(* a request numbered 31, which carries an expanded number in its data       *)
(* itself: its reply, if long enough to name a command, names that one.      *)
AdmissionSound ==
    LET Sent(q) == SelectSeq(frames, LAMBDA f : f.queue = q)
        All(q) == [i \in DOMAIN Sent(q) |-> Sent(q)[i].job] \o jobs[q]
        Registry(r) == [r EXCEPT !.retry_safety = Unknown]
        held == {hand[c].job : c \in {b \in Clients : hand[b] # Empty}}
        Ids(q) == {j.id : j \in ToSet(All(q))}
    IN /\ \A q \in Queues : \A i \in DOMAIN All(q) :
            /\ Admits(settings.policy, Context(Registry(All(q)[i].request), q))
            /\ All(q)[i].id \in 1..counters.next_id \ {j.id : j \in held}
            /\ \A j \in DOMAIN All(q) : i < j =>
                 IF All(q)[i].client = All(q)[j].client THEN All(q)[i].id < All(q)[j].id
                 ELSE All(q)[i].id # All(q)[j].id
       /\ \A p, q \in Queues : p # q => Ids(p) \intersect Ids(q) = {}
       /\ \A i \in DOMAIN frames :
            LET frame == frames[i].frame
                named == ReplyCommand(ReplyFrame(frame))
            IN /\ frame.length <= 255 /\ frame.wire_command \in 0..255
               /\ named \in {logical_command(frame), TooShort}
               /\ frames[i].job.request.command # 31 => named = frames[i].job.request.command
=============================================================================

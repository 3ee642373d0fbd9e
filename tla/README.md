# HartLink in TLA+

HartLink is a HART field-device library in Rust. Its heart is the *link*: many
client tasks put requests into a bounded set of queues, and one runner task
takes them out by priority, exchanges them with devices on a slow, lossy
half-duplex line, and answers the callers. Around the link stand components
with state of their own: health monitor, Burst hub, HART-IP session, stream
decoder, discovery, block transfer, snapshots and plans, the mesh manager,
device profiles, and a bench with emulator and traces. This directory models
them, checks the models with TLC and proves part of what it checks with TLAPS.

Source paths are relative to the crate (`service/link.rs` is
`src/src/service/link.rs` of the repository).

## The system's parts

| Part | What is hard about it | Modules |
|---|---|---|
| Scheduling decision (`service/queue_set.rs` 488-556) | quotas changed under the cursor, one cursor for all strict ranks | `QueueSchedule`, `Scheduler` |
| Queue set (`service/queue_set.rs`) | several atomics without a common lock, a single wakeup permit, closing during a push | `QueueSet` |
| Link client and runner (`service/link.rs`) | cancellation, deadlines, channel failure, an aborted task, shared replies | `LinkRunner`, `LinkService`, `LinkRefinement` |
| Exchange (`service/link.rs` 1692-1994) | late and lost replies without transaction identifier, retry of actions, Burst frames in between | `Exchange` |
| Link configuration, routing, command policy, jobs and frames (`service/link.rs`, `catalog.rs`, `operation/mod.rs`) | the policy must judge the queue and the command that are really used | `LinkConfig`, `Admission` |
| Health monitor (`service/health.rs`) | results recorded in any order, two attempts that are one operation | `Health` |
| Burst hub (`service/burst.rs`) | duplicate suppression against back pressure, eviction | `BurstHub` |
| HART-IP session and packet channel (`ip.rs`) | packets read in two awaits, late responses, limits | `HartIp` |
| Frames, addresses, stream decoder (`wire/`) | fragments, false headers, repairs, a bounded buffer | `Decoder` |
| Discovery and line profile (`service/discovery.rs`, `profile.rs`) | hints that are wrong, passes, fallbacks | `Discovery` |
| Block transfer (`service/transfer.rs`) | the last block number, repeated and reordered blocks | `Transfer` |
| Sessions, snapshots, plans, recovery (`service/`) | a device swapped between two requests | `Procedures` |
| Mesh manager (`mesh/`) | reuse of names, replay window, several maps in step | `Mesh` |
| Emulator, trace and replay (`emulator.rs`, `trace.rs`) | shared fault plan, two limits of a recorder | `Bench` |
| Profiles, packages, schemas, text (`device/`, `package.rs`, `operation/codec.rs`, `operation/text.rs`) | an import that fails half-way, layouts by exact revision | `Records`, `Profiles` |

Clients and runner share only the queue set. The runner owns decoder and
channel. A client sees a job again only through its one-shot reply channel.
The hub gets Burst frames from the runner, during an exchange and when idle.
Health monitor, discovery, snapshots, plans and recovery are callers of the
link: to them an exchange is a call that ends with a reply or an error, and
their models let it end either way.

## The link

`QueueSchedule` holds the decision as operators: which slot is next, given
priorities, what the slots show, and the cursor. Two modules use it.

`Scheduler` applies it in one step per decision to slots with arrivals and
reconfiguration, and asks who is served how often. `waiting[s]` is the length
of the deque; `passed[s][t]` is a ghost that counts how often `t` was served
while its peer `s` was waiting.

`QueueSet` takes everything apart into the steps other threads can observe.

| Variable | Code |
|---|---|
| `priority`, `queued` | the atomics of a slot; `queued` wraps at `Word` |
| `permits`, `held` | semaphore, and the jobs that own a permit |
| `entries` | the deque of a slot |
| `input_closed`, `runner_closed`, `notify` | flags, and the stored permit of `Notify` |
| `push[j]` | position of the push of job `j`: `acquire`, `finish`, `append`, `count`, `notify`, then `accepted` or an error |
| `rpc`, `hand`, `back`, `leader`, `followers`, `sweep` | position of the runner and the entries it holds |
| `woken` | `notify_waiters` reached the `Notified` the runner has created |
| `cursor`, `rank`, `look` | the decision in progress |
| `ticket`, `ready`, `disturbed` | ghosts: append order; slots ready when a decision began; something was in flux |

`StartPush`, `Acquire` / `GiveUp`, `FinishPush`, `PushBack`, `CountPush` and
`NotifyPush` are the lines of `push` and `finish_push`; `ScanRank`,
`PopStrict` and `PopWeighted` look at one slot per step; `ReleasePermit` and
`Decrement` are the two halves of `finish_entry`. The runner's other steps
follow `LinkRunner::run` but leave open what depends on the job. Three groups
of calls are one step because no other thread can tell: `pop_from` and
`push_front` of a candidate, the `push_front` calls of `requeue_followers`
(clients only append behind), and `close_runner` (a push that slips between
the flag and the semaphore fails its second check). One small reading is
merged: the last branch of `pop_weighted` loads the priority twice and the
model once.

`LinkRunner` EXTENDS `QueueSet`. Each of its runner actions is one of
`QueueSet`'s with the guard the code has and the effect on answers and
counters. `answer[j]` is what the caller gets, `by[j]` whose exchange answered
it, `led[j]` counts exchanges. Here an exchange is one step with any outcome.

`LinkService` is the abstract link: requests arrive in queues, the oldest
unanswered one of a queue is the next of that queue to get a result, a result
is final, a caller that left lets its request be cancelled, and a service that
is down serves nothing. `LinkRefinement` maps the arrival to the append of
`finish_push`, the result to `answer`, and the service is up until
`close_runner` or the loss of the task; `ImplementsService` is the abstract
specification as a property of the detailed one.

`Exchange` opens the step of an exchange: discrete time, the retry loop, the
device and the line. `air` holds replies with the time they are due, `inbox`
the frames the channel has received. A receive hands over any prefix of the
inbox, as bytes may be grouped in any way. The runner is prompt: time passes
only while it waits. The ghost `executed` counts what the device did,
`unanswered` remembers a timeout with no drain after it.

The device and the line are not in the repository. They are modelled as the
code meets them: a request or reply may be lost, a reply comes within
`Latency` or never, a device may be busy or ask for a delayed-response poll,
and a Burst frame may come at any time.

## The components around the link

Each of these modules has state, one action per operation, and the outside
world as a nondeterministic partner.

- `LinkConfig` and `Admission`: `LinkConfig::validate`, the clamps of
  `create_link`, and `LinkClient`'s way from a request to a queued job:
  routing, the safety class of the registry, the policy and its combinators,
  limits, the frame that is sent, and the logical command of the reply. Tasks
  share the client: `MakeJob` takes the id and `PushJob` appends later, so jobs
  of two tasks may overtake each other (`hand` is what is between the two).
- `Health`: calls and probes of one managed session. `HealthState` changes
  under a mutex that is released while an exchange is under way, so starting a
  call and recording its result are separate steps, and calls may be dropped
  between them. `granted` adds up the transmissions that the attempts of a call
  may make: both have the caller's Busy retries and delayed-response polls in
  full, as the two policies are copies of the caller's, and only the transport
  retries and the time are shared.
- `BurstHub`: `publish`, `subscribe`, drop, `reset_key` and `reset_all` are
  steps under the hub's mutex; `receive` is outside it. The ghosts say what a
  subscriber saw and when a payload was last offered.
- `HartIp`: a packet is written in one await and read in two. `op` is the
  operation under way, `inHeader` says that a header was read and its body not
  yet. The server answers late or not at all and publishes at any time. A
  future may be dropped between packets, inside a read or inside a write
  (`CancelPoints`). `outcome.cut` says that a packet was written or read in part;
  from then on a read yields any packet (`Garbage`). `outcome.torn` says that a
  future was dropped inside a packet, the flush of a written one included, after
  which its sequence number is used again. Under the runner the channel hands
  over any part of what is pending, and the runner stops reading at the frame
  that matches.
- `Decoder`: frames and addresses are encoded to real bytes with their
  checksum; the line delivers them whole, torn or false in chunks cut anywhere;
  `Events` is the loop over the buffer with resynchronisation and repair.
- `Discovery`: the scan over modules, addresses and passes with hints, the
  conservative fallback, address timings and the retry policy of each probe.
- `Transfer`: sender and receiver, and a carrier that keeps every block ever
  sent and delivers any of them again.
- `Procedures`: `identify`, `capture_snapshot`, `Plan::execute` and
  `reconcile_devices`, one request per step, while devices are swapped. Devices
  differ in manufacturer, type, serial number and revision; the unique address
  has the type and the serial number. Recovery has no property of its own: its
  report is the comparison that `same_device` makes (manufacturer, type and
  serial number), and no document says more.
- `Mesh`: keys are allowed and revoked, devices join, report neighbours, are
  deactivated and removed, cells are scheduled. The replay window is the set of
  its bits, shifted as the code shifts the word. `graph_mut` hands the whole
  graph to the application; of what can be done with it the model has link
  reports, deactivation and removal, and no nodes with addresses of the
  application's choice.
- `Bench`: a host and an emulated device at the ends of a `MemoryChannel` with
  a fault plan, the host behind a `RecordingChannel`; the record is then
  replayed. A byte is a symbol that names its frame, which is what the decoder
  property `NoFrameLost` allows.
- `Records` and `Profiles`: byte order, packed and Latin-1 text, schemas and
  decoding on real bytes; the catalogue and the import of a package into it,
  entry by entry; replies read with the profile of the device's revision.

They share no state with each other, so `MCComponents` puts them, with
`Scheduler`, side by side in one specification: `part` is chosen in `Init` and
only that component moves; the others keep one initial state. Every behaviour
of one component is a behaviour of this specification, and nothing else is.
The other `MC...` modules name constant values for TLC.

## What the runs check

| Run | Instance | Shows |
|---|---|---|
| `queue_shared` | two clients of a strict queue with one place, one of a weighted queue that may become strict | `CapacityRespected`; `CounterAccurate`: up to wrapping, the counter is the number of entries less the pushes not yet counted; `NoLostWakeup`: the runner never sleeps on accepted work without a wakeup on its way; `StrictFirstWhenQuiet`: no ready slot is passed over for a lower one, unless a push is uncounted or a priority is stored meanwhile |
| `link_safety` | two equal reads and another request; callers give up, deadlines pass, the channel fails, the runner is aborted | `ImplementsService`: no request lost in a queue, answered twice or out of turn. `CountersAddUp`, `FailureStaysWithLeader`, `CoalescedReplyFits`, `ServedUntilClosed` |
| `link_progress` | two reads, working channel | `EveryRequestEnds`, `RunnerStops` |
| `exchange_actions` | three equal actions, late and lost replies | `ActionOnce`: no action is carried out twice. `ActionReplyIsOwn`: no late reply passes for the answer to a later action |
| `exchange_budgets` | one read with all three budgets and a Burst frame | `BudgetsBoundSends`, `DeadlineKept`, `ExchangeEnds` |
| `components` | the parts of the previous section and the scheduler | the table below |

| Part | Property of `components` |
|---|---|
| scheduler | `WeightedShare`: a decision finds work if there is any, and a waiting weighted slot is passed over by another at most that one's weight of times |
| admission | `AdmissionSound`: what is queued and sent was admitted for that very queue by the registry's class; ids are unique, and grow along a queue for one task; the runner expects the reply to name the command that was judged, except for a request numbered 31, whose data names another |
| health | `CooldownExact`: calls are refused exactly while the latest results say so. `AdaptiveIsOneCall`: both attempts of a read count once and share transport retries and time; the budgets for Busy and delayed responses are granted twice at most |
| hub | `CurrentView`: a subscriber that missed nothing holds the current value. `SuppressedBriefly`: nothing is withheld longer than a window. `HubBounded` |
| HART-IP | `ReplyIsOwn`: until a future is dropped inside a packet, no request is answered with the response to another. `PublishedAccounted`: no publication is lost without being counted |
| decoder | `FragmentationIrrelevant`: events do not depend on the cuts. `NoFrameLost`: every unaltered frame is reported and every byte accounted for |
| discovery | `DiscoveryThorough`: no hint makes an address go unasked, and the report adds up |
| transfer | `TransferExact`: what is received is a prefix of the source and all of it when complete, and the transfer is never stuck |
| procedures | `SnapshotOfOneDevice`: every value comes from the device type and serial number that was identified. `PlanFailsFast`: nothing is sent after a step that failed, missed its expectation or has a communication error, whatever codes were listed |
| bench | `FaultsCostOnce`: a one-shot fault costs one exchange. `TraceReproduces`: the trace holds the newest calls within both limits, and a complete one replays, in each direction in order |
| mesh | `ReplayWindowExact`, `MeshConsistent`, `RoutesMinimal` |
| profiles | `PackageAtomic`: an import is all or nothing. `RecordExact`: what is read is what the device holds |

Six runs end in a counterexample. Each states what the documentation says.

| Run | Statement | What the code does |
|---|---|---|
| `scheduler_ranks` | "Strict queues of equal rank rotate fairly." | `strict_index` is shared by all ranks. With ranks 10, 10, 20, each service of rank 20 moves it to the same place, and one of the equal slots is passed over repeatedly |
| `link_lost` | "End-to-end deadline from enqueue to result." | a push that has passed `runner_closed` appends after the final sweep: it is accepted and, while a client keeps the queues alive, never answered |
| `exchange_undrained` | "Sets the input-drain period after a response timeout" | an attempt that times out at the deadline, with a retry left, is reported as `Deadline`, and the next exchange begins without a drain |
| `exchange_bursts` | "Routes unsolicited Burst frames through the supplied hub." | events decoded behind the matching reply in one read are dropped |
| `ip_idle` | "Adapts direct-packet bodies to the shared byte-link runner." | with nothing pending the packet channel answers `Closed`, which ends a runner that listens to the idle line |
| `ip_cut` | "A previous cancelled or failed I/O operation left stream framing uncertain." | a future dropped after the header of a packet, or inside a write, runs no code: `usable` stays set, and the next operation begins in the middle of a packet |

Three more observations. An entry can be popped and counted down before its
push has counted it; the counter then hides another accepted entry from the
strict scan and weighted work goes first. Hence the condition in
`StrictFirstWhenQuiet`. What `ip_cut` shows, and the sequence number that is used
again after a dropped flush, are why `ReplyIsOwn` claims nothing once
`outcome.torn` holds: there the response to the dropped request can answer the
next one. And `decode_packed_ascii` (`device/schema.rs` 372) adds 0x20 to every
six-bit code, while `unpack_text` (`operation/text.rs` 265) maps the codes below
0x20 to 0x40 and above: a packed field of a profile ("Packed six-bit HART text.",
`device/schema.rs` 64) reads as other characters than the device packed.
`Records` models both as they are, and `RecordExact` leaves packed fields of
profiles out.

Each property of a passing run has a mutant: a definition changed as a
plausible slip would change it, under which TLC finds the property violated.
The changed forms stand before the definitions they replace.

## Bounds

- Three jobs are the least number for one leader, one follower and one client
  that still pushes; a queue with one or two places makes one of them wait.
- `Word = 4` makes a counter of at most three entries wrap below zero as a
  `usize` does, and leaves every reachable value distinct.
- Two slots for `QueueSet`: one to be passed over and one to be served. Four
  for `Scheduler`: two peers of each kind.
- `link_safety` lets one job, the possible follower, be abandoned and expire.
  It has one queue: coalescing never leaves a queue.
- `Exchange`: times are small but in the order that matters (`retry_delay` <
  `response_timeout` < `total_timeout`); `StartExchange` lets any part of the
  total timeout be spent in the queue, so every meeting of a deadline with a
  timeout happens. `MaxBursts` bounds Burst frames, `Jobs` the jobs.
- `Health`: four calls (`Threshold` is two, so a cooldown is opened, met and
  cleared by a late result), time up to `MaxTime`.
- `BurstHub`: two keys and one tracked fingerprint, so each publication may
  evict; capacities 0 (refused), 1 and 2; `MaxPublished` publications.
- `HartIp`: three requests and two publications, bodies below and above the
  limit, one unmatched packet allowed, at most `MaxInbound` packets unread.
  `components` drops futures between packets and in writes that sent nothing, a
  part or all of a packet; `ip_cut` inside reads too. `IpLimits` keeps the
  requests below `SequenceModulus`: a response held back for a whole turn of the
  16-bit number would be taken for a later one, and nothing in the protocol
  prevents it.
- `Decoder`: streams of `MaxChunks` chunks cut at every byte; the buffer is
  shorter than most pairs of frames, so it overflows.
- `Discovery`: two modules, the second behind shifted addresses, two passes, a
  hint below and one above the conservative preambles.
- `Transfer`: three block numbers and sources of up to five bytes, so the
  number space and both limits run out.
- `Procedures`: three devices of which two differ in type only and two in
  serial number only, at two addresses, two swaps; replies with the codes 0, 8,
  64 and 192, the last two listed by a plan and 192 a communication error.
- `Bench`: two requests, two fault plans one after the other, a trace with
  limits that two exchanges exceed.
- `Mesh`: three bounds, each generous to one part (`joins`, `reports`,
  `cells`); nicknames wrap at 4, the window is 2 wide and counters go beyond.
- `Admission`: two tasks and two calls; one command of each safety class,
  expanded and overlong ones, command 31 with data of one and of two bytes;
  configurations on both sides of each limit, scaled down with the limits.
- `Profiles`: catalogues of at most two profiles, packages that succeed
  and packages that fail at each kind of entry and limit, two imports, and
  firmware of three revisions with every kind of field between them.

Deadlock checking is off in all runs but `scheduler_ranks`: the runner stops
or is aborted, jobs, imports and other bounded inputs are used up, and scans,
plans and transfers come to an end.

## Fairness

- `LinkRunner`: weak fairness of the runner's steps, of every push past its
  permit, and of the notification after a stored priority. These are tasks and
  threads that are inside a function without a wait. The runner's step
  includes the end of an exchange, which `ExchangeEnds` supports. Nothing is
  assumed of clients, of the idle line or of the last drop.
- `Exchange`: time passes, what is due arrives, timers and received bytes wake
  the runner. No channel is assumed to take a frame early, to fail or to answer.

The other components are driven by their callers; what must come in the end is
stated for them as a bound on state: `WeightedShare` bounds how often a slot is
passed over, `SuppressedBriefly` how long a value is withheld, and
`TransferExact` says that the next block is always at hand.

## What is proved

For all constants that meet the named assumptions of the modules (any number
of clients, slots, capacities, jobs, budgets and times):

Queue set (`QueueSetProofs`, `QueueSetOrderProofs`, `QueueSetWakeProofs`):

- `TypeCorrect` and `CapacityIsRespected`. The second rests on `PermitInv`
  (permits left plus permits held make the capacity of a slot) and `PlaceInv`:
  what is in a deque, among the followers, or popped and not yet released is an
  entry that owns a permit of that slot and whose push has appended it, it is
  at one place only, and a push owns its permit from `Acquire` on. `PermitInv`
  alone bounds permits and not entries. Given both, the jobs that occupy a slot
  are among the jobs that hold its permits, and counting them gives the bound.
  That an entry is at one place is needed so that no permit is returned twice.
- `SlotsKeepOrder`: the leader, the entry being finished, the followers and the
  deque of a slot are ordered by the time of their `push_back` (`OrderInv`). The
  deque alone is not inductive: a requeue puts followers in front of it, which
  is right only because they are older than all of it.
- `CountersAreAccurate`: together with the places and their order
  `CounterAccurate` is inductive (`QueueInv`): modulo the word, the counter of a
  slot is its entries minus the uncounted ones, also while a `fetch_sub`
  overtakes its `fetch_add` and the counter has wrapped below zero. With
  `CapacityFitsWord` (a capacity is below the word, which `MAXIMUM_QUEUE_CAPACITY`
  ensures) a counter is zero exactly if its slot is empty, once all is counted.
- `WakeupsAreNotLost`, from `WakeInv`: unless a notification is stored or
  somebody is on the way to give one, all entries are in slots the runner has
  still to look at, and when it is about to wait there are none.
  `NoLostWakeup` speaks of the waiting runner only and says nothing about how it
  came to wait.
- `StrictSlotsComeFirst`, from `QuietInv`: in a decision that nothing disturbed,
  the ready slots outranking the one under examination have been ruled out.

Link (`LinkRunnerProofs`, `LinkServiceProofs`):

- `LinkImplementsQueueSet`: every step of the link is a step of the queue set or
  leaves it alone, so what is proved of `QueueSet` carries over
  (`LinkCapacityIsRespected`, and the order of the entries).
- `LinkInvariants`: the inductive invariant `LinkInv`. Its core is `PendingInv`:
  a request has no result yet exactly while it is in the deque of its slot,
  among the followers, in the hand of the runner, or leads the exchange. Around
  it `LedInv` (who was exchanged, and who still waits), `CoalesceInv` (followers
  ask what their leader asks, and a shared reply names it), `StopInv` (why the
  runner stopped) and the counters. From it `LinkCountersAddUp`,
  `LinkFailureStaysWithLeader`, `LinkCoalescedReplyFits` and
  `LinkServedUntilClosed`: each of these looks back over the life of a request
  and cannot be kept without knowing where the request is now.
- `LinkImplementsService`: the refinement of the abstract service. The initial
  states correspond; a push that appends is an arrival; an answer is given to
  the oldest unanswered request of its queue (by `PendingInv` and `OrderInv`)
  unless its caller gave up; `close_runner` is the stop;
  a dropped runner loses a leader and its followers, which are the oldest of one
  queue; every other step changes nothing the service shows. The abstract
  specification is safety only, so the refinement is proved completely.

Exchange (`ExchangeProofs`):

- `TypeCorrect`; `DeadlineIsKept` from `WaitInv` (every wait of an exchange ends
  at its deadline or before); `BudgetsAreKept` from `BudgetInv` (transmissions
  are at most one more than the retries used, and no budget is exceeded).
- `ActionsOnce` and `ActionRepliesOwn`, if every job is an action and
  `late_response_guard > Latency`. `LineInv` says that no reply is on the line
  when a transmission may begin; that while an answer is awaited there is at
  most one reply, to this very job, and one that asks for a repetition comes
  from a device that has not carried the job out; and that during the drain
  every reply is due before its end. The assumption on the guard is what the
  guard is for: a reply later than the drain can be mistaken.
  `exchange_undrained` shows why "every job is an action" is needed: a read
  with a retry left may skip the drain.

Around the link (`ComponentProofs`, `SessionProofs`):

- `NormalizedIsValid`: whatever `create_link` is given, the configuration it
  uses passes `LinkConfig::validate`; and `ValidStaysAsItIs`: a valid one with
  at least the smallest read buffer is used unchanged. No assumption but the
  order of the limits in the code.
- `HubViewIsCurrent` and `HubSuppressesBriefly`. `FingerInv` says that a
  fingerprint is the last offer of its key with its time, and that the last
  publication equals the last offer even if it was withheld. Fingerprints may be
  evicted or reset at any time; that costs a repetition, never a change.
- `IpReplyIsOwn`, from `IpUntilTorn`: until a future is dropped inside a packet,
  `SequenceInv` (all requests and responses under way carry sequence numbers that
  are used up, and the one being read for is the only request with its number)
  and `FrameInv` (only a packet that is being read has its header taken off the
  stream, and a usable session has lost no part of a packet) hold; afterwards
  nothing is claimed, and `torn` stays. Assumed are fewer requests than sequence
  numbers (`IpLimits`: after a wrap a response as old as the whole number space
  would be taken). Futures may be dropped anywhere.
- `HealthCooldownIsExact` and `AdaptiveReadIsOneCall`. `CoolInv` ties
  `consecutive` to the results recorded at the end and `until` to the time of
  the last one, and says that a forgotten waiting period is over; `CountInv` and
  `CallInv` count ended calls and attempts, and bound what each attempt has been
  granted. `HealthTypes` assumes natural numbers for times and retries and finitely
  many calls.
- `TransferIsExact`, from `TransferInv`: block `n` of the sender is the `n`-th cut
  of the source, every block that is carried is one of these, and the receiver
  holds exactly the cuts before the block it waits for. That no block number is
  missing follows from what `BlockSender::new` checks (`EnoughNumbers`): the
  source fits the number space, so the branches for exhausted numbers are
  never taken. `TransferTypes` only says that bytes are bytes and limits
  natural numbers.
- `SnapshotIsOfOneDevice` and `PlanStopsAtFailure`, from `ProcedureInv`: a session talks to the unique address of the device it
  identified, which only that device type and serial number answers wherever
  devices are moved; and a failed step of a plan is its last and has stopped
  the plan. `LineAssumption`: `Nobody` is no device, a unique address is not a
  polling address, and a plan is a sequence of the three expectations.

Only model-checked:

- liveness (`EveryRequestEnds`, `RunnerStops`, `ExchangeEnds`), because the
  prover does not handle fairness and `ENABLED`;
- the properties of `Decoder`, `Mesh`, `Admission`, `Records` and `Profiles`, which
  rest on recursive definitions over data or on bit operations;
- `HubBounded` and `PublishedAccounted`, which sum or filter sequences with
  folds: what a fold computes for every input needs induction over data;
- `WeightedShare` and the properties of `Discovery` and `Bench`, for which no
  proof has been written.

## Not modelled

- Typed operations (`operation/process.rs`, `control.rs`, `configuration.rs`,
  `information.rs`, `diagnostics.rs`): each writes or reads a fixed list of
  fields with the readers and writers of `Records` and keeps no state.
- Byte channels (`channel/`): pure I/O. `Exchange`, `HartIp` and `Bench` model
  what their users can observe of a channel.
- Tables, inspection, telemetry, verification reports and the command line:
  static data, counters copied for reports, glue.
- The event stream of a link, tracing output and the export to pcapng: nothing
  depends on them.
- JSON and ZIP are external: an entry of a package has a size and a profile in
  it or none. The verifier of mesh join requests is the application's.
- In `LinkRunner` a deadline is a set of jobs it has passed for, not a time.
  How late a queued request learns of its deadline is therefore not stated.
- The sleeps of discovery between probes, during which nothing else changes.
- A panic in a task, poisoned locks (the code continues with the inner value),
  and exhaustion of job identifiers.

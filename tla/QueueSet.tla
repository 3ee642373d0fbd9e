------------------------------- MODULE QueueSet -------------------------------
(***************************************************************************)
(* The bounded multi-queue of a link (src/service/queue_set.rs), used by     *)
(* many client threads and one runner.  Every atomic operation, lock or      *)
(* semaphore call that another thread can observe is a step of its own:      *)
(*                                                                         *)
(*  - a client pushes a job: check, permit, check again, append, count,      *)
(*    notify (push, try_push, finish_push);                                  *)
(*  - an application changes a priority: store, notify (set_priority);       *)
(*  - the runner scans for the highest strict rank, pops, and finishes the   *)
(*    entry in two steps, permit before counter (finish_entry).              *)
(*                                                                         *)
(* The runner's side follows the calls of LinkRunner::run                    *)
(* (src/service/link.rs:1540-1690) and leaves open what those calls decide   *)
(* from a job's contents and from the channel; module LinkRunner closes it.  *)
(***************************************************************************)
EXTENDS QueueSchedule, Sequences, Functions

CONSTANTS Job,           \* the requests that clients may push
          NoJob,         \* stands for the absence of a job
          QueueOf,       \* QueueOf[j]: slot the routing chose for job j
          Capacity,      \* Capacity[s]: configured capacity of slot s
          InitPriority,  \* InitPriority[s]: configured priority of slot s
          Reconfig,      \* Reconfig[s]: priorities set_priority may store
          Word           \* number of values of the counter type usize

ASSUME JobAssumption == IsFiniteSet(Job) /\ NoJob \notin Job
ASSUME QueueOfAssumption == QueueOf \in [Job -> Slots]
ASSUME CapacityAssumption == Capacity \in [Slots -> Nat \ {0}]
ASSUME PriorityAssumption == /\ InitPriority \in [Slots -> QueuePriority]
                             /\ Reconfig \in [Slots -> SUBSET QueuePriority]
ASSUME WordAssumption == Word \in Nat \ {0, 1}
ASSUME CapacityFitsWord == \A s \in Slots : Capacity[s] < Word    \* MAXIMUM_QUEUE_CAPACITY

VARIABLES
    priority,       \* priority[s]: AtomicU32 of slot s
    permits,        \* permits[s]: permits the semaphore of slot s has left
    held,           \* jobs whose push or QueueEntry owns a permit
    queued,         \* queued[s]: AtomicUsize of slot s
    entries,        \* entries[s]: VecDeque of slot s
    input_closed,   \* AtomicBool: the last client is gone
    runner_closed,  \* AtomicBool: the runner stopped, semaphores are closed
    notify,         \* the Notify holds a permit
    push,           \* push[j]: how far the push of job j has come
    setter,         \* set_priority is between its store and its notify_one
    rpc,            \* where the runner is
    woken,          \* notify_waiters reached the Notified the runner created
    cursor,         \* the runner's QueueCursor
    rank,           \* highest strict rank pop_strict has seen
    look,           \* slot or rotation offset the decision looks at
    hand,           \* entry the runner popped and has not finished
    back,           \* where finish_entry returns to
    leader,         \* job being exchanged
    followers,      \* entries coalesced with the leader
    sweep,          \* slot fail_pending_jobs is emptying
    ticket,         \* ghost: ticket[j] > 0 numbers the push_back calls
    ready,          \* ghost: slots with an accepted entry when a decision began
    disturbed       \* ghost: a push was appended and not counted when the
                    \* decision began, or a priority was stored during it

clientVars == <<priority, setter, push, input_closed>>
decision   == <<rank, look, ready, disturbed>>
work       == <<hand, back, leader, followers, sweep>>
runnerVars == <<rpc, woken, cursor, decision, work>>
slotVars   == <<permits, held, queued, entries, ticket>>
vars == <<clientVars, runnerVars, slotVars, runner_closed, notify>>

Rejected == {"full", "closed", "deadline", "dropped"}
Pushing  == {"acquire", "finish", "append", "count", "notify"}
PushState == {"new", "accepted"} \cup Pushing \cup Rejected

NonEmpty == {s \in Slots : entries[s] # <<>>}
Counted  == {s \in Slots : queued[s] > 0}

Init ==
    /\ priority = InitPriority
    /\ permits = Capacity
    /\ held = {}
    /\ queued = [s \in Slots |-> 0]
    /\ entries = [s \in Slots |-> <<>>]
    /\ input_closed = FALSE
    /\ runner_closed = FALSE
    /\ notify = FALSE
    /\ push = [j \in Job |-> "new"]
    /\ setter = FALSE
    /\ rpc = "create"
    /\ woken = FALSE
    /\ cursor = InitCursor
    /\ rank = NoRank
    /\ look = 0
    /\ ready = {}
    /\ disturbed = FALSE
    /\ hand = NoJob
    /\ back = "serve"
    /\ leader = NoJob
    /\ followers = <<>>
    /\ sweep = 0
    /\ ticket = [j \in Job |-> 0]

-----------------------------------------------------------------------------
(* Clients.  A push runs on the client's thread; try_push and push differ    *)
(* only in what they do when no permit is left.                              *)

Goto(j, from, to) == push[j] = from /\ push' = [push EXCEPT ![j] = to]

(* The first check of push and try_push.  A client exists only while the     *)
(* input is open. *)
StartPush(j) ==
    /\ ~input_closed
    /\ Goto(j, "new", IF runner_closed THEN "closed" ELSE "acquire")
    /\ UNCHANGED <<priority, setter, input_closed, runnerVars, slotVars, runner_closed, notify>>

(* The semaphore of the slot has a permit left; as a mutant, it is ignored. *)
PermitUnchecked(j) == TRUE
HasPermit(j) == permits[QueueOf[j]] > 0

(* acquire_owned or try_acquire_owned succeeds. *)
Acquire(j) ==
    LET s == QueueOf[j] IN
    /\ ~runner_closed
    /\ HasPermit(j)
    /\ Goto(j, "acquire", "finish")
    /\ permits' = [permits EXCEPT ![s] = @ - 1]
    /\ held' = held \cup {j}
    /\ UNCHANGED <<priority, setter, input_closed, runnerVars, queued, entries, ticket,
                   runner_closed, notify>>

(* The push ends without a permit: the semaphore is closed; the waiting push *)
(* meets its deadline or its future is dropped; try_push finds no permit     *)
(* left, or only permits already promised to waiting pushes.                 *)
GiveUp(j) ==
    /\ \/ runner_closed /\ Goto(j, "acquire", "closed")
       \/ ~runner_closed /\ Goto(j, "acquire", "deadline")
       \/ Goto(j, "acquire", "dropped")
       \/ /\ ~runner_closed
          /\ \/ ~HasPermit(j)
             \/ \E k \in Job \ {j} : push[k] = "acquire" /\ QueueOf[k] = QueueOf[j]
          /\ Goto(j, "acquire", "full")
    /\ UNCHANGED <<priority, setter, input_closed, runnerVars, slotVars, runner_closed, notify>>

(* finish_push, the second check of runner_closed: the permit is released    *)
(* with the error.                                                           *)
FinishPush(j) ==
    LET s == QueueOf[j] IN
    /\ IF runner_closed
         THEN /\ Goto(j, "finish", "closed")
              /\ permits' = [permits EXCEPT ![s] = @ + 1]
              /\ held' = held \ {j}
         ELSE /\ Goto(j, "finish", "append")
              /\ UNCHANGED <<permits, held>>
    /\ UNCHANGED <<priority, setter, input_closed, runnerVars, queued, entries, ticket,
                   runner_closed, notify>>

(* finish_push: push_back under the lock of the slot. *)
PushBack(j) ==
    /\ Goto(j, "append", "count")
    /\ entries' = [entries EXCEPT ![QueueOf[j]] = Append(@, j)]
    /\ ticket' = [ticket EXCEPT ![j] = 1 + Cardinality({k \in Job : ticket[k] > 0})]
    /\ UNCHANGED <<priority, setter, input_closed, runnerVars, permits, held, queued,
                   runner_closed, notify>>

(* finish_push: queued.fetch_add(1). *)
CountPush(j) ==
    /\ Goto(j, "count", "notify")
    /\ queued' = [queued EXCEPT ![QueueOf[j]] = (@ + 1) % Word]
    /\ UNCHANGED <<priority, setter, input_closed, runnerVars, permits, held, entries, ticket,
                   runner_closed, notify>>

(* Mutant of NotifyPush: notify_one is forgotten. *)
NotifyPushSilent(j) ==
    /\ Goto(j, "notify", "accepted")
    /\ UNCHANGED <<priority, setter, input_closed, runnerVars, slotVars, runner_closed, notify>>

(* finish_push: notify_one, then Ok. *)
NotifyPush(j) ==
    /\ Goto(j, "notify", "accepted")
    /\ notify' = TRUE
    /\ UNCHANGED <<priority, setter, input_closed, runnerVars, slotVars, runner_closed>>

(* set_priority and set_weight: the store, and the notify_one after it. *)
StorePriority(s) ==
    /\ ~input_closed
    /\ ~setter
    /\ \E p \in Reconfig[s] : priority' = [priority EXCEPT ![s] = p]
    /\ setter' = TRUE
    /\ disturbed' = TRUE
    /\ UNCHANGED <<push, input_closed, rpc, woken, cursor, rank, look, ready, work, slotVars,
                   runner_closed, notify>>

NotifyPriority ==
    /\ setter
    /\ setter' = FALSE
    /\ notify' = TRUE
    /\ UNCHANGED <<priority, push, input_closed, runnerVars, slotVars, runner_closed>>

(* notify_waiters wakes the Notified the runner has created; as a mutant of  *)
(* close_input, it is forgotten.                                             *)
WakeNobody == woken
NotifyWaiters == TRUE

(* The last client is dropped (ClientLifetime::drop): close_input.  Every    *)
(* push and set_priority borrows a client, so none is in progress.           *)
CloseInput ==
    /\ ~input_closed
    /\ ~setter
    /\ \A j \in Job : push[j] \notin Pushing
    /\ input_closed' = TRUE
    /\ woken' = NotifyWaiters
    /\ UNCHANGED <<priority, setter, push, rpc, cursor, decision, work, slotVars,
                   runner_closed, notify>>

Client == \/ \E j \in Job : \/ StartPush(j) \/ Acquire(j) \/ GiveUp(j) \/ FinishPush(j)
                            \/ PushBack(j) \/ CountPush(j) \/ NotifyPush(j)
          \/ \E s \in Slots : StorePriority(s)
          \/ NotifyPriority
          \/ CloseInput

-----------------------------------------------------------------------------
(* The runner: next_job. *)

(* let notified = self.queues.notified(), and pop_scheduled begins. *)
CreateNotified ==
    /\ rpc = "create"
    /\ rpc' = "rank"
    /\ woken' = FALSE
    /\ rank' = NoRank
    /\ look' = 0
    /\ ready' = {s \in Slots : \E j \in Range(entries[s]) : push[j] = "accepted"}
    /\ disturbed' = (\E j \in Job : push[j] = "count")
    /\ UNCHANGED <<clientVars, slotVars, cursor, work, runner_closed, notify>>

(* The highest rank after slot s has been looked at; as a mutant, the first. *)
FirstRank(s) ==
    IF IsStrict(priority[s]) /\ queued[s] > 0 /\ rank = NoRank THEN priority[s].value ELSE rank
RankWith(s) ==
    IF IsStrict(priority[s]) /\ queued[s] > 0 /\ priority[s].value > rank
      THEN priority[s].value ELSE rank

(* pop_strict, first half: slot after slot, the highest strict rank with a   *)
(* positive counter.                                                         *)
ScanRank ==
    /\ rpc = "rank"
    /\ rank' = RankWith(look)
    /\ IF look < N - 1
         THEN look' = look + 1 /\ UNCHANGED rpc
         ELSE IF rank' = NoRank THEN look' = 0 /\ rpc' = "weighted"
                                ELSE look' = 1 /\ rpc' = "strict"
    /\ UNCHANGED <<clientVars, slotVars, woken, cursor, ready, disturbed, work, runner_closed,
                   notify>>

(* The decision is made: its local variables are gone. *)
EndDecision == rank' = NoRank /\ look' = 0 /\ ready' = {} /\ disturbed' = FALSE

(* The runner pops the front entry of slot s and goes on to finish it. *)
TakeFront(s, to) ==
    /\ hand' = Head(entries[s])
    /\ entries' = [entries EXCEPT ![s] = Tail(@)]
    /\ back' = to
    /\ rpc' = "release"

(* pop_strict, second half: the rotation over the slots of that rank. *)
PopStrict ==
    LET s == At(cursor.strict_index, look) IN
    /\ rpc = "strict"
    /\ IF priority[s] = Strict(rank) /\ entries[s] # <<>>
         THEN /\ TakeFront(s, "serve")
              /\ cursor' = StrictCursor(cursor, s)
              /\ EndDecision
         ELSE /\ IF look < N THEN look' = look + 1 /\ UNCHANGED rpc
                             ELSE look' = 0 /\ rpc' = "weighted"
              /\ UNCHANGED <<hand, entries, back, cursor, rank, ready, disturbed>>
    /\ UNCHANGED <<clientVars, permits, held, queued, ticket, woken, leader, followers, sweep,
                   runner_closed, notify>>

(* pop_weighted: offset 0 is the current slot while its quota lasts, offsets *)
(* 1 .. N-1 are the other slots, offset N is the current slot once more.     *)
PopWeighted ==
    LET s == At(cursor.weighted_index, look) IN
    /\ rpc = "weighted"
    /\ IF /\ IsWeighted(priority[s])
          /\ look = 0 => cursor.weighted_used < priority[s].value
          /\ entries[s] # <<>>
         THEN /\ TakeFront(s, "serve")
              /\ cursor' = IF look = N THEN [cursor EXCEPT !.weighted_used = priority[s].value]
                                       ELSE WeightedCursor(priority, cursor, s)
              /\ EndDecision
         ELSE /\ IF look < N THEN look' = look + 1 /\ UNCHANGED rpc
                             ELSE look' = 0 /\ rpc' = "closed"
              /\ UNCHANGED <<hand, entries, back, cursor, rank, ready, disturbed>>
    /\ UNCHANGED <<clientVars, permits, held, queued, ticket, woken, leader, followers, sweep,
                   runner_closed, notify>>

(* Mutant of CheckInput: an idle runner stops. *)
CheckInputStops ==
    /\ rpc = "closed"
    /\ rpc' = "stop"
    /\ UNCHANGED <<clientVars, slotVars, woken, cursor, decision, work, runner_closed, notify>>

(* if self.queues.input_closed() { return None } *)
CheckInput ==
    /\ rpc = "closed"
    /\ rpc' = IF input_closed THEN "stop" ELSE "wait"
    /\ EndDecision
    /\ UNCHANGED <<clientVars, slotVars, woken, cursor, work, runner_closed, notify>>

(* select!: the Notified completes, by notify_waiters or with the permit. *)
Wake ==
    /\ rpc = "wait"
    /\ woken \/ notify
    /\ rpc' = "create"
    /\ notify' = (woken /\ notify)
    /\ UNCHANGED <<clientVars, slotVars, woken, cursor, decision, work, runner_closed>>

(* select!: the channel yields idle input, or fails (process_idle_input).    *)
(* The dropped Notified leaves the permit in the Notify.                     *)
IdleInput(usable) ==
    /\ rpc = "wait"
    /\ rpc' = IF usable THEN "create" ELSE "stop"
    /\ UNCHANGED <<clientVars, slotVars, woken, cursor, decision, work, runner_closed, notify>>

-----------------------------------------------------------------------------
(* The runner: finish_entry, which returns the permit before it counts. *)

(* entry.into_item() drops the permit of the entry. *)
ReleasePermit ==
    /\ rpc = "release"
    /\ rpc' = "decrement"
    /\ permits' = [permits EXCEPT ![QueueOf[hand]] = @ + 1]
    /\ held' = held \ {hand}
    /\ UNCHANGED <<clientVars, queued, entries, ticket, woken, cursor, decision, work,
                   runner_closed, notify>>

(* fetch_sub(1) wraps; as a mutant, it saturates. *)
SaturatingSub(n) == IF n = 0 THEN 0 ELSE n - 1
FetchSub(n) == (n - 1) % Word

(* queued.fetch_sub(1) and back to the caller. *)
Decrement ==
    /\ rpc = "decrement"
    /\ rpc' = back
    /\ queued' = [queued EXCEPT ![QueueOf[hand]] = FetchSub(@)]
    /\ hand' = NoJob
    /\ leader' = IF back = "serve" THEN hand ELSE leader
    /\ UNCHANGED <<clientVars, permits, held, entries, ticket, woken, cursor, decision, back,
                   followers, sweep, runner_closed, notify>>

(* The runner: run, from a finished entry to the next. *)

(* The job is answered without an exchange (cancelled or expired). *)
Skip ==
    /\ rpc = "serve"
    /\ rpc' = "create"
    /\ leader' = NoJob
    /\ UNCHANGED <<clientVars, slotVars, woken, cursor, decision, hand, back, followers, sweep,
                   runner_closed, notify>>

(* The job will be exchanged: take_coalescible_followers begins. *)
Admit ==
    /\ rpc = "serve"
    /\ rpc' = "coalesce"
    /\ UNCHANGED <<clientVars, slotVars, woken, cursor, decision, work, runner_closed, notify>>

(* A candidate becomes a follower: it leaves the deque, its permit and its   *)
(* count stay.                                                               *)
Follow ==
    LET s == QueueOf[leader] IN
    /\ rpc = "coalesce"
    /\ entries[s] # <<>>
    /\ followers' = Append(followers, Head(entries[s]))
    /\ entries' = [entries EXCEPT ![s] = Tail(@)]
    /\ UNCHANGED <<clientVars, permits, held, queued, ticket, rpc, woken, cursor, decision, hand,
                   back, leader, sweep, runner_closed, notify>>

(* A candidate nobody waits for is finished at once. *)
DiscardCandidate ==
    /\ rpc = "coalesce"
    /\ entries[QueueOf[leader]] # <<>>
    /\ TakeFront(QueueOf[leader], "coalesce")
    /\ UNCHANGED <<clientVars, permits, held, queued, ticket, woken, cursor, decision, leader,
                   followers, sweep, runner_closed, notify>>

(* A candidate that cannot be coalesced is popped and pushed to the front    *)
(* again.  Meanwhile clients can only append behind it, so the two calls are *)
(* one step that leaves the deque as it is and notifies.                     *)
ReturnCandidate ==
    /\ rpc = "coalesce"
    /\ entries[QueueOf[leader]] # <<>>
    /\ rpc' = "exchange"
    /\ notify' = TRUE
    /\ UNCHANGED <<clientVars, slotVars, woken, cursor, decision, work, runner_closed>>

(* Nothing to coalesce: the job or the link does not allow it, the slot is   *)
(* empty or the limit is reached.                                            *)
EndCoalescing ==
    /\ rpc = "coalesce"
    /\ rpc' = "exchange"
    /\ UNCHANGED <<clientVars, slotVars, woken, cursor, decision, work, runner_closed, notify>>

(* The exchange succeeded and the leader has its reply. *)
ExchangeOk ==
    /\ rpc = "exchange"
    /\ rpc' = "complete"
    /\ UNCHANGED <<clientVars, slotVars, woken, cursor, decision, work, runner_closed, notify>>

(* complete_followers finishes the followers one by one, in queue order. *)
CompleteFollower ==
    /\ rpc = "complete"
    /\ followers # <<>>
    /\ rpc' = "release"
    /\ hand' = Head(followers)
    /\ followers' = Tail(followers)
    /\ back' = "complete"
    /\ UNCHANGED <<clientVars, slotVars, woken, cursor, decision, leader, sweep, runner_closed,
                   notify>>

EndComplete ==
    /\ rpc = "complete"
    /\ followers = <<>>
    /\ rpc' = "create"
    /\ leader' = NoJob
    /\ UNCHANGED <<clientVars, slotVars, woken, cursor, decision, hand, back, followers, sweep,
                   runner_closed, notify>>

(* requeue_followers pushes the last follower to the front first; as mutants *)
(* none of them, or the leader with them.                                    *)
RequeueNone(deque) == deque
RequeueAll(deque) == <<leader>> \o followers \o deque
requeue_followers(deque) == followers \o deque

(* The exchange failed: requeue_followers puts the followers back in front,  *)
(* last one first (one step: clients only append behind them), the leader    *)
(* has its error, and the runner goes on if the channel is still usable      *)
(* after the error and after drain_late_responses.  The drain waits: the     *)
(* runner may be dropped in it (see DropRunner).                             *)
AfterError == {"create", "stop", "gone"}
ExchangeErr(next) ==
    /\ rpc = "exchange"
    /\ rpc' = next
    /\ entries' = [entries EXCEPT ![QueueOf[leader]] = requeue_followers(@)]
    /\ notify' = (notify \/ followers # <<>>)
    /\ leader' = NoJob
    /\ followers' = <<>>
    /\ UNCHANGED <<clientVars, permits, held, queued, ticket, woken, cursor, decision, hand,
                   back, sweep, runner_closed>>

(* fail_pending_jobs: close_runner.  A push that gets a permit between the   *)
(* swap and the closing of its semaphore fails at its second check, as if    *)
(* the semaphore had been closed, so this is one step.                       *)
CloseRunner ==
    /\ rpc = "stop"
    /\ rpc' = "drain"
    /\ runner_closed' = TRUE
    /\ woken' = NotifyWaiters
    /\ sweep' = 0
    /\ UNCHANGED <<clientVars, slotVars, cursor, decision, hand, back, leader, followers, notify>>

(* fail_pending_jobs: slot after slot, every entry is finished and failed. *)
DrainEntry ==
    /\ rpc = "drain"
    /\ sweep < N
    /\ entries[sweep] # <<>>
    /\ TakeFront(sweep, "drain")
    /\ UNCHANGED <<clientVars, permits, held, queued, ticket, woken, cursor, decision, leader,
                   followers, sweep, runner_closed, notify>>

DrainNext ==
    /\ rpc = "drain"
    /\ IF sweep < N THEN entries[sweep] = <<>> /\ sweep' = sweep + 1 /\ UNCHANGED rpc
                    ELSE rpc' = "stopped" /\ UNCHANGED sweep
    /\ UNCHANGED <<clientVars, slotVars, woken, cursor, decision, hand, back, leader, followers,
                   runner_closed, notify>>

(* The future of LinkRunner::run is dropped at an await (its task is         *)
(* aborted).  Its followers return their permits and are never counted down; *)
(* runner_closed is not set, and what is in the deques stays there.          *)
DropRunner ==
    /\ rpc \in {"wait", "exchange"}
    /\ rpc' = "gone"
    /\ permits' = [s \in Slots |->
                     permits[s] + Cardinality({j \in Range(followers) : QueueOf[j] = s})]
    /\ held' = held \ Range(followers)
    /\ followers' = <<>>
    /\ leader' = NoJob
    /\ UNCHANGED <<clientVars, queued, entries, ticket, woken, cursor, decision, hand, back,
                   sweep, runner_closed, notify>>

Runner ==
    \/ CreateNotified \/ ScanRank \/ PopStrict \/ PopWeighted \/ CheckInput \/ Wake
    \/ \E usable \in BOOLEAN : IdleInput(usable)
    \/ ReleasePermit \/ Decrement
    \/ Skip \/ Admit \/ Follow \/ DiscardCandidate \/ ReturnCandidate \/ EndCoalescing
    \/ ExchangeOk \/ CompleteFollower \/ EndComplete
    \/ \E next \in AfterError : ExchangeErr(next)
    \/ CloseRunner \/ DrainEntry \/ DrainNext \/ DropRunner

Next == Client \/ Runner

Spec == Init /\ [][Next]_vars

-----------------------------------------------------------------------------
RunnerState == {"create", "rank", "strict", "weighted", "closed", "wait", "release", "decrement",
                "serve", "coalesce", "exchange", "complete", "stop", "drain", "stopped", "gone"}

ClientType ==
    /\ priority \in [Slots -> QueuePriority]
    /\ setter \in BOOLEAN
    /\ push \in [Job -> PushState]
    /\ input_closed \in BOOLEAN

SlotType ==
    /\ permits \in [Slots -> Nat]
    /\ held \in SUBSET Job
    /\ queued \in [Slots -> 0 .. Word - 1]
    /\ entries \in [Slots -> Seq(Job)]
    /\ ticket \in [Job -> Nat]

RunnerType ==
    /\ rpc \in RunnerState
    /\ woken \in BOOLEAN
    /\ cursor \in QueueCursor
    /\ rank \in Nat \cup {NoRank} /\ look \in 0 .. N
    /\ ready \in SUBSET Slots /\ disturbed \in BOOLEAN
    /\ hand \in Job \cup {NoJob} /\ back \in {"serve", "coalesce", "complete", "drain"}
    /\ leader \in Job \cup {NoJob} /\ followers \in Seq(Job)
    /\ sweep \in 0 .. N

TypeOK == /\ ClientType /\ SlotType /\ RunnerType
          /\ runner_closed \in BOOLEAN /\ notify \in BOOLEAN

(* Jobs of slot s whose entry exists: in the deque, coalesced, or popped and *)
(* not finished.                                                             *)
Popped == IF rpc \in {"release", "decrement"} THEN {hand} ELSE {}
Present(s) == {j \in Range(entries[s]) \cup Range(followers) \cup Popped : QueueOf[j] = s}

(* "Each queue enforces its own capacity before accepting a request": the    *)
(* entries of a slot, those coalesced with the running exchange and one whose *)
(* permit is not yet returned are never more than its capacity, and a push   *)
(* can only append when there is room for it.                                *)
CapacityRespected ==
    \A s \in Slots :
        LET occupying == (IF rpc = "decrement" THEN Present(s) \ {hand} ELSE Present(s))
                           \cup {j \in Job : push[j] = "append" /\ QueueOf[j] = s}
        IN  Cardinality(occupying) <= Capacity[s]

(* queue_snapshot reports "Requests currently occupying this queue": up to   *)
(* the word size the counter of a slot is the number of its entries, minus   *)
(* the pushes between push_back and fetch_add, wherever the runner has moved *)
(* those entries in the meantime.  Only a dropped runner leaves it too high. *)
CounterAccurate ==
    rpc # "gone" => \A s \in Slots :
        LET uncounted == {j \in Job : push[j] = "count" /\ QueueOf[j] = s}
        IN  queued[s] = (Cardinality(Present(s)) - Cardinality(uncounted)) % Word

(* No wakeup is lost: when the runner sleeps although an accepted entry is   *)
(* in some deque, it has been notified, or a client is about to notify it.   *)
NoLostWakeup ==
    rpc = "wait" /\ (\E s \in Slots : \E j \in Range(entries[s]) : push[j] = "accepted")
      => \/ notify \/ woken \/ setter
         \/ \E j \in Job : push[j] \in {"count", "notify"}

(* The entry taken next comes from a slot that no slot in ready outranks. *)
Outranks(p, q) == IsStrict(p) /\ (IsWeighted(q) \/ p.value > q.value)
TakesBest ==
    rpc \in {"strict", "weighted"} /\ rpc' = "release" =>
        \A t \in ready : ~Outranks(priority[t], priority[QueueOf[hand']])

(* "every ready strict queue precedes weighted work" and larger ranks win:   *)
(* a slot holding an accepted request when the decision begins is not passed *)
(* over for one of lower precedence, unless a priority is changed during the *)
(* decision or a push is between its push_back and its fetch_add.            *)
StrictFirstWhenQuiet == [][~disturbed => TakesBest]_vars
=============================================================================

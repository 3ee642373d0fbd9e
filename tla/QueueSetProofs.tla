---------------------------- MODULE QueueSetProofs ----------------------------
(***************************************************************************)
(* Proofs about the bounded multi-queue (module QueueSet), for any number of *)
(* clients and queues: types.  The capacity of a slot is proved on top of    *)
(* them, in module QueueSetCapacityProofs.                                   *)
(***************************************************************************)
EXTENDS QueueSet, SequenceTheorems, FiniteSetTheorems, TLAPS

(* A sequence without repetitions. *)
NoDup(q) == \A i, k \in DOMAIN q : q[i] = q[k] => i = k

LEMMA AppendRange ==
    ASSUME NEW S, NEW q \in Seq(S), NEW e \in S
    PROVE  /\ Append(q, e) \in Seq(S)
           /\ Range(Append(q, e)) = Range(q) \cup {e}
           /\ NoDup(q) /\ e \notin Range(q) => NoDup(Append(q, e))
  <1>1. /\ Append(q, e) \in Seq(S)
        /\ Len(Append(q, e)) = Len(q) + 1
        /\ \A i \in 1 .. Len(q) : Append(q, e)[i] = q[i]
        /\ Append(q, e)[Len(q) + 1] = e
    BY AppendProperties
  <1>2. /\ DOMAIN q = 1 .. Len(q) /\ Len(q) \in Nat
        /\ DOMAIN Append(q, e) = 1 .. Len(q) + 1
    BY <1>1, LenProperties
  <1> QED
    BY <1>1, <1>2 DEF Range, NoDup

LEMMA TailRange ==
    ASSUME NEW S, NEW q \in Seq(S), q # <<>>
    PROVE  /\ Head(q) \in S /\ Tail(q) \in Seq(S)
           /\ Range(q) = {Head(q)} \cup Range(Tail(q))
           /\ NoDup(q) => NoDup(Tail(q)) /\ Head(q) \notin Range(Tail(q))
  <1>1. /\ Head(q) \in S
        /\ Tail(q) \in Seq(S)
        /\ Len(Tail(q)) = Len(q) - 1
        /\ \A i \in 1 .. Len(Tail(q)) : Tail(q)[i] = q[i + 1]
    BY HeadTailProperties
  <1>2. /\ DOMAIN q = 1 .. Len(q) /\ Len(q) \in Nat
        /\ DOMAIN Tail(q) = 1 .. Len(q) - 1
    BY <1>1, LenProperties
  <1>3. Len(q) # 0 /\ Head(q) = q[1]
    BY EmptySeq
  <1>4. Range(q) \subseteq {Head(q)} \cup Range(Tail(q))
    <2>1. ASSUME NEW i \in 1 .. Len(q), i # 1 PROVE q[i] \in Range(Tail(q))
      <3>1. i - 1 \in 1 .. Len(Tail(q)) /\ (i - 1) + 1 = i
        BY <1>1, <1>2, <2>1
      <3>2. Tail(q)[i - 1] = q[i]
        BY <1>1, <3>1
      <3> QED
        BY <1>1, <1>2, <3>1, <3>2 DEF Range
    <2> QED
      BY <1>2, <1>3, <2>1 DEF Range
  <1>5. {Head(q)} \cup Range(Tail(q)) \subseteq Range(q)
    BY <1>1, <1>2, <1>3 DEF Range
  <1>6. NoDup(q) => NoDup(Tail(q)) /\ Head(q) \notin Range(Tail(q))
    BY <1>1, <1>2, <1>3 DEF Range, NoDup
  <1> QED
    BY <1>1, <1>4, <1>5, <1>6

LEMMA ConcatRange ==
    ASSUME NEW S, NEW p \in Seq(S), NEW q \in Seq(S)
    PROVE  /\ p \o q \in Seq(S)
           /\ Range(p \o q) = Range(p) \cup Range(q)
           /\ NoDup(p) /\ NoDup(q) /\ Range(p) \cap Range(q) = {} => NoDup(p \o q)
  <1>1. /\ p \o q \in Seq(S)
        /\ Len(p \o q) = Len(p) + Len(q)
        /\ \A i \in 1 .. Len(p) + Len(q) :
             (p \o q)[i] = IF i <= Len(p) THEN p[i] ELSE q[i - Len(p)]
    BY ConcatProperties
  <1>2. /\ DOMAIN p = 1 .. Len(p) /\ Len(p) \in Nat
        /\ DOMAIN q = 1 .. Len(q) /\ Len(q) \in Nat
        /\ DOMAIN (p \o q) = 1 .. Len(p) + Len(q)
    BY <1>1, LenProperties
  <1>3. Range(p \o q) \subseteq Range(p) \cup Range(q)
    BY <1>1, <1>2 DEF Range
  <1>4. Range(p) \subseteq Range(p \o q)
    BY <1>1, <1>2 DEF Range
  <1>5. Range(q) \subseteq Range(p \o q)
    <2>1. ASSUME NEW i \in 1 .. Len(q) PROVE q[i] \in Range(p \o q)
      <3>1. /\ i + Len(p) \in 1 .. Len(p) + Len(q)
            /\ ~(i + Len(p) <= Len(p))
            /\ (i + Len(p)) - Len(p) = i
        BY <1>2
      <3>2. (p \o q)[i + Len(p)] = q[i]
        BY <1>1, <3>1
      <3> QED
        BY <1>2, <3>1, <3>2 DEF Range
    <2> QED
      BY <1>2, <2>1 DEF Range
  <1>6. ASSUME NoDup(p), NoDup(q), Range(p) \cap Range(q) = {}
        PROVE  NoDup(p \o q)
    <2>1. ASSUME NEW i \in 1 .. Len(p) + Len(q), NEW k \in 1 .. Len(p) + Len(q),
                 (p \o q)[i] = (p \o q)[k]
          PROVE  i = k
      <3>1. CASE i <= Len(p) /\ k <= Len(p)
        <4>1. i \in DOMAIN p /\ k \in DOMAIN p /\ p[i] = p[k]
          BY <1>1, <1>2, <2>1, <3>1
        <4> QED
          BY <4>1, <1>6 DEF NoDup
      <3>2. CASE ~(i <= Len(p)) /\ ~(k <= Len(p))
        <4>1. /\ i - Len(p) \in DOMAIN q /\ k - Len(p) \in DOMAIN q
              /\ q[i - Len(p)] = q[k - Len(p)]
          BY <1>1, <1>2, <2>1, <3>2
        <4>2. i - Len(p) = k - Len(p)
          BY <4>1, <1>6 DEF NoDup
        <4> QED
          BY <4>2, <1>2
      <3>3. CASE i <= Len(p) /\ ~(k <= Len(p))
        <4>1. i \in DOMAIN p /\ k - Len(p) \in DOMAIN q /\ p[i] = q[k - Len(p)]
          BY <1>1, <1>2, <2>1, <3>3
        <4> QED
          BY <4>1, <1>6 DEF Range
      <3>4. CASE ~(i <= Len(p)) /\ k <= Len(p)
        <4>1. k \in DOMAIN p /\ i - Len(p) \in DOMAIN q /\ p[k] = q[i - Len(p)]
          BY <1>1, <1>2, <2>1, <3>4
        <4> QED
          BY <4>1, <1>6 DEF Range
      <3> QED
        BY <3>1, <3>2, <3>3, <3>4
    <2> QED
      BY <1>2, <2>1 DEF NoDup
  <1> QED
    BY <1>1, <1>3, <1>4, <1>5, <1>6

(* Slots reached by rotation, and counters modulo the word size. *)
LEMMA AtSlot == ASSUME NEW i \in Slots, NEW o \in Nat PROVE At(i, o) \in Slots
  BY NAssumption DEF At, Slots

LEMMA WordCounter ==
    \A n \in 0 .. Word - 1 : (n + 1) % Word \in 0 .. Word - 1 /\ FetchSub(n) \in 0 .. Word - 1
  BY WordAssumption DEF FetchSub

-----------------------------------------------------------------------------
(* Types. *)

Finishing == {"release", "decrement"}
Serving   == {"serve", "coalesce", "exchange", "complete"}

(* Where the runner holds an entry, a leader or followers. *)
RunnerInv ==
    /\ rpc \in Finishing => hand \in Job
    /\ rpc \in Serving => leader \in Job
    /\ rpc \in Finishing /\ back \in {"coalesce", "complete"} => leader \in Job
    /\ rpc \in {"serve", "stop", "drain", "stopped"} => followers = <<>>
    /\ rpc \in Finishing /\ back \in {"serve", "drain"} => followers = <<>>
    /\ rpc \in {"create", "rank", "strict", "weighted", "closed", "wait"} => followers = <<>>
    /\ rpc = "rank" => look \in Slots

LEMMA InitTypes == Init => TypeOK /\ RunnerInv
  <1> SUFFICES ASSUME Init PROVE TypeOK /\ RunnerInv
    OBVIOUS
  <1> USE NAssumption, CapacityAssumption, PriorityAssumption, WordAssumption DEF Init
  <1>1. priority \in [Slots -> QueuePriority] /\ permits \in [Slots -> Nat] /\ held \in SUBSET Job
    OBVIOUS
  <1>2. queued \in [Slots -> 0 .. Word - 1] /\ ticket \in [Job -> Nat]
    OBVIOUS
  <1>3. entries \in [Slots -> Seq(Job)] /\ followers \in Seq(Job)
    BY EmptySeq
  <1>4. /\ input_closed \in BOOLEAN /\ runner_closed \in BOOLEAN /\ notify \in BOOLEAN
        /\ setter \in BOOLEAN /\ woken \in BOOLEAN /\ disturbed \in BOOLEAN
    OBVIOUS
  <1>5. push \in [Job -> PushState]
    BY DEF PushState
  <1>6. cursor \in QueueCursor
    BY DEF InitCursor, QueueCursor, Slots
  <1>7. /\ rpc \in RunnerState /\ rank \in Nat \cup {NoRank} /\ look \in 0 .. N
        /\ hand \in Job \cup {NoJob} /\ back \in {"serve", "coalesce", "complete", "drain"}
        /\ leader \in Job \cup {NoJob} /\ sweep \in 0 .. N /\ ready \in SUBSET Slots
    BY DEF RunnerState
  <1>8. RunnerInv
    BY DEF RunnerInv, Finishing, Serving
  <1> QED
    BY <1>1, <1>2, <1>3, <1>4, <1>5, <1>6, <1>7, <1>8 DEF TypeOK, ClientType, SlotType, RunnerType

(* Groups of variables that a step leaves alone keep their types. *)
LEMMA SameClient == ClientType /\ UNCHANGED clientVars => ClientType'
  BY DEF ClientType, clientVars

LEMMA SameSlots == SlotType /\ UNCHANGED slotVars => SlotType'
  BY DEF SlotType, slotVars

LEMMA SameRunner == RunnerType /\ RunnerInv /\ UNCHANGED runnerVars => RunnerType' /\ RunnerInv'
  BY DEF RunnerType, RunnerInv, runnerVars, decision, work

(* A push moves from one of its states to another. *)
LEMMA GotoType ==
    ASSUME NEW j \in Job, NEW from, NEW to \in PushState, ClientType, Goto(j, from, to)
    PROVE  push' \in [Job -> PushState]
  BY DEF Goto, ClientType

LEMMA PushStates ==
    {"new", "accepted", "acquire", "finish", "append", "count", "notify",
     "full", "closed", "deadline", "dropped"} \subseteq PushState
  BY DEF PushState, Pushing, Rejected

LEMMA ClientTypes ==
    ASSUME TypeOK, RunnerInv, Client
    PROVE  (TypeOK /\ RunnerInv)'
  <1> USE QueueOfAssumption
  <1>0. ClientType /\ SlotType /\ RunnerType /\ runner_closed \in BOOLEAN /\ notify \in BOOLEAN
    BY DEF TypeOK
  (* A step of a push leaves the runner and the other client state alone. *)
  <1>a. ASSUME push' \in [Job -> PushState], SlotType', notify' \in BOOLEAN,
               UNCHANGED <<priority, setter, input_closed, runnerVars, runner_closed>>
        PROVE  (TypeOK /\ RunnerInv)'
    <2>1. ClientType'
      BY <1>0, <1>a DEF ClientType
    <2>2. RunnerType' /\ RunnerInv'
      BY <1>0, <1>a, SameRunner
    <2> QED
      BY <1>0, <1>a, <2>1, <2>2 DEF TypeOK
  <1>1. ASSUME NEW j \in Job, StartPush(j) \/ GiveUp(j) \/ NotifyPush(j)
        PROVE  (TypeOK /\ RunnerInv)'
    <2>1. push' \in [Job -> PushState]
      BY <1>0, <1>1, GotoType, PushStates DEF StartPush, GiveUp, NotifyPush
    <2>2. notify' \in BOOLEAN
      BY <1>0, <1>1 DEF StartPush, GiveUp, NotifyPush
    <2>3. UNCHANGED <<priority, setter, input_closed, runnerVars, slotVars, runner_closed>>
      BY <1>1 DEF StartPush, GiveUp, NotifyPush
    <2> QED
      BY <1>0, <1>a, <2>1, <2>2, <2>3, SameSlots
  <1>2. ASSUME NEW j \in Job, Acquire(j)
        PROVE  (TypeOK /\ RunnerInv)'
    <2>1. push' \in [Job -> PushState]
      BY <1>0, <1>2, GotoType, PushStates DEF Acquire
    <2>2. SlotType'
      <3>1. QueueOf[j] \in Slots /\ permits[QueueOf[j]] \in Nat /\ permits[QueueOf[j]] > 0
        BY <1>0, <1>2 DEF Acquire, HasPermit, SlotType
      <3>2. permits[QueueOf[j]] - 1 \in Nat
        BY <3>1
      <3>3. /\ permits' = [permits EXCEPT ![QueueOf[j]] = @ - 1]
            /\ held' = held \cup {j} /\ UNCHANGED <<queued, entries, ticket>>
        BY <1>2 DEF Acquire
      <3> QED
        BY <1>0, <3>1, <3>2, <3>3 DEF SlotType
    <2> QED
      BY <1>0, <1>2, <1>a, <2>1, <2>2 DEF Acquire
  <1>3. ASSUME NEW j \in Job, FinishPush(j)
        PROVE  (TypeOK /\ RunnerInv)'
    <2>1. push' \in [Job -> PushState]
      BY <1>0, <1>3, GotoType, PushStates DEF FinishPush
    <2>2. SlotType'
      <3>1. QueueOf[j] \in Slots /\ permits[QueueOf[j]] + 1 \in Nat
        BY <1>0 DEF SlotType
      <3>2. /\ \/ permits' = [permits EXCEPT ![QueueOf[j]] = @ + 1] /\ held' = held \ {j}
               \/ UNCHANGED <<permits, held>>
            /\ UNCHANGED <<queued, entries, ticket>>
        BY <1>3 DEF FinishPush
      <3>3. permits' \in [Slots -> Nat]
        BY <1>0, <3>1, <3>2 DEF SlotType
      <3>4. held' \in SUBSET Job
        BY <1>0, <3>2 DEF SlotType
      <3> QED
        BY <1>0, <3>2, <3>3, <3>4 DEF SlotType
    <2> QED
      BY <1>0, <1>3, <1>a, <2>1, <2>2 DEF FinishPush
  <1>4. ASSUME NEW j \in Job, PushBack(j)
        PROVE  (TypeOK /\ RunnerInv)'
    <2>1. push' \in [Job -> PushState]
      BY <1>0, <1>4, GotoType, PushStates DEF PushBack
    <2>2. QueueOf[j] \in Slots /\ Append(entries[QueueOf[j]], j) \in Seq(Job)
      BY <1>0, AppendRange DEF SlotType
    <2>3. Cardinality({k \in Job : ticket[k] > 0}) \in Nat
      <3>1. {k \in Job : ticket[k] > 0} \in SUBSET Job
        OBVIOUS
      <3> QED
        BY <3>1, JobAssumption, FS_Subset, FS_CardinalityType
    <2>4. SlotType'
      <3>1. /\ entries' = [entries EXCEPT ![QueueOf[j]] = Append(@, j)]
            /\ ticket' = [ticket EXCEPT ![j] = 1 + Cardinality({k \in Job : ticket[k] > 0})]
            /\ UNCHANGED <<permits, held, queued>>
        BY <1>4 DEF PushBack
      <3>2. entries' \in [Slots -> Seq(Job)]
        BY <1>0, <2>2, <3>1 DEF SlotType
      <3>3. ticket' \in [Job -> Nat]
        BY <1>0, <2>3, <3>1 DEF SlotType
      <3> QED
        BY <1>0, <3>1, <3>2, <3>3 DEF SlotType
    <2> QED
      BY <1>0, <1>4, <1>a, <2>1, <2>4 DEF PushBack
  <1>5. ASSUME NEW j \in Job, CountPush(j)
        PROVE  (TypeOK /\ RunnerInv)'
    <2>1. push' \in [Job -> PushState]
      BY <1>0, <1>5, GotoType, PushStates DEF CountPush
    <2>2. SlotType'
      <3>1. QueueOf[j] \in Slots /\ (queued[QueueOf[j]] + 1) % Word \in 0 .. Word - 1
        BY <1>0, WordCounter DEF SlotType
      <3>2. /\ queued' = [queued EXCEPT ![QueueOf[j]] = (@ + 1) % Word]
            /\ UNCHANGED <<permits, held, entries, ticket>>
        BY <1>5 DEF CountPush
      <3> QED
        BY <1>0, <3>1, <3>2 DEF SlotType
    <2> QED
      BY <1>0, <1>5, <1>a, <2>1, <2>2 DEF CountPush
  <1>6. ASSUME NEW s \in Slots, StorePriority(s)
        PROVE  (TypeOK /\ RunnerInv)'
    <2>1. ClientType' /\ disturbed' \in BOOLEAN
      <3>1. PICK p \in Reconfig[s] : priority' = [priority EXCEPT ![s] = p]
        BY <1>6 DEF StorePriority
      <3>2. p \in QueuePriority
        BY PriorityAssumption
      <3>3. priority' \in [Slots -> QueuePriority]
        BY <1>0, <3>1, <3>2 DEF ClientType
      <3>4. setter' \in BOOLEAN /\ disturbed' \in BOOLEAN /\ UNCHANGED <<push, input_closed>>
        BY <1>6 DEF StorePriority
      <3> QED
        BY <1>0, <3>3, <3>4 DEF ClientType
    <2>2. UNCHANGED <<rpc, woken, cursor, rank, look, ready, work, slotVars, runner_closed, notify>>
      BY <1>6 DEF StorePriority
    <2>3. RunnerType' /\ RunnerInv'
      BY <1>0, <2>1, <2>2 DEF RunnerType, RunnerInv, work
    <2> QED
      BY <1>0, <2>1, <2>2, <2>3, SameSlots DEF TypeOK
  <1>7. ASSUME NotifyPriority
        PROVE  (TypeOK /\ RunnerInv)'
    <2>1. ClientType' /\ notify' \in BOOLEAN
      BY <1>0, <1>7 DEF NotifyPriority, ClientType
    <2>2. UNCHANGED <<runnerVars, slotVars, runner_closed>>
      BY <1>7 DEF NotifyPriority
    <2> QED
      BY <1>0, <2>1, <2>2, SameSlots, SameRunner DEF TypeOK
  <1>8. ASSUME CloseInput
        PROVE  (TypeOK /\ RunnerInv)'
    <2>1. ClientType' /\ woken' \in BOOLEAN
      BY <1>0, <1>8 DEF CloseInput, NotifyWaiters, ClientType
    <2>2. UNCHANGED <<rpc, cursor, decision, work, slotVars, runner_closed, notify>>
      BY <1>8 DEF CloseInput
    <2>3. RunnerType' /\ RunnerInv'
      BY <1>0, <2>1, <2>2 DEF RunnerType, RunnerInv, work, decision
    <2> QED
      BY <1>0, <2>1, <2>2, <2>3, SameSlots DEF TypeOK
  <1> QED
    BY <1>1, <1>2, <1>3, <1>4, <1>5, <1>6, <1>7, <1>8 DEF Client

LEMMA StrictCursorType ==
    ASSUME NEW c \in QueueCursor, NEW s \in Slots
    PROVE  StrictCursor(c, s) \in QueueCursor
  BY DEF StrictCursor, QueueCursor

LEMMA WeightedCursorType ==
    ASSUME NEW c \in QueueCursor, NEW s \in Slots, ClientType
    PROVE  /\ WeightedCursor(priority, c, s) \in QueueCursor
           /\ [c EXCEPT !.weighted_used = priority[s].value] \in QueueCursor
  <1>1. priority[s].value \in Nat
    BY DEF ClientType, QueuePriority
  <1>2. [c EXCEPT !.weighted_used = priority[s].value] \in QueueCursor
    BY <1>1 DEF QueueCursor
  <1>3. [c EXCEPT !.weighted_index = s, !.weighted_used = 1] \in QueueCursor
    BY DEF QueueCursor
  <1>4. [c EXCEPT !.weighted_used = @ + 1] \in QueueCursor
    BY DEF QueueCursor
  <1> QED
    BY <1>2, <1>3, <1>4 DEF WeightedCursor

(* Taking the front entry of a slot. *)
LEMMA TakeFrontType ==
    ASSUME SlotType, RunnerType, NEW s \in Slots, entries[s] # <<>>,
           NEW to \in {"serve", "coalesce", "complete", "drain"}, TakeFront(s, to)
    PROVE  /\ hand' \in Job /\ back' = to /\ rpc' = "release"
           /\ entries' \in [Slots -> Seq(Job)]
  <1>1. Head(entries[s]) \in Job /\ Tail(entries[s]) \in Seq(Job)
    BY TailRange DEF SlotType
  <1>2. /\ hand' = Head(entries[s]) /\ back' = to /\ rpc' = "release"
        /\ entries' = [entries EXCEPT ![s] = Tail(@)]
    BY DEF TakeFront
  <1> QED
    BY <1>1, <1>2 DEF SlotType

(* Pops from a slot, by the scheduler, while coalescing or in the sweep. *)
LEMMA PopTypes ==
    ASSUME TypeOK, RunnerInv,
           PopStrict \/ PopWeighted \/ DiscardCandidate \/ DrainEntry
    PROVE  (TypeOK /\ RunnerInv)'
  <1> USE QueueOfAssumption, NAssumption
  <1>0. /\ ClientType /\ SlotType /\ RunnerType
        /\ runner_closed \in BOOLEAN /\ notify \in BOOLEAN
    BY DEF TypeOK
  <1>1. ClientType'
    BY <1>0, SameClient DEF PopStrict, PopWeighted, DiscardCandidate, DrainEntry
  <1>2. UNCHANGED <<permits, held, queued, ticket, woken, leader, followers, sweep,
                    runner_closed, notify>>
    BY DEF PopStrict, PopWeighted, DiscardCandidate, DrainEntry
  <1>d. rank' \in {rank, NoRank} /\ ready' \in {ready, {}} /\ disturbed' \in {disturbed, FALSE}
    BY Zenon DEF PopStrict, PopWeighted, DiscardCandidate, DrainEntry, decision, EndDecision
  <1>a. ASSUME hand' \in Job, rpc' = "release", entries' \in [Slots -> Seq(Job)],
               cursor' \in QueueCursor, look' \in 0 .. N,
               \/ back' = "coalesce" /\ leader \in Job
               \/ back' \in {"serve", "drain"} /\ followers = <<>>
        PROVE  (TypeOK /\ RunnerInv)'
    <2>1. SlotType'
      BY <1>0, <1>2, <1>a DEF SlotType
    <2>2. RunnerType'
      <3>1. rpc' \in RunnerState
        BY <1>a DEF RunnerState
      <3>2. rank' \in Nat \cup {NoRank} /\ ready' \in SUBSET Slots /\ disturbed' \in BOOLEAN
        BY <1>0, <1>d DEF RunnerType
      <3> QED
        BY <1>0, <1>2, <1>a, <3>1, <3>2 DEF RunnerType
    <2>3. RunnerInv'
      BY <1>2, <1>a DEF RunnerInv, Finishing, Serving
    <2> QED
      BY <1>0, <1>1, <1>2, <2>1, <2>2, <2>3 DEF TypeOK
  <1>b. ASSUME UNCHANGED <<hand, entries, back, cursor>>, look' \in 0 .. N, followers = <<>>,
               rpc' \in {"strict", "weighted", "closed"}
        PROVE  (TypeOK /\ RunnerInv)'
    <2>1. SlotType'
      BY <1>0, <1>2, <1>b DEF SlotType
    <2>2. RunnerType'
      <3>1. rpc' \in RunnerState
        BY <1>b DEF RunnerState
      <3>2. rank' \in Nat \cup {NoRank} /\ ready' \in SUBSET Slots /\ disturbed' \in BOOLEAN
        BY <1>0, <1>d DEF RunnerType
      <3> QED
        BY <1>0, <1>2, <1>b, <3>1, <3>2 DEF RunnerType
    <2>3. RunnerInv'
      BY <1>2, <1>b DEF RunnerInv, Finishing, Serving
    <2> QED
      BY <1>0, <1>1, <1>2, <2>1, <2>2, <2>3 DEF TypeOK
  <1>3. CASE PopStrict
    <2> DEFINE s == At(cursor.strict_index, look)
    <2>1. s \in Slots /\ look \in 0 .. N /\ rpc = "strict" /\ followers = <<>>
      <3>1. cursor.strict_index \in Slots /\ look \in Nat /\ look \in 0 .. N
        BY <1>0 DEF RunnerType, QueueCursor
      <3> QED
        BY <1>3, <3>1, AtSlot DEF PopStrict, RunnerInv
    <2>2. CASE priority[s] = Strict(rank) /\ entries[s] # <<>>
      <3>1. TakeFront(s, "serve") /\ cursor' = StrictCursor(cursor, s) /\ look' = 0
        BY <1>3, <2>2 DEF PopStrict, EndDecision
      <3>2. cursor' \in QueueCursor
        BY <1>0, <2>1, <3>1, StrictCursorType DEF RunnerType
      <3> HIDE DEF s
      <3>3. /\ hand' \in Job /\ back' = "serve" /\ rpc' = "release"
            /\ entries' \in [Slots -> Seq(Job)]
        BY <1>0, <2>1, <2>2, <3>1, TakeFrontType
      <3> QED
        BY <1>a, <2>1, <3>1, <3>2, <3>3
    <2>3. CASE ~(priority[s] = Strict(rank) /\ entries[s] # <<>>)
      <3>1. /\ UNCHANGED <<hand, entries, back, cursor>>
            /\ \/ look < N /\ look' = look + 1 /\ rpc' = rpc
               \/ look' = 0 /\ rpc' = "weighted"
        BY <1>3, <2>3 DEF PopStrict
      <3> QED
        BY <1>b, <2>1, <3>1
    <2> QED
      BY <2>2, <2>3
  <1>4. CASE PopWeighted
    <2> DEFINE s == At(cursor.weighted_index, look)
               takes == /\ IsWeighted(priority[s])
                        /\ look = 0 => cursor.weighted_used < priority[s].value
                        /\ entries[s] # <<>>
    <2>1. s \in Slots /\ look \in 0 .. N /\ rpc = "weighted" /\ followers = <<>>
      <3>1. cursor.weighted_index \in Slots /\ look \in Nat /\ look \in 0 .. N
        BY <1>0 DEF RunnerType, QueueCursor
      <3> QED
        BY <1>4, <3>1, AtSlot DEF PopWeighted, RunnerInv
    <2>2. CASE takes
      <3>1. /\ TakeFront(s, "serve") /\ look' = 0
            /\ cursor' = IF look = N THEN [cursor EXCEPT !.weighted_used = priority[s].value]
                                     ELSE WeightedCursor(priority, cursor, s)
        BY <1>4, <2>2 DEF PopWeighted, EndDecision
      <3>2. cursor' \in QueueCursor
        BY <1>0, <2>1, <3>1, WeightedCursorType DEF RunnerType
      <3>3. entries[s] # <<>>
        BY <2>2
      <3> HIDE DEF s
      <3>4. /\ hand' \in Job /\ back' = "serve" /\ rpc' = "release"
            /\ entries' \in [Slots -> Seq(Job)]
        BY <1>0, <2>1, <3>1, <3>3, TakeFrontType
      <3> QED
        BY <1>a, <2>1, <3>1, <3>2, <3>4
    <2>3. CASE ~takes
      <3>1. /\ UNCHANGED <<hand, entries, back, cursor>>
            /\ \/ look < N /\ look' = look + 1 /\ rpc' = rpc
               \/ look' = 0 /\ rpc' = "closed"
        BY <1>4, <2>3 DEF PopWeighted
      <3> QED
        BY <1>b, <2>1, <3>1
    <2> QED
      BY <2>2, <2>3
  <1>5. CASE DiscardCandidate
    <2>1. leader \in Job /\ QueueOf[leader] \in Slots
      BY <1>5 DEF DiscardCandidate, RunnerInv, Serving
    <2>2. /\ hand' \in Job /\ back' = "coalesce" /\ rpc' = "release"
          /\ entries' \in [Slots -> Seq(Job)]
      BY <1>0, <1>5, <2>1, TakeFrontType DEF DiscardCandidate
    <2>3. cursor' \in QueueCursor /\ look' \in 0 .. N
      BY <1>0, <1>5 DEF DiscardCandidate, RunnerType, decision
    <2> QED
      BY <1>a, <2>1, <2>2, <2>3
  <1>6. CASE DrainEntry
    <2>1. sweep \in Slots /\ followers = <<>>
      BY <1>0, <1>6 DEF DrainEntry, RunnerInv, RunnerType, Slots
    <2>2. /\ hand' \in Job /\ back' = "drain" /\ rpc' = "release"
          /\ entries' \in [Slots -> Seq(Job)]
      BY <1>0, <1>6, <2>1, TakeFrontType DEF DrainEntry
    <2>3. cursor' \in QueueCursor /\ look' \in 0 .. N
      BY <1>0, <1>6 DEF DrainEntry, RunnerType, decision
    <2> QED
      BY <1>a, <2>1, <2>2, <2>3
  <1> QED
    BY <1>3, <1>4, <1>5, <1>6

(* The elements of the followers are jobs. *)
LEMMA FollowersAreJobs == RunnerType => Range(followers) \subseteq Job
  <1>1. ASSUME NEW q \in Seq(Job) PROVE Range(q) \subseteq Job
    BY ElementOfSeq, LenProperties DEF Range
  <1> QED
    BY <1>1 DEF RunnerType

(* Steps that only move the runner: they may drop the leader and notify. *)
LEMMA MoveTypes ==
    ASSUME TypeOK, RunnerInv,
           \/ CheckInput \/ Wake \/ (\E usable \in BOOLEAN : IdleInput(usable))
           \/ Skip \/ Admit \/ ReturnCandidate \/ EndCoalescing \/ ExchangeOk \/ EndComplete
    PROVE  (TypeOK /\ RunnerInv)'
  <1>0. /\ ClientType /\ SlotType /\ RunnerType
        /\ runner_closed \in BOOLEAN /\ notify \in BOOLEAN
    BY DEF TypeOK
  <1> USE DEF CheckInput, Wake, IdleInput, Skip, Admit, ReturnCandidate, EndCoalescing, ExchangeOk,
              EndComplete
  <1>1. UNCHANGED <<clientVars, slotVars, woken, cursor, runner_closed>>
    OBVIOUS
  <1>2. UNCHANGED <<hand, back, followers, sweep>>
    BY DEF work
  <1>3. notify' \in BOOLEAN
    BY <1>0, Zenon
  <1>4. leader' \in Job \cup {NoJob}
    BY <1>0 DEF work, RunnerType
  <1>5. rpc' \in {"stop", "wait", "create", "coalesce", "exchange", "complete"}
    BY Zenon
  <1>6. rpc' \in Serving => leader' \in Job
    BY DEF RunnerInv, Serving, work
  <1>7. rpc' \in {"stop", "wait", "create"} => followers = <<>>
    BY Zenon DEF RunnerInv
  <1>8. UNCHANGED decision \/ EndDecision
    BY Zenon
  <1> HIDE DEF CheckInput, Wake, IdleInput, Skip, Admit, ReturnCandidate, EndCoalescing,
               ExchangeOk, EndComplete
  <1>9. /\ rank' \in {rank, NoRank} /\ look' \in {look, 0}
        /\ ready' \in {ready, {}} /\ disturbed' \in {disturbed, FALSE}
    BY <1>8, Zenon DEF decision, EndDecision
  <1>10. /\ rank' \in Nat \cup {NoRank} /\ look' \in 0 .. N
         /\ ready' \in SUBSET Slots /\ disturbed' \in BOOLEAN
    <2>1. rank' \in Nat \cup {NoRank} /\ ready' \in SUBSET Slots /\ disturbed' \in BOOLEAN
      BY <1>0, <1>9 DEF RunnerType
    <2>2. look' \in 0 .. N
      BY <1>0, <1>9, NAssumption DEF RunnerType
    <2> QED
      BY <2>1, <2>2
  <1>11. RunnerType'
    BY <1>0, <1>1, <1>2, <1>10, <1>4, <1>5 DEF RunnerType, RunnerState
  <1>12. RunnerInv'
    BY <1>2, <1>5, <1>6, <1>7 DEF RunnerInv, Finishing
  <1> QED
    BY <1>0, <1>1, <1>3, <1>11, <1>12, SameClient, SameSlots DEF TypeOK

LEMMA RunnerTypes ==
    ASSUME TypeOK, RunnerInv, Runner
    PROVE  (TypeOK /\ RunnerInv)'
  <1> USE QueueOfAssumption, NAssumption
  <1>0. /\ ClientType /\ SlotType /\ RunnerType
        /\ runner_closed \in BOOLEAN /\ notify \in BOOLEAN
    BY DEF TypeOK
  <1>a. ASSUME UNCHANGED clientVars, SlotType', RunnerType', RunnerInv', notify' \in BOOLEAN,
               runner_closed' \in BOOLEAN
        PROVE  (TypeOK /\ RunnerInv)'
    BY <1>0, <1>a, SameClient DEF TypeOK
  <1>1. CASE CreateNotified
    <2>1. UNCHANGED <<clientVars, slotVars, cursor, work, runner_closed, notify>>
      BY <1>1 DEF CreateNotified
    <2>2. /\ woken' \in BOOLEAN /\ rank' \in Nat \cup {NoRank} /\ look' \in 0 .. N
          /\ ready' \in SUBSET Slots /\ disturbed' \in BOOLEAN /\ rpc' = "rank"
          /\ followers = <<>> /\ look' \in Slots
      <3>1. look' = 0 /\ rank' = NoRank /\ rpc' = "rank" /\ followers = <<>>
        BY <1>1 DEF CreateNotified, RunnerInv
      <3>2. look' \in 0 .. N /\ look' \in Slots
        BY <3>1 DEF Slots
      <3>3. ready' \in SUBSET Slots
        BY <1>1 DEF CreateNotified
      <3>4. woken' \in BOOLEAN /\ disturbed' \in BOOLEAN
        BY <1>1 DEF CreateNotified
      <3> QED
        BY <3>1, <3>2, <3>3, <3>4
    <2>3. RunnerType' /\ RunnerInv'
      BY <1>0, <2>1, <2>2 DEF RunnerType, RunnerInv, work, RunnerState, Finishing, Serving
    <2> QED
      BY <1>0, <1>a, <2>1, <2>3, SameSlots
  <1>2. CASE ScanRank
    <2>1. UNCHANGED <<clientVars, slotVars, woken, cursor, ready, disturbed, work, runner_closed,
                      notify>>
      BY <1>2 DEF ScanRank
    <2>2. look \in Slots /\ rpc = "rank"
      BY <1>2 DEF ScanRank, RunnerInv
    <2>3. rank' \in Nat \cup {NoRank}
      <3>1. priority[look].value \in Nat
        BY <1>0, <2>2 DEF ClientType, QueuePriority
      <3>2. rank' \in {rank, priority[look].value}
        BY <1>2 DEF ScanRank, RankWith
      <3> QED
        BY <1>0, <3>1, <3>2 DEF RunnerType
    <2>4. /\ look' \in 0 .. N /\ rpc' \in {"rank", "weighted", "strict"} /\ followers = <<>>
          /\ rpc' = "rank" => look' \in Slots
      BY <1>0, <1>2, <2>2 DEF ScanRank, RunnerInv, RunnerType, Slots
    <2>5. RunnerType' /\ RunnerInv'
      BY <1>0, <2>1, <2>3, <2>4 DEF RunnerType, RunnerInv, work, RunnerState, Finishing, Serving
    <2> QED
      BY <1>0, <1>a, <2>1, <2>5, SameSlots
  <1>3. CASE PopStrict \/ PopWeighted \/ DiscardCandidate \/ DrainEntry
    BY <1>3, PopTypes
  <1>4. CASE \/ CheckInput \/ Wake \/ (\E usable \in BOOLEAN : IdleInput(usable))
             \/ Skip \/ Admit \/ ReturnCandidate \/ EndCoalescing \/ ExchangeOk \/ EndComplete
    BY <1>4, MoveTypes
  <1>5. CASE ReleasePermit
    <2>1. UNCHANGED <<clientVars, queued, entries, ticket, woken, cursor, decision, work,
                      runner_closed, notify>>
      BY <1>5 DEF ReleasePermit
    <2>2. rpc = "release" /\ rpc' = "decrement" /\ hand \in Job /\ QueueOf[hand] \in Slots
      BY <1>5 DEF ReleasePermit, RunnerInv, Finishing
    <2>3. SlotType'
      <3>1. permits' = [permits EXCEPT ![QueueOf[hand]] = @ + 1] /\ held' = held \ {hand}
        BY <1>5 DEF ReleasePermit
      <3>2. permits' \in [Slots -> Nat]
        BY <1>0, <2>2, <3>1 DEF SlotType
      <3>3. held' \in SUBSET Job
        BY <1>0, <3>1 DEF SlotType
      <3> QED
        BY <1>0, <2>1, <3>2, <3>3 DEF SlotType
    <2>4. RunnerType' /\ RunnerInv'
      BY <1>0, <2>1, <2>2
      DEF RunnerType, RunnerInv, work, decision, RunnerState, Finishing, Serving
    <2> QED
      BY <1>0, <1>a, <2>1, <2>3, <2>4
  <1>6. CASE Decrement
    <2>1. UNCHANGED <<clientVars, permits, held, entries, ticket, woken, cursor, decision, back,
                      followers, sweep, runner_closed, notify>>
      BY <1>6 DEF Decrement
    <2>2. /\ rpc = "decrement" /\ rpc' = back /\ hand \in Job /\ QueueOf[hand] \in Slots
          /\ hand' = NoJob /\ leader' = IF back = "serve" THEN hand ELSE leader
          /\ queued' = [queued EXCEPT ![QueueOf[hand]] = FetchSub(@)]
      BY <1>6 DEF Decrement, RunnerInv, Finishing
    <2>3. SlotType'
      <3>1. FetchSub(queued[QueueOf[hand]]) \in 0 .. Word - 1
        BY <1>0, <2>2, WordCounter DEF SlotType
      <3> QED
        BY <1>0, <2>1, <2>2, <3>1 DEF SlotType
    <2>4. RunnerType'
      BY <1>0, <2>1, <2>2 DEF RunnerType, decision, RunnerState
    <2>5. back \in {"serve", "coalesce", "complete", "drain"}
      BY <1>0 DEF RunnerType
    <2>6. RunnerInv'
      BY <2>1, <2>2, <2>5 DEF RunnerInv, Finishing, Serving
    <2> QED
      BY <1>0, <1>a, <2>1, <2>3, <2>4, <2>6
  <1>7. CASE Follow
    <2> DEFINE s == QueueOf[leader]
    <2>1. UNCHANGED <<clientVars, permits, held, queued, ticket, rpc, woken, cursor, decision, hand,
                      back, leader, sweep, runner_closed, notify>>
      BY <1>7 DEF Follow
    <2>2. /\ rpc = "coalesce" /\ leader \in Job /\ s \in Slots /\ entries[s] # <<>>
          /\ followers' = Append(followers, Head(entries[s]))
          /\ entries' = [entries EXCEPT ![s] = Tail(@)]
      BY <1>7 DEF Follow, RunnerInv, Serving
    <2>3. Head(entries[s]) \in Job /\ Tail(entries[s]) \in Seq(Job)
      BY <1>0, <2>2, TailRange DEF SlotType
    <2>4. SlotType'
      BY <1>0, <2>1, <2>2, <2>3 DEF SlotType
    <2>5. followers' \in Seq(Job)
      BY <1>0, <2>2, <2>3, AppendRange DEF RunnerType
    <2>6. RunnerType' /\ RunnerInv'
      BY <1>0, <2>1, <2>2, <2>5 DEF RunnerType, RunnerInv, decision, Finishing, Serving
    <2> QED
      BY <1>0, <1>a, <2>1, <2>4, <2>6
  <1>8. CASE CompleteFollower
    <2>1. UNCHANGED <<clientVars, slotVars, woken, cursor, decision, leader, sweep, runner_closed,
                      notify>>
      BY <1>8 DEF CompleteFollower
    <2>2. /\ rpc' = "release" /\ back' = "complete" /\ leader \in Job
          /\ followers # <<>> /\ hand' = Head(followers) /\ followers' = Tail(followers)
      BY <1>8 DEF CompleteFollower, RunnerInv, Serving
    <2>3. hand' \in Job /\ followers' \in Seq(Job)
      BY <1>0, <2>2, TailRange DEF RunnerType
    <2>4. RunnerType' /\ RunnerInv'
      BY <1>0, <2>1, <2>2, <2>3
      DEF RunnerType, RunnerInv, decision, RunnerState, Finishing, Serving
    <2> QED
      BY <1>0, <1>a, <2>1, <2>4, SameSlots
  <1>9. ASSUME NEW next \in AfterError, ExchangeErr(next)
        PROVE  (TypeOK /\ RunnerInv)'
    <2> DEFINE s == QueueOf[leader]
    <2>1. UNCHANGED <<clientVars, permits, held, queued, ticket, woken, cursor, decision, hand,
                      back, sweep, runner_closed>>
      BY <1>9 DEF ExchangeErr
    <2>2. /\ rpc' \in {"create", "stop", "gone"} /\ leader \in Job /\ s \in Slots
          /\ entries' = [entries EXCEPT ![s] = followers \o @]
          /\ leader' = NoJob /\ followers' = <<>>
      BY <1>9 DEF ExchangeErr, AfterError, requeue_followers, RunnerInv, Serving
    <2>3. notify' \in BOOLEAN
      BY <1>9 DEF ExchangeErr
    <2>4. SlotType'
      <3>1. followers \o entries[s] \in Seq(Job)
        BY <1>0, <2>2, ConcatRange DEF SlotType, RunnerType
      <3> QED
        BY <1>0, <2>1, <2>2, <3>1 DEF SlotType
    <2>5. followers' \in Seq(Job)
      BY <2>2, EmptySeq
    <2>6. RunnerType' /\ RunnerInv'
      BY <1>0, <2>1, <2>2, <2>5 DEF RunnerType, RunnerInv, decision, RunnerState, Finishing, Serving
    <2> QED
      BY <1>0, <1>a, <2>1, <2>3, <2>4, <2>6
  <1>10. CASE CloseRunner
    <2>1. UNCHANGED <<clientVars, slotVars, cursor, decision, hand, back, leader, followers, notify>>
      BY <1>10 DEF CloseRunner
    <2>2. /\ rpc' = "drain" /\ runner_closed' \in BOOLEAN /\ woken' \in BOOLEAN /\ sweep' = 0
          /\ followers = <<>>
      BY <1>10 DEF CloseRunner, NotifyWaiters, RunnerInv
    <2>3. RunnerType' /\ RunnerInv'
      BY <1>0, <2>1, <2>2 DEF RunnerType, RunnerInv, decision, RunnerState, Finishing, Serving
    <2> QED
      BY <1>0, <1>a, <2>1, <2>2, <2>3, SameSlots
  <1>11. CASE DrainNext
    <2>1. UNCHANGED <<clientVars, slotVars, woken, cursor, decision, hand, back, leader, followers,
                      runner_closed, notify>>
      BY <1>11 DEF DrainNext
    <2>2. rpc' \in {"drain", "stopped"} /\ sweep' \in 0 .. N /\ followers = <<>>
      BY <1>0, <1>11 DEF DrainNext, RunnerType, RunnerInv
    <2>3. RunnerType' /\ RunnerInv'
      BY <1>0, <2>1, <2>2 DEF RunnerType, RunnerInv, decision, RunnerState, Finishing, Serving
    <2> QED
      BY <1>0, <1>a, <2>1, <2>3, SameSlots
  <1>12. CASE DropRunner
    <2>1. UNCHANGED <<clientVars, queued, entries, ticket, woken, cursor, decision, hand, back,
                      sweep, runner_closed, notify>>
      BY <1>12 DEF DropRunner
    <2>2. /\ rpc' = "gone" /\ followers' = <<>> /\ leader' = NoJob
          /\ held' = held \ Range(followers)
          /\ permits' = [s \in Slots |->
                permits[s] + Cardinality({j \in Range(followers) : QueueOf[j] = s})]
      BY <1>12 DEF DropRunner
    <2>3. permits' \in [Slots -> Nat]
      <3>1. ASSUME NEW s \in Slots
            PROVE  permits[s] + Cardinality({j \in Range(followers) : QueueOf[j] = s}) \in Nat
        <4>1. {j \in Range(followers) : QueueOf[j] = s} \in SUBSET Job
          BY <1>0, FollowersAreJobs
        <4>2. Cardinality({j \in Range(followers) : QueueOf[j] = s}) \in Nat
          BY <4>1, JobAssumption, FS_Subset, FS_CardinalityType
        <4> QED
          BY <1>0, <4>2 DEF SlotType
      <3> QED
        BY <2>2, <3>1
    <2>4. SlotType'
      BY <1>0, <2>1, <2>2, <2>3 DEF SlotType
    <2>5. followers' \in Seq(Job)
      BY <2>2, EmptySeq
    <2>6. RunnerType' /\ RunnerInv'
      BY <1>0, <2>1, <2>2, <2>5 DEF RunnerType, RunnerInv, decision, RunnerState, Finishing, Serving
    <2> QED
      BY <1>0, <1>a, <2>1, <2>4, <2>6
  <1> QED
    BY <1>1, <1>2, <1>3, <1>4, <1>5, <1>6, <1>7, <1>8, <1>9, <1>10, <1>11, <1>12 DEF Runner

LEMMA NextTypes == TypeOK /\ RunnerInv /\ [Next]_vars => (TypeOK /\ RunnerInv)'
  <1> SUFFICES ASSUME TypeOK, RunnerInv, [Next]_vars PROVE (TypeOK /\ RunnerInv)'
    OBVIOUS
  <1>1. CASE UNCHANGED vars
    BY <1>1, SameClient, SameSlots, SameRunner DEF TypeOK, vars
  <1> QED
    BY <1>1, ClientTypes, RunnerTypes DEF Next

(* Every variable of the queue set, its clients and its runner keeps its     *)
(* type; in particular no semaphore goes below zero and no deque is popped   *)
(* when it is empty.                                                         *)
THEOREM TypeCorrect == Spec => []TypeOK
  BY InitTypes, NextTypes, PTL DEF Spec
=============================================================================

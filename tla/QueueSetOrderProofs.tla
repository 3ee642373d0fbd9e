------------------------- MODULE QueueSetOrderProofs --------------------------
(***************************************************************************)
(* Proofs about the places of a queue set (module QueueSet), for every       *)
(* number of clients, slots and places: every slot keeps to its capacity, and *)
(* its entries keep the order in which they were appended, through pops,     *)
(* coalescing and requeues.                                                  *)
(***************************************************************************)
EXTENDS QueueSetProofs

(* Permits.  A permit is held for a job from Acquire until its entry is      *)
(* finished; in between the job is at one place of its own slot.             *)

HeldIn(jobs, s) == {j \in jobs : QueueOf[j] = s}

(* No permit of a semaphore is lost, and none is made. *)
PermitInv == \A s \in Slots : permits[s] + Cardinality(HeldIn(held, s)) = Capacity[s]

Appended == {"count", "notify", "accepted"}

(* An entry has a permit, and its push has appended it. *)
IsEntry(j) == j \in held /\ push[j] \in Appended

(* An entry is at one place: in the deque of its slot, among the followers of *)
(* a leader of its slot, or in the hand of the runner that finishes it.       *)
DequesInv ==
    /\ \A s \in Slots : NoDup(entries[s])
    /\ \A s \in Slots : \A j \in Range(entries[s]) : QueueOf[j] = s /\ IsEntry(j)
FollowersInv ==
    /\ NoDup(followers)
    /\ \A j \in Range(followers) :
         /\ QueueOf[j] = QueueOf[leader] /\ IsEntry(j)
         /\ \A s \in Slots : j \notin Range(entries[s])
HandInv ==
    rpc = "release" =>
      /\ IsEntry(hand) /\ hand \notin Range(followers)
      /\ \A s \in Slots : hand \notin Range(entries[s])
PushInv ==
    /\ \A j \in Job : push[j] \in {"finish", "append"} => j \in held
    /\ \A j \in Job : push[j] \in {"new", "acquire"} => j \notin held

PlaceInv == DequesInv /\ FollowersInv /\ HandInv /\ PushInv

LEMMA FiniteHeld ==
    ASSUME NEW jobs \in SUBSET Job, NEW s
    PROVE  IsFiniteSet(HeldIn(jobs, s)) /\ Cardinality(HeldIn(jobs, s)) \in Nat
  <1>1. HeldIn(jobs, s) \in SUBSET Job
    BY DEF HeldIn
  <1> QED
    BY <1>1, JobAssumption, FS_Subset, FS_CardinalityType

LEMMA HeldAdd ==
    ASSUME NEW jobs \in SUBSET Job, NEW j \in Job, j \notin jobs, NEW s
    PROVE  Cardinality(HeldIn(jobs \cup {j}, s))
             = Cardinality(HeldIn(jobs, s)) + (IF QueueOf[j] = s THEN 1 ELSE 0)
  <1>1. CASE QueueOf[j] = s
    <2>1. HeldIn(jobs \cup {j}, s) = HeldIn(jobs, s) \cup {j} /\ j \notin HeldIn(jobs, s)
      BY <1>1 DEF HeldIn
    <2> QED
      BY <1>1, <2>1, FiniteHeld, FS_AddElement
  <1>2. CASE QueueOf[j] # s
    <2>1. HeldIn(jobs \cup {j}, s) = HeldIn(jobs, s)
      BY <1>2 DEF HeldIn
    <2> QED
      BY <1>2, <2>1, FiniteHeld
  <1> QED
    BY <1>1, <1>2

LEMMA HeldRemove ==
    ASSUME NEW jobs \in SUBSET Job, NEW gone \in SUBSET jobs, NEW s
    PROVE  Cardinality(HeldIn(jobs \ gone, s)) + Cardinality(HeldIn(gone, s))
             = Cardinality(HeldIn(jobs, s))
  <1>1. /\ HeldIn(jobs \ gone, s) = HeldIn(jobs, s) \ HeldIn(gone, s)
        /\ HeldIn(jobs, s) \cap HeldIn(gone, s) = HeldIn(gone, s)
    BY DEF HeldIn
  <1>2. IsFiniteSet(HeldIn(jobs, s)) /\ Cardinality(HeldIn(jobs, s)) \in Nat
        /\ Cardinality(HeldIn(gone, s)) \in Nat
    BY FiniteHeld
  <1>3. Cardinality(HeldIn(jobs, s) \ HeldIn(gone, s))
          = Cardinality(HeldIn(jobs, s)) - Cardinality(HeldIn(jobs, s) \cap HeldIn(gone, s))
    BY <1>2, FS_Difference
  <1>4. Cardinality(HeldIn(jobs \ gone, s))
          = Cardinality(HeldIn(jobs, s)) - Cardinality(HeldIn(gone, s))
    BY <1>1, <1>3, Zenon
  <1> QED
    BY <1>2, <1>4

LEMMA HeldRemoveOne ==
    ASSUME NEW jobs \in SUBSET Job, NEW j \in jobs, NEW s
    PROVE  Cardinality(HeldIn(jobs \ {j}, s))
             = Cardinality(HeldIn(jobs, s)) - (IF QueueOf[j] = s THEN 1 ELSE 0)
  <1>1. {j} \in SUBSET jobs /\ jobs \ {j} \in SUBSET Job
    OBVIOUS
  <1>2. Cardinality(HeldIn(jobs \ {j}, s)) + Cardinality(HeldIn({j}, s))
          = Cardinality(HeldIn(jobs, s))
    BY <1>1, HeldRemove
  <1>3. Cardinality(HeldIn({j}, s)) = IF QueueOf[j] = s THEN 1 ELSE 0
    <2>1. CASE QueueOf[j] = s
      <3>1. HeldIn({j}, s) = {j}
        BY <2>1 DEF HeldIn
      <3> QED
        BY <2>1, <3>1, FS_Singleton
    <2>2. CASE QueueOf[j] # s
      <3>1. HeldIn({j}, s) = {}
        BY <2>2 DEF HeldIn
      <3> QED
        BY <2>2, <3>1, FS_EmptySet
    <2> QED
      BY <2>1, <2>2
  <1>4. /\ Cardinality(HeldIn(jobs \ {j}, s)) \in Nat
        /\ Cardinality(HeldIn(jobs, s)) \in Nat
    BY <1>1, FiniteHeld
  <1> QED
    BY <1>2, <1>3, <1>4

(* Permits and held jobs change together. *)
LEMMA NextPermits ==
    ASSUME TypeOK, RunnerInv, PlaceInv, PermitInv, [Next]_vars
    PROVE  PermitInv'
  <1> USE QueueOfAssumption, CapacityAssumption
  <1>0. /\ held \in SUBSET Job /\ permits \in [Slots -> Nat]
        /\ \A s \in Slots : Cardinality(HeldIn(held, s)) \in Nat
    BY FiniteHeld DEF TypeOK, SlotType
  <1>a. ASSUME UNCHANGED <<permits, held>> PROVE PermitInv'
    BY <1>a DEF PermitInv
  <1>1. ASSUME NEW j \in Job, Acquire(j) PROVE PermitInv'
    <2>1. /\ j \notin held /\ permits' = [permits EXCEPT ![QueueOf[j]] = @ - 1]
          /\ held' = held \cup {j}
      BY <1>1 DEF Acquire, Goto, PlaceInv, PushInv
    <2>2. \A s \in Slots : Cardinality(HeldIn(held', s))
                           = Cardinality(HeldIn(held, s)) + (IF QueueOf[j] = s THEN 1 ELSE 0)
      BY <1>0, <2>1, HeldAdd
    <2>3. \A s \in Slots : permits'[s] = permits[s] - (IF QueueOf[j] = s THEN 1 ELSE 0)
      BY <1>0, <2>1
    <2> QED
      BY <1>0, <2>2, <2>3 DEF PermitInv
  <1>b. ASSUME NEW j \in held, permits' = [permits EXCEPT ![QueueOf[j]] = @ + 1],
               held' = held \ {j}
        PROVE  PermitInv'
    <2>1. \A s \in Slots : Cardinality(HeldIn(held', s))
                           = Cardinality(HeldIn(held, s)) - (IF QueueOf[j] = s THEN 1 ELSE 0)
      BY <1>0, <1>b, HeldRemoveOne
    <2>2. \A s \in Slots : permits'[s] = permits[s] + (IF QueueOf[j] = s THEN 1 ELSE 0)
      BY <1>0, <1>b
    <2> QED
      BY <1>0, <2>1, <2>2 DEF PermitInv
  <1>2. ASSUME NEW j \in Job, FinishPush(j) PROVE PermitInv'
    <2>1. CASE runner_closed
      BY <1>2, <1>b, <2>1 DEF FinishPush, Goto, PlaceInv, PushInv
    <2>2. CASE ~runner_closed
      BY <1>2, <1>a, <2>2 DEF FinishPush
    <2> QED
      BY <2>1, <2>2
  <1>3. CASE ReleasePermit
    BY <1>3, <1>b DEF ReleasePermit, PlaceInv, HandInv, IsEntry
  <1>4. CASE DropRunner
    <2>1. /\ Range(followers) \in SUBSET held /\ held' = held \ Range(followers)
          /\ permits' = [s \in Slots |-> permits[s] + Cardinality(HeldIn(Range(followers), s))]
      BY <1>4 DEF DropRunner, PlaceInv, FollowersInv, IsEntry, HeldIn
    <2>2. \A s \in Slots : /\ Cardinality(HeldIn(held', s)) + Cardinality(HeldIn(Range(followers), s))
                              = Cardinality(HeldIn(held, s))
                           /\ Cardinality(HeldIn(held', s)) \in Nat
                           /\ Cardinality(HeldIn(Range(followers), s)) \in Nat
      <3>1. Range(followers) \in SUBSET Job /\ held \ Range(followers) \in SUBSET Job
        BY <1>0, <2>1
      <3> QED
        BY <1>0, <2>1, <3>1, HeldRemove, FiniteHeld
    <2>3. \A s \in Slots : permits'[s] = permits[s] + Cardinality(HeldIn(Range(followers), s))
      BY <2>1
    <2>4. \A s \in Slots : permits[s] \in Nat /\ permits[s] + Cardinality(HeldIn(held, s)) = Capacity[s]
      BY <1>0 DEF PermitInv
    <2>5. \A s \in Slots : permits'[s] + Cardinality(HeldIn(held', s)) = Capacity[s]
      BY <1>0, <2>2, <2>3, <2>4
    <2> QED
      BY <2>5 DEF PermitInv
  <1>5. ASSUME NEW j \in Job, StartPush(j) \/ GiveUp(j) \/ PushBack(j) \/ CountPush(j) \/ NotifyPush(j)
        PROVE  PermitInv'
    <2>1. UNCHANGED <<permits, held>>
      BY <1>5 DEF StartPush, GiveUp, PushBack, CountPush, NotifyPush, slotVars
    <2> QED
      BY <1>a, <2>1
  <1>6. ASSUME NEW s \in Slots, StorePriority(s) PROVE PermitInv'
    BY <1>6, <1>a DEF StorePriority, slotVars
  <1>7. CASE \/ NotifyPriority \/ CloseInput \/ CreateNotified \/ ScanRank \/ PopStrict
             \/ PopWeighted \/ CheckInput \/ Wake \/ (\E usable \in BOOLEAN : IdleInput(usable))
             \/ Decrement \/ UNCHANGED vars
    <2> SUFFICES UNCHANGED <<permits, held>>
      BY <1>a
    <2>1. CASE NotifyPriority \/ CloseInput \/ CreateNotified \/ ScanRank \/ Decrement
      BY <2>1 DEF NotifyPriority, CloseInput, CreateNotified, ScanRank, Decrement, slotVars
    <2>2. CASE PopStrict \/ PopWeighted \/ UNCHANGED vars
      BY <2>2 DEF PopStrict, PopWeighted, slotVars, vars
    <2>3. CASE CheckInput \/ Wake \/ (\E usable \in BOOLEAN : IdleInput(usable))
      BY <2>3 DEF CheckInput, Wake, IdleInput, slotVars
    <2> QED
      BY <1>7, <2>1, <2>2, <2>3
  <1>8. CASE \/ Skip \/ Admit \/ Follow \/ DiscardCandidate \/ ReturnCandidate \/ EndCoalescing
             \/ ExchangeOk \/ CompleteFollower \/ EndComplete
             \/ (\E next \in AfterError : ExchangeErr(next))
             \/ CloseRunner \/ DrainEntry \/ DrainNext
    <2> SUFFICES UNCHANGED <<permits, held>>
      BY <1>a
    <2>1. CASE Skip \/ Admit \/ Follow \/ DiscardCandidate \/ ReturnCandidate \/ EndCoalescing
      BY <2>1 DEF Skip, Admit, Follow, DiscardCandidate, ReturnCandidate, EndCoalescing, slotVars
    <2>2. CASE \/ ExchangeOk \/ CompleteFollower \/ EndComplete
               \/ (\E next \in AfterError : ExchangeErr(next))
      BY <2>2 DEF ExchangeOk, CompleteFollower, EndComplete, ExchangeErr, slotVars
    <2>3. CASE CloseRunner \/ DrainEntry \/ DrainNext
      BY <2>3 DEF CloseRunner, DrainEntry, DrainNext, slotVars
    <2> QED
      BY <1>8, <2>1, <2>2, <2>3
  <1> QED
    BY <1>1, <1>2, <1>3, <1>4, <1>5, <1>6, <1>7, <1>8 DEF Next, Client, Runner

(* A push that does not touch a deque, and has no entry or keeps it. *)
LEMMA PushPlaces ==
    ASSUME TypeOK, PlaceInv, NEW j \in Job, NEW from, NEW to, Goto(j, from, to),
           UNCHANGED <<entries, followers, leader, hand, rpc>>,
           \/ from \in Appended /\ to \in Appended /\ held' = held
           \/ from \notin Appended /\ held' \in {held, held \cup {j}, held \ {j}},
           to \in {"finish", "append"} => j \in held',
           to \in {"new", "acquire"} => j \notin held'
    PROVE  PlaceInv'
  <1>0. push \in [Job -> PushState] /\ held \in SUBSET Job
    BY DEF TypeOK, ClientType, SlotType
  <1>1. push[j] = from /\ push' = [push EXCEPT ![j] = to]
    BY DEF Goto
  <1>2. ASSUME NEW k, IsEntry(k) PROVE IsEntry(k)'
    BY <1>0, <1>1, <1>2 DEF IsEntry
  <1>3. DequesInv'
    BY <1>2 DEF PlaceInv, DequesInv
  <1>4. FollowersInv'
    BY <1>2 DEF PlaceInv, FollowersInv
  <1>5. HandInv'
    BY <1>2 DEF PlaceInv, HandInv
  <1>6. PushInv'
    BY <1>0, <1>1 DEF PlaceInv, PushInv
  <1> QED
    BY <1>3, <1>4, <1>5, <1>6 DEF PlaceInv

LEMMA PushBackPlaces ==
    ASSUME TypeOK, PlaceInv, NEW j \in Job, PushBack(j)
    PROVE  PlaceInv'
  <1> USE QueueOfAssumption
  <1>0. push \in [Job -> PushState] /\ entries \in [Slots -> Seq(Job)]
    BY DEF TypeOK, ClientType, SlotType
  <1>1. /\ push[j] = "append" /\ push' = [push EXCEPT ![j] = "count"]
        /\ entries' = [entries EXCEPT ![QueueOf[j]] = Append(@, j)]
        /\ UNCHANGED <<held, followers, leader, hand, rpc>>
    BY DEF PushBack, Goto, runnerVars, work
  <1>2. j \in held /\ ~IsEntry(j) /\ IsEntry(j)'
    BY <1>0, <1>1 DEF PlaceInv, PushInv, IsEntry, Appended
  <1>3. ASSUME NEW k, IsEntry(k) PROVE IsEntry(k)' /\ k # j
    BY <1>0, <1>1, <1>2, <1>3 DEF IsEntry
  <1>4. \A s \in Slots : /\ Range(entries'[s]) = Range(entries[s]) \cup (IF s = QueueOf[j] THEN {j} ELSE {})
                         /\ NoDup(entries'[s])
    <2>1. QueueOf[j] \in Slots /\ j \notin Range(entries[QueueOf[j]]) /\ NoDup(entries[QueueOf[j]])
      BY <1>2 DEF PlaceInv, DequesInv
    <2>2. /\ Range(Append(entries[QueueOf[j]], j)) = Range(entries[QueueOf[j]]) \cup {j}
          /\ NoDup(Append(entries[QueueOf[j]], j))
      BY <1>0, <2>1, AppendRange
    <2> QED
      BY <1>0, <1>1, <2>1, <2>2 DEF PlaceInv, DequesInv
  <1>5. DequesInv'
    BY <1>2, <1>3, <1>4 DEF PlaceInv, DequesInv
  <1>6. FollowersInv'
    <2>1. ASSUME NEW k \in Range(followers)
          PROVE  /\ QueueOf[k] = QueueOf[leader] /\ IsEntry(k)
                 /\ \A s \in Slots : k \notin Range(entries[s])
      BY DEF PlaceInv, FollowersInv
    <2>2. ASSUME NEW k \in Range(followers)
          PROVE  /\ QueueOf[k] = QueueOf[leader] /\ IsEntry(k)'
                 /\ \A s \in Slots : k \notin Range(entries'[s])
      <3>1. IsEntry(k)' /\ k # j
        BY <1>3, <2>1
      <3> QED
        BY <1>4, <2>1, <3>1
    <2>3. NoDup(followers) /\ followers' = followers /\ leader' = leader
      BY <1>1 DEF PlaceInv, FollowersInv
    <2> QED
      BY <2>2, <2>3, Zenon DEF FollowersInv
  <1>7. HandInv'
    BY <1>1, <1>3, <1>4 DEF PlaceInv, HandInv
  <1>8. PushInv'
    BY <1>0, <1>1 DEF PlaceInv, PushInv
  <1> QED
    BY <1>5, <1>6, <1>7, <1>8 DEF PlaceInv

LEMMA TakeFrontPlaces ==
    ASSUME TypeOK, PlaceInv, NEW s \in Slots, entries[s] # <<>>, NEW to, TakeFront(s, to),
           UNCHANGED <<push, held, followers, leader>>
    PROVE  PlaceInv'
  <1>0. entries \in [Slots -> Seq(Job)]
    BY DEF TypeOK, SlotType
  <1>1. /\ hand' = Head(entries[s]) /\ rpc' = "release"
        /\ entries' = [entries EXCEPT ![s] = Tail(@)]
    BY DEF TakeFront
  <1>2. /\ Range(entries[s]) = {hand'} \cup Range(Tail(entries[s]))
        /\ NoDup(Tail(entries[s])) /\ hand' \notin Range(Tail(entries[s]))
    BY <1>0, <1>1, TailRange DEF PlaceInv, DequesInv
  <1>3. \A t \in Slots : /\ NoDup(entries'[t])
                         /\ Range(entries'[t]) \subseteq Range(entries[t])
                         /\ hand' \notin Range(entries'[t])
    BY <1>0, <1>1, <1>2 DEF PlaceInv, DequesInv
  <1>4. DequesInv' /\ FollowersInv' /\ PushInv'
    BY <1>3 DEF PlaceInv, DequesInv, FollowersInv, PushInv, IsEntry
  <1>5. HandInv'
    BY <1>2, <1>3 DEF PlaceInv, DequesInv, FollowersInv, HandInv, IsEntry
  <1> QED
    BY <1>4, <1>5 DEF PlaceInv

LEMMA ClientPlaces ==
    ASSUME TypeOK, PlaceInv, Client
    PROVE  PlaceInv'
  <1>1. ASSUME NEW j \in Job, StartPush(j) PROVE PlaceInv'
    <2>1. /\ Goto(j, "new", IF runner_closed THEN "closed" ELSE "acquire")
          /\ UNCHANGED <<entries, followers, leader, hand, rpc, held>> /\ j \notin held
      BY <1>1 DEF StartPush, Goto, slotVars, runnerVars, work, PlaceInv, PushInv
    <2> QED
      BY <2>1, PushPlaces DEF Appended
  <1>2. ASSUME NEW j \in Job, Acquire(j) PROVE PlaceInv'
    <2>1. /\ Goto(j, "acquire", "finish") /\ held' = held \cup {j}
          /\ UNCHANGED <<entries, followers, leader, hand, rpc>>
      BY <1>2 DEF Acquire, runnerVars, work
    <2> QED
      BY <2>1, PushPlaces DEF Appended
  <1>3. ASSUME NEW j \in Job, GiveUp(j) PROVE PlaceInv'
    <2>1. PICK to \in Rejected : Goto(j, "acquire", to)
      BY <1>3 DEF GiveUp, Rejected
    <2>2. UNCHANGED <<entries, followers, leader, hand, rpc, held>>
      BY <1>3 DEF GiveUp, slotVars, runnerVars, work
    <2> QED
      BY <2>1, <2>2, PushPlaces DEF Appended, Rejected
  <1>4. ASSUME NEW j \in Job, FinishPush(j) PROVE PlaceInv'
    <2>1. /\ \/ Goto(j, "finish", "closed") /\ held' = held \ {j}
             \/ Goto(j, "finish", "append") /\ held' = held /\ j \in held
          /\ UNCHANGED <<entries, followers, leader, hand, rpc>>
      BY <1>4 DEF FinishPush, Goto, runnerVars, work, PlaceInv, PushInv
    <2> QED
      BY <2>1, PushPlaces DEF Appended
  <1>5. ASSUME NEW j \in Job, PushBack(j) PROVE PlaceInv'
    BY <1>5, PushBackPlaces
  <1>6. ASSUME NEW j \in Job, CountPush(j) \/ NotifyPush(j) PROVE PlaceInv'
    <2>1. /\ Goto(j, "count", "notify") \/ Goto(j, "notify", "accepted")
          /\ UNCHANGED <<entries, followers, leader, hand, rpc, held>>
      BY <1>6 DEF CountPush, NotifyPush, slotVars, runnerVars, work
    <2> QED
      BY <2>1, PushPlaces DEF Appended
  <1>7. CASE (\E s \in Slots : StorePriority(s)) \/ NotifyPriority \/ CloseInput
    <2>1. UNCHANGED <<entries, followers, leader, hand, rpc, held, push>>
      BY <1>7 DEF StorePriority, NotifyPriority, CloseInput, slotVars, runnerVars, work
    <2> QED
      BY <2>1 DEF PlaceInv, DequesInv, FollowersInv, HandInv, PushInv, IsEntry
  <1> QED
    BY <1>1, <1>2, <1>3, <1>4, <1>5, <1>6, <1>7 DEF Client

LEMMA RunnerPlaces ==
    ASSUME TypeOK, RunnerInv, PlaceInv, Runner
    PROVE  PlaceInv'
  <1> USE QueueOfAssumption
  <1>0. /\ entries \in [Slots -> Seq(Job)] /\ followers \in Seq(Job)
        /\ cursor \in QueueCursor /\ look \in 0 .. N /\ sweep \in 0 .. N
    BY DEF TypeOK, SlotType, RunnerType
  <1>e. Range(<<>>) = {} /\ NoDup(<<>>)
    BY DEF Range, NoDup
  (* Steps that move no entry, whatever becomes of a leader without followers. *)
  <1>a. ASSUME UNCHANGED <<push, held, entries, followers>>, rpc' # "release",
               leader' = leader \/ followers = <<>>
        PROVE  PlaceInv'
    <2>1. DequesInv' /\ PushInv' /\ HandInv'
      BY <1>a DEF PlaceInv, DequesInv, HandInv, PushInv, IsEntry
    <2>2. FollowersInv'
      BY <1>a, <1>e DEF PlaceInv, FollowersInv, IsEntry
    <2> QED
      BY <2>1, <2>2 DEF PlaceInv
  <1>1. CASE CreateNotified \/ ScanRank \/ CheckInput \/ Wake
             \/ (\E usable \in BOOLEAN : IdleInput(usable))
             \/ Admit \/ ReturnCandidate \/ EndCoalescing \/ ExchangeOk \/ CloseRunner \/ DrainNext
    <2>1. UNCHANGED <<push, held, entries, followers, leader>> /\ rpc' # "release"
      BY Zenon, <1>1 DEF CreateNotified, ScanRank, CheckInput, Wake, IdleInput, Admit, ReturnCandidate,
                  EndCoalescing, ExchangeOk, CloseRunner, DrainNext, slotVars, clientVars, work
    <2> QED
      BY <1>a, <2>1
  <1>2. CASE Skip \/ EndComplete
    <2>1. UNCHANGED <<push, held, entries, followers>> /\ rpc' # "release" /\ followers = <<>>
      BY <1>2 DEF Skip, EndComplete, slotVars, clientVars, RunnerInv
    <2> QED
      BY <1>a, <2>1
  <1>3. CASE Decrement
    <2>1. /\ UNCHANGED <<push, held, entries, followers>> /\ rpc' # "release"
          /\ leader' = leader \/ followers = <<>>
      BY <1>3 DEF Decrement, clientVars, RunnerInv, Finishing, TypeOK, RunnerType
    <2> QED
      BY <1>a, <2>1
  <1>4. CASE PopStrict
    <2> DEFINE s == At(cursor.strict_index, look)
    <2>1. s \in Slots
      BY <1>0, AtSlot, NAssumption DEF QueueCursor
    <2>2. CASE priority[s] = Strict(rank) /\ entries[s] # <<>>
      <3>1. TakeFront(s, "serve") /\ UNCHANGED <<push, held, followers, leader>>
        BY <1>4, <2>2 DEF PopStrict, clientVars
      <3> HIDE DEF s
      <3> QED
        BY <2>1, <2>2, <3>1, TakeFrontPlaces
    <2>3. CASE ~(priority[s] = Strict(rank) /\ entries[s] # <<>>)
      BY <1>4, <1>a, <2>3 DEF PopStrict, clientVars
    <2> QED
      BY <2>2, <2>3
  <1>5. CASE PopWeighted
    <2> DEFINE s == At(cursor.weighted_index, look)
               takes == /\ IsWeighted(priority[s])
                        /\ look = 0 => cursor.weighted_used < priority[s].value
                        /\ entries[s] # <<>>
    <2>1. s \in Slots
      BY <1>0, AtSlot, NAssumption DEF QueueCursor
    <2>2. CASE takes
      <3>1. /\ TakeFront(s, "serve") /\ UNCHANGED <<push, held, followers, leader>>
            /\ entries[s] # <<>>
        BY <1>5, <2>2 DEF PopWeighted, clientVars
      <3> HIDE DEF s
      <3> QED
        BY <2>1, <3>1, TakeFrontPlaces
    <2>3. CASE ~takes
      BY <1>5, <1>a, <2>3 DEF PopWeighted, clientVars
    <2> QED
      BY <2>2, <2>3
  <1>6. CASE DiscardCandidate
    <2>1. /\ QueueOf[leader] \in Slots /\ entries[QueueOf[leader]] # <<>>
          /\ TakeFront(QueueOf[leader], "coalesce")
          /\ UNCHANGED <<push, held, followers, leader>>
      BY <1>6 DEF DiscardCandidate, clientVars, RunnerInv, Serving
    <2> QED
      BY <2>1, TakeFrontPlaces
  <1>7. CASE DrainEntry
    <2>1. /\ sweep \in Slots /\ entries[sweep] # <<>> /\ TakeFront(sweep, "drain")
          /\ UNCHANGED <<push, held, followers, leader>>
      BY <1>0, <1>7, NAssumption DEF DrainEntry, clientVars, Slots
    <2> QED
      BY <2>1, TakeFrontPlaces
  <1>8. CASE ReleasePermit
    <2>1. /\ held' = held \ {hand} /\ rpc = "release" /\ rpc' = "decrement"
          /\ UNCHANGED <<push, entries, followers, leader>>
      BY <1>8 DEF ReleasePermit, clientVars, work
    <2>2. ASSUME NEW k, IsEntry(k), k # hand PROVE IsEntry(k)'
      BY <2>1, <2>2 DEF IsEntry
    <2>3. hand \notin Range(followers) /\ IsEntry(hand)
          /\ \A s \in Slots : hand \notin Range(entries[s])
      BY <2>1 DEF PlaceInv, HandInv
    <2>4. DequesInv' /\ FollowersInv' /\ HandInv'
      BY <2>1, <2>2, <2>3 DEF PlaceInv, DequesInv, FollowersInv, HandInv
    <2>5. PushInv'
      BY <2>1, <2>3 DEF PlaceInv, PushInv, IsEntry, Appended
    <2> QED
      BY <2>4, <2>5 DEF PlaceInv
  <1>9. CASE Follow
    <2> DEFINE s == QueueOf[leader]
               j == Head(entries[s])
    <2>1. /\ s \in Slots /\ entries[s] # <<>> /\ rpc' # "release"
          /\ followers' = Append(followers, j)
          /\ entries' = [entries EXCEPT ![s] = Tail(@)]
          /\ UNCHANGED <<push, held, leader>>
      BY <1>9 DEF Follow, clientVars, RunnerInv, Serving
    <2>2. /\ j \in Job /\ Range(entries[s]) = {j} \cup Range(Tail(entries[s]))
          /\ NoDup(Tail(entries[s])) /\ j \notin Range(Tail(entries[s]))
      BY <1>0, <2>1, TailRange DEF PlaceInv, DequesInv
    <2> HIDE DEF j
    <2>3. IsEntry(j) /\ QueueOf[j] = s /\ j \notin Range(followers)
      BY <2>1, <2>2 DEF PlaceInv, DequesInv, FollowersInv
    <2>4. Range(followers') = Range(followers) \cup {j} /\ NoDup(followers')
      BY <1>0, <2>1, <2>2, <2>3, AppendRange DEF PlaceInv, FollowersInv
    <2>5. \A t \in Slots : /\ NoDup(entries'[t])
                           /\ Range(entries'[t]) \subseteq Range(entries[t])
                           /\ j \notin Range(entries'[t])
      BY <1>0, <2>1, <2>2, <2>3 DEF PlaceInv, DequesInv
    <2>6. DequesInv' /\ HandInv' /\ PushInv'
      BY <2>1, <2>5 DEF PlaceInv, DequesInv, HandInv, PushInv, IsEntry
    <2>7. ASSUME NEW k \in Range(followers)
          PROVE  /\ QueueOf[k] = s /\ IsEntry(k)
                 /\ \A t \in Slots : k \notin Range(entries[t])
      BY DEF PlaceInv, FollowersInv
    <2>8. ASSUME NEW k \in Range(followers')
          PROVE  /\ QueueOf[k] = s /\ IsEntry(k)
                 /\ \A t \in Slots : k \notin Range(entries'[t])
      BY <2>3, <2>4, <2>5, <2>7
    <2>9. leader' = leader /\ \A k : IsEntry(k)' <=> IsEntry(k)
      BY <2>1 DEF IsEntry
    <2>10. FollowersInv'
      BY <2>4, <2>8, <2>9 DEF FollowersInv
    <2> QED
      BY <2>6, <2>10 DEF PlaceInv
  <1>10. CASE CompleteFollower
    <2>1. /\ followers # <<>> /\ hand' = Head(followers) /\ followers' = Tail(followers)
          /\ UNCHANGED <<push, held, entries, leader>>
      BY <1>10 DEF CompleteFollower, clientVars, slotVars
    <2>2. /\ Range(followers) = {hand'} \cup Range(followers')
          /\ NoDup(followers') /\ hand' \notin Range(followers')
      BY <1>0, <2>1, TailRange DEF PlaceInv, FollowersInv
    <2>3. DequesInv' /\ FollowersInv' /\ HandInv' /\ PushInv'
      BY <2>1, <2>2 DEF PlaceInv, DequesInv, FollowersInv, HandInv, PushInv, IsEntry
    <2> QED
      BY <2>3 DEF PlaceInv
  <1>11. ASSUME NEW next \in AfterError, ExchangeErr(next) PROVE PlaceInv'
    <2> DEFINE s == QueueOf[leader]
    <2>1. /\ s \in Slots /\ rpc' # "release" /\ followers' = <<>>
          /\ entries' = [entries EXCEPT ![s] = followers \o @]
          /\ UNCHANGED <<push, held>>
      BY <1>11 DEF ExchangeErr, AfterError, requeue_followers, clientVars, RunnerInv, Serving
    <2>2. /\ Range(followers \o entries[s]) = Range(followers) \cup Range(entries[s])
          /\ NoDup(followers \o entries[s])
      <3>1. Range(followers) \cap Range(entries[s]) = {} /\ NoDup(followers) /\ NoDup(entries[s])
        BY <2>1 DEF PlaceInv, DequesInv, FollowersInv
      <3> QED
        BY <1>0, <2>1, <3>1, ConcatRange
    <2>3. \A t \in Slots : /\ NoDup(entries'[t])
                           /\ Range(entries'[t]) = Range(entries[t])
                                \cup (IF t = s THEN Range(followers) ELSE {})
      BY <1>0, <2>1, <2>2 DEF PlaceInv, DequesInv
    <2>4. DequesInv'
      BY <2>1, <2>3 DEF PlaceInv, DequesInv, FollowersInv, IsEntry
    <2>5. FollowersInv' /\ HandInv' /\ PushInv'
      BY <1>e, <2>1 DEF PlaceInv, FollowersInv, HandInv, PushInv
    <2> QED
      BY <2>4, <2>5 DEF PlaceInv
  <1>12. CASE DropRunner
    <2>1. /\ held' = held \ Range(followers) /\ followers' = <<>> /\ rpc' # "release"
          /\ UNCHANGED <<push, entries>>
      BY <1>12 DEF DropRunner, clientVars
    <2>2. DequesInv'
      BY <2>1 DEF PlaceInv, DequesInv, FollowersInv, IsEntry
    <2>3. FollowersInv' /\ HandInv'
      BY <1>e, <2>1 DEF FollowersInv, HandInv
    <2>4. PushInv'
      BY <2>1 DEF PlaceInv, FollowersInv, PushInv, IsEntry, Appended
    <2> QED
      BY <2>2, <2>3, <2>4 DEF PlaceInv
  <1> QED
    BY <1>1, <1>2, <1>3, <1>4, <1>5, <1>6, <1>7, <1>8, <1>9, <1>10, <1>11, <1>12 DEF Runner

LEMMA InitPlaces == Init => PlaceInv /\ PermitInv
  <1> SUFFICES ASSUME Init PROVE PlaceInv /\ PermitInv
    OBVIOUS
  <1>1. PlaceInv
    BY DEF Init, PlaceInv, DequesInv, FollowersInv, HandInv, PushInv, Range, NoDup
  <1>2. PermitInv
    <2>1. held = {} /\ permits = Capacity
      BY DEF Init
    <2>2. \A s \in Slots : HeldIn(held, s) = {}
      BY <2>1 DEF HeldIn
    <2>3. \A s \in Slots : Cardinality(HeldIn(held, s)) = 0
      BY <2>2, FS_EmptySet
    <2> QED
      BY <2>1, <2>3, CapacityAssumption DEF PermitInv
  <1> QED
    BY <1>1, <1>2

(* Every permit is held by exactly one job, and every entry holds one. *)
LEMMA Invariants == Spec => [](TypeOK /\ RunnerInv /\ PlaceInv /\ PermitInv)
  <1>1. Init => TypeOK /\ RunnerInv /\ PlaceInv /\ PermitInv
    BY InitTypes, InitPlaces
  <1>2. TypeOK /\ RunnerInv /\ PlaceInv /\ PermitInv /\ [Next]_vars
          => (TypeOK /\ RunnerInv /\ PlaceInv /\ PermitInv)'
    <2> SUFFICES ASSUME TypeOK, RunnerInv, PlaceInv, PermitInv, [Next]_vars
                 PROVE  (TypeOK /\ RunnerInv /\ PlaceInv /\ PermitInv)'
      OBVIOUS
    <2>1. (TypeOK /\ RunnerInv)'
      BY NextTypes
    <2>2. PlaceInv'
      <3>1. CASE UNCHANGED vars
        BY <3>1 DEF vars, clientVars, slotVars, runnerVars, work, PlaceInv, DequesInv, FollowersInv,
                    HandInv, PushInv, IsEntry
      <3> QED
        BY <3>1, ClientPlaces, RunnerPlaces DEF Next
    <2>3. PermitInv'
      BY NextPermits
    <2> QED
      BY <2>1, <2>2, <2>3
  <1> QED
    BY <1>1, <1>2, PTL DEF Spec

(* "Each queue enforces its own capacity before accepting a request": for    *)
(* every number of clients and every capacity, the entries of a slot and the *)
(* pushes that may append to it are never more than the capacity.            *)
THEOREM CapacityIsRespected == Spec => []CapacityRespected
  <1>1. TypeOK /\ RunnerInv /\ PlaceInv /\ PermitInv => CapacityRespected
    <2> SUFFICES ASSUME TypeOK, RunnerInv, PlaceInv, PermitInv, NEW s \in Slots
                 PROVE  Cardinality((IF rpc = "decrement" THEN Present(s) \ {hand} ELSE Present(s))
                          \cup {j \in Job : push[j] = "append" /\ QueueOf[j] = s}) <= Capacity[s]
      BY DEF CapacityRespected
    <2> DEFINE occupying == (IF rpc = "decrement" THEN Present(s) \ {hand} ELSE Present(s))
                              \cup {j \in Job : push[j] = "append" /\ QueueOf[j] = s}
    <2>1. occupying \subseteq HeldIn(held, s)
      BY DEF Present, Popped, HeldIn, PlaceInv, DequesInv, FollowersInv, HandInv, PushInv, IsEntry
    <2>2. held \in SUBSET Job /\ permits[s] \in Nat /\ Capacity[s] \in Nat
      BY CapacityAssumption DEF TypeOK, SlotType
    <2>3. IsFiniteSet(HeldIn(held, s)) /\ Cardinality(HeldIn(held, s)) \in Nat
      BY <2>2, FiniteHeld
    <2>4. Cardinality(occupying) <= Cardinality(HeldIn(held, s)) /\ Cardinality(occupying) \in Nat
      BY <2>1, <2>3, FS_Subset, FS_CardinalityType
    <2>5. permits[s] + Cardinality(HeldIn(held, s)) = Capacity[s]
      BY DEF PermitInv
    <2> HIDE DEF occupying
    <2>a. ASSUME NEW x \in Nat, NEW y \in Nat, NEW p \in Nat, NEW c \in Nat, x <= y, p + y = c
          PROVE  x <= c
      BY <2>a
    <2>6. Cardinality(occupying) <= Capacity[s]
      BY <2>2, <2>3, <2>4, <2>5, <2>a
    <2> QED
      BY <2>6 DEF occupying
  <1> QED
    BY <1>1, Invariants, PTL

-----------------------------------------------------------------------------
(* The order of the entries. *)

(* A sequence of jobs in the order of their tickets. *)
Sorted(t, q) == \A i, k \in DOMAIN q : i < k => t[q[i]] < t[q[k]]

LEMMA SortedEmpty == \A t : Sorted(t, <<>>)
  BY DEF Sorted

LEMMA SortedTail ==
    ASSUME NEW t, NEW q \in Seq(Job), q # <<>>, Sorted(t, q)
    PROVE  /\ Sorted(t, Tail(q))
           /\ \A k \in Range(Tail(q)) : t[Head(q)] < t[k]
  <1>1. /\ Len(Tail(q)) = Len(q) - 1 /\ Tail(q) \in Seq(Job)
        /\ \A i \in 1 .. Len(Tail(q)) : Tail(q)[i] = q[i + 1]
    BY HeadTailProperties
  <1>2. /\ DOMAIN q = 1 .. Len(q) /\ Len(q) \in Nat
        /\ DOMAIN Tail(q) = 1 .. Len(q) - 1
    BY <1>1, LenProperties
  <1>3. Len(q) # 0 /\ Head(q) = q[1]
    BY EmptySeq
  <1>4. Sorted(t, Tail(q))
    <2> SUFFICES ASSUME NEW i \in 1 .. Len(q) - 1, NEW k \in 1 .. Len(q) - 1, i < k
                 PROVE  t[Tail(q)[i]] < t[Tail(q)[k]]
      BY <1>2 DEF Sorted
    <2>1. Tail(q)[i] = q[i + 1] /\ Tail(q)[k] = q[k + 1]
      BY <1>1
    <2>2. i + 1 \in DOMAIN q /\ k + 1 \in DOMAIN q /\ i + 1 < k + 1
      BY <1>2
    <2> QED
      BY <2>1, <2>2 DEF Sorted
  <1>5. ASSUME NEW k \in Range(Tail(q)) PROVE t[Head(q)] < t[k]
    <2>1. PICK i \in 1 .. Len(q) - 1 : k = Tail(q)[i]
      BY <1>2 DEF Range
    <2>2. 1 \in DOMAIN q /\ i + 1 \in DOMAIN q /\ 1 < i + 1 /\ k = q[i + 1]
      BY <1>1, <1>2, <2>1
    <2> QED
      BY <1>3, <2>2 DEF Sorted
  <1> QED
    BY <1>4, <1>5

LEMMA SortedAppend ==
    ASSUME NEW t, NEW q \in Seq(Job), NEW e \in Job, Sorted(t, q),
           \A k \in Range(q) : t[k] < t[e]
    PROVE  Sorted(t, Append(q, e))
  <1>1. /\ Append(q, e) \in Seq(Job) /\ Len(Append(q, e)) = Len(q) + 1
        /\ \A i \in 1 .. Len(q) : Append(q, e)[i] = q[i]
        /\ Append(q, e)[Len(q) + 1] = e
    BY AppendProperties
  <1>2. /\ DOMAIN q = 1 .. Len(q) /\ Len(q) \in Nat
        /\ DOMAIN Append(q, e) = 1 .. Len(q) + 1
    BY <1>1, LenProperties
  <1> SUFFICES ASSUME NEW i \in 1 .. Len(q) + 1, NEW k \in 1 .. Len(q) + 1, i < k
               PROVE  t[Append(q, e)[i]] < t[Append(q, e)[k]]
    BY <1>2 DEF Sorted
  <1>3. i \in DOMAIN q /\ Append(q, e)[i] = q[i]
    BY <1>1, <1>2
  <1>4. CASE k = Len(q) + 1
    BY <1>1, <1>3, <1>4 DEF Range
  <1>5. CASE k \in DOMAIN q
    BY <1>1, <1>2, <1>3, <1>5 DEF Sorted
  <1> QED
    BY <1>2, <1>4, <1>5

LEMMA SortedConcat ==
    ASSUME NEW t, NEW p \in Seq(Job), NEW q \in Seq(Job), Sorted(t, p), Sorted(t, q),
           \A j \in Range(p), k \in Range(q) : t[j] < t[k]
    PROVE  Sorted(t, p \o q)
  <1>1. /\ p \o q \in Seq(Job) /\ Len(p \o q) = Len(p) + Len(q)
        /\ \A i \in 1 .. Len(p) + Len(q) :
             (p \o q)[i] = IF i <= Len(p) THEN p[i] ELSE q[i - Len(p)]
    BY ConcatProperties
  <1>2. /\ DOMAIN p = 1 .. Len(p) /\ Len(p) \in Nat
        /\ DOMAIN q = 1 .. Len(q) /\ Len(q) \in Nat
        /\ DOMAIN (p \o q) = 1 .. Len(p) + Len(q)
    BY <1>1, LenProperties
  <1> SUFFICES ASSUME NEW i \in 1 .. Len(p) + Len(q), NEW k \in 1 .. Len(p) + Len(q), i < k
               PROVE  t[(p \o q)[i]] < t[(p \o q)[k]]
    BY <1>2 DEF Sorted
  <1>3. CASE k <= Len(p)
    <2>1. i \in DOMAIN p /\ k \in DOMAIN p /\ (p \o q)[i] = p[i] /\ (p \o q)[k] = p[k]
      BY <1>1, <1>2, <1>3
    <2> QED
      BY <2>1 DEF Sorted
  <1>4. CASE i <= Len(p) /\ ~(k <= Len(p))
    <2>1. /\ i \in DOMAIN p /\ k - Len(p) \in DOMAIN q
          /\ (p \o q)[i] = p[i] /\ (p \o q)[k] = q[k - Len(p)]
      BY <1>1, <1>2, <1>4
    <2> QED
      BY <2>1 DEF Range
  <1>5. CASE ~(i <= Len(p))
    <2>1. /\ i - Len(p) \in DOMAIN q /\ k - Len(p) \in DOMAIN q /\ i - Len(p) < k - Len(p)
          /\ (p \o q)[i] = q[i - Len(p)] /\ (p \o q)[k] = q[k - Len(p)]
      BY <1>1, <1>2, <1>5
    <2> QED
      BY <2>1 DEF Sorted
  <1> QED
    BY <1>2, <1>3, <1>4, <1>5

(* Tickets of jobs outside a sequence do not matter to it. *)
LEMMA SortedSame ==
    ASSUME NEW t, NEW u, NEW q, Sorted(t, q), \A k \in Range(q) : u[k] = t[k]
    PROVE  Sorted(u, q)
  BY DEF Sorted, Range

-----------------------------------------------------------------------------
(* The order of a slot. *)

(* The runner serves a leader, and the runner sweeps the queues at its end. *)
HasLeader == rpc \in Serving \/ (rpc \in Finishing /\ back \in {"coalesce", "complete"})
Draining  == rpc \in {"drain", "stopped"} \/ (rpc \in Finishing /\ back = "drain")

(* A leader, and an entry being counted down, have returned their permit and *)
(* are at no other place.                                                    *)
LeaderInv ==
    /\ HasLeader => leader \notin held /\ push[leader] \in Appended
    /\ ~HasLeader => leader = NoJob /\ followers = <<>>
    /\ rpc = "decrement" => hand \notin held /\ push[hand] \in Appended
    /\ rpc \in Finishing /\ HasLeader => hand # leader /\ QueueOf[hand] = QueueOf[leader]
    /\ runner_closed <=> Draining

(* A job has a ticket once it is appended, and the next ticket is larger. *)
TicketInv ==
    /\ \A j \in Job : push[j] \in Appended <=> ticket[j] > 0
    /\ \A j \in Job : ticket[j] <= Cardinality({k \in Job : ticket[k] > 0})

(* In every slot the leader comes before its followers, then an entry in the *)
(* hand of the runner, then the deque, each in the order of the tickets; a   *)
(* follower that is being completed has just left the front of the others.   *)
OrderInv ==
    /\ \A s \in Slots : Sorted(ticket, entries[s])
    /\ Sorted(ticket, followers)
    /\ HasLeader =>
         /\ \A j \in Range(followers), k \in Range(entries[QueueOf[leader]]) : ticket[j] < ticket[k]
         /\ \A k \in Range(followers) : ticket[leader] < ticket[k]
         /\ \A k \in Range(entries[QueueOf[leader]]) : ticket[leader] < ticket[k]
    /\ rpc \in Finishing =>
         /\ \A k \in Range(entries[QueueOf[hand]]) : ticket[hand] < ticket[k]
         /\ HasLeader => ticket[leader] < ticket[hand]
         /\ back = "complete" => \A k \in Range(followers) : ticket[hand] < ticket[k]
         /\ back = "coalesce" => \A k \in Range(followers) : ticket[k] < ticket[hand]

PlacesOrder == LeaderInv /\ TicketInv /\ OrderInv

(* A push that appends nothing. *)
LEMMA PushOrder ==
    ASSUME TypeOK, RunnerInv, PlacesOrder, NEW j \in Job, NEW from, NEW to, Goto(j, from, to),
           UNCHANGED <<entries, followers, leader, hand, rpc, back, ticket, runner_closed>>,
           from \in Appended <=> to \in Appended,
           held' \in {held, held \ {j}} \/ (held' = held \cup {j} /\ from \notin Appended)
    PROVE  PlacesOrder'
  <1>0. push \in [Job -> PushState] /\ leader \in Job \cup {NoJob} /\ hand \in Job \cup {NoJob}
    BY DEF TypeOK, ClientType, RunnerType
  <1>1. push[j] = from /\ push' = [push EXCEPT ![j] = to]
    BY DEF Goto
  <1>2. \A k \in Job : push'[k] \in Appended <=> push[k] \in Appended
    BY <1>0, <1>1
  <1>3. \A k \in Job : push[k] \in Appended /\ k \notin held => k \notin held'
    BY <1>0, <1>1
  <1>4. HasLeader => leader \in Job
    BY DEF HasLeader, RunnerInv, Serving
  <1>5. rpc = "decrement" => hand \in Job
    BY DEF RunnerInv, Finishing
  <1>6. LeaderInv'
    BY <1>2, <1>3, <1>4, <1>5 DEF PlacesOrder, LeaderInv, HasLeader, Draining
  <1>7. TicketInv'
    BY Zenon, <1>2 DEF PlacesOrder, TicketInv
  <1>8. OrderInv'
    BY Zenon DEF PlacesOrder, OrderInv, HasLeader
  <1> QED
    BY <1>6, <1>7, <1>8 DEF PlacesOrder

(* The ticket of an appended job is the largest, and no other changes. *)
LEMMA NextTicket ==
    ASSUME TypeOK, TicketInv, NEW j \in Job, PushBack(j)
    PROVE  /\ \A k \in Job \ {j} : ticket'[k] = ticket[k] /\ ticket[k] < ticket'[j]
           /\ ticket'[j] > 0
           /\ TicketInv'
  <1> DEFINE given == {k \in Job : ticket[k] > 0}
  <1>0. push \in [Job -> PushState] /\ ticket \in [Job -> Nat]
    BY DEF TypeOK, ClientType, SlotType
  <1>1. /\ push[j] = "append" /\ push' = [push EXCEPT ![j] = "count"]
        /\ ticket' = [ticket EXCEPT ![j] = 1 + Cardinality(given)]
    BY DEF PushBack, Goto
  <1>2. IsFiniteSet(given) /\ Cardinality(given) \in Nat
    <2>1. given \in SUBSET Job
      OBVIOUS
    <2> QED
      BY <2>1, JobAssumption, FS_Subset, FS_CardinalityType
  <1>3. ticket[j] = 0
    BY <1>0, <1>1 DEF TicketInv, Appended
  <1>4. \A k \in Job : ticket[k] <= Cardinality(given)
    BY DEF TicketInv
  <1>5. {k \in Job : ticket'[k] > 0} = given \cup {j} /\ j \notin given
    BY <1>0, <1>1, <1>2, <1>3
  <1> HIDE DEF given
  <1>6. Cardinality({k \in Job : ticket'[k] > 0}) = Cardinality(given) + 1
    <2>1. Cardinality(given \cup {j}) = Cardinality(given) + 1
      BY <1>2, <1>5, FS_AddElement
    <2> QED
      BY <1>5, <2>1, Zenon
  <1>7. \A k \in Job \ {j} : ticket'[k] = ticket[k] /\ ticket[k] < ticket'[j]
    BY <1>0, <1>1, <1>2, <1>4
  <1>8. ticket'[j] = 1 + Cardinality(given)
    BY <1>0, <1>1
  <1>9. \A k \in Job : ticket'[k] <= Cardinality({i \in Job : ticket'[i] > 0})
    BY <1>0, <1>2, <1>4, <1>6, <1>7, <1>8
  <1>10. \A k \in Job : push'[k] \in Appended <=> ticket'[k] > 0
    <2>1. push'[j] \in Appended /\ ticket'[j] > 0
      BY <1>0, <1>1, <1>2, <1>8 DEF Appended
    <2>2. ASSUME NEW k \in Job \ {j} PROVE push'[k] = push[k] /\ ticket'[k] = ticket[k]
      BY <1>0, <1>1, <1>7
    <2> QED
      BY <2>1, <2>2 DEF TicketInv
  <1>11. ticket'[j] > 0
    BY <1>2, <1>8
  <1> QED
    BY Zenon, <1>7, <1>9, <1>10, <1>11 DEF TicketInv

(* What is at a place has a ticket already. *)
LEMMA PlacedBefore ==
    ASSUME TypeOK, RunnerInv, PlaceInv, LeaderInv, NEW j \in Job, push[j] \notin Appended
    PROVE  /\ \A s \in Slots : j \notin Range(entries[s])
           /\ j \notin Range(followers)
           /\ HasLeader => j # leader
           /\ rpc \in Finishing => j # hand
  BY DEF PlaceInv, DequesInv, FollowersInv, HandInv, IsEntry, LeaderInv, Finishing

LEMMA PlacesAreJobs ==
    ASSUME TypeOK, RunnerInv
    PROVE  /\ \A s \in Slots : Range(entries[s]) \subseteq Job
           /\ Range(followers) \subseteq Job
           /\ HasLeader => leader \in Job /\ QueueOf[leader] \in Slots
           /\ rpc \in Finishing => hand \in Job /\ QueueOf[hand] \in Slots
  <1>1. ASSUME NEW q \in Seq(Job) PROVE Range(q) \subseteq Job
    BY ElementOfSeq, LenProperties DEF Range
  <1>2. (\A s \in Slots : entries[s] \in Seq(Job)) /\ followers \in Seq(Job)
    BY DEF TypeOK, SlotType, RunnerType
  <1>3. HasLeader => leader \in Job
    BY DEF HasLeader, RunnerInv
  <1>4. rpc \in Finishing => hand \in Job
    BY DEF RunnerInv
  <1> QED
    BY <1>1, <1>2, <1>3, <1>4, QueueOfAssumption

LEMMA PushBackOrder ==
    ASSUME TypeOK, RunnerInv, PlaceInv, PlacesOrder, NEW j \in Job, PushBack(j)
    PROVE  PlacesOrder'
  <1> USE QueueOfAssumption
  <1>0. push \in [Job -> PushState] /\ entries \in [Slots -> Seq(Job)] /\ QueueOf[j] \in Slots
    BY DEF TypeOK, ClientType, SlotType
  <1>1. /\ push[j] = "append" /\ push' = [push EXCEPT ![j] = "count"]
        /\ entries' = [entries EXCEPT ![QueueOf[j]] = Append(@, j)]
        /\ UNCHANGED <<held, followers, leader, hand, rpc, back, runner_closed>>
    BY DEF PushBack, Goto, runnerVars, work
  <1>2. /\ \A k \in Job \ {j} : ticket'[k] = ticket[k] /\ ticket[k] < ticket'[j]
        /\ TicketInv'
    BY NextTicket DEF PlacesOrder
  <1>3. /\ \A s \in Slots : j \notin Range(entries[s])
        /\ j \notin Range(followers)
        /\ HasLeader => j # leader
        /\ rpc \in Finishing => j # hand
    BY <1>1, PlacedBefore DEF PlacesOrder, Appended
  <1>4. /\ \A s \in Slots : Range(entries[s]) \subseteq Job
        /\ Range(followers) \subseteq Job
        /\ HasLeader => leader \in Job /\ QueueOf[leader] \in Slots
        /\ rpc \in Finishing => hand \in Job /\ QueueOf[hand] \in Slots
    BY PlacesAreJobs
  <1>5. \A s \in Slots :
           Range(entries'[s]) = Range(entries[s]) \cup (IF s = QueueOf[j] THEN {j} ELSE {})
    BY <1>0, <1>1, AppendRange
  <1>6. \A s \in Slots : Sorted(ticket', entries'[s])
    <2>1. \A s \in Slots : Sorted(ticket', entries[s])
      BY <1>2, <1>3, <1>4, SortedSame DEF PlacesOrder, OrderInv
    <2>2. \A k \in Range(entries[QueueOf[j]]) : ticket'[k] < ticket'[j]
      <3>1. Range(entries[QueueOf[j]]) \subseteq Job \ {j}
        BY <1>0, <1>3, <1>4
      <3> QED
        BY Zenon, <1>2, <3>1
    <2>3. Sorted(ticket', Append(entries[QueueOf[j]], j))
      BY <1>0, <2>1, <2>2, SortedAppend
    <2> QED
      BY <1>0, <1>1, <2>1, <2>3
  <1>7. Sorted(ticket', followers)
    BY <1>2, <1>3, <1>4, SortedSame DEF PlacesOrder, OrderInv
  <1>8. HasLeader' <=> HasLeader
    BY <1>1 DEF HasLeader
  <1>9. ASSUME HasLeader
        PROVE  /\ \A i \in Range(followers), k \in Range(entries'[QueueOf[leader]]) : ticket'[i] < ticket'[k]
               /\ \A k \in Range(followers) : ticket'[leader] < ticket'[k]
               /\ \A k \in Range(entries'[QueueOf[leader]]) : ticket'[leader] < ticket'[k]
    <2>1. /\ leader \in Job \ {j} /\ QueueOf[leader] \in Slots
          /\ Range(followers) \subseteq Job \ {j}
          /\ Range(entries[QueueOf[leader]]) \subseteq Job \ {j}
          /\ Range(entries'[QueueOf[leader]]) \subseteq Range(entries[QueueOf[leader]]) \cup {j}
      BY Zenon, <1>3, <1>4, <1>5, <1>9
    <2>2. /\ \A i \in Range(followers), k \in Range(entries[QueueOf[leader]]) : ticket[i] < ticket[k]
          /\ \A k \in Range(followers) : ticket[leader] < ticket[k]
          /\ \A k \in Range(entries[QueueOf[leader]]) : ticket[leader] < ticket[k]
      BY <1>9 DEF PlacesOrder, OrderInv
    <2> QED
      BY Zenon, <1>2, <2>1, <2>2
  <1>10. ASSUME rpc \in Finishing
         PROVE  /\ \A k \in Range(entries'[QueueOf[hand]]) : ticket'[hand] < ticket'[k]
                /\ HasLeader => ticket'[leader] < ticket'[hand]
                /\ back = "complete" => \A k \in Range(followers) : ticket'[hand] < ticket'[k]
                /\ back = "coalesce" => \A k \in Range(followers) : ticket'[k] < ticket'[hand]
    <2>1. /\ hand \in Job \ {j} /\ QueueOf[hand] \in Slots
          /\ Range(followers) \subseteq Job \ {j} /\ (HasLeader => leader \in Job \ {j})
          /\ Range(entries[QueueOf[hand]]) \subseteq Job \ {j}
          /\ Range(entries'[QueueOf[hand]]) \subseteq Range(entries[QueueOf[hand]]) \cup {j}
      BY Zenon, <1>3, <1>4, <1>5, <1>10
    <2>2. /\ \A k \in Range(entries[QueueOf[hand]]) : ticket[hand] < ticket[k]
          /\ HasLeader => ticket[leader] < ticket[hand]
          /\ back = "complete" => \A k \in Range(followers) : ticket[hand] < ticket[k]
          /\ back = "coalesce" => \A k \in Range(followers) : ticket[k] < ticket[hand]
      BY <1>10 DEF PlacesOrder, OrderInv
    <2> QED
      BY <1>2, <2>1, <2>2
  <1>11. OrderInv'
    BY <1>1, <1>6, <1>7, <1>8, <1>9, <1>10 DEF OrderInv
  <1>12. LeaderInv'
    <2>1. \A k \in Job : push[k] \in Appended => push'[k] \in Appended
      BY <1>0, <1>1 DEF Appended
    <2> QED
      BY <1>1, <1>4, <2>1 DEF PlacesOrder, LeaderInv, HasLeader, Draining, Finishing
  <1> QED
    BY <1>2, <1>11, <1>12 DEF PlacesOrder

LEMMA ClientOrder ==
    ASSUME TypeOK, RunnerInv, PlaceInv, PlacesOrder, Client
    PROVE  PlacesOrder'
  <1> USE DEF Appended
  <1>1. ASSUME NEW j \in Job, StartPush(j) PROVE PlacesOrder'
    <2>1. /\ Goto(j, "new", IF runner_closed THEN "closed" ELSE "acquire")
          /\ UNCHANGED <<entries, followers, leader, hand, rpc, back, ticket, runner_closed, held>>
      BY <1>1 DEF StartPush, slotVars, runnerVars, work
    <2> QED
      BY <2>1, PushOrder
  <1>2. ASSUME NEW j \in Job, Acquire(j) PROVE PlacesOrder'
    <2>1. /\ Goto(j, "acquire", "finish") /\ held' = held \cup {j}
          /\ UNCHANGED <<entries, followers, leader, hand, rpc, back, ticket, runner_closed>>
      BY <1>2 DEF Acquire, runnerVars, work
    <2> QED
      BY <2>1, PushOrder
  <1>3. ASSUME NEW j \in Job, GiveUp(j) PROVE PlacesOrder'
    <2>1. PICK to \in Rejected : Goto(j, "acquire", to)
      BY <1>3 DEF GiveUp, Rejected
    <2>2. UNCHANGED <<entries, followers, leader, hand, rpc, back, ticket, runner_closed, held>>
      BY <1>3 DEF GiveUp, slotVars, runnerVars, work
    <2> QED
      BY <2>1, <2>2, PushOrder DEF Rejected
  <1>4. ASSUME NEW j \in Job, FinishPush(j) PROVE PlacesOrder'
    <2>1. /\ Goto(j, "finish", "closed") \/ Goto(j, "finish", "append")
          /\ held' \in {held, held \ {j}}
          /\ UNCHANGED <<entries, followers, leader, hand, rpc, back, ticket, runner_closed>>
      BY <1>4 DEF FinishPush, runnerVars, work
    <2> QED
      BY <2>1, PushOrder
  <1>5. ASSUME NEW j \in Job, PushBack(j) PROVE PlacesOrder'
    BY <1>5, PushBackOrder
  <1>6. ASSUME NEW j \in Job, CountPush(j) \/ NotifyPush(j) PROVE PlacesOrder'
    <2>1. /\ Goto(j, "count", "notify") \/ Goto(j, "notify", "accepted")
          /\ UNCHANGED <<entries, followers, leader, hand, rpc, back, ticket, runner_closed, held>>
      BY <1>6 DEF CountPush, NotifyPush, slotVars, runnerVars, work
    <2> QED
      BY <2>1, PushOrder
  <1>7. CASE (\E s \in Slots : StorePriority(s)) \/ NotifyPriority \/ CloseInput
    <2>1. UNCHANGED <<entries, followers, leader, hand, rpc, back, ticket, runner_closed, held, push>>
      BY Zenon, <1>7 DEF StorePriority, NotifyPriority, CloseInput, slotVars, runnerVars, work
    <2> QED
      BY Zenon, <2>1 DEF PlacesOrder, LeaderInv, TicketInv, OrderInv, HasLeader, Draining
  <1> QED
    BY <1>1, <1>2, <1>3, <1>4, <1>5, <1>6, <1>7 DEF Client

(* The runner takes the front entry of a slot: to serve it, as a candidate   *)
(* behind the followers, or in the final sweep.                              *)
LEMMA TakeFrontOrder ==
    ASSUME TypeOK, RunnerInv, PlaceInv, PlacesOrder, NEW s \in Slots, entries[s] # <<>>, NEW to,
           TakeFront(s, to), UNCHANGED <<push, held, followers, leader, ticket, runner_closed>>,
           \/ to = "serve" /\ ~HasLeader /\ ~runner_closed
           \/ to = "coalesce" /\ rpc = "coalesce" /\ s = QueueOf[leader]
           \/ to = "drain" /\ rpc = "drain"
    PROVE  PlacesOrder'
  <1>0. entries \in [Slots -> Seq(Job)]
    BY DEF TypeOK, SlotType
  <1>1. /\ hand' = Head(entries[s]) /\ rpc' = "release" /\ back' = to
        /\ entries' = [entries EXCEPT ![s] = Tail(@)]
    BY DEF TakeFront
  <1>2. /\ Range(entries[s]) = {hand'} \cup Range(Tail(entries[s]))
        /\ Sorted(ticket, Tail(entries[s]))
        /\ \A k \in Range(Tail(entries[s])) : ticket[hand'] < ticket[k]
    BY Zenon, <1>0, <1>1, TailRange, SortedTail DEF PlacesOrder, OrderInv
  <1>3. QueueOf[hand'] = s /\ hand' \in held
    BY Zenon, <1>2 DEF PlaceInv, DequesInv, IsEntry
  <1>4. \A t \in Slots : Sorted(ticket, entries'[t]) /\ Range(entries'[t]) \subseteq Range(entries[t])
    BY Zenon, <1>0, <1>1, <1>2 DEF PlacesOrder, OrderInv
  <1>5. entries'[s] = Tail(entries[s])
    BY <1>0, <1>1
  <1>6. HasLeader' <=> to = "coalesce"
    BY <1>1 DEF HasLeader, Serving, Finishing
  <1>7. to = "coalesce" => HasLeader /\ leader \in Job
    BY DEF HasLeader, Serving, RunnerInv
  <1>8. to # "coalesce" => ~HasLeader
    BY DEF HasLeader, Serving, Finishing
  <1>9. LeaderInv'
    <2>1. Draining' <=> to = "drain"
      BY <1>1 DEF Draining, Finishing
    <2>2. runner_closed' <=> to = "drain"
      BY DEF PlacesOrder, LeaderInv, Draining, Finishing
    <2> QED
      BY <1>1, <1>3, <1>6, <1>7, <1>8, <2>1, <2>2 DEF PlacesOrder, LeaderInv
  <1>10. TicketInv'
    BY DEF PlacesOrder, TicketInv
  <1>11. OrderInv'
    BY Zenon, <1>1, <1>2, <1>3, <1>4, <1>5, <1>6, <1>7, <1>8 DEF PlacesOrder, OrderInv, LeaderInv
  <1> QED
    BY Zenon, <1>9, <1>10, <1>11 DEF PlacesOrder

LEMMA RunnerOrder ==
    ASSUME TypeOK, RunnerInv, PlaceInv, PlacesOrder, Runner
    PROVE  PlacesOrder'
  <1> USE QueueOfAssumption
  <1>0. /\ entries \in [Slots -> Seq(Job)] /\ followers \in Seq(Job)
        /\ cursor \in QueueCursor /\ look \in 0 .. N /\ sweep \in 0 .. N
        /\ back \in {"serve", "coalesce", "complete", "drain"}
    BY DEF TypeOK, SlotType, RunnerType
  <1>e. Range(<<>>) = {} /\ \A t : Sorted(t, <<>>)
    BY SortedEmpty DEF Range
  (* Steps without an entry in the hand that leave every entry where it is. *)
  <1>a. ASSUME UNCHANGED <<push, held, entries, followers, ticket>>,
               rpc' \notin Finishing, runner_closed' <=> Draining',
               \/ HasLeader /\ HasLeader' /\ leader' = leader
               \/ ~HasLeader' /\ leader' = NoJob /\ followers = <<>>
        PROVE  PlacesOrder'
    <2>1. LeaderInv'
      BY <1>a DEF PlacesOrder, LeaderInv, Finishing
    <2>2. OrderInv'
      BY Zenon, <1>a DEF PlacesOrder, OrderInv
    <2> QED
      BY <1>a, <2>1, <2>2 DEF PlacesOrder, TicketInv
  <1>1. CASE CreateNotified \/ ScanRank \/ CheckInput \/ Wake
             \/ (\E usable \in BOOLEAN : IdleInput(usable))
    <2>1. /\ UNCHANGED <<push, held, entries, followers, ticket, leader, runner_closed>>
          /\ rpc \in {"create", "rank", "closed", "wait"}
          /\ rpc' \in {"create", "rank", "strict", "weighted", "stop", "wait"}
      BY Zenon, <1>1 DEF CreateNotified, ScanRank, CheckInput, Wake, IdleInput, slotVars, clientVars, work
    <2>2. ~HasLeader /\ ~HasLeader' /\ ~Draining /\ ~Draining' /\ rpc' \notin Finishing
      BY <2>1 DEF HasLeader, Draining, Serving, Finishing
    <2>3. leader = NoJob /\ followers = <<>> /\ ~runner_closed
      BY <2>2 DEF PlacesOrder, LeaderInv
    <2> QED
      BY <1>a, <2>1, <2>2, <2>3
  <1>2. CASE Admit \/ ReturnCandidate \/ EndCoalescing \/ ExchangeOk
    <2>1. /\ UNCHANGED <<push, held, entries, followers, ticket, leader, runner_closed>>
          /\ rpc \in Serving /\ rpc' \in Serving
      BY Zenon, <1>2 DEF Admit, ReturnCandidate, EndCoalescing, ExchangeOk, slotVars, clientVars, work,
                  Serving
    <2>2. HasLeader /\ HasLeader' /\ ~Draining /\ ~Draining' /\ rpc' \notin Finishing
      BY <2>1 DEF HasLeader, Draining, Serving, Finishing
    <2>3. ~runner_closed
      BY <2>2 DEF PlacesOrder, LeaderInv
    <2> QED
      BY <1>a, <2>1, <2>2, <2>3
  <1>3. CASE Skip \/ EndComplete
    <2>1. /\ UNCHANGED <<push, held, entries, followers, ticket, runner_closed>>
          /\ rpc \in {"serve", "complete"} /\ rpc' = "create" /\ leader' = NoJob
          /\ followers = <<>>
      BY <1>3 DEF Skip, EndComplete, slotVars, clientVars, RunnerInv
    <2>2. ~HasLeader' /\ ~Draining /\ ~Draining' /\ rpc' \notin Finishing
      BY <2>1 DEF HasLeader, Draining, Serving, Finishing
    <2>3. ~runner_closed
      BY <2>2 DEF PlacesOrder, LeaderInv
    <2> QED
      BY <1>a, <2>1, <2>2, <2>3
  <1>4. CASE CloseRunner \/ DrainNext
    <2>1. /\ UNCHANGED <<push, held, entries, followers, ticket, leader>>
          /\ rpc \in {"stop", "drain"} /\ rpc' \in {"drain", "stopped"}
      BY <1>4 DEF CloseRunner, DrainNext, slotVars, clientVars
    <2>2. ~HasLeader /\ ~HasLeader' /\ Draining' /\ rpc' \notin Finishing
      BY <2>1 DEF HasLeader, Draining, Serving, Finishing
    <2>3. leader = NoJob /\ followers = <<>>
      BY <2>2 DEF PlacesOrder, LeaderInv
    <2>4. runner_closed'
      BY <1>4 DEF CloseRunner, DrainNext, PlacesOrder, LeaderInv, Draining
    <2> QED
      BY <1>a, <2>1, <2>2, <2>3, <2>4
  <1>5. CASE PopStrict
    <2> DEFINE s == At(cursor.strict_index, look)
    <2>1. s \in Slots
      BY <1>0, AtSlot, NAssumption DEF QueueCursor
    <2>2. ~HasLeader /\ ~runner_closed /\ leader = NoJob /\ followers = <<>>
      BY Zenon, <1>5 DEF PopStrict, PlacesOrder, LeaderInv, HasLeader, Draining, Serving, Finishing
    <2>3. CASE priority[s] = Strict(rank) /\ entries[s] # <<>>
      <3>1. /\ TakeFront(s, "serve")
            /\ UNCHANGED <<push, held, followers, leader, ticket, runner_closed>>
        BY Zenon, <1>5, <2>3 DEF PopStrict, clientVars
      <3> HIDE DEF s
      <3> QED
        BY Zenon, <2>1, <2>2, <2>3, <3>1, TakeFrontOrder
    <2>4. CASE ~(priority[s] = Strict(rank) /\ entries[s] # <<>>)
      <3>1. /\ UNCHANGED <<push, held, entries, followers, ticket, leader, runner_closed>>
            /\ rpc' \in {"strict", "weighted"}
        BY <1>5, <2>4 DEF PopStrict, clientVars
      <3>2. ~HasLeader' /\ ~Draining' /\ rpc' \notin Finishing
        BY <3>1 DEF HasLeader, Draining, Serving, Finishing
      <3> QED
        BY <1>a, <2>2, <3>1, <3>2
    <2> QED
      BY <2>3, <2>4
  <1>6. CASE PopWeighted
    <2> DEFINE s == At(cursor.weighted_index, look)
               takes == /\ IsWeighted(priority[s])
                        /\ look = 0 => cursor.weighted_used < priority[s].value
                        /\ entries[s] # <<>>
    <2>1. s \in Slots
      BY <1>0, AtSlot, NAssumption DEF QueueCursor
    <2>2. ~HasLeader /\ ~runner_closed /\ leader = NoJob /\ followers = <<>>
      BY <1>6 DEF PopWeighted, PlacesOrder, LeaderInv, HasLeader, Draining, Serving, Finishing
    <2>3. CASE takes
      <3>1. /\ TakeFront(s, "serve") /\ entries[s] # <<>>
            /\ UNCHANGED <<push, held, followers, leader, ticket, runner_closed>>
        BY <1>6, <2>3 DEF PopWeighted, clientVars
      <3> HIDE DEF s
      <3> QED
        BY <2>1, <2>2, <3>1, TakeFrontOrder
    <2>4. CASE ~takes
      <3>1. /\ UNCHANGED <<push, held, entries, followers, ticket, leader, runner_closed>>
            /\ rpc' \in {"weighted", "closed"}
        BY <1>6, <2>4 DEF PopWeighted, clientVars
      <3>2. ~HasLeader' /\ ~Draining' /\ rpc' \notin Finishing
        BY <3>1 DEF HasLeader, Draining, Serving, Finishing
      <3> QED
        BY <1>a, <2>2, <3>1, <3>2
    <2> QED
      BY Zenon, <2>3, <2>4
  <1>7. CASE DiscardCandidate
    <2>1. /\ QueueOf[leader] \in Slots /\ entries[QueueOf[leader]] # <<>> /\ rpc = "coalesce"
          /\ TakeFront(QueueOf[leader], "coalesce")
          /\ UNCHANGED <<push, held, followers, leader, ticket, runner_closed>>
      BY <1>7 DEF DiscardCandidate, clientVars, RunnerInv, Serving
    <2> QED
      BY <2>1, TakeFrontOrder
  <1>8. CASE DrainEntry
    <2>1. /\ sweep \in Slots /\ entries[sweep] # <<>> /\ TakeFront(sweep, "drain") /\ rpc = "drain"
          /\ UNCHANGED <<push, held, followers, leader, ticket, runner_closed>>
      BY <1>0, <1>8, NAssumption DEF DrainEntry, clientVars, Slots
    <2> QED
      BY <2>1, TakeFrontOrder
  <1>9. CASE ReleasePermit
    <2>1. /\ held' = held \ {hand} /\ rpc = "release" /\ rpc' = "decrement"
          /\ UNCHANGED <<push, entries, followers, ticket, hand, back, leader, runner_closed>>
      BY <1>9 DEF ReleasePermit, clientVars, work
    <2>2. /\ HasLeader' <=> HasLeader
          /\ Draining' <=> Draining
          /\ rpc \in Finishing /\ rpc' \in Finishing
      BY <2>1 DEF HasLeader, Draining, Finishing, Serving
    <2>3. push[hand] \in Appended
      BY <2>1 DEF PlaceInv, HandInv, IsEntry
    <2>4. LeaderInv'
      BY <2>1, <2>2, <2>3 DEF PlacesOrder, LeaderInv
    <2>5. TicketInv' /\ OrderInv'
      BY Zenon, <2>1, <2>2 DEF PlacesOrder, TicketInv, OrderInv
    <2> QED
      BY <2>4, <2>5 DEF PlacesOrder
  <1>10. CASE Decrement
    <2>1. /\ rpc = "decrement" /\ rpc' = back /\ rpc' \notin Finishing
          /\ leader' = IF back = "serve" THEN hand ELSE leader
          /\ UNCHANGED <<push, held, entries, followers, ticket, back, runner_closed>>
      BY <1>0, <1>10 DEF Decrement, clientVars, Finishing
    <2>2. rpc \in Finishing /\ (Draining' <=> Draining)
      BY <1>0, <2>1 DEF Finishing, Draining
    <2>3. CASE back = "serve"
      <3>1. HasLeader' /\ ~HasLeader /\ followers = <<>> /\ leader' = hand
        BY <2>1, <2>2, <2>3 DEF HasLeader, Serving, PlacesOrder, LeaderInv
      <3>2. LeaderInv'
        BY <2>1, <2>2, <3>1 DEF PlacesOrder, LeaderInv, Finishing
      <3>3. OrderInv'
        BY Zenon, <1>e, <2>1, <2>2, <3>1 DEF PlacesOrder, OrderInv
      <3> QED
        BY Zenon, <2>1, <3>2, <3>3 DEF PlacesOrder, TicketInv
    <2>4. CASE back \in {"coalesce", "complete"}
      <3>1. HasLeader /\ HasLeader' /\ leader' = leader
        BY <2>1, <2>2, <2>4 DEF HasLeader, Serving
      <3> QED
        BY <1>a, <2>1, <2>2, <3>1 DEF PlacesOrder, LeaderInv
    <2>5. CASE back = "drain"
      <3>1. ~HasLeader /\ ~HasLeader' /\ leader' = leader
        BY <2>1, <2>2, <2>5 DEF HasLeader, Serving, Finishing
      <3> QED
        BY <1>a, <2>1, <2>2, <3>1 DEF PlacesOrder, LeaderInv
    <2> QED
      BY <1>0, <2>3, <2>4, <2>5

  <1>11. CASE Follow
    <2> DEFINE s == QueueOf[leader]
               j == Head(entries[s])
    <2>1. /\ rpc = "coalesce" /\ s \in Slots /\ entries[s] # <<>> /\ rpc' = rpc
          /\ followers' = Append(followers, j) /\ entries' = [entries EXCEPT ![s] = Tail(@)]
          /\ UNCHANGED <<push, held, ticket, leader, hand, back, runner_closed>>
      BY <1>11 DEF Follow, clientVars, RunnerInv, Serving
    <2>2. /\ j \in Job /\ Range(entries[s]) = {j} \cup Range(Tail(entries[s]))
          /\ Sorted(ticket, Tail(entries[s]))
          /\ \A k \in Range(Tail(entries[s])) : ticket[j] < ticket[k]
      BY <1>0, <2>1, TailRange, SortedTail DEF PlacesOrder, OrderInv
    <2>3. /\ HasLeader /\ HasLeader' /\ ~Draining /\ ~Draining' /\ rpc' \notin Finishing
          /\ rpc' # "decrement"
      BY <2>1 DEF HasLeader, Draining, Serving, Finishing
    <2> HIDE DEF j
    <2>4. /\ Range(followers') = Range(followers) \cup {j} /\ Sorted(ticket, followers')
      <3>1. \A k \in Range(followers) : ticket[k] < ticket[j]
        BY <2>2, <2>3 DEF PlacesOrder, OrderInv
      <3>2. Sorted(ticket, followers)
        BY DEF PlacesOrder, OrderInv
      <3>3. Range(Append(followers, j)) = Range(followers) \cup {j}
        BY <1>0, <2>2, AppendRange
      <3>4. Sorted(ticket, Append(followers, j))
        BY <1>0, <2>2, <3>1, <3>2, SortedAppend
      <3> QED
        BY <2>1, <3>3, <3>4
    <2>5. /\ \A t \in Slots : Sorted(ticket, entries'[t])
          /\ entries'[s] = Tail(entries[s])
      BY <1>0, <2>1, <2>2 DEF PlacesOrder, OrderInv
    <2>6. LeaderInv'
      BY <2>1, <2>3 DEF PlacesOrder, LeaderInv
    <2>7. OrderInv'
      BY Zenon, <2>1, <2>2, <2>3, <2>4, <2>5 DEF PlacesOrder, OrderInv
    <2> QED
      BY Zenon, <2>1, <2>6, <2>7 DEF PlacesOrder, TicketInv
  <1>12. CASE CompleteFollower
    <2>1. /\ rpc = "complete" /\ rpc' = "release" /\ back' = "complete" /\ followers # <<>>
          /\ hand' = Head(followers) /\ followers' = Tail(followers)
          /\ UNCHANGED <<push, held, entries, ticket, leader, runner_closed>>
      BY <1>12 DEF CompleteFollower, clientVars, slotVars
    <2>2. /\ Range(followers) = {hand'} \cup Range(followers') /\ Sorted(ticket, followers')
          /\ \A k \in Range(followers') : ticket[hand'] < ticket[k]
      BY Zenon, <1>0, <2>1, TailRange, SortedTail DEF PlacesOrder, OrderInv
    <2>3. /\ HasLeader /\ HasLeader' /\ ~Draining /\ ~Draining'
      BY <2>1 DEF HasLeader, Draining, Serving, Finishing
    <2>4. QueueOf[hand'] = QueueOf[leader] /\ hand' \in held
      BY Zenon, <2>2 DEF PlaceInv, FollowersInv, IsEntry
    <2>5. LeaderInv'
      BY <2>1, <2>3, <2>4 DEF PlacesOrder, LeaderInv
    <2>6. OrderInv'
      BY Zenon, <2>1, <2>2, <2>3, <2>4 DEF PlacesOrder, OrderInv
    <2> QED
      BY Zenon, <2>1, <2>5, <2>6 DEF PlacesOrder, TicketInv
  <1>13. ASSUME NEW next \in AfterError, ExchangeErr(next) PROVE PlacesOrder'
    <2> DEFINE s == QueueOf[leader]
    <2>1. /\ rpc = "exchange" /\ rpc' \in {"create", "stop", "gone"} /\ s \in Slots
          /\ followers' = <<>> /\ leader' = NoJob
          /\ entries' = [entries EXCEPT ![s] = followers \o @]
          /\ UNCHANGED <<push, held, ticket, runner_closed>>
      BY <1>13 DEF ExchangeErr, AfterError, requeue_followers, clientVars, RunnerInv, Serving
    <2>2. /\ HasLeader /\ ~HasLeader' /\ ~Draining /\ ~Draining' /\ rpc' \notin Finishing
      BY <2>1 DEF HasLeader, Draining, Serving, Finishing
    <2>3. Sorted(ticket, followers \o entries[s])
      BY <1>0, <2>1, <2>2, SortedConcat DEF PlacesOrder, OrderInv
    <2>4. \A t \in Slots : Sorted(ticket, entries'[t])
      BY Zenon, <1>0, <2>1, <2>3 DEF PlacesOrder, OrderInv
    <2>5. LeaderInv'
      BY <2>1, <2>2 DEF PlacesOrder, LeaderInv, Finishing
    <2>6. OrderInv'
      BY <1>e, <2>1, <2>2, <2>4 DEF OrderInv
    <2> QED
      BY Zenon, <2>1, <2>5, <2>6 DEF PlacesOrder, TicketInv
  <1>14. CASE DropRunner
    <2>1. /\ rpc \in {"wait", "exchange"} /\ rpc' = "gone" /\ followers' = <<>> /\ leader' = NoJob
          /\ UNCHANGED <<push, entries, ticket, runner_closed>>
      BY <1>14 DEF DropRunner, clientVars
    <2>2. /\ ~HasLeader' /\ ~Draining /\ ~Draining' /\ rpc' \notin Finishing
      BY <2>1 DEF HasLeader, Draining, Serving, Finishing
    <2>3. LeaderInv'
      BY <2>1, <2>2 DEF PlacesOrder, LeaderInv, Finishing
    <2>4. OrderInv'
      BY Zenon, <1>e, <2>1, <2>2 DEF PlacesOrder, OrderInv
    <2> QED
      BY <2>1, <2>3, <2>4 DEF PlacesOrder, TicketInv
  <1> QED
    BY <1>1, <1>2, <1>3, <1>4, <1>5, <1>6, <1>7, <1>8, <1>9, <1>10, <1>11, <1>12, <1>13, <1>14
    DEF Runner

LEMMA InitOrder == Init => PlacesOrder
  <1> SUFFICES ASSUME Init PROVE PlacesOrder
    OBVIOUS
  <1>1. LeaderInv
    BY DEF Init, LeaderInv, HasLeader, Draining, Serving, Finishing
  <1>2. TicketInv
    <2>1. {k \in Job : ticket[k] > 0} = {}
      BY DEF Init
    <2>2. Cardinality({k \in Job : ticket[k] > 0}) = 0
      BY <2>1, FS_EmptySet
    <2>3. \A j \in Job : push[j] \notin Appended /\ ticket[j] = 0
      BY DEF Init, Appended
    <2>4. \A j \in Job : ~(ticket[j] > 0) /\ ticket[j] <= 0
      BY <2>3
    <2> QED
      BY Zenon, <2>2, <2>3, <2>4 DEF TicketInv
  <1>3. OrderInv
    BY SortedEmpty DEF Init, OrderInv, HasLeader, Serving, Finishing
  <1> QED
    BY <1>1, <1>2, <1>3 DEF PlacesOrder

LEMMA OrderInvariants == Spec => [](TypeOK /\ RunnerInv /\ PlaceInv /\ PermitInv /\ PlacesOrder)
  <1>1. TypeOK /\ RunnerInv /\ PlaceInv /\ PlacesOrder /\ [Next]_vars => PlacesOrder'
    <2> SUFFICES ASSUME TypeOK, RunnerInv, PlaceInv, PlacesOrder, [Next]_vars PROVE PlacesOrder'
      OBVIOUS
    <2>1. CASE UNCHANGED vars
      BY Zenon, <2>1 DEF vars, clientVars, slotVars, runnerVars, work, PlacesOrder, LeaderInv, TicketInv,
                  OrderInv, HasLeader, Draining
    <2> QED
      BY <2>1, ClientOrder, RunnerOrder DEF Next
  <1> QED
    BY <1>1, Invariants, InitOrder, PTL DEF Spec

(* In every slot, what waits, what is coalesced and what is being finished   *)
(* stay in the order of their push_back calls: requeue_followers puts back   *)
(* what take_coalescible_followers took, in front of everything younger.     *)
THEOREM SlotsKeepOrder == Spec => []OrderInv
  <1>1. PlacesOrder => OrderInv
    BY DEF PlacesOrder
  <1> QED
    BY <1>1, OrderInvariants, PTL
===============================================================================

-------------------------- MODULE QueueSetWakeProofs --------------------------
(***************************************************************************)
(* Proofs about what the runner of a queue set can rely on (module           *)
(* QueueSet), for every number of clients, slots and places: the counters    *)
(* tell the truth, no wakeup is lost, and a decision nobody disturbs never   *)
(* passes over a slot of higher precedence.                                  *)
(***************************************************************************)
EXTENDS QueueSetOrderProofs

(* Arithmetic modulo the word size: division with remainder is unique, so    *)
(* fetch_add and fetch_sub may be taken before or after the remainder.       *)
LEMMA WordDivision ==
    \A x \in Int : /\ x = Word * (x \div Word) + (x % Word)
                   /\ x % Word \in 0 .. Word - 1 /\ x \div Word \in Int
  BY WordAssumption

LEMMA WordRemainder ==
    ASSUME NEW x \in Int, NEW q \in Int, NEW r \in 0 .. Word - 1, x = Word * q + r
    PROVE  x % Word = r
  <1> USE WordAssumption
  <1>1. /\ x \div Word \in Int /\ x % Word \in 0 .. Word - 1
        /\ Word * q + r = Word * (x \div Word) + (x % Word)
    BY WordDivision
  <1>2. ASSUME NEW a \in Int, NEW b \in Int, NEW t \in 0 .. Word - 1, NEW u \in 0 .. Word - 1,
               Word * a + t = Word * b + u, a < b
        PROVE  FALSE
    <2>1. Word * (b - a) = t - u
      BY <1>2
    <2>2. b - a \in Nat \ {0}
      BY <1>2
    <2>3. Word * (b - a) >= Word
      BY <2>2
    <2> QED
      BY <2>1, <2>3
  <1>3. ~(q < x \div Word) /\ ~(x \div Word < q)
    BY <1>1, <1>2
  <1>4. x \div Word = q
    BY <1>1, <1>3
  <1> QED
    BY <1>1, <1>4

LEMMA WordSucc == \A x \in Int : ((x % Word) + 1) % Word = (x + 1) % Word
  <1> TAKE x \in Int
  <1>1. /\ x = Word * (x \div Word) + (x % Word)
        /\ x % Word \in 0 .. Word - 1 /\ x \div Word \in Int
    BY WordDivision
  <1>2. CASE (x % Word) + 1 < Word
    <2>1. /\ (x % Word) + 1 \in 0 .. Word - 1 /\ x + 1 \in Int
          /\ x + 1 = Word * (x \div Word) + ((x % Word) + 1)
      BY <1>1, <1>2, WordAssumption
    <2>2. (x + 1) % Word = (x % Word) + 1
      BY <1>1, <2>1, WordRemainder
    <2>3. ((x % Word) + 1) % Word = (x % Word) + 1
      BY <2>1, WordAssumption
    <2> QED
      BY <2>2, <2>3
  <1>3. CASE (x % Word) + 1 = Word
    <2>1. /\ x + 1 = Word * ((x \div Word) + 1) + 0
          /\ 0 \in 0 .. Word - 1 /\ x + 1 \in Int /\ (x \div Word) + 1 \in Int
      BY <1>1, <1>3, WordAssumption
    <2>2. (x + 1) % Word = 0
      BY <2>1, WordRemainder
    <2>3. Word % Word = 0
      BY WordAssumption
    <2> QED
      BY <1>3, <2>2, <2>3
  <1> QED
    BY <1>1, <1>2, <1>3, WordAssumption

LEMMA WordPred == \A x \in Int : FetchSub(x % Word) = (x - 1) % Word
  <1> USE DEF FetchSub
  <1> TAKE x \in Int
  <1>1. /\ x = Word * (x \div Word) + (x % Word)
        /\ x % Word \in 0 .. Word - 1 /\ x \div Word \in Int
    BY WordDivision
  <1>2. CASE x % Word > 0
    <2>1. /\ (x % Word) - 1 \in 0 .. Word - 1 /\ x - 1 \in Int
          /\ x - 1 = Word * (x \div Word) + ((x % Word) - 1)
      BY <1>1, <1>2, WordAssumption
    <2>2. (x - 1) % Word = (x % Word) - 1
      BY <1>1, <2>1, WordRemainder
    <2>3. ((x % Word) - 1) % Word = (x % Word) - 1
      BY <2>1, WordAssumption
    <2> QED
      BY <2>2, <2>3
  <1>3. CASE x % Word = 0
    <2>1. /\ x - 1 = Word * ((x \div Word) - 1) + (Word - 1)
          /\ Word - 1 \in 0 .. Word - 1 /\ x - 1 \in Int /\ (x \div Word) - 1 \in Int
      BY <1>1, <1>3, WordAssumption
    <2>2. (x - 1) % Word = Word - 1
      BY <2>1, WordRemainder
    <2>3. 0 - 1 = Word * (0 - 1) + (Word - 1) /\ 0 - 1 \in Int
      BY WordAssumption
    <2>4. (0 - 1) % Word = Word - 1
      BY <2>1, <2>3, WordRemainder
    <2> QED
      BY <1>3, <2>2, <2>4
  <1> QED
    BY <1>1, <1>2, <1>3, WordAssumption

-----------------------------------------------------------------------------
(* Counters. *)

(* Pushes of slot s between push_back and fetch_add. *)
Uncounted(s) == {j \in Job : push[j] = "count" /\ QueueOf[j] = s}

LEMMA FinitePlaces ==
    ASSUME TypeOK, RunnerInv, NEW s \in Slots
    PROVE  /\ IsFiniteSet(Present(s)) /\ Cardinality(Present(s)) \in Nat
           /\ IsFiniteSet(Uncounted(s)) /\ Cardinality(Uncounted(s)) \in Nat
           /\ Present(s) \subseteq Job
  <1>1. Present(s) \subseteq Job
    BY PlacesAreJobs DEF Present, Popped, Finishing
  <1>2. Uncounted(s) \subseteq Job
    BY DEF Uncounted
  <1> QED
    BY <1>1, <1>2, JobAssumption, FS_Subset, FS_CardinalityType

(* Taking the front entry of a slot keeps it present. *)
LEMMA TakeFrontPresent ==
    ASSUME TypeOK, PlaceInv, NEW s \in Slots, entries[s] # <<>>, NEW to, TakeFront(s, to),
           UNCHANGED followers, rpc \notin Finishing
    PROVE  \A t \in Slots : Present(t)' = Present(t)
  <1>1. /\ hand' = Head(entries[s]) /\ rpc' = "release"
        /\ entries' = [entries EXCEPT ![s] = Tail(@)] /\ entries \in [Slots -> Seq(Job)]
    BY DEF TakeFront, TypeOK, SlotType
  <1>2. Range(entries[s]) = {hand'} \cup Range(Tail(entries[s]))
    BY <1>1, TailRange
  <1>3. QueueOf[hand'] = s
    BY <1>2 DEF PlaceInv, DequesInv
  <1>4. Popped = {} /\ Popped' = {hand'}
    BY <1>1 DEF Popped, Finishing
  <1>5. \A t \in Slots : Range(entries'[t]) = IF t = s THEN Range(Tail(entries[s])) ELSE Range(entries[t])
    BY <1>1
  <1> QED
    BY <1>2, <1>3, <1>4, <1>5 DEF Present

LEMMA ClientCounters ==
    ASSUME TypeOK, RunnerInv, PlaceInv, PlacesOrder, CounterAccurate, Client
    PROVE  CounterAccurate'
  <1> USE QueueOfAssumption
  <1>0. /\ push \in [Job -> PushState] /\ entries \in [Slots -> Seq(Job)]
        /\ queued \in [Slots -> 0 .. Word - 1]
    BY DEF TypeOK, ClientType, SlotType
  <1>a. ASSUME UNCHANGED <<queued, rpc, entries, followers, hand>>,
               \A s \in Slots : Uncounted(s)' = Uncounted(s)
        PROVE  CounterAccurate'
    <2>1. \A s \in Slots : Present(s)' = Present(s)
      BY <1>a DEF Present, Popped
    <2> QED
      BY <1>a, <2>1 DEF CounterAccurate, Uncounted
  <1>b. ASSUME NEW j \in Job, NEW from, NEW to, Goto(j, from, to), from # "count", to # "count"
        PROVE  \A s \in Slots : Uncounted(s)' = Uncounted(s)
    BY <1>0, <1>b DEF Goto, Uncounted
  <1>1. ASSUME NEW j \in Job, StartPush(j) \/ Acquire(j) \/ GiveUp(j) \/ FinishPush(j) \/ NotifyPush(j)
        PROVE  CounterAccurate'
    <2>1. UNCHANGED <<queued, rpc, entries, followers, hand>>
      BY <1>1 DEF StartPush, Acquire, GiveUp, FinishPush, NotifyPush, slotVars, runnerVars, work
    <2>2. \E from, to \in PushState \ {"count"} : Goto(j, from, to)
      BY <1>1, PushStates DEF StartPush, Acquire, GiveUp, FinishPush, NotifyPush
    <2> QED
      BY <1>a, <1>b, <2>1, <2>2
  <1>2. ASSUME NEW j \in Job, PushBack(j) PROVE CounterAccurate'
    <2>1. /\ push[j] = "append" /\ push' = [push EXCEPT ![j] = "count"]
          /\ entries' = [entries EXCEPT ![QueueOf[j]] = Append(@, j)]
          /\ UNCHANGED <<queued, rpc, followers, hand>>
      BY <1>2 DEF PushBack, Goto, runnerVars, work
    <2>2. \A s \in Slots : Range(entries'[s]) = Range(entries[s]) \cup (IF s = QueueOf[j] THEN {j} ELSE {})
      BY <1>0, <2>1, AppendRange
    <2>3. Popped' = Popped
      BY <2>1 DEF Popped
    <2>4. \A s \in Slots \ {QueueOf[j]} : Present(s)' = Present(s) /\ Uncounted(s)' = Uncounted(s)
      BY <1>0, <2>1, <2>2, <2>3 DEF Present, Uncounted
    <2>5. /\ Present(QueueOf[j])' = Present(QueueOf[j]) \cup {j}
          /\ Uncounted(QueueOf[j])' = Uncounted(QueueOf[j]) \cup {j} /\ j \notin Uncounted(QueueOf[j])
      BY <1>0, <2>1, <2>2, <2>3 DEF Present, Uncounted
    <2>6. j \notin Present(QueueOf[j])
      BY <2>1, PlacedBefore DEF Present, Popped, PlacesOrder, Appended, Finishing
    <2>7. /\ Cardinality(Present(QueueOf[j])') = Cardinality(Present(QueueOf[j])) + 1
          /\ Cardinality(Uncounted(QueueOf[j])') = Cardinality(Uncounted(QueueOf[j])) + 1
          /\ Cardinality(Present(QueueOf[j])) \in Nat /\ Cardinality(Uncounted(QueueOf[j])) \in Nat
      BY <2>5, <2>6, FinitePlaces, FS_AddElement
    <2>8. \A s \in Slots : Cardinality(Present(s)') - Cardinality(Uncounted(s)')
                           = Cardinality(Present(s)) - Cardinality(Uncounted(s))
      BY <2>4, <2>7
    <2> QED
      BY <2>1, <2>8 DEF CounterAccurate, Uncounted
  <1>3. ASSUME NEW j \in Job, CountPush(j) PROVE CounterAccurate'
    <2> DEFINE q == QueueOf[j]
    <2>1. /\ push[j] = "count" /\ push' = [push EXCEPT ![j] = "notify"]
          /\ queued' = [queued EXCEPT ![q] = (@ + 1) % Word]
          /\ UNCHANGED <<entries, rpc, followers, hand>>
      BY <1>3 DEF CountPush, Goto, runnerVars, work
    <2>2. \A s \in Slots : Present(s)' = Present(s)
      BY <2>1 DEF Present, Popped
    <2>3. /\ \A s \in Slots \ {q} : Uncounted(s)' = Uncounted(s)
          /\ Uncounted(q)' = Uncounted(q) \ {j} /\ j \in Uncounted(q)
      <3>1. push'[j] = "notify" /\ \A i \in Job \ {j} : push'[i] = push[i]
        BY <1>0, <2>1
      <3>2. j \in Uncounted(q)
        BY <2>1 DEF Uncounted
      <3>3. Uncounted(q)' = Uncounted(q) \ {j}
        BY <3>1 DEF Uncounted
      <3>4. \A s \in Slots \ {q} : Uncounted(s)' = Uncounted(s)
        BY <2>1, <3>1 DEF Uncounted
      <3> QED
        BY <3>2, <3>3, <3>4
    <2>4. /\ Cardinality(Uncounted(q)') = Cardinality(Uncounted(q)) - 1
          /\ Cardinality(Present(q)) \in Nat /\ Cardinality(Uncounted(q)) \in Nat
      BY <2>3, FinitePlaces, FS_RemoveElement
    <2>5. ASSUME rpc # "gone"
          PROVE  queued'[q] = (Cardinality(Present(q)') - Cardinality(Uncounted(q)')) % Word
      <3> DEFINE x == Cardinality(Present(q)) - Cardinality(Uncounted(q))
      <3>1. queued[q] = x % Word
        BY <2>5 DEF CounterAccurate, Uncounted
      <3>2. x \in Int /\ x + 1 = Cardinality(Present(q)') - Cardinality(Uncounted(q)')
        BY <2>2, <2>4
      <3> HIDE DEF x
      <3>3. queued'[q] = ((x % Word) + 1) % Word
        BY <1>0, <2>1, <3>1
      <3>4. queued'[q] = (x + 1) % Word
        BY <3>2, <3>3, WordSucc
      <3> QED
        BY <3>2, <3>4
    <2>6. \A s \in Slots \ {q} : queued'[s] = queued[s]
      BY <1>0, <2>1
    <2>7. rpc # "gone" => \A s \in Slots : queued'[s] = (Cardinality(Present(s)') - Cardinality(Uncounted(s)')) % Word
      BY <2>2, <2>3, <2>5, <2>6 DEF CounterAccurate, Uncounted
    <2> QED
      BY <2>1, <2>7 DEF CounterAccurate, Uncounted
  <1>4. CASE (\E s \in Slots : StorePriority(s)) \/ NotifyPriority \/ CloseInput
    <2>1. UNCHANGED <<queued, rpc, entries, followers, hand, push>>
      BY <1>4 DEF StorePriority, NotifyPriority, CloseInput, slotVars, runnerVars, work
    <2> QED
      BY <1>a, <2>1 DEF Uncounted
  <1> QED
    BY <1>1, <1>2, <1>3, <1>4 DEF Client

(* A pop takes the front entry of some slot, or moves the decision on. *)
LEMMA PopCases ==
    ASSUME TypeOK, RunnerInv, PopStrict \/ PopWeighted \/ DiscardCandidate \/ DrainEntry
    PROVE  /\ UNCHANGED <<push, queued, followers>>
           /\ rpc \notin Finishing
           /\ \/ \E s \in Slots, to \in {"serve", "coalesce", "drain"} :
                    entries[s] # <<>> /\ TakeFront(s, to)
              \/ UNCHANGED <<entries, hand>> /\ rpc' \in {"strict", "weighted", "closed"}
  <1>0. cursor \in QueueCursor /\ look \in 0 .. N /\ sweep \in 0 .. N
    BY DEF TypeOK, RunnerType
  <1>1. CASE PopStrict
    <2> DEFINE s == At(cursor.strict_index, look)
    <2>1. s \in Slots
      BY <1>0, AtSlot, NAssumption DEF QueueCursor
    <2>2. \/ entries[s] # <<>> /\ TakeFront(s, "serve")
          \/ UNCHANGED <<entries, hand>> /\ rpc' \in {"strict", "weighted"}
      BY <1>1 DEF PopStrict
    <2> QED
      BY <1>1, <2>1, <2>2 DEF PopStrict, clientVars, Finishing
  <1>2. CASE PopWeighted
    <2> DEFINE s == At(cursor.weighted_index, look)
    <2>1. s \in Slots
      BY <1>0, AtSlot, NAssumption DEF QueueCursor
    <2>2. \/ entries[s] # <<>> /\ TakeFront(s, "serve")
          \/ UNCHANGED <<entries, hand>> /\ rpc' \in {"weighted", "closed"}
      BY <1>2 DEF PopWeighted
    <2> QED
      BY <1>2, <2>1, <2>2 DEF PopWeighted, clientVars, Finishing
  <1>3. CASE DiscardCandidate
    BY <1>3, QueueOfAssumption DEF DiscardCandidate, clientVars, RunnerInv, Serving, Finishing
  <1>4. CASE DrainEntry
    BY <1>0, <1>4, NAssumption DEF DrainEntry, clientVars, Slots, Finishing
  <1> QED
    BY <1>1, <1>2, <1>3, <1>4

LEMMA RunnerCounters ==
    ASSUME TypeOK, RunnerInv, PlaceInv, PlacesOrder, CounterAccurate, Runner
    PROVE  CounterAccurate'
  <1> USE QueueOfAssumption
  <1>0. /\ entries \in [Slots -> Seq(Job)] /\ followers \in Seq(Job)
        /\ queued \in [Slots -> 0 .. Word - 1]
        /\ back \in {"serve", "coalesce", "complete", "drain"}
    BY DEF TypeOK, SlotType, RunnerType
  <1>a. ASSUME UNCHANGED <<push, queued>>, rpc # "gone",
               \A s \in Slots : Present(s)' = Present(s)
        PROVE  CounterAccurate'
    BY <1>a DEF CounterAccurate
  <1>1. CASE \/ CreateNotified \/ ScanRank \/ CheckInput \/ Wake
             \/ (\E usable \in BOOLEAN : IdleInput(usable)) \/ Skip \/ Admit \/ ReturnCandidate
             \/ EndCoalescing \/ ExchangeOk \/ EndComplete \/ CloseRunner \/ DrainNext
    <2>1. /\ UNCHANGED <<push, queued, entries, followers>>
          /\ rpc \notin Finishing \cup {"gone"}
          /\ rpc' \notin Finishing
      <3>1. CASE CreateNotified \/ ScanRank \/ CheckInput \/ Wake
                 \/ (\E usable \in BOOLEAN : IdleInput(usable))
        BY <3>1 DEF CreateNotified, ScanRank, CheckInput, Wake, IdleInput, clientVars, slotVars,
                    work, Finishing
      <3>2. CASE \/ Skip \/ Admit \/ ReturnCandidate \/ EndCoalescing \/ ExchangeOk \/ EndComplete
                 \/ CloseRunner \/ DrainNext
        BY Zenon, <3>2 DEF Skip, Admit, ReturnCandidate, EndCoalescing, ExchangeOk, EndComplete,
                    CloseRunner, DrainNext, clientVars, slotVars, work, Finishing
      <3> QED
        BY <1>1, <3>1, <3>2
    <2>2. \A s \in Slots : Present(s)' = Present(s)
      BY <2>1 DEF Present, Popped, Finishing
    <2> QED
      BY <1>a, <2>1, <2>2
  <1>2. CASE PopStrict \/ PopWeighted \/ DiscardCandidate \/ DrainEntry
    <2>1. UNCHANGED <<push, queued, followers>> /\ rpc \notin Finishing /\ rpc # "gone"
      BY <1>2, PopCases DEF PopStrict, PopWeighted, DiscardCandidate, DrainEntry
    <2>2. ASSUME NEW s \in Slots, NEW to, entries[s] # <<>>, TakeFront(s, to)
          PROVE  CounterAccurate'
      BY <1>a, <2>1, <2>2, TakeFrontPresent
    <2>3. ASSUME UNCHANGED <<entries, hand>>, rpc' \in {"strict", "weighted", "closed"}
          PROVE  CounterAccurate'
      <3>1. \A s \in Slots : Present(s)' = Present(s)
        BY <2>1, <2>3 DEF Present, Popped, Finishing
      <3> QED
        BY <1>a, <2>1, <3>1
    <2> QED
      BY <1>2, <2>2, <2>3, PopCases
  <1>3. CASE ReleasePermit
    <2>1. /\ UNCHANGED <<push, queued, entries, followers, hand>>
          /\ rpc = "release" /\ rpc' = "decrement"
      BY <1>3 DEF ReleasePermit, clientVars, work
    <2>2. \A s \in Slots : Present(s)' = Present(s)
      BY <2>1 DEF Present, Popped
    <2> QED
      BY <1>a, <2>1, <2>2
  <1>4. CASE Decrement
    <2>0. PICK q \in Slots : q = QueueOf[hand]
      BY <1>4 DEF Decrement, RunnerInv, Finishing
    <2>1. /\ rpc = "decrement" /\ rpc' = back /\ rpc' \notin {"release", "decrement"} /\ rpc' # "gone"
          /\ queued' = [queued EXCEPT ![q] = FetchSub(@)]
          /\ UNCHANGED <<push, entries, followers>> /\ hand \in Job
      BY <1>0, <1>4, <2>0 DEF Decrement, clientVars, RunnerInv, Finishing
    <2>2. Popped = {hand} /\ Popped' = {}
      BY <2>1 DEF Popped
    <2>3. (\A s \in Slots : hand \notin Range(entries[s])) /\ hand \notin Range(followers)
      BY <2>1 DEF PlaceInv, DequesInv, FollowersInv, IsEntry, PlacesOrder, LeaderInv
    <2>4. /\ \A s \in Slots \ {q} : Present(s)' = Present(s)
          /\ Present(q)' = Present(q) \ {hand} /\ hand \in Present(q)
      BY <2>0, <2>1, <2>2, <2>3 DEF Present
    <2>5. /\ Cardinality(Present(q)') = Cardinality(Present(q)) - 1
          /\ Cardinality(Present(q)) \in Nat /\ Cardinality(Uncounted(q)) \in Nat
      BY <2>1, <2>4, FinitePlaces, FS_RemoveElement
    <2>6. \A s \in Slots : Uncounted(s)' = Uncounted(s)
      BY <2>1 DEF Uncounted
    <2>7. queued'[q] = (Cardinality(Present(q)') - Cardinality(Uncounted(q)')) % Word
      <3> DEFINE x == Cardinality(Present(q)) - Cardinality(Uncounted(q))
      <3>1. queued[q] = x % Word
        BY <2>1 DEF CounterAccurate, Uncounted
      <3>2. x \in Int /\ x - 1 = Cardinality(Present(q)') - Cardinality(Uncounted(q)')
        BY <2>1, <2>5, <2>6
      <3> HIDE DEF x
      <3>3. queued'[q] = FetchSub(x % Word)
        BY <1>0, <2>1, <3>1
      <3>4. queued'[q] = (x - 1) % Word
        BY <3>2, <3>3, WordPred
      <3> QED
        BY <3>2, <3>4
    <2>8. \A s \in Slots \ {q} : queued'[s] = queued[s]
      BY <1>0, <2>1
    <2>9. \A s \in Slots : queued'[s] = (Cardinality(Present(s)') - Cardinality(Uncounted(s)')) % Word
      BY <2>1, <2>4, <2>6, <2>7, <2>8 DEF CounterAccurate, Uncounted
    <2> QED
      BY <2>1, <2>9 DEF CounterAccurate, Uncounted
  <1>5. CASE Follow
    <2> DEFINE q == QueueOf[leader]
               j == Head(entries[q])
    <2>1. /\ rpc = "coalesce" /\ q \in Slots /\ entries[q] # <<>> /\ rpc' = rpc
          /\ followers' = Append(followers, j) /\ entries' = [entries EXCEPT ![q] = Tail(@)]
          /\ UNCHANGED <<push, queued>>
      BY <1>5 DEF Follow, clientVars, RunnerInv, Serving
    <2>2. j \in Job /\ Range(entries[q]) = {j} \cup Range(Tail(entries[q]))
      BY <1>0, <2>1, TailRange
    <2>3. Range(followers') = Range(followers) \cup {j} /\ QueueOf[j] = q
      <3>1. QueueOf[j] = q
        BY <2>1, <2>2 DEF PlaceInv, DequesInv
      <3>2. Range(Append(followers, j)) = Range(followers) \cup {j}
        BY <1>0, <2>2, AppendRange
      <3> QED
        BY <2>1, <3>1, <3>2
    <2>4. \A s \in Slots : Range(entries'[s]) = IF s = q THEN Range(Tail(entries[q])) ELSE Range(entries[s])
      BY <1>0, <2>1
    <2> HIDE DEF j
    <2>5. \A s \in Slots : Present(s)' = Present(s)
      BY <2>1, <2>2, <2>3, <2>4 DEF Present, Popped
    <2> QED
      BY <1>a, <2>1, <2>5
  <1>6. CASE CompleteFollower
    <2>1. /\ rpc = "complete" /\ rpc' = "release" /\ followers # <<>>
          /\ hand' = Head(followers) /\ followers' = Tail(followers)
          /\ UNCHANGED <<push, queued, entries>>
      BY <1>6 DEF CompleteFollower, clientVars, slotVars
    <2>2. Range(followers) = {hand'} \cup Range(followers')
      BY <1>0, <2>1, TailRange
    <2>3. \A s \in Slots : Present(s)' = Present(s)
      BY <2>1, <2>2 DEF Present, Popped
    <2> QED
      BY <1>a, <2>1, <2>3
  <1>7. CASE \E next \in AfterError : ExchangeErr(next)
    <2> DEFINE q == QueueOf[leader]
    <2>1. /\ rpc = "exchange" /\ rpc' \in AfterError /\ q \in Slots
          /\ followers' = <<>> /\ entries' = [entries EXCEPT ![q] = followers \o @]
          /\ UNCHANGED <<push, queued>>
      BY <1>7 DEF ExchangeErr, requeue_followers, clientVars, RunnerInv, Serving
    <2>2. Range(entries'[q]) = Range(followers) \cup Range(entries[q])
      BY <1>0, <2>1, ConcatRange
    <2>3. Range(followers') = {} /\ \A s \in Slots \ {q} : Range(entries'[s]) = Range(entries[s])
      BY <1>0, <2>1 DEF Range
    <2>4. \A j \in Range(followers) : QueueOf[j] = q
      BY <2>1 DEF PlaceInv, FollowersInv
    <2>5. Popped = {} /\ Popped' = {}
      BY <2>1 DEF Popped, AfterError
    <2>6. \A s \in Slots : Present(s)' = Present(s)
      BY <2>2, <2>3, <2>4, <2>5 DEF Present
    <2> QED
      BY <1>a, <2>1, <2>6
  <1>8. CASE DropRunner
    BY <1>8 DEF DropRunner, CounterAccurate
  <1> QED
    BY <1>1, <1>2, <1>3, <1>4, <1>5, <1>6, <1>7, <1>8 DEF Runner

LEMMA InitCounters == Init => CounterAccurate
  <1> SUFFICES ASSUME Init, NEW s \in Slots
               PROVE  queued[s] = (Cardinality(Present(s)) - Cardinality(Uncounted(s))) % Word
    BY DEF CounterAccurate, Uncounted
  <1>1. Present(s) = {} /\ Uncounted(s) = {} /\ queued[s] = 0
    BY DEF Init, Present, Popped, Range, Uncounted
  <1>2. Cardinality({}) = 0
    BY FS_EmptySet
  <1> QED
    BY <1>1, <1>2, WordAssumption

(* Everything the decisions of the runner rely on. *)
QueueInv == TypeOK /\ RunnerInv /\ PlaceInv /\ PermitInv /\ PlacesOrder /\ CounterAccurate

LEMMA QueueInvariants == Spec => []QueueInv
  <1>1. Init => CounterAccurate
    BY InitCounters
  <1>2. TypeOK /\ RunnerInv /\ PlaceInv /\ PermitInv /\ PlacesOrder /\ CounterAccurate /\ [Next]_vars
          => CounterAccurate'
    <2> SUFFICES ASSUME TypeOK, RunnerInv, PlaceInv, PermitInv, PlacesOrder, CounterAccurate,
                        [Next]_vars
                 PROVE  CounterAccurate'
      OBVIOUS
    <2>1. CASE UNCHANGED vars
      BY <2>1 DEF vars, clientVars, runnerVars, slotVars, work, CounterAccurate, Present, Popped
    <2>2. CASE Client
      BY <2>2, ClientCounters
    <2>3. CASE Runner
      BY <2>3, RunnerCounters
    <2> QED
      BY <2>1, <2>2, <2>3 DEF Next
  <1> QED
    BY <1>1, <1>2, OrderInvariants, PTL DEF Spec, QueueInv

(* queue_snapshot: for every number of clients, slots and places, the counter *)
(* of a slot is the number of its entries, minus the pushes between push_back *)
(* and fetch_add, whatever the runner has popped, coalesced or requeued.      *)
THEOREM CountersAreAccurate == Spec => []CounterAccurate
  BY QueueInvariants, PTL DEF QueueInv

-----------------------------------------------------------------------------
(* What the counters and the priorities show to a decision. *)

Deciding == {"rank", "strict", "weighted"}

(* While the runner decides, a counter whose uncounted pushes are still in    *)
(* the deque is exact: no capacity reaches the word size.                     *)
LEMMA CounterExact ==
    ASSUME QueueInv, rpc \in Deciding, NEW s \in Slots, Uncounted(s) \subseteq Range(entries[s])
    PROVE  queued[s] > 0 <=> Range(entries[s]) \ Uncounted(s) # {}
  <1> DEFINE deque == Range(entries[s])
  <1>1. followers = <<>> /\ Range(followers) = {} /\ Popped = {}
    BY DEF QueueInv, PlacesOrder, LeaderInv, HasLeader, Deciding, Serving, Finishing, Popped, Range
  <1>2. \A j \in deque : QueueOf[j] = s /\ j \in held
    BY DEF QueueInv, PlaceInv, DequesInv, IsEntry
  <1>3. Present(s) = deque
    BY <1>1, <1>2 DEF Present
  <1>4. /\ IsFiniteSet(deque) /\ Cardinality(deque) \in Nat
        /\ IsFiniteSet(Uncounted(s)) /\ Cardinality(Uncounted(s)) \in Nat
    BY <1>3, FinitePlaces DEF QueueInv
  <1>5. Cardinality(deque) < Word
    <2>1. deque \subseteq HeldIn(held, s) /\ held \in SUBSET Job /\ permits[s] \in Nat
      BY <1>2 DEF HeldIn, QueueInv, TypeOK, SlotType
    <2>2. IsFiniteSet(HeldIn(held, s)) /\ Cardinality(HeldIn(held, s)) \in Nat
      BY <2>1, FiniteHeld
    <2>3. Cardinality(deque) <= Cardinality(HeldIn(held, s))
      BY <2>1, <2>2, FS_Subset
    <2>4. permits[s] + Cardinality(HeldIn(held, s)) = Capacity[s] /\ Capacity[s] \in Nat
      BY CapacityAssumption DEF QueueInv, PermitInv
    <2>5. Capacity[s] < Word
      BY CapacityFitsWord
    <2> QED
      BY <1>4, <2>1, <2>2, <2>3, <2>4, <2>5, WordAssumption
  <1>6. Cardinality(Uncounted(s)) <= Cardinality(deque)
    BY <1>4, FS_Subset
  <1>7. queued[s] = (Cardinality(deque) - Cardinality(Uncounted(s))) % Word
    BY <1>3 DEF QueueInv, CounterAccurate, Deciding, Uncounted
  <1>8. Cardinality(deque \ Uncounted(s)) = Cardinality(deque) - Cardinality(Uncounted(s))
        /\ IsFiniteSet(deque \ Uncounted(s))
    <2>1. deque \cap Uncounted(s) = Uncounted(s)
      OBVIOUS
    <2> QED
      BY <1>4, <2>1, FS_Difference
  <1> HIDE DEF deque
  <1>9. queued[s] = Cardinality(deque \ Uncounted(s)) /\ Cardinality(deque \ Uncounted(s)) \in Nat
    <2>1. Cardinality(deque) - Cardinality(Uncounted(s)) \in 0 .. Word - 1
      BY <1>4, <1>5, <1>6, WordAssumption
    <2>2. \A x \in 0 .. Word - 1 : x % Word = x
      BY WordAssumption
    <2> QED
      BY <1>7, <1>8, <2>1, <2>2, WordAssumption
  <1>10. Cardinality(deque \ Uncounted(s)) = 0 <=> deque \ Uncounted(s) = {}
    BY <1>8, FS_EmptySet
  <1> QED
    BY <1>9, <1>10 DEF deque

LEMMA EmptyDeque ==
    ASSUME TypeOK, NEW s \in Slots
    PROVE  entries[s] = <<>> <=> Range(entries[s]) = {}
  <1>1. entries[s] \in Seq(Job)
    BY DEF TypeOK, SlotType
  <1>2. Range(<<>>) = {}
    BY DEF Range
  <1>3. entries[s] # <<>> => Range(entries[s]) # {}
    BY <1>1, TailRange
  <1> QED
    BY <1>2, <1>3

LEMMA Priorities ==
    ASSUME TypeOK, NEW s \in Slots, NEW r
    PROVE  /\ priority[s].value \in Nat
           /\ IsWeighted(priority[s]) <=> ~IsStrict(priority[s])
           /\ priority[s] = Strict(r) <=> IsStrict(priority[s]) /\ priority[s].value = r
  <1>1. priority[s] \in QueuePriority
    BY DEF TypeOK, ClientType
  <1>2. \A p \in QueuePriority : /\ p.value \in Nat
                                 /\ IsWeighted(p) <=> ~IsStrict(p)
                                 /\ p = Strict(r) <=> IsStrict(p) /\ p.value = r
    BY DEF QueuePriority, IsWeighted, IsStrict, Strict
  <1> QED
    BY <1>1, <1>2

(* The rotation at offsets 1 .. N visits every slot. *)
LEMMA RotationComplete == ASSUME NEW i \in Slots, NEW s \in Slots PROVE \E o \in 1 .. N : At(i, o) = s
  <1>0. \A x \in 0 .. N - 1 : x % N = x /\ (x + N) % N = x
    BY NAssumption
  <1>1. CASE s > i
    <2>1. s - i \in 1 .. N /\ i + (s - i) = s
      BY <1>1, NAssumption DEF Slots
    <2> QED
      BY <1>0, <2>1 DEF At, Slots
  <1>2. CASE s <= i
    <2>1. s + N - i \in 1 .. N /\ i + (s + N - i) = s + N
      BY <1>2, NAssumption DEF Slots
    <2>2. (s + N) % N = s
      BY <1>0 DEF Slots
    <2> QED
      BY <2>1, <2>2 DEF At
  <1> QED
    BY <1>1, <1>2, NAssumption DEF Slots

-----------------------------------------------------------------------------
(* Wakeups. *)

(* The runner has been notified, or will be. *)
Alert == notify \/ woken \/ setter \/ \E j \in Job : push[j] \in {"count", "notify"}

StrictReady(s, r) == priority[s] = Strict(r) /\ entries[s] # <<>>

(* While nobody is about to notify the runner, a decision misses nothing: the *)
(* scan knows the highest rank of the slots behind it, some slot of that rank *)
(* is still in front of the rotation, the strict slots are empty when it      *)
(* turns to the weighted ones, and all slots are when it gives up.            *)
RankScanned ==
    /\ \A s \in Slots : s < look /\ IsStrict(priority[s]) /\ entries[s] # <<>>
                          => priority[s].value <= rank
    /\ rank # NoRank => \E s \in Slots : StrictReady(s, rank)
StrictAhead ==
    /\ look >= 1
    /\ \E s \in Slots : StrictReady(s, rank) /\ \A o \in 1 .. look - 1 : At(cursor.strict_index, o) # s
OnlyWeighted ==
    /\ \A s \in Slots : IsStrict(priority[s]) => entries[s] = <<>>
    /\ \A o \in 1 .. look - 1 : entries[At(cursor.weighted_index, o)] = <<>>

WakeInv ==
    ~Alert =>
      /\ rpc = "rank" => RankScanned
      /\ rpc = "strict" => StrictAhead
      /\ rpc = "weighted" => OnlyWeighted
      /\ rpc \in {"closed", "wait"} => \A s \in Slots : entries[s] = <<>>

(* With nobody in the middle of a push the counters are exact. *)
LEMMA AllCounted ==
    ASSUME QueueInv, rpc \in Deciding, ~Alert, NEW s \in Slots
    PROVE  queued[s] > 0 <=> entries[s] # <<>>
  <1>1. Uncounted(s) = {}
    BY DEF Alert, Uncounted
  <1> QED
    BY <1>1, CounterExact, EmptyDeque DEF QueueInv

(* A client that does not alert the runner leaves everything as it is. *)
LEMMA ClientWake ==
    ASSUME TypeOK, WakeInv, Client
    PROVE  WakeInv'
  <1>0. push \in [Job -> PushState]
    BY DEF TypeOK, ClientType
  <1>1. ASSUME NEW j \in Job, StartPush(j) \/ Acquire(j) \/ GiveUp(j) \/ FinishPush(j)
        PROVE  WakeInv'
    <2>1. UNCHANGED <<notify, woken, setter, rpc, rank, look, priority, entries, cursor>>
      BY Zenon, <1>1 DEF StartPush, Acquire, GiveUp, FinishPush, slotVars, runnerVars, decision
    <2>2. \E to : push' = [push EXCEPT ![j] = to] /\ push[j] \notin {"count", "notify"}
      BY <1>1 DEF StartPush, Acquire, GiveUp, FinishPush, Goto
    <2>3. Alert => Alert'
      BY <1>0, <2>1, <2>2 DEF Alert
    <2> QED
      BY <2>1, <2>3 DEF WakeInv, RankScanned, StrictAhead, OnlyWeighted, StrictReady
  <1>2. ASSUME NEW j \in Job, PushBack(j) \/ CountPush(j) PROVE WakeInv'
    <2>1. push'[j] \in {"count", "notify"}
      BY <1>0, <1>2 DEF PushBack, CountPush, Goto
    <2> QED
      BY <2>1 DEF Alert, WakeInv
  <1>3. ASSUME NEW j \in Job, NotifyPush(j) PROVE WakeInv'
    BY Zenon, <1>3 DEF NotifyPush, Alert, WakeInv
  <1>4. CASE (\E s \in Slots : StorePriority(s)) \/ NotifyPriority \/ CloseInput
    BY <1>4 DEF StorePriority, NotifyPriority, CloseInput, NotifyWaiters, Alert, WakeInv
  <1> QED
    BY <1>1, <1>2, <1>3, <1>4 DEF Client

LEMMA RunnerWake ==
    ASSUME QueueInv, WakeInv, Runner
    PROVE  WakeInv'
  <1>0. /\ TypeOK /\ RunnerInv
        /\ cursor \in QueueCursor /\ look \in 0 .. N /\ rank \in Nat \cup {NoRank}
        /\ cursor.strict_index \in Slots /\ cursor.weighted_index \in Slots
    BY DEF QueueInv, TypeOK, RunnerType, QueueCursor
  <1>1. CASE CreateNotified
    <2>1. rpc' = "rank" /\ look' = 0 /\ rank' = NoRank
      BY <1>1 DEF CreateNotified
    <2>2. RankScanned'
      BY <2>1 DEF RankScanned, Slots
    <2> QED
      BY <2>1, <2>2 DEF WakeInv
  <1>2. CASE ScanRank
    <2>1. /\ rpc = "rank" /\ rank' = RankWith(look)
          /\ UNCHANGED <<priority, entries, cursor, push, setter, notify, woken>>
      BY <1>2 DEF ScanRank, clientVars, slotVars
    <2> SUFFICES ASSUME ~Alert' PROVE WakeInv'
      BY DEF WakeInv
    <2>2. ~Alert
      BY <2>1 DEF Alert
    <2>3. look \in Slots
      BY <1>0, <2>1, NAssumption DEF RunnerInv, Slots
    <2>4. queued[look] > 0 <=> entries[look] # <<>>
      BY <2>1, <2>2, <2>3, AllCounted DEF Deciding
    <2>5. \A s \in Slots : priority[s].value \in Nat
      BY <1>0, Priorities
    <2>6. RankScanned
      BY Zenon, <2>1, <2>2 DEF WakeInv
    <2>7. /\ rank' \in Nat \cup {NoRank} /\ rank <= rank'
          /\ IsStrict(priority[look]) /\ entries[look] # <<>> => priority[look].value <= rank'
          /\ \/ rank' = rank
             \/ rank' = priority[look].value /\ IsStrict(priority[look]) /\ entries[look] # <<>>
      BY <1>0, <2>1, <2>3, <2>4, <2>5 DEF RankWith, NoRank
    <2>8. \A s \in Slots : s < look + 1 /\ IsStrict(priority[s]) /\ entries[s] # <<>>
                             => priority[s].value <= rank'
      BY <1>0, <2>3, <2>5, <2>6, <2>7 DEF RankScanned, NoRank, Slots
    <2>9. rank' # NoRank => \E s \in Slots : StrictReady(s, rank')
      <3>1. CASE rank' = rank
        BY <2>6, <3>1 DEF RankScanned
      <3>2. CASE rank' = priority[look].value /\ IsStrict(priority[look]) /\ entries[look] # <<>>
        BY <1>0, <2>3, <3>2, Priorities DEF StrictReady
      <3> QED
        BY <2>7, <3>1, <3>2
    <2>10. CASE look < N - 1
      <3>1. rpc' = "rank" /\ look' = look + 1
        BY <1>2, <2>10 DEF ScanRank
      <3>2. RankScanned'
        BY <2>1, <2>8, <2>9, <3>1 DEF RankScanned, StrictReady
      <3> QED
        BY <3>1, <3>2 DEF WakeInv
    <2>11. CASE ~(look < N - 1) /\ rank' = NoRank
      <3>1. rpc' = "weighted" /\ look' = 0
        BY <1>2, <2>11 DEF ScanRank
      <3>2. \A s \in Slots : s < look + 1
        BY <1>0, <2>11, NAssumption DEF Slots
      <3>3. \A s \in Slots : IsStrict(priority[s]) => entries[s] = <<>>
        BY <2>5, <2>8, <2>11, <3>2 DEF NoRank
      <3>4. OnlyWeighted'
        BY <2>1, <3>1, <3>3 DEF OnlyWeighted
      <3> QED
        BY <3>1, <3>4 DEF WakeInv
    <2>12. CASE ~(look < N - 1) /\ rank' # NoRank
      <3>1. rpc' = "strict" /\ look' = 1
        BY <1>2, <2>12 DEF ScanRank
      <3>2. StrictAhead'
        <4>1. PICK s \in Slots : StrictReady(s, rank')
          BY <2>9, <2>12
        <4>2. StrictReady(s, rank)'
          BY <2>1, <4>1 DEF StrictReady
        <4>3. look' >= 1 /\ 1 .. look' - 1 = {}
          BY <3>1
        <4> QED
          BY <4>2, <4>3 DEF StrictAhead
      <3> QED
        BY <3>1, <3>2 DEF WakeInv
    <2> QED
      BY <2>10, <2>11, <2>12
  <1>3. CASE PopStrict
    <2> DEFINE s == At(cursor.strict_index, look)
    <2>1. rpc = "strict" /\ UNCHANGED <<priority, push, setter, notify, woken>>
      BY <1>3 DEF PopStrict, clientVars
    <2>2. CASE StrictReady(s, rank)
      BY <1>3, <2>2 DEF PopStrict, StrictReady, TakeFront, WakeInv
    <2>3. CASE ~StrictReady(s, rank)
      <3> SUFFICES ASSUME ~Alert' PROVE WakeInv'
        BY DEF WakeInv
      <3>1. ~Alert
        BY <2>1 DEF Alert
      <3>2. StrictAhead
        BY <2>1, <3>1 DEF WakeInv
      <3>3. PICK t \in Slots : /\ StrictReady(t, rank)
                               /\ \A o \in 1 .. look - 1 : At(cursor.strict_index, o) # t
        BY <3>2 DEF StrictAhead
      <3>4. \A o \in 1 .. look : At(cursor.strict_index, o) # t
        <4>1. At(cursor.strict_index, look) # t
          BY <2>3, <3>3
        <4>2. \A o \in 1 .. look : o = look \/ o \in 1 .. look - 1
          BY <1>0
        <4> QED
          BY <3>3, <4>1, <4>2
      <3>5. look # N
        BY <1>0, <3>4, RotationComplete
      <3>6. look < N
        BY <1>0, <3>5, NAssumption
      <3>7. rpc' = "strict" /\ look' = look + 1 /\ UNCHANGED <<entries, cursor, rank>>
        BY <1>3, <2>1, <2>3, <3>6 DEF PopStrict, StrictReady
      <3>8. StrictAhead'
        <4>1. StrictReady(t, rank)' /\ look' >= 1 /\ look' - 1 = look
          BY <1>0, <2>1, <3>3, <3>7 DEF StrictReady
        <4> QED
          BY <3>4, <3>7, <4>1 DEF StrictAhead
      <3> QED
        BY <3>7, <3>8 DEF WakeInv
    <2> QED
      BY <2>2, <2>3
  <1>4. CASE PopWeighted
    <2> DEFINE s == At(cursor.weighted_index, look)
               takes == /\ IsWeighted(priority[s])
                        /\ look = 0 => cursor.weighted_used < priority[s].value
                        /\ entries[s] # <<>>
    <2>1. rpc = "weighted" /\ UNCHANGED <<priority, push, setter, notify, woken>>
      BY <1>4 DEF PopWeighted, clientVars
    <2>2. CASE takes
      BY <1>4, <2>2 DEF PopWeighted, TakeFront, WakeInv
    <2>3. CASE ~takes
      <3> SUFFICES ASSUME ~Alert' PROVE WakeInv'
        BY DEF WakeInv
      <3>1. ~Alert
        BY <2>1 DEF Alert
      <3>2. OnlyWeighted
        BY <2>1, <3>1 DEF WakeInv
      <3>3. s \in Slots
        BY <1>0, AtSlot, NAssumption
      <3>4. look # 0 => entries[s] = <<>>
        BY <1>0, <2>3, <3>2, <3>3, Priorities DEF OnlyWeighted
      <3>5. \A o \in 1 .. look : entries[At(cursor.weighted_index, o)] = <<>>
        BY <1>0, <3>2, <3>4 DEF OnlyWeighted
      <3>6. UNCHANGED <<entries, cursor>>
        BY <1>4, <2>3 DEF PopWeighted
      <3>7. CASE look < N
        <4>1. rpc' = "weighted" /\ look' = look + 1
          BY <1>4, <2>1, <2>3, <3>7 DEF PopWeighted
        <4>2. look' - 1 = look
          BY <1>0, <4>1
        <4>3. OnlyWeighted'
          BY <2>1, <3>2, <3>5, <3>6, <4>2 DEF OnlyWeighted
        <4> QED
          BY <4>1, <4>3 DEF WakeInv
      <3>8. CASE ~(look < N)
        <4>1. rpc' = "closed" /\ look = N
          BY <1>0, <1>4, <2>3, <3>8, NAssumption DEF PopWeighted
        <4>2. \A t \in Slots : entries[t] = <<>>
          BY <1>0, <3>5, <4>1, RotationComplete
        <4> QED
          BY <3>6, <4>1, <4>2 DEF WakeInv
      <3> QED
        BY <3>7, <3>8
    <2> QED
      BY <2>2, <2>3
  <1>5. CASE CheckInput
    BY <1>5 DEF CheckInput, clientVars, slotVars, WakeInv, Alert
  <1>6. CASE Wake \/ (\E usable \in BOOLEAN : IdleInput(usable)) \/ Skip \/ EndComplete
    BY <1>6 DEF Wake, IdleInput, Skip, EndComplete, WakeInv
  <1>7. CASE \/ ReleasePermit \/ Decrement \/ Admit \/ Follow \/ DiscardCandidate \/ ReturnCandidate
             \/ EndCoalescing \/ ExchangeOk \/ CompleteFollower
             \/ (\E next \in AfterError : ExchangeErr(next))
             \/ CloseRunner \/ DrainEntry \/ DrainNext \/ DropRunner
    <2>1. rpc' \in {"create", "release", "decrement", "serve", "coalesce", "exchange", "complete",
                    "stop", "drain", "stopped", "gone"}
      <3>1. back \in {"serve", "coalesce", "complete", "drain"}
        BY <1>0 DEF TypeOK, RunnerType
      <3> QED
        BY Zenon, <1>7, <3>1 DEF ReleasePermit, Decrement, Admit, Follow, DiscardCandidate, TakeFront,
           ReturnCandidate, EndCoalescing, ExchangeOk, CompleteFollower, ExchangeErr, AfterError,
           CloseRunner, DrainEntry, DrainNext, DropRunner
    <2> QED
      BY <2>1 DEF WakeInv
  <1> QED
    BY <1>1, <1>2, <1>3, <1>4, <1>5, <1>6, <1>7 DEF Runner

LEMMA WakeInvariants == Spec => [](QueueInv /\ WakeInv)
  <1>1. Init => WakeInv
    BY DEF Init, WakeInv
  <1>2. QueueInv /\ WakeInv /\ [Next]_vars => WakeInv'
    <2> SUFFICES ASSUME QueueInv, WakeInv, [Next]_vars PROVE WakeInv'
      OBVIOUS
    <2>1. CASE UNCHANGED vars
      BY Zenon, <2>1 DEF vars, clientVars, runnerVars, slotVars, decision, WakeInv, Alert, RankScanned,
                  StrictAhead, OnlyWeighted, StrictReady
    <2>2. CASE Client
      BY <2>2, ClientWake DEF QueueInv
    <2>3. CASE Runner
      BY <2>3, RunnerWake
    <2> QED
      BY <2>1, <2>2, <2>3 DEF Next
  <1> QED
    BY <1>1, <1>2, QueueInvariants, PTL DEF Spec

(* next_job and finish_push: for every number of clients and slots, the       *)
(* runner never sleeps on an accepted entry unless it has been notified or a  *)
(* client is about to notify it.                                              *)
THEOREM WakeupsAreNotLost == Spec => []NoLostWakeup
  <1>1. QueueInv /\ WakeInv => NoLostWakeup
    <2> SUFFICES ASSUME QueueInv, WakeInv, rpc = "wait", ~Alert, NEW s \in Slots,
                        NEW j \in Range(entries[s])
                 PROVE  FALSE
      BY DEF NoLostWakeup, Alert
    <2>1. entries[s] = <<>>
      BY DEF WakeInv
    <2> QED
      BY <2>1, EmptyDeque DEF QueueInv
  <1> QED
    BY <1>1, WakeInvariants, PTL

-----------------------------------------------------------------------------
(* Precedence. *)

(* A decision nobody disturbs: every push that is not counted yet is still in *)
(* its deque, the slots that were ready still are, and no ready slot outranks *)
(* what the decision is about to take.                                        *)
RankQuiet ==
    /\ \A t \in ready : t < look /\ IsStrict(priority[t]) => priority[t].value <= rank
    /\ rank # NoRank => \E s \in Slots : StrictReady(s, rank)
StrictQuiet ==
    /\ \A t \in ready : IsStrict(priority[t]) => priority[t].value <= rank
    /\ StrictAhead

QuietInv ==
    rpc \in Deciding /\ ~disturbed =>
      /\ \A j \in Job : push[j] = "count" => j \in Range(entries[QueueOf[j]])
      /\ \A t \in ready : \E j \in Range(entries[t]) : push[j] = "accepted"
      /\ rpc = "rank" => RankQuiet
      /\ rpc = "strict" => StrictQuiet
      /\ rpc = "weighted" => \A t \in ready : IsWeighted(priority[t])

LEMMA ClientQuiet ==
    ASSUME QueueInv, QuietInv, Client
    PROVE  QuietInv'
  <1> USE QueueOfAssumption
  <1>0. /\ TypeOK /\ push \in [Job -> PushState] /\ entries \in [Slots -> Seq(Job)]
        /\ ready \in SUBSET Slots
        /\ \A s \in Slots : Range(entries[s]) \subseteq Job
    BY PlacesAreJobs DEF QueueInv, TypeOK, ClientType, SlotType, RunnerType
  <1>a. ASSUME UNCHANGED <<rpc, rank, look, ready, disturbed, priority, cursor>>,
               \A t \in Slots : Range(entries[t]) \subseteq Range(entries'[t]),
               \A t \in Slots : entries[t] # <<>> => entries'[t] # <<>>,
               \A j \in Job : push[j] = "accepted" => push'[j] = "accepted",
               \A j \in Job : push'[j] = "count"
                                => push[j] = "count" \/ j \in Range(entries'[QueueOf[j]])
        PROVE  QuietInv'
    <2> SUFFICES ASSUME rpc \in Deciding, ~disturbed PROVE QuietInv'
      BY Zenon, <1>a DEF QuietInv
    <2>1. \A j \in Job : push'[j] = "count" => j \in Range(entries'[QueueOf[j]])
      BY Zenon, <1>a DEF QuietInv
    <2>2. \A t \in ready' : \E j \in Range(entries'[t]) : push'[j] = "accepted"
      BY <1>0, <1>a DEF QuietInv
    <2>3. \A s \in Slots : \A r : StrictReady(s, r) => priority'[s] = Strict(r) /\ entries'[s] # <<>>
      BY Zenon, <1>a DEF StrictReady
    <2>4. rpc' = "rank" => RankQuiet'
      BY <1>a, <2>3 DEF QuietInv, RankQuiet, StrictReady
    <2>5. rpc' = "strict" => StrictQuiet'
      BY Zenon, <1>a, <2>3 DEF QuietInv, StrictQuiet, StrictAhead, StrictReady
    <2>6. rpc' = "weighted" => \A t \in ready' : IsWeighted(priority'[t])
      BY Zenon, <1>a DEF QuietInv
    <2> QED
      BY Zenon, <2>1, <2>2, <2>4, <2>5, <2>6 DEF QuietInv
  <1>1. ASSUME NEW j \in Job, NEW from, NEW to, Goto(j, from, to), from # "accepted", to # "count",
               UNCHANGED <<rpc, rank, look, ready, disturbed, priority, cursor, entries>>
        PROVE  QuietInv'
    <2>1. \A k \in Job : push[k] = "accepted" => push'[k] = "accepted"
      BY <1>0, <1>1 DEF Goto
    <2>2. \A k \in Job : push'[k] = "count" => push[k] = "count"
      BY <1>0, <1>1 DEF Goto
    <2> QED
      BY <1>1, <1>a, <2>1, <2>2
  <1>2. ASSUME NEW j \in Job, StartPush(j) \/ Acquire(j) \/ GiveUp(j) \/ FinishPush(j)
                              \/ CountPush(j) \/ NotifyPush(j)
        PROVE  QuietInv'
    <2>1. UNCHANGED <<rpc, rank, look, ready, disturbed, priority, cursor, entries>>
      BY Zenon, <1>2 DEF StartPush, Acquire, GiveUp, FinishPush, CountPush, NotifyPush, slotVars,
                  runnerVars, decision
    <2>2. \E from, to \in PushState : Goto(j, from, to) /\ from # "accepted" /\ to # "count"
      BY <1>2, PushStates DEF StartPush, Acquire, GiveUp, FinishPush, CountPush, NotifyPush
    <2> QED
      BY <1>1, <2>1, <2>2
  <1>3. ASSUME NEW j \in Job, PushBack(j) PROVE QuietInv'
    <2>1. /\ push[j] = "append" /\ push' = [push EXCEPT ![j] = "count"]
          /\ entries' = [entries EXCEPT ![QueueOf[j]] = Append(@, j)]
          /\ UNCHANGED <<rpc, rank, look, ready, disturbed, priority, cursor>>
      BY <1>3 DEF PushBack, Goto, runnerVars, decision
    <2>2. Range(entries'[QueueOf[j]]) = Range(entries[QueueOf[j]]) \cup {j}
      BY <1>0, <2>1, AppendRange
    <2>3. \A t \in Slots \ {QueueOf[j]} : entries'[t] = entries[t]
      BY <1>0, <2>1
    <2>4. entries'[QueueOf[j]] # <<>>
      BY <2>2 DEF Range
    <2>5. \A k \in Job : push[k] = "accepted" => push'[k] = "accepted"
      BY <1>0, <2>1
    <2>6. \A k \in Job : push'[k] = "count" => push[k] = "count" \/ k \in Range(entries'[QueueOf[k]])
      BY <1>0, <2>1, <2>2
    <2>7. \A t \in Slots : Range(entries[t]) \subseteq Range(entries'[t])
      BY <2>2, <2>3
    <2> QED
      BY <1>a, <2>1, <2>3, <2>4, <2>5, <2>6, <2>7
  <1>4. CASE \E s \in Slots : StorePriority(s)
    BY <1>4 DEF StorePriority, QuietInv
  <1>5. CASE NotifyPriority \/ CloseInput
    <2>1. UNCHANGED <<rpc, rank, look, ready, disturbed, priority, cursor, entries, push>>
      BY <1>5 DEF NotifyPriority, CloseInput, slotVars, runnerVars, decision
    <2> QED
      BY <1>a, <2>1
  <1> QED
    BY <1>2, <1>3, <1>4, <1>5 DEF Client

LEMMA RunnerQuiet ==
    ASSUME QueueInv, QuietInv, Runner
    PROVE  QuietInv'
  <1> USE QueueOfAssumption
  <1>0. /\ TypeOK /\ RunnerInv /\ ready \in SUBSET Slots
        /\ cursor \in QueueCursor /\ look \in 0 .. N /\ rank \in Nat \cup {NoRank}
        /\ cursor.strict_index \in Slots
    BY DEF QueueInv, TypeOK, RunnerType, QueueCursor
  (* A decision goes on without an entry. *)
  <1>a. ASSUME UNCHANGED <<push, entries, ready>>, rpc \in Deciding, ~disturbed
        PROVE  /\ \A j \in Job : push'[j] = "count" => j \in Range(entries'[QueueOf[j]])
               /\ \A t \in ready' : \E j \in Range(entries'[t]) : push'[j] = "accepted"
    BY <1>a DEF QuietInv
  <1>1. CASE CreateNotified
    <2>1. /\ rpc' = "rank" /\ look' = 0 /\ rank' = NoRank /\ UNCHANGED <<push, entries>>
          /\ ready' = {s \in Slots : \E j \in Range(entries[s]) : push[j] = "accepted"}
          /\ disturbed' = (\E j \in Job : push[j] = "count")
      BY <1>1 DEF CreateNotified, clientVars, slotVars
    <2>2. RankQuiet'
      BY <2>1 DEF RankQuiet, Slots
    <2>3. ~disturbed' => \A j \in Job : push'[j] # "count"
      BY <2>1
    <2>4. \A t \in ready' : \E j \in Range(entries'[t]) : push'[j] = "accepted"
      BY <2>1
    <2> QED
      BY <2>1, <2>2, <2>3, <2>4 DEF QuietInv
  <1>2. CASE ScanRank
    <2>1. /\ rpc = "rank" /\ rank' = RankWith(look)
          /\ UNCHANGED <<priority, entries, cursor, push, ready, disturbed>>
      BY <1>2 DEF ScanRank, clientVars, slotVars
    <2> SUFFICES ASSUME ~disturbed PROVE QuietInv'
      BY <2>1 DEF QuietInv
    <2>2. rpc \in Deciding
      BY <2>1 DEF Deciding
    <2>3. look \in Slots
      BY <1>0, <2>1 DEF RunnerInv
    <2>4. queued[look] > 0 <=> Range(entries[look]) \ Uncounted(look) # {}
      <3>1. Uncounted(look) \subseteq Range(entries[look])
        BY <2>2 DEF QuietInv, Uncounted
      <3> QED
        BY <2>2, <2>3, <3>1, CounterExact
    <2>5. /\ queued[look] > 0 => entries[look] # <<>>
          /\ look \in ready => queued[look] > 0
      <3>1. queued[look] > 0 => entries[look] # <<>>
        BY <1>0, <2>3, <2>4, EmptyDeque
      <3>2. look \in ready => Range(entries[look]) \ Uncounted(look) # {}
        BY <2>2 DEF QuietInv, Uncounted
      <3> QED
        BY <2>4, <3>1, <3>2
    <2>6. \A s \in Slots : priority[s].value \in Nat
      BY <1>0, Priorities
    <2>7. RankQuiet
      BY <2>1, <2>2 DEF QuietInv
    <2>8. /\ rank' \in Nat \cup {NoRank} /\ rank <= rank'
          /\ IsStrict(priority[look]) /\ look \in ready => priority[look].value <= rank'
          /\ \/ rank' = rank
             \/ rank' = priority[look].value /\ IsStrict(priority[look]) /\ entries[look] # <<>>
      BY <1>0, <2>1, <2>3, <2>5, <2>6 DEF RankWith, NoRank
    <2>9. \A t \in ready : t < look + 1 /\ IsStrict(priority[t]) => priority[t].value <= rank'
      BY <1>0, <2>3, <2>6, <2>7, <2>8 DEF RankQuiet, NoRank, Slots
    <2>10. rank' # NoRank => \E s \in Slots : StrictReady(s, rank')
      <3>1. CASE rank' = rank
        BY <2>7, <3>1 DEF RankQuiet
      <3>2. CASE rank' = priority[look].value /\ IsStrict(priority[look]) /\ entries[look] # <<>>
        BY <1>0, <2>3, <3>2, Priorities DEF StrictReady
      <3> QED
        BY <2>8, <3>1, <3>2
    <2>11. CASE look < N - 1
      <3>1. rpc' = "rank" /\ look' = look + 1
        BY <1>2, <2>1, <2>11 DEF ScanRank
      <3>2. RankQuiet'
        BY Zenon, <2>1, <2>9, <2>10, <3>1 DEF RankQuiet, StrictReady
      <3> QED
        BY <1>a, <2>1, <2>2, <3>1, <3>2 DEF QuietInv
    <2>12. CASE ~(look < N - 1)
      <3>1. \A t \in ready : t < look + 1
        BY <1>0, <2>12, NAssumption DEF Slots
      <3>2. \A t \in ready : IsStrict(priority[t]) => priority[t].value <= rank'
        BY <2>9, <3>1
      <3>3. CASE rank' = NoRank
        <4>1. rpc' = "weighted"
          BY <1>2, <2>12, <3>3 DEF ScanRank
        <4>2. \A t \in ready : ~IsStrict(priority[t])
          BY <1>0, <2>6, <3>2, <3>3 DEF NoRank
        <4>3. \A t \in ready : IsWeighted(priority[t])
          BY Zenon, <1>0, <4>2, Priorities
        <4> QED
          BY <1>a, <2>1, <2>2, <4>1, <4>3 DEF QuietInv
      <3>4. CASE rank' # NoRank
        <4>1. rpc' = "strict" /\ look' = 1
          BY <1>2, <2>12, <3>4 DEF ScanRank
        <4>2. StrictQuiet'
          <5>1. PICK s \in Slots : StrictReady(s, rank')
            BY <2>10, <3>4
          <5>2. StrictReady(s, rank)'
            BY <2>1, <5>1 DEF StrictReady
          <5>3. look' >= 1 /\ 1 .. look' - 1 = {}
            BY <4>1
          <5>4. StrictAhead'
            BY <5>2, <5>3 DEF StrictAhead
          <5> QED
            BY <2>1, <3>2, <5>4 DEF StrictQuiet
        <4> QED
          BY <1>a, <2>1, <2>2, <4>1, <4>2 DEF QuietInv
      <3> QED
        BY <3>3, <3>4
    <2> QED
      BY <2>11, <2>12
  <1>3. CASE PopStrict
    <2> DEFINE s == At(cursor.strict_index, look)
    <2>1. rpc = "strict" /\ UNCHANGED <<priority, push>>
      BY <1>3 DEF PopStrict, clientVars
    <2>2. CASE StrictReady(s, rank)
      BY Zenon, <1>3, <2>2 DEF PopStrict, StrictReady, TakeFront, QuietInv, Deciding
    <2>3. CASE ~StrictReady(s, rank)
      <3>1. UNCHANGED <<entries, cursor, rank, ready, disturbed>>
        BY Zenon, <1>3, <2>3 DEF PopStrict, StrictReady
      <3> SUFFICES ASSUME ~disturbed PROVE QuietInv'
        BY Zenon, <3>1 DEF QuietInv
      <3>2. rpc \in Deciding /\ StrictQuiet
        BY <2>1 DEF QuietInv, Deciding
      <3>3. PICK t \in Slots : /\ StrictReady(t, rank)
                               /\ \A o \in 1 .. look - 1 : At(cursor.strict_index, o) # t
        BY <3>2 DEF StrictQuiet, StrictAhead
      <3>4. \A o \in 1 .. look : At(cursor.strict_index, o) # t
        <4>1. At(cursor.strict_index, look) # t
          BY <2>3, <3>3
        <4>2. \A o \in 1 .. look : o = look \/ o \in 1 .. look - 1
          BY <1>0
        <4> QED
          BY <3>3, <4>1, <4>2
      <3>5. look # N
        BY <1>0, <3>4, RotationComplete
      <3>6. look < N
        BY <1>0, <3>5, NAssumption
      <3>7. rpc' = "strict" /\ look' = look + 1
        BY Zenon, <1>3, <2>1, <2>3, <3>6 DEF PopStrict, StrictReady
      <3>8. StrictAhead'
        <4>1. StrictReady(t, rank)'
          BY <2>1, <3>1, <3>3 DEF StrictReady
        <4>2. look' >= 1 /\ look' - 1 = look
          BY <1>0, <3>7
        <4> QED
          BY <3>1, <3>4, <4>1, <4>2 DEF StrictAhead
      <3>9. StrictQuiet'
        BY <2>1, <3>1, <3>2, <3>8 DEF StrictQuiet
      <3> QED
        BY <1>a, <2>1, <3>1, <3>2, <3>7, <3>9 DEF QuietInv
    <2> QED
      BY <2>2, <2>3
  <1>4. CASE PopWeighted
    <2>1. rpc = "weighted" /\ UNCHANGED <<priority, push>>
      BY <1>4 DEF PopWeighted, clientVars
    <2>2. CASE rpc' = "weighted"
      <3>1. UNCHANGED <<entries, ready, disturbed>>
        BY <1>4, <2>2 DEF PopWeighted, TakeFront
      <3> SUFFICES ASSUME ~disturbed PROVE QuietInv'
        BY <3>1 DEF QuietInv
      <3>2. rpc \in Deciding
        BY <2>1 DEF Deciding
      <3>3. \A t \in ready : IsWeighted(priority[t])
        BY <2>1, <3>2 DEF QuietInv
      <3> QED
        BY Zenon, <1>a, <2>1, <2>2, <3>1, <3>2, <3>3 DEF QuietInv
    <2>3. CASE rpc' # "weighted"
      BY <1>4, <2>3 DEF PopWeighted, TakeFront, QuietInv, Deciding
    <2> QED
      BY <2>2, <2>3
  <1>5. CASE \/ CheckInput \/ Wake \/ (\E usable \in BOOLEAN : IdleInput(usable)) \/ Skip
             \/ EndComplete \/ ReleasePermit \/ Decrement \/ Admit \/ Follow \/ DiscardCandidate
             \/ ReturnCandidate \/ EndCoalescing \/ ExchangeOk \/ CompleteFollower
             \/ (\E next \in AfterError : ExchangeErr(next))
             \/ CloseRunner \/ DrainEntry \/ DrainNext \/ DropRunner
    <2>1. rpc' \notin Deciding
      <3>1. back \in {"serve", "coalesce", "complete", "drain"}
        BY <1>0 DEF TypeOK, RunnerType
      <3> QED
        BY Zenon, <1>5, <3>1 DEF CheckInput, Wake, IdleInput, Skip, EndComplete, ReleasePermit, Decrement,
           Admit, Follow, DiscardCandidate, TakeFront, ReturnCandidate, EndCoalescing, ExchangeOk,
           CompleteFollower, ExchangeErr, AfterError, CloseRunner, DrainEntry, DrainNext, DropRunner,
           Deciding
    <2> QED
      BY <2>1 DEF QuietInv
  <1> QED
    BY <1>1, <1>2, <1>3, <1>4, <1>5 DEF Runner

LEMMA QuietInvariants == Spec => [](QueueInv /\ QuietInv)
  <1>1. Init => QuietInv
    BY DEF Init, QuietInv, Deciding
  <1>2. QueueInv /\ QuietInv /\ [Next]_vars => QuietInv'
    <2> SUFFICES ASSUME QueueInv, QuietInv, [Next]_vars PROVE QuietInv'
      OBVIOUS
    <2>1. CASE UNCHANGED vars
      BY Zenon, <2>1 DEF vars, clientVars, runnerVars, slotVars, decision, QuietInv, RankQuiet,
                  StrictQuiet, StrictAhead, StrictReady
    <2>2. CASE Client
      BY <2>2, ClientQuiet
    <2>3. CASE Runner
      BY <2>3, RunnerQuiet
    <2> QED
      BY <2>1, <2>2, <2>3 DEF Next
  <1> QED
    BY <1>1, <1>2, QueueInvariants, PTL DEF Spec

(* pop_scheduled: "every ready strict queue precedes weighted work" and larger *)
(* ranks win, for every number of slots and of clients pushing meanwhile: a    *)
(* decision whose beginning met no uncounted push, and during which no         *)
(* priority is stored, takes no entry of a slot that a ready slot outranks.    *)
THEOREM StrictSlotsComeFirst == Spec => StrictFirstWhenQuiet
  <1>1. QueueInv /\ QuietInv /\ [Next]_vars => [~disturbed => TakesBest]_vars
    <2> SUFFICES ASSUME QueueInv, QuietInv, Next, ~disturbed, rpc \in {"strict", "weighted"},
                        rpc' = "release", NEW t \in ready
                 PROVE  ~Outranks(priority[t], priority[QueueOf[hand']])
      BY DEF TakesBest
    <2>0. /\ TypeOK /\ t \in Slots /\ cursor \in QueueCursor /\ look \in 0 .. N
          /\ entries \in [Slots -> Seq(Job)]
      BY DEF QueueInv, TypeOK, RunnerType, SlotType
    <2>1. PopStrict \/ PopWeighted
      <3>1. CASE Client
        BY Zenon, <3>1 DEF Client, StartPush, Acquire, GiveUp, FinishPush, PushBack, CountPush, NotifyPush,
                    StorePriority, NotifyPriority, CloseInput, runnerVars
      <3>2. CASE Runner
        BY Zenon, <3>2 DEF Runner, CreateNotified, ScanRank, CheckInput, Wake, IdleInput, ReleasePermit,
                    Decrement, Skip, Admit, Follow, DiscardCandidate, ReturnCandidate, EndCoalescing,
                    ExchangeOk, CompleteFollower, EndComplete, ExchangeErr, CloseRunner, DrainEntry,
                    DrainNext, DropRunner
      <3> QED
        BY <3>1, <3>2 DEF Next
    <2>2. ASSUME NEW s \in Slots, entries[s] # <<>>, hand' = Head(entries[s])
          PROVE  QueueOf[hand'] = s
      <3>1. hand' \in Range(entries[s])
        BY <2>0, <2>2, TailRange
      <3> QED
        BY Zenon, <3>1 DEF QueueInv, PlaceInv, DequesInv
    <2>3. CASE PopStrict
      <3> DEFINE s == At(cursor.strict_index, look)
      <3>1. s \in Slots
        BY <2>0, AtSlot, NAssumption DEF QueueCursor
      <3>2. /\ rpc = "strict" /\ priority[s] = Strict(rank) /\ entries[s] # <<>>
            /\ hand' = Head(entries[s])
        BY <2>3 DEF PopStrict, TakeFront
      <3> HIDE DEF s
      <3>3. QueueOf[hand'] = s
        BY <2>2, <3>1, <3>2
      <3>4. IsStrict(priority[s]) /\ ~IsWeighted(priority[s]) /\ priority[s].value = rank /\ rank \in Nat
        BY <2>0, <3>1, <3>2, Priorities
      <3>5. IsStrict(priority[t]) => priority[t].value <= rank
        BY Zenon, <3>2 DEF QuietInv, StrictQuiet, Deciding
      <3>6. priority[t].value \in Nat
        BY Zenon, <2>0, Priorities
      <3> QED
        BY <3>3, <3>4, <3>5, <3>6 DEF Outranks
    <2>4. CASE PopWeighted
      <3>1. rpc = "weighted"
        BY <2>4 DEF PopWeighted
      <3>2. IsWeighted(priority[t])
        BY <3>1 DEF QuietInv, Deciding
      <3>3. ~IsStrict(priority[t])
        BY <2>0, <3>2, Priorities
      <3> QED
        BY <3>3 DEF Outranks
    <2> QED
      BY <2>1, <2>3, <2>4
  <1> QED
    BY <1>1, QuietInvariants, PTL DEF Spec, StrictFirstWhenQuiet
=============================================================================

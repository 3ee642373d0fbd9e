--------------------------- MODULE LinkRunnerProofs ---------------------------
(***************************************************************************)
(* Proofs about LinkRunner, for any number of queues, requests and           *)
(* followers.  The link does what QueueSet allows, so what is proved of the  *)
(* queue set holds of the link.  The requests that wait for a result are     *)
(* exactly those at one of four places (PendingInv); with the order of the   *)
(* places from QueueSetOrderProofs this describes every step of the link by  *)
(* what it does to the requests.  LinkServiceProofs builds on it.            *)
(***************************************************************************)
EXTENDS LinkRefinement, QueueSetOrderProofs

LEMMA LinkRunnerStepIsRunner == LinkRunnerStep \/ LinkIdleInput \/ LinkDropRunner => Runner
  <1>1. LinkNextJob => Runner
    BY DEF LinkNextJob, Runner
  <1>2. LinkDecrement \/ LinkSkip \/ LinkAdmit => Runner
    BY DEF LinkDecrement, LinkSkip, LinkAdmit, Runner
  <1>3. LinkFollow \/ LinkDiscardCandidate => Runner
    BY DEF LinkFollow, LinkDiscardCandidate, Runner
  <1>4. LinkReturnCandidate \/ LinkEndCoalescing => Runner
    BY DEF LinkReturnCandidate, LinkEndCoalescing, Runner
  <1>5. LinkExchange => Runner
    BY DEF LinkExchange, LinkExchangeOk, LinkExchangeErr, Runner
  <1>6. LinkIdleInput \/ LinkDropRunner => Runner
    BY DEF LinkIdleInput, LinkDropRunner, Runner
  <1> QED
    BY <1>1, <1>2, <1>3, <1>4, <1>5, <1>6 DEF LinkRunnerStep

(* The runner of src/service/link.rs calls the queue set of                  *)
(* src/service/queue_set.rs only in the order QueueSet allows.               *)
THEOREM LinkImplementsQueueSet == LinkSpec => Spec
  <1>1. LinkInit => Init
    BY DEF LinkInit
  <1>2. [LinkNext]_allVars => [Next]_vars
    <2>1. LinkClients => Next
      BY DEF LinkClients, Next
    <2>2. ASSUME NEW j \in Job, Abandon(j) \/ Expire(j) PROVE UNCHANGED vars
      BY <2>2 DEF Abandon, Expire
    <2>3. LinkRunnerStep \/ LinkIdleInput \/ LinkDropRunner => Next
      BY LinkRunnerStepIsRunner DEF Next
    <2>4. UNCHANGED allVars => UNCHANGED vars
      BY DEF allVars
    <2> QED
      BY <2>1, <2>2, <2>3, <2>4 DEF LinkNext
  <1> QED
    BY <1>1, <1>2, PTL DEF LinkSpec, Spec

(* "Each queue enforces its own capacity before accepting a request", for a  *)
(* link whose runner coalesces, requeues, expires, fails and is aborted.     *)
THEOREM LinkCapacityIsRespected == LinkSpec => []CapacityRespected
  BY LinkImplementsQueueSet, CapacityIsRespected, PTL

-----------------------------------------------------------------------------
(* Where the unanswered requests are. *)

(* Everything the queue set guarantees to its runner. *)
QueueBase == TypeOK /\ RunnerInv /\ PlaceInv /\ PermitInv /\ PlacesOrder

LEMMA LinkBase == LinkSpec => []QueueBase
  BY LinkImplementsQueueSet, OrderInvariants, PTL DEF QueueBase

(* The leader has no result yet. *)
LeaderWaits == rpc \in {"serve", "coalesce", "exchange"} \/ (rpc \in Finishing /\ back = "coalesce")

(* The places of a request that waits for its result: the deque of its slot,  *)
(* the followers, the hand of the runner, or the exchange it leads.           *)
AtPlace(j) ==
    \/ j \in Range(entries[QueueOf[j]])
    \/ j \in Range(followers)
    \/ rpc \in Finishing /\ j = hand
    \/ LeaderWaits /\ j = leader

(* A pop puts the front entry of a slot into the hand of the runner. *)
LEMMA TakeFrontPlace ==
    ASSUME QueueBase, NEW s \in Slots, entries[s] # <<>>, NEW to, TakeFront(s, to),
           UNCHANGED <<followers, leader>>, rpc \notin Finishing,
           to = "coalesce" <=> LeaderWaits
    PROVE  \A j \in Job : AtPlace(j)' <=> AtPlace(j)
  <1>0. entries \in [Slots -> Seq(Job)]
    BY DEF QueueBase, TypeOK, SlotType
  <1>1. /\ hand' = Head(entries[s]) /\ rpc' = "release" /\ back' = to
        /\ entries' = [entries EXCEPT ![s] = Tail(@)]
    BY DEF TakeFront
  <1>2. Range(entries[s]) = {hand'} \cup Range(Tail(entries[s]))
    BY <1>0, <1>1, TailRange
  <1>3. QueueOf[hand'] = s
    BY <1>2 DEF QueueBase, PlaceInv, DequesInv
  <1>4. LeaderWaits' <=> LeaderWaits
    BY <1>1 DEF LeaderWaits, Finishing
  <1>5. rpc' \in Finishing
    BY <1>1 DEF Finishing
  <1> SUFFICES ASSUME NEW j \in Job PROVE AtPlace(j)' <=> AtPlace(j)
    OBVIOUS
  <1>6. CASE QueueOf[j] = s
    <2>1. Range(entries'[QueueOf[j]]) = Range(Tail(entries[s]))
      BY <1>0, <1>1, <1>6
    <2> QED
      BY <1>2, <1>4, <1>5, <1>6, <2>1 DEF AtPlace
  <1>7. CASE QueueOf[j] # s
    <2>1. Range(entries'[QueueOf[j]]) = Range(entries[QueueOf[j]]) /\ j # hand'
      BY <1>0, <1>1, <1>3, <1>7, QueueOfAssumption
    <2> QED
      BY <1>4, <1>5, <2>1 DEF AtPlace
  <1> QED
    BY <1>6, <1>7

(* The steps of the runner that answer nobody. *)
Moves ==
    \/ CreateNotified \/ ScanRank \/ PopStrict \/ PopWeighted \/ CheckInput \/ Wake
    \/ (\E usable \in BOOLEAN : IdleInput(usable))
    \/ ReleasePermit \/ EndComplete \/ CompleteFollower \/ DrainEntry \/ DrainNext \/ CloseRunner
    \/ Admit \/ Follow \/ DiscardCandidate \/ ReturnCandidate \/ EndCoalescing

LEMMA MovesKeepPlaces ==
    ASSUME QueueBase, Moves
    PROVE  \A j \in Job : AtPlace(j)' <=> AtPlace(j)
  <1> USE QueueOfAssumption
  <1>0. /\ TypeOK /\ RunnerInv /\ PlaceInv /\ PlacesOrder
        /\ entries \in [Slots -> Seq(Job)] /\ followers \in Seq(Job)
        /\ cursor \in QueueCursor /\ look \in 0 .. N /\ sweep \in 0 .. N
    BY DEF QueueBase, TypeOK, SlotType, RunnerType
  <1>a. ASSUME UNCHANGED <<entries, followers>>, rpc \notin Finishing, rpc' \notin Finishing,
               \/ ~LeaderWaits /\ ~LeaderWaits'
               \/ LeaderWaits /\ LeaderWaits' /\ leader' = leader
        PROVE  \A j \in Job : AtPlace(j)' <=> AtPlace(j)
    BY <1>a DEF AtPlace
  <1>1. CASE \/ CreateNotified \/ ScanRank \/ CheckInput \/ Wake \/ DrainNext \/ CloseRunner
             \/ (\E usable \in BOOLEAN : IdleInput(usable)) \/ EndComplete
    <2>1. /\ UNCHANGED <<entries, followers>>
          /\ rpc \in {"create", "rank", "closed", "wait", "drain", "stop", "complete"}
          /\ rpc' \in {"create", "rank", "strict", "weighted", "stop", "wait", "drain", "stopped"}
      BY Zenon, <1>1 DEF CreateNotified, ScanRank, CheckInput, Wake, DrainNext, CloseRunner, IdleInput,
                  EndComplete, slotVars, work
    <2>2. ~LeaderWaits /\ ~LeaderWaits' /\ rpc \notin Finishing /\ rpc' \notin Finishing
      BY <2>1 DEF LeaderWaits, Finishing
    <2> QED
      BY <1>a, <2>1, <2>2
  <1>2. CASE Admit \/ ReturnCandidate \/ EndCoalescing
    <2>1. /\ UNCHANGED <<entries, followers, leader>>
          /\ rpc \in {"serve", "coalesce"} /\ rpc' \in {"coalesce", "exchange"}
      BY <1>2 DEF Admit, ReturnCandidate, EndCoalescing, slotVars, work
    <2>2. LeaderWaits /\ LeaderWaits' /\ rpc \notin Finishing /\ rpc' \notin Finishing
      BY <2>1 DEF LeaderWaits, Finishing
    <2> QED
      BY <1>a, <2>1, <2>2
  <1>3. CASE PopStrict
    <2> DEFINE s == At(cursor.strict_index, look)
    <2>1. s \in Slots
      BY <1>0, AtSlot, NAssumption DEF QueueCursor
    <2>2. rpc = "strict" /\ rpc \notin Finishing /\ ~LeaderWaits /\ UNCHANGED <<followers, leader>>
      BY <1>3 DEF PopStrict, LeaderWaits, Finishing
    <2>3. CASE priority[s] = Strict(rank) /\ entries[s] # <<>>
      <3>1. TakeFront(s, "serve")
        BY <1>3, <2>3 DEF PopStrict
      <3> HIDE DEF s
      <3> QED
        BY <2>1, <2>2, <2>3, <3>1, TakeFrontPlace
    <2>4. CASE ~(priority[s] = Strict(rank) /\ entries[s] # <<>>)
      <3>1. UNCHANGED entries /\ rpc' \in {"strict", "weighted"}
        BY <1>3, <2>4 DEF PopStrict
      <3> QED
        BY <1>a, <2>2, <3>1 DEF LeaderWaits, Finishing
    <2> QED
      BY <2>3, <2>4
  <1>4. CASE PopWeighted
    <2> DEFINE s == At(cursor.weighted_index, look)
               takes == /\ IsWeighted(priority[s])
                        /\ look = 0 => cursor.weighted_used < priority[s].value
                        /\ entries[s] # <<>>
    <2>1. s \in Slots
      BY <1>0, AtSlot, NAssumption DEF QueueCursor
    <2>2. rpc = "weighted" /\ rpc \notin Finishing /\ ~LeaderWaits /\ UNCHANGED <<followers, leader>>
      BY <1>4 DEF PopWeighted, LeaderWaits, Finishing
    <2>3. CASE takes
      <3>1. TakeFront(s, "serve") /\ entries[s] # <<>>
        BY <1>4, <2>3 DEF PopWeighted
      <3> HIDE DEF s
      <3> QED
        BY <2>1, <2>2, <3>1, TakeFrontPlace
    <2>4. CASE ~takes
      <3>1. UNCHANGED entries /\ rpc' \in {"weighted", "closed"}
        BY <1>4, <2>4 DEF PopWeighted
      <3> QED
        BY <1>a, <2>2, <3>1 DEF LeaderWaits, Finishing
    <2> QED
      BY <2>3, <2>4
  <1>5. CASE DiscardCandidate
    <2>1. /\ QueueOf[leader] \in Slots /\ entries[QueueOf[leader]] # <<>> /\ rpc = "coalesce"
          /\ TakeFront(QueueOf[leader], "coalesce") /\ UNCHANGED <<followers, leader>>
      BY <1>0, <1>5 DEF DiscardCandidate, RunnerInv, Serving
    <2> QED
      BY <2>1, TakeFrontPlace DEF LeaderWaits, Finishing
  <1>6. CASE DrainEntry
    <2>1. /\ sweep \in Slots /\ entries[sweep] # <<>> /\ TakeFront(sweep, "drain") /\ rpc = "drain"
          /\ UNCHANGED <<followers, leader>>
      BY <1>0, <1>6, NAssumption DEF DrainEntry, Slots
    <2> QED
      BY <2>1, TakeFrontPlace DEF LeaderWaits, Finishing
  <1>7. CASE ReleasePermit
    BY <1>7 DEF ReleasePermit, AtPlace, LeaderWaits, Finishing, work
  <1>8. CASE Follow
    <2> DEFINE s == QueueOf[leader]
               k == Head(entries[s])
    <2>1. /\ rpc = "coalesce" /\ s \in Slots /\ entries[s] # <<>> /\ rpc' = rpc
          /\ followers' = Append(followers, k) /\ entries' = [entries EXCEPT ![s] = Tail(@)]
          /\ leader' = leader
      BY <1>0, <1>8 DEF Follow, RunnerInv, Serving
    <2>2. k \in Job /\ Range(entries[s]) = {k} \cup Range(Tail(entries[s]))
      BY <1>0, <2>1, TailRange
    <2>3. QueueOf[k] = s
      BY <1>0, <2>1, <2>2 DEF PlaceInv, DequesInv
    <2>4. Range(followers') = Range(followers) \cup {k}
      BY <1>0, <2>1, <2>2, AppendRange
    <2>5. \A t \in Slots : Range(entries'[t]) = IF t = s THEN Range(Tail(entries[s])) ELSE Range(entries[t])
      BY <1>0, <2>1
    <2>6. rpc \notin Finishing /\ rpc' \notin Finishing /\ LeaderWaits /\ LeaderWaits'
      BY <2>1 DEF Finishing, LeaderWaits
    <2> HIDE DEF s, k
    <2> QED
      BY <2>1, <2>2, <2>3, <2>4, <2>5, <2>6 DEF AtPlace
  <1>9. CASE CompleteFollower
    <2>1. /\ rpc = "complete" /\ rpc' = "release" /\ back' = "complete" /\ followers # <<>>
          /\ hand' = Head(followers) /\ followers' = Tail(followers) /\ UNCHANGED entries
      BY <1>9 DEF CompleteFollower, slotVars
    <2>2. Range(followers) = {hand'} \cup Range(followers')
      BY <1>0, <2>1, TailRange
    <2>3. rpc \notin Finishing /\ rpc' \in Finishing /\ ~LeaderWaits /\ ~LeaderWaits'
      BY <2>1 DEF Finishing, LeaderWaits
    <2> QED
      BY <2>1, <2>2, <2>3 DEF AtPlace
  <1> QED
    BY <1>1, <1>2, <1>3, <1>4, <1>5, <1>6, <1>7, <1>8, <1>9 DEF Moves

(* finish_entry returns: the entry leads the next exchange, or is answered. *)
LEMMA DecrementPlaces ==
    ASSUME QueueBase, Decrement
    PROVE  /\ hand \in Job /\ AtPlace(hand)
           /\ back = "serve" => \A j \in Job : AtPlace(j)' <=> AtPlace(j)
           /\ back # "serve" => \A j \in Job : AtPlace(j)' <=> AtPlace(j) /\ j # hand
  <1>0. /\ RunnerInv /\ PlaceInv /\ PlacesOrder /\ back \in {"serve", "coalesce", "complete", "drain"}
    BY DEF QueueBase, TypeOK, RunnerType
  <1>1. /\ rpc = "decrement" /\ rpc' = back /\ UNCHANGED <<entries, followers, back>>
        /\ leader' = IF back = "serve" THEN hand ELSE leader
    BY DEF Decrement
  <1>2. rpc \in Finishing /\ rpc' \notin Finishing /\ hand \in Job
    BY <1>0, <1>1 DEF Finishing, RunnerInv
  <1>3. /\ hand \notin held
        /\ hand \notin Range(entries[QueueOf[hand]]) /\ hand \notin Range(followers)
    BY <1>0, <1>1, <1>2, QueueOfAssumption
       DEF PlacesOrder, LeaderInv, PlaceInv, DequesInv, FollowersInv, IsEntry
  <1>4. LeaderWaits' <=> back \in {"serve", "coalesce"}
    BY <1>0, <1>1, <1>2 DEF LeaderWaits
  <1>5. LeaderWaits <=> back = "coalesce"
    BY <1>1, <1>2 DEF LeaderWaits, Finishing
  <1>6. back = "coalesce" => hand # leader
    BY <1>0, <1>1, <1>2 DEF PlacesOrder, LeaderInv, HasLeader
  <1>7. AtPlace(hand)
    BY <1>2 DEF AtPlace
  <1>8. ASSUME back = "serve", NEW j \in Job PROVE AtPlace(j)' <=> AtPlace(j)
    BY <1>1, <1>2, <1>4, <1>5, <1>8 DEF AtPlace
  <1>9. ASSUME back # "serve", NEW j \in Job PROVE AtPlace(j)' <=> AtPlace(j) /\ j # hand
    BY <1>1, <1>2, <1>3, <1>4, <1>5, <1>6, <1>9 DEF AtPlace
  <1> QED
    BY <1>2, <1>7, <1>8, <1>9

(* The leader gets its result. *)
LEMMA LeaderPlaces ==
    ASSUME QueueBase, Skip \/ ExchangeOk \/ (\E next \in AfterError : ExchangeErr(next))
    PROVE  /\ leader \in Job /\ AtPlace(leader)
           /\ \A j \in Job : AtPlace(j)' <=> AtPlace(j) /\ j # leader
  <1> USE QueueOfAssumption
  <1>0. /\ RunnerInv /\ PlaceInv /\ PlacesOrder
        /\ entries \in [Slots -> Seq(Job)] /\ followers \in Seq(Job)
    BY DEF QueueBase, TypeOK, RunnerType, SlotType
  <1>1. /\ rpc \in {"serve", "exchange"} /\ rpc' \in {"create", "complete", "stop", "gone"}
    BY DEF Skip, ExchangeOk, ExchangeErr, AfterError
  <1>2. /\ HasLeader /\ LeaderWaits /\ ~LeaderWaits' /\ leader \in Job
        /\ rpc \notin Finishing /\ rpc' \notin Finishing
    BY <1>0, <1>1 DEF HasLeader, LeaderWaits, Serving, Finishing, RunnerInv
  <1>3. leader \notin held
    BY <1>0, <1>2 DEF PlacesOrder, LeaderInv
  <1>4. leader \notin Range(entries[QueueOf[leader]]) /\ leader \notin Range(followers)
    BY <1>0, <1>2, <1>3 DEF PlaceInv, DequesInv, FollowersInv, IsEntry
  <1>5. CASE Skip \/ ExchangeOk
    <2>1. UNCHANGED <<entries, followers>>
      BY <1>5 DEF Skip, ExchangeOk, slotVars, work
    <2> QED
      BY <1>2, <1>4, <2>1 DEF AtPlace
  <1>6. CASE \E next \in AfterError : ExchangeErr(next)
    <2> DEFINE q == QueueOf[leader]
    <2>1. /\ q \in Slots /\ followers' = <<>> /\ entries' = [entries EXCEPT ![q] = followers \o @]
      BY <1>2, <1>6 DEF ExchangeErr, requeue_followers
    <2>2. Range(entries'[q]) = Range(followers) \cup Range(entries[q])
      BY <1>0, <2>1, ConcatRange
    <2>3. Range(followers') = {} /\ \A s \in Slots \ {q} : Range(entries'[s]) = Range(entries[s])
      BY <1>0, <2>1 DEF Range
    <2>4. \A j \in Range(followers) : QueueOf[j] = q
      BY <1>0, <2>1 DEF PlaceInv, FollowersInv
    <2>5. ASSUME NEW j \in Job PROVE AtPlace(j)' <=> AtPlace(j) /\ j # leader
      <3>1. CASE QueueOf[j] = q
        BY <1>2, <1>4, <2>2, <2>3, <3>1 DEF AtPlace
      <3>2. CASE QueueOf[j] # q
        BY <1>2, <2>3, <2>4, <3>2 DEF AtPlace
      <3> QED
        BY <3>1, <3>2
    <2> QED
      BY <1>2, <2>5 DEF AtPlace
  <1> QED
    BY <1>5, <1>6

(* The runner is dropped with the jobs it holds. *)
LEMMA DropPlaces ==
    ASSUME QueueBase, DropRunner
    PROVE  \A j \in Job : /\ AtPlace(j)' <=> AtPlace(j) /\ j \notin {leader} \cup Range(followers)
                          /\ j \in {leader} \cup Range(followers) => AtPlace(j)
  <1>0. RunnerInv /\ PlaceInv /\ PlacesOrder
    BY DEF QueueBase
  <1>1. /\ rpc \in {"wait", "exchange"} /\ rpc' = "gone" /\ followers' = <<>> /\ UNCHANGED entries
    BY DEF DropRunner
  <1>2. rpc \notin Finishing /\ rpc' \notin Finishing /\ ~LeaderWaits' /\ Range(followers') = {}
    BY <1>1 DEF Finishing, LeaderWaits, Range
  <1>3. \A j \in Range(followers) : \A s \in Slots : j \notin Range(entries[s])
    BY <1>0 DEF PlaceInv, FollowersInv
  <1>4. CASE rpc = "wait"
    <2>1. leader = NoJob /\ Range(followers) = {} /\ ~LeaderWaits
      BY <1>0, <1>4 DEF PlacesOrder, LeaderInv, HasLeader, Serving, Finishing, LeaderWaits, Range
    <2> QED
      BY <1>1, <1>2, <2>1, JobAssumption DEF AtPlace
  <1>5. CASE rpc = "exchange"
    <2>1. leader \notin held /\ LeaderWaits
      BY <1>0, <1>5 DEF PlacesOrder, LeaderInv, HasLeader, Serving, LeaderWaits
    <2>2. \A s \in Slots : leader \notin Range(entries[s])
      BY <1>0, <2>1 DEF PlaceInv, DequesInv, IsEntry
    <2> QED
      BY <1>1, <1>2, <1>3, <2>1, <2>2, QueueOfAssumption DEF AtPlace
  <1> QED
    BY <1>1, <1>4, <1>5

-----------------------------------------------------------------------------
(* What the runner does to answers and counters. *)

Outcome == {"completed", "cancelled", "deadline", "failed", "stopped", "dropped"}
CounterName == {"started", "completed", "failed", "cancelled", "coalesced"}

LinkType ==
    /\ answer \in [Job -> Outcome \cup {"none"}]
    /\ by \in [Job -> Job \cup {NoJob}]
    /\ led \in [Job -> Nat]
    /\ counters \in [CounterName -> Nat]
    /\ channel_ok \in BOOLEAN

LinkMoves == \/ LinkNextJob \/ LinkIdleInput \/ LinkAdmit \/ LinkFollow \/ LinkDiscardCandidate
             \/ LinkReturnCandidate \/ LinkEndCoalescing
LinkAnswers == (LinkDecrement /\ back # "serve") \/ LinkSkip \/ LinkExchange

(* A step that answers nobody starts an exchange, counts a follower, or       *)
(* leaves the counters alone.                                                 *)
LEMMA LinkMoveSteps ==
    ASSUME QueueBase, LinkMoves
    PROVE  /\ Moves /\ UNCHANGED <<answer, by, ticket, input_closed>>
           /\ rpc # "exchange" /\ rpc' # "gone" /\ rpc # "gone"
           /\ \/ /\ rpc = "coalesce" /\ rpc' = "exchange" /\ leader' = leader /\ followers' = followers
                 /\ Start
              \/ rpc' # "exchange" /\ UNCHANGED led
                 /\ counters' \in {counters, [counters EXCEPT !.coalesced = @ + 1]}
  <1>0. QueueBase
    OBVIOUS
  <1>1. CASE LinkNextJob
    <2>1. Moves /\ UNCHANGED <<answer, by, led, counters>>
      BY <1>1 DEF LinkNextJob, linkVars, Moves
    <2>2. CASE CreateNotified \/ ScanRank \/ CheckInput \/ Wake \/ ReleasePermit
      BY <2>1, <2>2 DEF CreateNotified, ScanRank, CheckInput, Wake, ReleasePermit, slotVars, clientVars
    <2>3. CASE PopStrict \/ PopWeighted \/ DrainEntry
      BY <2>1, <2>3 DEF PopStrict, PopWeighted, DrainEntry, TakeFront, clientVars
    <2>4. CASE EndComplete \/ CompleteFollower \/ DrainNext \/ CloseRunner
      BY <2>1, <2>4 DEF EndComplete, CompleteFollower, DrainNext, CloseRunner, slotVars, clientVars
    <2> QED
      BY <1>1, <2>2, <2>3, <2>4 DEF LinkNextJob
  <1>2. CASE LinkIdleInput
    BY <1>2 DEF LinkIdleInput, IdleInput, Moves, slotVars, clientVars
  <1>3. CASE LinkAdmit \/ LinkDiscardCandidate
    BY <1>3 DEF LinkAdmit, Admit, LinkDiscardCandidate, DiscardCandidate, TakeFront, Moves, slotVars,
                clientVars, linkVars
  <1>4. CASE LinkFollow
    BY <1>4 DEF LinkFollow, Follow, Moves, clientVars
  <1>5. CASE LinkReturnCandidate \/ LinkEndCoalescing
    BY <1>5 DEF LinkReturnCandidate, ReturnCandidate, LinkEndCoalescing, EndCoalescing, Start, Moves,
                slotVars, clientVars, work
  <1> QED
    BY <1>1, <1>2, <1>3, <1>4, <1>5 DEF LinkMoves

(* Request j gets the result told, counted once, from the exchange of k. *)
Told(j, told, k) ==
    /\ answer' = [answer EXCEPT ![j] = told]
    /\ by' = [by EXCEPT ![j] = k]
    /\ counters' = [counters EXCEPT ![Counter(told)] = @ + 1]

LEMMA AnswerIsTold ==
    ASSUME NEW j, NEW outcome, NEW k, Answer(j, outcome, k)
    PROVE  \E told \in {"cancelled", outcome} : Told(j, told, k)
  BY DEF Answer, Told

(* The results the runner gives: to the entry in its hand or to its leader,   *)
(* a completion by the leader's exchange, an error to the leader of that      *)
(* exchange only, and a refusal only in the final sweep.                      *)
Answering(j, told, k) ==
    /\ AtPlace(j)
    /\ \A i \in Job : AtPlace(i)' <=> AtPlace(i) /\ i # j
    /\ Told(j, told, k)
    /\ \/ rpc \in {"serve", "exchange"} /\ j = leader
       \/ rpc = "decrement" /\ j = hand /\ back # "serve" /\ rpc' = back /\ UNCHANGED back
    /\ rpc = "serve" => told \in {"cancelled", "deadline"} /\ k = NoJob
    /\ rpc = "exchange" => told \in {"completed", "cancelled", "deadline", "failed"} /\ k = j
    /\ rpc = "decrement" =>
         /\ back = "coalesce" => told = "cancelled" /\ k = NoJob
         /\ back = "complete" => told \in {"completed", "cancelled", "deadline"} /\ k = leader
         /\ back = "drain" => told \in {"cancelled", "stopped"} /\ k = NoJob

LEMMA LinkAnswerSteps ==
    ASSUME QueueBase, LinkAnswers
    PROVE  /\ UNCHANGED <<ticket, led, input_closed, runner_closed>>
           /\ rpc' # "exchange" /\ rpc # "gone"
           /\ \E j \in Job, told \in Outcome \ {"dropped"}, k \in Job \cup {NoJob} :
                 Answering(j, told, k)
  <1>0. back \in {"serve", "coalesce", "complete", "drain"} /\ RunnerInv
    BY DEF QueueBase, TypeOK, RunnerType
  <1>1. CASE LinkDecrement /\ back # "serve"
    <2>1. /\ Decrement /\ rpc = "decrement" /\ rpc' = back
          /\ UNCHANGED <<ticket, led, input_closed, runner_closed, back>>
      BY <1>1 DEF LinkDecrement, Decrement, clientVars
    <2>2. /\ hand \in Job /\ AtPlace(hand)
          /\ \A i \in Job : AtPlace(i)' <=> AtPlace(i) /\ i # hand
      BY <1>1, <2>1, DecrementPlaces
    <2>3. CASE back = "coalesce"
      <3>1. Answer(hand, "cancelled", NoJob)
        BY <1>1, <2>3 DEF LinkDecrement
      <3>2. Told(hand, "cancelled", NoJob)
        BY <3>1, AnswerIsTold
      <3>3. Answering(hand, "cancelled", NoJob)
        BY <2>1, <2>2, <2>3, <3>2 DEF Answering
      <3> QED
        BY <2>1, <2>2, <2>3, <3>3 DEF Outcome
    <2>4. CASE back = "complete"
      <3>1. Answer(hand, IF hand \in expired THEN "deadline" ELSE "completed", leader)
        BY <1>1, <2>4 DEF LinkDecrement
      <3>2. PICK told \in {"completed", "cancelled", "deadline"} : Told(hand, told, leader)
        BY <3>1, AnswerIsTold
      <3>3. Answering(hand, told, leader)
        BY <2>1, <2>2, <2>4, <3>2 DEF Answering
      <3>4. leader \in Job
        BY <1>0, <2>1, <2>4 DEF RunnerInv, Finishing
      <3> QED
        BY <2>1, <2>2, <2>4, <3>3, <3>4 DEF Outcome
    <2>5. CASE back = "drain"
      <3>1. Answer(hand, "stopped", NoJob)
        BY <1>1, <2>5 DEF LinkDecrement
      <3>2. PICK told \in {"cancelled", "stopped"} : Told(hand, told, NoJob)
        BY <3>1, AnswerIsTold
      <3>3. Answering(hand, told, NoJob)
        BY <2>1, <2>2, <2>5, <3>2 DEF Answering
      <3> QED
        BY <2>1, <2>2, <2>5, <3>3 DEF Outcome
    <2> QED
      BY <1>0, <1>1, <2>3, <2>4, <2>5
  <1>2. CASE LinkSkip
    <2>1. /\ Skip /\ rpc = "serve" /\ rpc' = "create" /\ Answer(leader, "deadline", NoJob)
          /\ UNCHANGED <<ticket, led, input_closed, runner_closed>>
      BY <1>2 DEF LinkSkip, Skip, clientVars, slotVars
    <2>2. /\ leader \in Job /\ AtPlace(leader)
          /\ \A i \in Job : AtPlace(i)' <=> AtPlace(i) /\ i # leader
      BY <2>1, LeaderPlaces
    <2>3. PICK told \in {"cancelled", "deadline"} : Told(leader, told, NoJob)
      BY <2>1, AnswerIsTold
    <2>4. Answering(leader, told, NoJob)
      BY <2>1, <2>2, <2>3 DEF Answering
    <2> QED
      BY <2>1, <2>2, <2>4 DEF Outcome
  <1>3. CASE LinkExchange
    <2>1. /\ ExchangeOk \/ (\E next \in AfterError : ExchangeErr(next))
          /\ rpc = "exchange" /\ rpc' # "exchange"
          /\ UNCHANGED <<ticket, led, input_closed, runner_closed>>
          /\ \E error \in {"completed", "deadline", "failed"} : Answer(leader, error, leader)
      <3>1. CASE LinkExchangeOk
        BY <3>1 DEF LinkExchangeOk, ExchangeOk, clientVars, slotVars
      <3>2. CASE LinkExchangeErr
        BY <3>2 DEF LinkExchangeErr, ExchangeErr, AfterError, clientVars
      <3> QED
        BY <1>3, <3>1, <3>2 DEF LinkExchange
    <2>2. /\ leader \in Job /\ AtPlace(leader)
          /\ \A i \in Job : AtPlace(i)' <=> AtPlace(i) /\ i # leader
      BY <2>1, LeaderPlaces
    <2>3. PICK told \in {"completed", "cancelled", "deadline", "failed"} : Told(leader, told, leader)
      BY <2>1, AnswerIsTold
    <2>4. Answering(leader, told, leader)
      BY <2>1, <2>2, <2>3 DEF Answering
    <2> QED
      BY <2>1, <2>2, <2>4 DEF Outcome
  <1> QED
    BY <1>1, <1>2, <1>3 DEF LinkAnswers

-----------------------------------------------------------------------------
(* The inductive invariant of the link. *)

(* A request waits for its result exactly while it is at a place. *)
PendingInv ==
    /\ \A j \in Job : AtPlace(j) <=> ticket[j] > 0 /\ answer[j] = "none"
    /\ \A j \in Job : ticket[j] = 0 => answer[j] = "none"

(* An exchange was started for an unanswered request only if it is running. *)
LedInv ==
    /\ \A j \in Job : answer[j] = "none" => (led[j] = 1 <=> rpc = "exchange" /\ j = leader)
    /\ FailureStaysWithLeader

(* Followers ask what their leader asks, and a completed request names the    *)
(* leader whose reply it got.                                                 *)
CoalesceInv ==
    /\ \A j \in Range(followers) : leader \in ReadOnly /\ Request[j] = Request[leader]
    /\ rpc \in Finishing /\ back = "complete"
         => leader \in ReadOnly /\ Request[hand] = Request[leader]
    /\ \A j \in Job : answer[j] = "completed" => by[j] \in Job /\ ticket[by[j]] > 0
    /\ CoalescedReplyFits

(* The runner stops for a reason, and refuses nobody before. *)
Stopping == rpc = "stop" \/ Draining
StopInv ==
    /\ Stopping => ~channel_ok \/ input_closed
    /\ \A j \in Job : answer[j] = "stopped" => Stopping

LinkInv == LinkType /\ PendingInv /\ LedInv /\ CoalesceInv /\ StopInv /\ CountersAddUp

(* Clients append one request at a time and answer none. *)
LEMMA ClientPlacesOf ==
    ASSUME QueueBase, Client
    PROVE  /\ UNCHANGED <<rpc, leader, hand, back, followers, runner_closed>>
           /\ \/ ticket' = ticket /\ \A j \in Job : AtPlace(j)' <=> AtPlace(j)
              \/ \E k \in Job : PushBack(k) /\ \A j \in Job : AtPlace(j)' <=> AtPlace(j) \/ j = k
  <1> USE QueueOfAssumption
  <1>0. entries \in [Slots -> Seq(Job)]
    BY DEF QueueBase, TypeOK, SlotType
  <1>1. UNCHANGED <<rpc, leader, hand, back, followers, runner_closed>>
    BY Zenon DEF Client, StartPush, Acquire, GiveUp, FinishPush, PushBack, CountPush, NotifyPush,
           StorePriority, NotifyPriority, CloseInput, runnerVars, work
  <1>2. ASSUME NEW k \in Job, PushBack(k) PROVE \A j \in Job : AtPlace(j)' <=> AtPlace(j) \/ j = k
    <2>1. entries' = [entries EXCEPT ![QueueOf[k]] = Append(@, k)]
      BY <1>2 DEF PushBack
    <2>2. Range(entries'[QueueOf[k]]) = Range(entries[QueueOf[k]]) \cup {k}
      BY <1>0, <2>1, AppendRange
    <2>3. \A s \in Slots \ {QueueOf[k]} : entries'[s] = entries[s]
      BY <1>0, <2>1
    <2>4. LeaderWaits' <=> LeaderWaits
      BY <1>1 DEF LeaderWaits
    <2> QED
      BY <1>1, <2>2, <2>3, <2>4 DEF AtPlace
  <1>3. CASE UNCHANGED <<entries, ticket>>
    BY <1>1, <1>3 DEF AtPlace, LeaderWaits
  <1>4. UNCHANGED <<entries, ticket>> \/ \E k \in Job : PushBack(k)
    BY Zenon DEF Client, StartPush, Acquire, GiveUp, FinishPush, CountPush, NotifyPush,
           StorePriority, NotifyPriority, CloseInput, slotVars
  <1> QED
    BY <1>1, <1>2, <1>3, <1>4

(* Giving a result to request j. *)
LEMMA ToldTypes ==
    ASSUME LinkType, NEW j \in Job, NEW told \in Outcome, NEW k \in Job \cup {NoJob}, Told(j, told, k)
    PROVE  /\ answer' \in [Job -> Outcome \cup {"none"}] /\ by' \in [Job -> Job \cup {NoJob}]
           /\ counters' \in [CounterName -> Nat]
           /\ answer'[j] = told /\ by'[j] = k /\ told # "none"
           /\ \A i \in Job \ {j} : answer'[i] = answer[i] /\ by'[i] = by[i]
  <1>1. Counter(told) \in {"completed", "cancelled", "failed"}
    BY DEF Counter
  <1>2. counters' \in [CounterName -> Nat]
    BY <1>1 DEF LinkType, Told, CounterName
  <1> QED
    BY <1>2 DEF LinkType, Told, Outcome

(* The step that answers request j answers no other. *)
LEMMA AnsweringTells ==
    ASSUME LinkType, NEW j \in Job, NEW told \in Outcome \ {"dropped"}, NEW k \in Job \cup {NoJob},
           Answering(j, told, k)
    PROVE  /\ answer'[j] = told /\ by'[j] = k /\ told # "none"
           /\ \A i \in Job \ {j} : answer'[i] = answer[i] /\ by'[i] = by[i]
  <1>1. Told(j, told, k) /\ told \in Outcome
    BY DEF Answering
  <1> QED
    BY <1>1, ToldTypes

LEMMA PendingNext ==
    ASSUME QueueBase, LinkType, PendingInv, [LinkNext]_allVars
    PROVE  PendingInv'
  <1>0. ticket \in [Job -> Nat] /\ answer \in [Job -> Outcome \cup {"none"}]
    BY DEF QueueBase, TypeOK, SlotType, LinkType
  <1>a. ASSUME UNCHANGED <<ticket, answer>>, \A j \in Job : AtPlace(j)' <=> AtPlace(j)
        PROVE  PendingInv'
    BY <1>a DEF PendingInv
  <1>1. CASE UNCHANGED allVars \/ \E j \in Job : Abandon(j) \/ Expire(j)
    <2>1. UNCHANGED <<ticket, answer, entries, followers, rpc, back, hand, leader>>
      BY <1>1 DEF allVars, linkVars, Abandon, Expire, vars, slotVars, runnerVars, work
    <2>2. \A j \in Job : AtPlace(j)' <=> AtPlace(j)
      BY <2>1 DEF AtPlace, LeaderWaits
    <2> QED
      BY <1>a, <2>1, <2>2
  <1>2. CASE LinkClients
    <2>1. Client /\ UNCHANGED answer
      BY <1>2 DEF LinkClients, linkVars
    <2>2. CASE ticket' = ticket /\ \A j \in Job : AtPlace(j)' <=> AtPlace(j)
      BY <1>a, <2>1, <2>2
    <2>3. ASSUME NEW k \in Job, PushBack(k), \A j \in Job : AtPlace(j)' <=> AtPlace(j) \/ j = k
          PROVE  PendingInv'
      <3>1. \A j \in Job \ {k} : ticket'[j] = ticket[j]
        BY <2>3, NextTicket DEF QueueBase, PlacesOrder
      <3>2. ticket'[k] > 0 /\ ticket'[k] # 0
        <4>1. ticket'[k] > 0
          BY <2>3, NextTicket DEF QueueBase, PlacesOrder
        <4> QED
          BY <4>1
      <3>3. ticket[k] = 0
        <4>1. push[k] \notin Appended
          BY <2>3 DEF PushBack, Goto, Appended
        <4> QED
          BY <1>0, <4>1 DEF QueueBase, PlacesOrder, TicketInv
      <3>4. answer[k] = "none"
        BY <3>3 DEF PendingInv
      <3>5. \A j \in Job : AtPlace(j)' <=> ticket'[j] > 0 /\ answer'[j] = "none"
        BY <2>1, <2>3, <3>1, <3>2, <3>4 DEF PendingInv
      <3>6. \A j \in Job : ticket'[j] = 0 => answer'[j] = "none"
        BY <2>1, <3>1, <3>2 DEF PendingInv
      <3> QED
        BY <3>5, <3>6 DEF PendingInv
    <2> QED
      BY <2>1, <2>2, <2>3, ClientPlacesOf
  <1>3. CASE LinkMoves
    <2>1. UNCHANGED <<ticket, answer>> /\ Moves
      BY <1>3, LinkMoveSteps
    <2> QED
      BY <1>a, <2>1, MovesKeepPlaces
  <1>4. CASE LinkAnswers
    <2>1. PICK j \in Job, told \in Outcome \ {"dropped"}, k \in Job \cup {NoJob} : Answering(j, told, k)
      BY <1>4, LinkAnswerSteps
    <2>2. ticket' = ticket
      BY <1>4, LinkAnswerSteps
    <2>3. answer'[j] = told /\ told # "none" /\ \A i \in Job \ {j} : answer'[i] = answer[i]
      BY <2>1, AnsweringTells
    <2>4. ticket[j] > 0 /\ ticket[j] # 0
      <3>1. ticket[j] > 0
        BY <2>1 DEF Answering, PendingInv
      <3> QED
        BY <3>1
    <2>5. \A i \in Job : AtPlace(i)' <=> AtPlace(i) /\ i # j
      BY <2>1 DEF Answering
    <2> QED
      BY <2>2, <2>3, <2>4, <2>5 DEF PendingInv
  <1>5. CASE LinkDecrement /\ back = "serve"
    <2>1. Decrement /\ UNCHANGED <<ticket, answer>>
      BY <1>5 DEF LinkDecrement, Decrement
    <2> QED
      BY <1>5, <1>a, <2>1, DecrementPlaces
  <1>6. CASE LinkDropRunner
    <2> DEFINE lost == {leader} \cup Range(followers)
    <2>1. /\ DropRunner /\ UNCHANGED ticket
          /\ answer' = [j \in Job |-> IF j \in lost THEN "dropped" ELSE answer[j]]
      BY <1>6 DEF LinkDropRunner, DropRunner
    <2>2. \A j \in Job : (AtPlace(j)' <=> AtPlace(j) /\ j \notin lost) /\ (j \in lost => AtPlace(j))
      BY <2>1, DropPlaces
    <2> HIDE DEF lost
    <2>3. \A j \in Job : j \in lost => ticket[j] > 0 /\ ticket[j] # 0 /\ answer'[j] # "none"
      BY <1>0, <2>1, <2>2 DEF PendingInv
    <2>4. \A j \in Job : j \notin lost => answer'[j] = answer[j]
      BY <2>1
    <2> QED
      BY <2>1, <2>2, <2>3, <2>4 DEF PendingInv
  <1> QED
    BY <1>1, <1>2, <1>3, <1>4, <1>5, <1>6 DEF LinkNext, LinkRunnerStep, LinkMoves, LinkAnswers

(* Steps outside the runner. *)
LEMMA OutsideSteps ==
    ASSUME QueueBase, UNCHANGED allVars \/ (\E j \in Job : Abandon(j) \/ Expire(j)) \/ LinkClients
    PROVE  /\ UNCHANGED <<answer, by, led, counters, channel_ok, rpc, back, hand, leader, followers>>
           /\ input_closed => input_closed'
           /\ \A j \in Job : ticket[j] > 0 => ticket'[j] = ticket[j]
  <1>0. ticket \in [Job -> Nat] /\ input_closed \in BOOLEAN
    BY DEF QueueBase, TypeOK, SlotType, ClientType
  <1>1. CASE UNCHANGED allVars \/ \E j \in Job : Abandon(j) \/ Expire(j)
    <2>1. UNCHANGED vars /\ UNCHANGED <<answer, by, led, counters, channel_ok>>
      BY Zenon, <1>1 DEF allVars, linkVars, Abandon, Expire
    <2>2. UNCHANGED <<rpc, back, hand, leader, followers, input_closed, ticket>>
      BY <2>1 DEF vars, slotVars, runnerVars, work, clientVars
    <2> QED
      BY <2>1, <2>2
  <1>2. CASE LinkClients
    <2>1. Client /\ UNCHANGED <<answer, by, led, counters, channel_ok>>
      BY <1>2 DEF LinkClients, linkVars
    <2>2. UNCHANGED <<rpc, back, hand, leader, followers>>
      BY <2>1, ClientPlacesOf
    <2>3. input_closed => input_closed'
      BY Zenon, <2>1 DEF Client, StartPush, Acquire, GiveUp, FinishPush, PushBack, CountPush, NotifyPush,
                  StorePriority, NotifyPriority, CloseInput
    <2>4. ASSUME NEW k \in Job, PushBack(k), NEW j \in Job, ticket[j] > 0 PROVE ticket'[j] = ticket[j]
      <3>1. push[k] \notin Appended
        BY <2>4 DEF PushBack, Goto, Appended
      <3>2. j # k
        BY <2>4, <3>1 DEF QueueBase, PlacesOrder, TicketInv
      <3> QED
        BY Zenon, <2>4, <3>2, NextTicket DEF QueueBase, PlacesOrder
    <2>5. \A j \in Job : ticket[j] > 0 => ticket'[j] = ticket[j]
      BY <2>1, <2>4, ClientPlacesOf
    <2> QED
      BY Zenon, <2>1, <2>2, <2>3, <2>5
  <1> QED
    BY Zenon, <1>1, <1>2

(* The steps of a link, by what they do to the requests. *)
LEMMA LinkSteps ==
    ASSUME [LinkNext]_allVars
    PROVE  \/ UNCHANGED allVars \/ (\E j \in Job : Abandon(j) \/ Expire(j)) \/ LinkClients
           \/ LinkMoves \/ LinkAnswers \/ (LinkDecrement /\ back = "serve") \/ LinkDropRunner
  BY DEF LinkNext, LinkRunnerStep, LinkMoves, LinkAnswers

LEMMA ServeSteps ==
    ASSUME QueueBase, LinkDecrement, back = "serve"
    PROVE  /\ UNCHANGED <<answer, by, led, counters, channel_ok, ticket, input_closed, followers>>
           /\ rpc = "decrement" /\ rpc' = "serve" /\ leader' = hand /\ followers = <<>>
  BY DEF LinkDecrement, Decrement, clientVars, QueueBase, RunnerInv, Finishing

LEMMA DropSteps ==
    ASSUME QueueBase, LinkDropRunner
    PROVE  /\ UNCHANGED <<by, led, counters, channel_ok, ticket, input_closed>>
           /\ rpc \in {"wait", "exchange"} /\ rpc' = "gone" /\ followers' = <<>>
           /\ rpc = "exchange" => leader \in Job
           /\ answer' = [j \in Job |-> IF j \in {leader} \cup Range(followers) THEN "dropped"
                                                                             ELSE answer[j]]
  BY DEF LinkDropRunner, DropRunner, clientVars, QueueBase, RunnerInv, Serving

LEMMA LinkTypeNext ==
    ASSUME QueueBase, LinkType, [LinkNext]_allVars
    PROVE  LinkType'
  <1>1. CASE UNCHANGED allVars \/ (\E j \in Job : Abandon(j) \/ Expire(j)) \/ LinkClients
    BY <1>1, OutsideSteps DEF LinkType
  <1>2. CASE LinkMoves
    <2>1. UNCHANGED <<answer, by>>
      BY <1>2, LinkMoveSteps
    <2>2. led' \in [Job -> Nat] /\ counters' \in [CounterName -> Nat]
      <3>1. CASE Start /\ rpc = "coalesce"
        <4>1. /\ led' = [led EXCEPT ![leader] = @ + 1]
              /\ counters' = [counters EXCEPT !.started = @ + 1]
          BY <3>1 DEF Start
        <4>2. leader \in Job
          BY <3>1 DEF QueueBase, RunnerInv, Serving
        <4>3. counters' \in [CounterName -> Nat]
          BY <4>1 DEF LinkType, CounterName
        <4> QED
          BY <4>1, <4>2, <4>3 DEF LinkType
      <3>2. CASE UNCHANGED led /\ counters' \in {counters, [counters EXCEPT !.coalesced = @ + 1]}
        <4>1. [counters EXCEPT !.coalesced = @ + 1] \in [CounterName -> Nat]
          BY DEF LinkType, CounterName
        <4> QED
          BY <3>2, <4>1 DEF LinkType
      <3> QED
        BY <1>2, <3>1, <3>2, LinkMoveSteps
    <2>3. channel_ok' \in BOOLEAN
      BY <1>2 DEF LinkType, LinkMoves, LinkNextJob, LinkIdleInput, LinkAdmit, LinkFollow,
                  LinkDiscardCandidate, LinkReturnCandidate, LinkEndCoalescing, Start, linkVars
    <2> QED
      BY <2>1, <2>2, <2>3 DEF LinkType
  <1>3. CASE LinkAnswers
    <2>1. PICK j \in Job, told \in Outcome \ {"dropped"}, k \in Job \cup {NoJob} : Told(j, told, k)
      BY <1>3, LinkAnswerSteps DEF Answering
    <2>2. /\ answer' \in [Job -> Outcome \cup {"none"}] /\ by' \in [Job -> Job \cup {NoJob}]
          /\ counters' \in [CounterName -> Nat]
      <3>1. told \in Outcome
        OBVIOUS
      <3> QED
        BY Zenon, <2>1, <3>1, ToldTypes
    <2>3. led' = led
      BY <1>3, LinkAnswerSteps
    <2>4. channel_ok' \in BOOLEAN
      BY Zenon, <1>3 DEF LinkType, LinkAnswers, LinkDecrement, LinkSkip, LinkExchange, LinkExchangeOk,
                  LinkExchangeErr
    <2> QED
      BY <2>2, <2>3, <2>4 DEF LinkType
  <1>4. CASE LinkDecrement /\ back = "serve"
    BY <1>4, ServeSteps DEF LinkType
  <1>5. CASE LinkDropRunner
    <2>1. answer' \in [Job -> Outcome \cup {"none"}]
      BY <1>5, DropSteps DEF LinkType, Outcome
    <2> QED
      BY <1>5, <2>1, DropSteps DEF LinkType
  <1> QED
    BY <1>1, <1>2, <1>3, <1>4, <1>5, LinkSteps

LEMMA LedNext ==
    ASSUME QueueBase, LinkType, PendingInv, LedInv, [LinkNext]_allVars
    PROVE  LedInv'
  <1>0. led \in [Job -> Nat] /\ answer \in [Job -> Outcome \cup {"none"}]
    BY DEF LinkType
  <1>1. CASE UNCHANGED allVars \/ (\E j \in Job : Abandon(j) \/ Expire(j)) \/ LinkClients
    BY <1>1, OutsideSteps DEF LedInv, FailureStaysWithLeader
  <1>2. CASE LinkMoves
    <2>1. UNCHANGED <<answer, by>> /\ rpc # "exchange"
      BY <1>2, LinkMoveSteps
    <2>2. CASE rpc = "coalesce" /\ rpc' = "exchange" /\ leader' = leader /\ Start
      <3>1. leader \in Job
        BY <2>2 DEF QueueBase, RunnerInv, Serving
      <3>2. AtPlace(leader)
        BY <2>2 DEF AtPlace, LeaderWaits
      <3>3. answer[leader] = "none"
        BY <3>1, <3>2 DEF PendingInv
      <3>4. led[leader] = 0
        BY <1>0, <2>2, <3>1, <3>3 DEF LedInv, FailureStaysWithLeader
      <3>5. led' = [led EXCEPT ![leader] = @ + 1]
        BY <2>2 DEF Start
      <3>6. led'[leader] = 1 /\ \A j \in Job \ {leader} : led'[j] = led[j]
        BY <1>0, <3>1, <3>4, <3>5
      <3>7. \A j \in Job : answer'[j] = "none" => (led'[j] = 1 <=> rpc' = "exchange" /\ j = leader')
        BY <2>1, <2>2, <3>6 DEF LedInv
      <3>8. FailureStaysWithLeader'
        BY <2>1, <3>3, <3>6 DEF LedInv, FailureStaysWithLeader
      <3> QED
        BY <3>7, <3>8 DEF LedInv
    <2>3. CASE rpc' # "exchange" /\ UNCHANGED led
      BY <2>1, <2>3 DEF LedInv, FailureStaysWithLeader
    <2> QED
      BY <1>2, <2>2, <2>3, LinkMoveSteps
  <1>3. CASE LinkAnswers
    <2>1. PICK j \in Job, told \in Outcome \ {"dropped"}, k \in Job \cup {NoJob} : Answering(j, told, k)
      BY <1>3, LinkAnswerSteps
    <2>2. led' = led /\ rpc' # "exchange"
      BY <1>3, LinkAnswerSteps
    <2>3. /\ answer'[j] = told /\ by'[j] = k /\ told # "none"
          /\ \A i \in Job \ {j} : answer'[i] = answer[i] /\ by'[i] = by[i]
      BY <2>1, AnsweringTells
    <2>4. answer[j] = "none" /\ (rpc = "exchange" => j = leader)
      BY <2>1 DEF Answering, PendingInv
    <2>5. told = "failed" => rpc = "exchange" /\ k = j
      BY <2>1, <1>0 DEF Answering, QueueBase, TypeOK, RunnerType
    <2>6. \A i \in Job : answer'[i] = "none" => ~(led'[i] = 1)
      BY <2>2, <2>3, <2>4 DEF LedInv
    <2>7. FailureStaysWithLeader'
      BY <2>2, <2>3, <2>4, <2>5 DEF LedInv, FailureStaysWithLeader
    <2> QED
      BY <2>2, <2>6, <2>7 DEF LedInv
  <1>4. CASE LinkDecrement /\ back = "serve"
    BY <1>4, ServeSteps DEF LedInv, FailureStaysWithLeader
  <1>5. CASE LinkDropRunner
    <2>1. /\ UNCHANGED <<by, led>> /\ rpc \in {"wait", "exchange"} /\ rpc' = "gone"
          /\ \A j \in Job : answer'[j] \in {"dropped", answer[j]} /\ (j = leader => answer'[j] = "dropped")
      BY <1>5, DropSteps
    <2>2. \A j \in Job : answer'[j] = "none" => ~(led'[j] = 1)
      BY <2>1 DEF LedInv
    <2>3. FailureStaysWithLeader'
      BY <2>1 DEF LedInv, FailureStaysWithLeader
    <2> QED
      BY <2>1, <2>2, <2>3 DEF LedInv
  <1> QED
    BY <1>1, <1>2, <1>3, <1>4, <1>5, LinkSteps
===============================================================================

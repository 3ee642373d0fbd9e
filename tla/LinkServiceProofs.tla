-------------------------- MODULE LinkServiceProofs ---------------------------
(***************************************************************************)
(* What users of a link rely on, for any number of queues, requests and      *)
(* followers: the counters of a LinkSnapshot, who may be told of a failure,  *)
(* which reply a coalesced request gets, when a request is refused, and that *)
(* the link implements LinkService.  All of it follows from LinkInv.         *)
(***************************************************************************)
EXTENDS LinkRunnerProofs

(* What the followers and the entry being completed ask. *)
FollowersAsk ==
    /\ \A j \in Range(followers) : leader \in ReadOnly /\ Request[j] = Request[leader]
    /\ rpc \in Finishing /\ back = "complete"
         => leader \in ReadOnly /\ Request[hand] = Request[leader]

LEMMA FollowersNext ==
    ASSUME QueueBase, FollowersAsk, [LinkNext]_allVars
    PROVE  FollowersAsk'
  <1>0. /\ RunnerInv /\ entries \in [Slots -> Seq(Job)] /\ followers \in Seq(Job)
        /\ back \in {"serve", "coalesce", "complete", "drain"} /\ Range(<<>>) = {}
    BY DEF QueueBase, TypeOK, SlotType, RunnerType, Range
  <1>a. ASSUME followers' = <<>> \/ UNCHANGED <<followers, leader>>,
               rpc' \notin Finishing \/ back' # "complete"
        PROVE  FollowersAsk'
    BY <1>0, <1>a DEF FollowersAsk
  <1>1. CASE UNCHANGED allVars \/ (\E j \in Job : Abandon(j) \/ Expire(j)) \/ LinkClients
    BY <1>1, OutsideSteps DEF FollowersAsk
  <1>2. CASE LinkFollow
    <2> DEFINE k == Head(entries[QueueOf[leader]])
    <2>1. /\ rpc' = "coalesce" /\ UNCHANGED leader /\ followers' = Append(followers, k)
          /\ leader \in ReadOnly /\ Request[k] = Request[leader] /\ leader \in Job
          /\ entries[QueueOf[leader]] # <<>>
      BY <1>0, <1>2 DEF LinkFollow, Follow, MayCoalesce, Candidate, requests_can_coalesce, RunnerInv,
                  Serving
    <2>2. k \in Job
      BY <1>0, <2>1, TailRange, QueueOfAssumption
    <2>3. Range(followers') = Range(followers) \cup {k}
      BY <1>0, <2>1, <2>2, AppendRange
    <2> QED
      BY <2>1, <2>3 DEF FollowersAsk, Finishing
  <1>3. CASE CompleteFollower /\ LinkNextJob
    <2>1. /\ hand' = Head(followers) /\ followers' = Tail(followers) /\ followers # <<>>
          /\ UNCHANGED leader
      BY <1>3 DEF CompleteFollower
    <2>2. Range(followers) = {hand'} \cup Range(followers')
      BY <1>0, <2>1, TailRange
    <2> QED
      BY <2>1, <2>2 DEF FollowersAsk
  <1>4. CASE ReleasePermit /\ LinkNextJob
    BY <1>4 DEF ReleasePermit, FollowersAsk, Finishing, work
  <1>5. CASE LinkNextJob /\ ~CompleteFollower /\ ~ReleasePermit
    <2>1. CASE CreateNotified \/ ScanRank \/ CheckInput \/ Wake \/ DrainNext \/ CloseRunner
      BY <1>a, <2>1 DEF CreateNotified, ScanRank, CheckInput, Wake, DrainNext, CloseRunner, Finishing,
                        work
    <2>2. CASE EndComplete
      BY <1>a, <2>2 DEF EndComplete, Finishing
    <2>3. CASE PopStrict \/ PopWeighted \/ DrainEntry
      <3>1. UNCHANGED <<followers, leader>>
        BY <2>3 DEF PopStrict, PopWeighted, DrainEntry
      <3>2. rpc' \notin Finishing \/ back' # "complete"
        BY <2>3 DEF PopStrict, PopWeighted, DrainEntry, TakeFront, Finishing
      <3> QED
        BY <1>a, <3>1, <3>2
    <2> QED
      BY <1>5, <2>1, <2>2, <2>3 DEF LinkNextJob
  <1>6. CASE LinkIdleInput \/ LinkAdmit \/ LinkDiscardCandidate \/ LinkReturnCandidate \/ LinkEndCoalescing
    <2>1. UNCHANGED <<followers, leader>>
      BY <1>6 DEF LinkIdleInput, IdleInput, LinkAdmit, Admit, LinkDiscardCandidate, DiscardCandidate,
                  LinkReturnCandidate, ReturnCandidate, LinkEndCoalescing, EndCoalescing, work
    <2>2. rpc' \notin Finishing \/ back' # "complete"
      BY <1>6 DEF LinkIdleInput, IdleInput, LinkAdmit, Admit, LinkDiscardCandidate, DiscardCandidate,
                  LinkReturnCandidate, ReturnCandidate, LinkEndCoalescing, EndCoalescing, TakeFront,
                  Finishing
    <2> QED
      BY <1>a, <2>1, <2>2
  <1>7. CASE LinkDecrement
    <2>1. /\ UNCHANGED followers /\ rpc = "decrement" /\ rpc' \notin Finishing
          /\ leader' = IF back = "serve" THEN hand ELSE leader
      BY <1>0, <1>7 DEF LinkDecrement, Decrement, Finishing
    <2>2. back = "serve" => followers = <<>>
      BY <1>0, <2>1 DEF RunnerInv, Finishing
    <2> QED
      BY <1>a, <2>1, <2>2
  <1>8. CASE LinkSkip
    <2>1. followers' = <<>> /\ rpc' = "create"
      BY <1>0, <1>8 DEF LinkSkip, Skip, RunnerInv
    <2> QED
      BY <1>a, <2>1 DEF Finishing
  <1>9. CASE LinkExchange \/ LinkDropRunner
    <2>1. followers' = <<>> \/ UNCHANGED <<followers, leader>>
      BY <1>9 DEF LinkExchange, LinkExchangeOk, ExchangeOk, LinkExchangeErr, ExchangeErr,
                  LinkDropRunner, DropRunner, work
    <2>2. rpc' \notin Finishing
      BY <1>9 DEF LinkExchange, LinkExchangeOk, ExchangeOk, LinkExchangeErr, ExchangeErr, AfterError,
                  LinkDropRunner, DropRunner, Finishing
    <2> QED
      BY <1>a, <2>1, <2>2
  <1> QED
    BY <1>1, <1>2, <1>3, <1>4, <1>5, <1>6, <1>7, <1>8, <1>9 DEF LinkNext, LinkRunnerStep

LEMMA CoalesceNext ==
    ASSUME QueueBase, LinkType, PendingInv, LedInv, CoalesceInv, [LinkNext]_allVars
    PROVE  CoalesceInv'
  <1>0. /\ led \in [Job -> Nat] /\ answer \in [Job -> Outcome \cup {"none"}]
        /\ by \in [Job -> Job \cup {NoJob}] /\ ticket \in [Job -> Nat]
    BY DEF LinkType, QueueBase, TypeOK, SlotType
  <1>f. FollowersAsk'
    BY FollowersNext DEF CoalesceInv, FollowersAsk
  <1>g. \A j \in Job : answer[j] = "completed" => ticket[j] > 0
    BY <1>0 DEF PendingInv
  <1>a. ASSUME UNCHANGED <<answer, by, led>>,
               \A j \in Job : ticket[j] > 0 => ticket'[j] = ticket[j]
        PROVE  CoalesceInv'
    BY <1>0, <1>a, <1>f, <1>g DEF CoalesceInv, FollowersAsk, CoalescedReplyFits
  <1>1. CASE UNCHANGED allVars \/ (\E j \in Job : Abandon(j) \/ Expire(j)) \/ LinkClients
    BY <1>1, <1>a, OutsideSteps
  <1>2. CASE LinkMoves
    <2>1. UNCHANGED <<answer, by, ticket>>
      BY <1>2, LinkMoveSteps
    <2>2. CASE rpc = "coalesce" /\ Start
      <3>1. leader \in Job /\ AtPlace(leader)
        BY <2>2 DEF QueueBase, RunnerInv, Serving, AtPlace, LeaderWaits
      <3>2. answer[leader] = "none"
        BY <3>1 DEF PendingInv
      <3>3. \A j \in Job : answer[j] = "completed" => led'[j] = led[j]
        BY <1>0, <2>2, <3>1, <3>2 DEF Start
      <3> QED
        BY <1>f, <2>1, <3>3 DEF CoalesceInv, FollowersAsk, CoalescedReplyFits
    <2>3. CASE UNCHANGED led
      BY <1>a, <2>1, <2>3
    <2> QED
      BY <1>2, <2>2, <2>3, LinkMoveSteps
  <1>3. CASE LinkAnswers
    <2>1. PICK j \in Job, told \in Outcome \ {"dropped"}, k \in Job \cup {NoJob} : Answering(j, told, k)
      BY <1>3, LinkAnswerSteps
    <2>2. led' = led /\ ticket' = ticket
      BY <1>3, LinkAnswerSteps
    <2>3. /\ answer'[j] = told /\ by'[j] = k /\ told # "none"
          /\ \A i \in Job \ {j} : answer'[i] = answer[i] /\ by'[i] = by[i]
      BY <2>1, AnsweringTells
    <2>4. answer[j] = "none" /\ ticket[j] > 0
      BY <2>1 DEF Answering, PendingInv
    <2>5. told = "completed" =>
            \/ k = j
            \/ rpc = "decrement" /\ back = "complete" /\ j = hand /\ k = leader
      BY <2>1, <1>0 DEF Answering, QueueBase, TypeOK, RunnerType
    <2>6. ASSUME rpc = "decrement", back = "complete", j = hand, k = leader
          PROVE  /\ k \in Job /\ ticket[k] > 0 /\ led[j] = 0
                 /\ k \in ReadOnly /\ Request[k] = Request[j] /\ QueueOf[k] = QueueOf[j]
                 /\ ticket[k] < ticket[j]
      <3>1. rpc \in Finishing /\ HasLeader
        BY <2>6 DEF Finishing, HasLeader
      <3>2. k \in Job /\ push[k] \in Appended /\ QueueOf[k] = QueueOf[j]
        BY <2>6, <3>1 DEF QueueBase, RunnerInv, PlacesOrder, LeaderInv
      <3>3. ticket[k] > 0
        BY <3>2 DEF QueueBase, PlacesOrder, TicketInv
      <3>4. ticket[k] < ticket[j]
        BY <2>6, <3>1 DEF QueueBase, PlacesOrder, OrderInv
      <3>5. k \in ReadOnly /\ Request[k] = Request[j]
        BY <2>6, <3>1 DEF CoalesceInv
      <3>6. led[j] = 0
        BY <1>0, <2>4, <2>6 DEF LedInv, FailureStaysWithLeader
      <3> QED
        BY <3>2, <3>3, <3>4, <3>5, <3>6
    <2>7. told = "completed" => by'[j] \in Job /\ ticket'[by'[j]] > 0
      BY <2>2, <2>3, <2>4, <2>5, <2>6
    <2>8. \A i \in Job : answer'[i] = "completed" => by'[i] \in Job /\ ticket'[by'[i]] > 0
      BY <2>2, <2>3, <2>7 DEF CoalesceInv
    <2>9. CoalescedReplyFits'
      <3> SUFFICES ASSUME NEW i \in Job, answer'[i] = "completed", by'[i] # i
                   PROVE  /\ led'[i] = 0
                          /\ by'[i] \in ReadOnly /\ Request[by'[i]] = Request[i]
                          /\ QueueOf[by'[i]] = QueueOf[i] /\ ticket'[by'[i]] < ticket'[i]
        BY DEF CoalescedReplyFits
      <3>1. CASE i = j
        BY <2>2, <2>3, <2>5, <2>6, <3>1
      <3>2. CASE i # j
        BY <2>2, <2>3, <3>2 DEF CoalesceInv, CoalescedReplyFits
      <3> QED
        BY <3>1, <3>2
    <2> QED
      BY <1>f, <2>8, <2>9 DEF CoalesceInv, FollowersAsk
  <1>4. CASE LinkDecrement /\ back = "serve"
    BY <1>4, <1>a, ServeSteps
  <1>5. CASE LinkDropRunner
    <2>1. /\ UNCHANGED <<by, led, ticket>>
          /\ \A j \in Job : answer'[j] \in {"dropped", answer[j]}
      BY <1>5, DropSteps
    <2> QED
      BY <1>f, <2>1 DEF CoalesceInv, FollowersAsk, CoalescedReplyFits
  <1> QED
    BY <1>1, <1>2, <1>3, <1>4, <1>5, LinkSteps

LEMMA StopNext ==
    ASSUME QueueBase, LinkType, StopInv, [LinkNext]_allVars
    PROVE  StopInv'
  <1>0. back \in {"serve", "coalesce", "complete", "drain"}
    BY DEF QueueBase, TypeOK, RunnerType
  (* The runner is not stopping: nobody was refused. *)
  <1>a. ASSUME ~Stopping, Stopping' => ~channel_ok' \/ input_closed',
               \A j \in Job : answer'[j] = "stopped" => answer[j] = "stopped"
        PROVE  StopInv'
    BY <1>a DEF StopInv
  <1>b. ASSUME Stopping, Stopping', UNCHANGED <<channel_ok, input_closed>>
        PROVE  StopInv'
    BY <1>b DEF StopInv
  <1>1. CASE UNCHANGED allVars \/ (\E j \in Job : Abandon(j) \/ Expire(j)) \/ LinkClients
    <2>1. /\ UNCHANGED <<answer, channel_ok, rpc, back>>
          /\ input_closed => input_closed'
      BY <1>1, OutsideSteps
    <2> QED
      BY <2>1 DEF StopInv, Stopping, Draining
  <1>2. CASE LinkNextJob
    <2>0. UNCHANGED <<answer, channel_ok>>
      BY <1>2 DEF LinkNextJob, linkVars
    <2>1. CASE CheckInput
      <3>1. rpc = "closed" /\ (rpc' = "stop" => input_closed') /\ rpc' \in {"stop", "wait"}
        BY <2>1 DEF CheckInput, clientVars
      <3> QED
        BY <1>a, <2>0, <3>1 DEF Stopping, Draining, Finishing
    <2>2. CASE CreateNotified \/ ScanRank \/ PopStrict \/ PopWeighted \/ Wake \/ EndComplete \/ CompleteFollower
      <3>1. /\ rpc \in {"create", "rank", "strict", "weighted", "wait", "complete"}
            /\ rpc' \in {"create", "rank", "strict", "weighted", "closed", "release"}
            /\ rpc' = "release" => back' \in {"serve", "complete"}
        BY Zenon, <2>2 DEF CreateNotified, ScanRank, PopStrict, PopWeighted, Wake, EndComplete,
                    CompleteFollower, TakeFront
      <3> QED
        BY <1>a, <2>0, <3>1 DEF Stopping, Draining, Finishing
    <2>3. CASE ReleasePermit
      BY <2>0, <2>3 DEF ReleasePermit, StopInv, Stopping, Draining, Finishing, work, clientVars
    <2>4. CASE DrainEntry \/ DrainNext \/ CloseRunner
      <3>1. /\ rpc \in {"drain", "stop"} /\ rpc' \in {"release", "drain", "stopped"}
            /\ rpc' = "release" => back' = "drain"
            /\ UNCHANGED input_closed
        BY <2>4 DEF DrainEntry, DrainNext, CloseRunner, TakeFront, clientVars
      <3> QED
        BY <1>b, <2>0, <3>1 DEF Stopping, Draining, Finishing
    <2> QED
      BY <1>2, <2>1, <2>2, <2>3, <2>4 DEF LinkNextJob
  <1>3. CASE LinkIdleInput
    <2>1. /\ rpc = "wait" /\ rpc' \in {"create", "stop"} /\ (rpc' = "stop" => ~channel_ok')
          /\ UNCHANGED answer
      BY <1>3 DEF LinkIdleInput, IdleInput
    <2> QED
      BY <1>a, <2>1 DEF Stopping, Draining, Finishing
  <1>4. CASE LinkAdmit \/ LinkFollow \/ LinkDiscardCandidate \/ LinkReturnCandidate \/ LinkEndCoalescing
    <2>1. /\ rpc \in {"serve", "coalesce"} /\ rpc' \in {"coalesce", "exchange", "release"}
          /\ rpc' = "release" => back' = "coalesce"
      BY <1>4 DEF LinkAdmit, Admit, LinkFollow, Follow, LinkDiscardCandidate, DiscardCandidate,
                  LinkReturnCandidate, ReturnCandidate, LinkEndCoalescing, EndCoalescing, TakeFront
    <2>2. UNCHANGED answer
      BY <1>4, LinkMoveSteps DEF LinkMoves
    <2> QED
      BY <1>a, <2>1, <2>2 DEF Stopping, Draining, Finishing
  <1>5. CASE LinkDecrement
    <2>1. rpc = "decrement" /\ rpc' = back /\ UNCHANGED <<channel_ok, input_closed, back>>
      BY <1>5 DEF LinkDecrement, Decrement, clientVars
    <2>2. CASE back = "drain"
      BY <1>b, <2>1, <2>2 DEF Stopping, Draining, Finishing
    <2>3. CASE back # "drain"
      <3>1. ~Stopping /\ ~Stopping'
        BY <1>0, <2>1, <2>3 DEF Stopping, Draining, Finishing
      <3>2. CASE back = "serve"
        BY <1>5, <1>a, <3>1, <3>2, ServeSteps
      <3>3. CASE back # "serve"
        <4>1. PICK j \in Job, told \in Outcome \ {"dropped"}, k \in Job \cup {NoJob} : Answering(j, told, k)
          BY <1>5, <3>3, LinkAnswerSteps DEF LinkAnswers
        <4>2. told # "stopped"
          BY <1>0, <2>1, <2>3, <3>3, <4>1 DEF Answering
        <4>3. answer'[j] = told /\ \A i \in Job \ {j} : answer'[i] = answer[i]
          BY <4>1, AnsweringTells
        <4> QED
          BY <1>a, <3>1, <4>2, <4>3
      <3> QED
        BY <3>2, <3>3
    <2> QED
      BY <2>2, <2>3
  <1>6. CASE LinkSkip \/ LinkExchange
    <2>1. PICK j \in Job, told \in Outcome \ {"dropped"}, k \in Job \cup {NoJob} : Answering(j, told, k)
      BY <1>6, LinkAnswerSteps DEF LinkAnswers
    <2>2. /\ rpc \in {"serve", "exchange"} /\ rpc' \in {"create", "complete", "stop", "gone"}
          /\ rpc' = "stop" => ~channel_ok'
      <3>1. CASE LinkSkip \/ LinkExchangeOk
        BY <3>1 DEF LinkSkip, Skip, LinkExchangeOk, ExchangeOk
      <3>2. CASE LinkExchangeErr
        BY Zenon, <3>2 DEF LinkExchangeErr, ExchangeErr, AfterError
      <3> QED
        BY <1>6, <3>1, <3>2 DEF LinkExchange
    <2>3. told # "stopped"
      BY <2>1, <2>2 DEF Answering
    <2>4. answer'[j] = told /\ \A i \in Job \ {j} : answer'[i] = answer[i]
      BY <2>1, AnsweringTells
    <2> QED
      BY <1>a, <2>2, <2>3, <2>4 DEF Stopping, Draining, Finishing
  <1>7. CASE LinkDropRunner
    <2>1. /\ rpc \in {"wait", "exchange"} /\ rpc' = "gone"
          /\ \A j \in Job : answer'[j] \in {"dropped", answer[j]}
      BY <1>7, DropSteps
    <2> QED
      BY <1>a, <2>1 DEF Stopping, Draining, Finishing
  <1> QED
    BY <1>1, <1>2, <1>3, <1>4, <1>5, <1>6, <1>7 DEF LinkNext, LinkRunnerStep

(* The number of requests with one of the given results. *)
With(outcomes) == Cardinality({j \in Job : answer[j] \in outcomes})

LEMMA FiniteWith == \A outcomes : IsFiniteSet({j \in Job : answer[j] \in outcomes}) /\ With(outcomes) \in Nat
  <1> SUFFICES ASSUME NEW outcomes
               PROVE  IsFiniteSet({j \in Job : answer[j] \in outcomes}) /\ With(outcomes) \in Nat
    OBVIOUS
  <1>1. {j \in Job : answer[j] \in outcomes} \subseteq Job
    OBVIOUS
  <1> QED
    BY <1>1, JobAssumption, FS_Subset, FS_CardinalityType DEF With

LEMMA ToldOnce ==
    ASSUME NEW j \in Job, answer[j] = "none", NEW told, answer'[j] = told,
           \A i \in Job \ {j} : answer'[i] = answer[i], NEW outcomes, "none" \notin outcomes
    PROVE  Cardinality({i \in Job : answer'[i] \in outcomes})
             = With(outcomes) + (IF told \in outcomes THEN 1 ELSE 0)
  <1> DEFINE before == {i \in Job : answer[i] \in outcomes}
             after  == {i \in Job : answer'[i] \in outcomes}
  <1>1. IsFiniteSet(before) /\ Cardinality(before) \in Nat /\ With(outcomes) = Cardinality(before)
    BY FiniteWith DEF With
  <1>2. j \notin before
    OBVIOUS
  <1>3. CASE told \in outcomes
    <2>1. after = before \cup {j}
      BY <1>3
    <2> HIDE DEF before, after
    <2>2. Cardinality(after) = Cardinality(before) + 1
      BY <1>1, <1>2, <2>1, FS_AddElement
    <2> QED
      BY <1>1, <1>3, <2>2 DEF after
  <1>4. CASE told \notin outcomes
    <2>1. after = before
      BY <1>4
    <2> HIDE DEF before, after
    <2>2. Cardinality(after) = Cardinality(before) + 0
      BY <1>1, <2>1
    <2> QED
      BY <1>1, <1>4, <2>2 DEF after
  <1> QED
    BY <1>3, <1>4

LEMMA CountersNext ==
    ASSUME QueueBase, LinkType, PendingInv, LedInv, CountersAddUp, [LinkNext]_allVars
    PROVE  CountersAddUp'
  <1> DEFINE leaders == {j \in Job : led[j] = 1}
  <1>0. /\ led \in [Job -> Nat] /\ counters \in [CounterName -> Nat]
        /\ answer \in [Job -> Outcome \cup {"none"}]
    BY DEF LinkType
  <1>s. /\ counters.completed = With({"completed"}) /\ counters.cancelled = With({"cancelled"})
        /\ counters.failed = With({"deadline", "failed", "stopped"})
        /\ counters.started = Cardinality(leaders)
    BY DEF CountersAddUp, With
  <1>a. ASSUME UNCHANGED <<answer, led>>,
               counters' \in {counters, [counters EXCEPT !.coalesced = @ + 1]}
        PROVE  CountersAddUp'
    <2>1. /\ counters'.completed = counters.completed /\ counters'.cancelled = counters.cancelled
          /\ counters'.failed = counters.failed /\ counters'.started = counters.started
      BY <1>0, <1>a DEF CounterName
    <2> QED
      BY <1>a, <2>1 DEF CountersAddUp
  <1>1. CASE UNCHANGED allVars \/ (\E j \in Job : Abandon(j) \/ Expire(j)) \/ LinkClients
    BY <1>1, <1>a, OutsideSteps
  <1>2. CASE LinkMoves
    <2>1. UNCHANGED answer
      BY <1>2, LinkMoveSteps
    <2>2. CASE rpc = "coalesce" /\ Start
      <3>1. /\ led' = [led EXCEPT ![leader] = @ + 1]
            /\ counters' = [counters EXCEPT !.started = @ + 1]
        BY <2>2 DEF Start
      <3>2. leader \in Job /\ AtPlace(leader)
        BY <2>2 DEF QueueBase, RunnerInv, Serving, AtPlace, LeaderWaits
      <3>3. answer[leader] = "none"
        BY <3>2 DEF PendingInv
      <3>4. led[leader] = 0
        BY <1>0, <2>2, <3>2, <3>3 DEF LedInv, FailureStaysWithLeader
      <3>5. {j \in Job : led'[j] = 1} = leaders \cup {leader} /\ leader \notin leaders
        BY <1>0, <3>1, <3>2, <3>4
      <3>6. IsFiniteSet(leaders) /\ Cardinality(leaders) \in Nat
        <4>1. leaders \subseteq Job
          OBVIOUS
        <4> QED
          BY <4>1, JobAssumption, FS_Subset, FS_CardinalityType
      <3> HIDE DEF leaders
      <3>7. Cardinality({j \in Job : led'[j] = 1}) = Cardinality(leaders) + 1
        BY <3>5, <3>6, FS_AddElement
      <3>8. /\ counters'.completed = counters.completed /\ counters'.cancelled = counters.cancelled
            /\ counters'.failed = counters.failed /\ counters'.started = counters.started + 1
        BY <1>0, <3>1 DEF CounterName
      <3> QED
        BY <1>s, <2>1, <3>7, <3>8 DEF CountersAddUp
    <2>3. CASE UNCHANGED led /\ counters' \in {counters, [counters EXCEPT !.coalesced = @ + 1]}
      BY <1>a, <2>1, <2>3
    <2> QED
      BY <1>2, <2>2, <2>3, LinkMoveSteps
  <1>3. CASE LinkAnswers
    <2>1. PICK j \in Job, told \in Outcome \ {"dropped"}, k \in Job \cup {NoJob} : Answering(j, told, k)
      BY <1>3, LinkAnswerSteps
    <2>2. led' = led
      BY <1>3, LinkAnswerSteps
    <2>3. answer'[j] = told /\ \A i \in Job \ {j} : answer'[i] = answer[i]
      BY <2>1, AnsweringTells
    <2>4. answer[j] = "none"
      BY <2>1 DEF Answering, PendingInv
    <2>5. counters' = [counters EXCEPT ![Counter(told)] = @ + 1]
      BY <2>1 DEF Answering, Told
    <2> DEFINE After(outcomes) == Cardinality({i \in Job : answer'[i] \in outcomes})
    <2>6. /\ After({"completed"}) = With({"completed"}) + (IF told = "completed" THEN 1 ELSE 0)
          /\ After({"cancelled"}) = With({"cancelled"}) + (IF told = "cancelled" THEN 1 ELSE 0)
      <3>1. "none" \notin {"completed"} /\ "none" \notin {"cancelled"}
        OBVIOUS
      <3>2. After({"completed"}) = With({"completed"}) + (IF told \in {"completed"} THEN 1 ELSE 0)
        BY <2>3, <2>4, <3>1, ToldOnce
      <3>3. After({"cancelled"}) = With({"cancelled"}) + (IF told \in {"cancelled"} THEN 1 ELSE 0)
        BY <2>3, <2>4, <3>1, ToldOnce
      <3> HIDE DEF After
      <3> QED
        BY <3>2, <3>3
    <2>7. After({"deadline", "failed", "stopped"})
            = With({"deadline", "failed", "stopped"})
                + (IF told \in {"deadline", "failed", "stopped"} THEN 1 ELSE 0)
      <3>1. "none" \notin {"deadline", "failed", "stopped"}
        OBVIOUS
      <3> QED
        BY <2>3, <2>4, <3>1, ToldOnce
    <2>8. /\ counters.completed \in Nat /\ counters.cancelled \in Nat /\ counters.failed \in Nat
      BY <1>0 DEF CounterName
    <2>9. /\ counters'.completed = counters.completed + (IF told = "completed" THEN 1 ELSE 0)
          /\ counters'.cancelled = counters.cancelled + (IF told = "cancelled" THEN 1 ELSE 0)
          /\ counters'.failed = counters.failed
                                  + (IF told \in {"deadline", "failed", "stopped"} THEN 1 ELSE 0)
          /\ counters'.started = counters.started
      <3>1. CASE told = "completed"
        BY <1>0, <2>5, <2>8, <3>1 DEF Counter, CounterName
      <3>2. CASE told = "cancelled"
        BY <1>0, <2>5, <2>8, <3>2 DEF Counter, CounterName
      <3>3. CASE told \in {"deadline", "failed", "stopped"}
        <4>1. Counter(told) = "failed"
          BY <3>3 DEF Counter
        <4> QED
          BY <1>0, <2>5, <2>8, <3>3, <4>1 DEF CounterName
      <3> QED
        BY <3>1, <3>2, <3>3 DEF Outcome
    <2> HIDE DEF After
    <2>10. /\ counters'.completed = After({"completed"}) /\ counters'.cancelled = After({"cancelled"})
           /\ counters'.failed = After({"deadline", "failed", "stopped"})
      BY <1>s, <2>6, <2>7, <2>9
    <2> QED
      BY <1>s, <2>2, <2>9, <2>10 DEF CountersAddUp, After
  <1>4. CASE LinkDecrement /\ back = "serve"
    BY <1>4, <1>a, ServeSteps
  <1>5. CASE LinkDropRunner
    <2> DEFINE lost == {leader} \cup Range(followers)
    <2>1. /\ UNCHANGED <<led, counters>> /\ DropRunner
          /\ answer' = [j \in Job |-> IF j \in lost THEN "dropped" ELSE answer[j]]
      BY <1>5, DropSteps DEF LinkDropRunner
    <2>2. \A j \in Job : j \in lost => answer[j] = "none"
      BY <2>1, DropPlaces DEF PendingInv
    <2> HIDE DEF lost
    <2>3. /\ {j \in Job : answer'[j] \in {"completed"}} = {j \in Job : answer[j] \in {"completed"}}
          /\ {j \in Job : answer'[j] \in {"cancelled"}} = {j \in Job : answer[j] \in {"cancelled"}}
          /\ {j \in Job : answer'[j] \in {"deadline", "failed", "stopped"}}
               = {j \in Job : answer[j] \in {"deadline", "failed", "stopped"}}
      BY <2>1, <2>2
    <2> QED
      BY Zenon, <2>1, <2>3 DEF CountersAddUp
  <1> QED
    BY <1>1, <1>2, <1>3, <1>4, <1>5, LinkSteps

LEMMA LinkInvInit == LinkInit => LinkInv
  <1> SUFFICES ASSUME LinkInit PROVE LinkInv
    OBVIOUS
  <1>1. /\ answer = [j \in Job |-> "none"] /\ by = [j \in Job |-> NoJob] /\ led = [j \in Job |-> 0]
        /\ counters = [started |-> 0, completed |-> 0, failed |-> 0, cancelled |-> 0, coalesced |-> 0]
        /\ channel_ok = TRUE
    BY DEF LinkInit
  <1>2. /\ rpc = "create" /\ followers = <<>> /\ ticket = [j \in Job |-> 0]
        /\ entries = [s \in Slots |-> <<>>] /\ Range(<<>>) = {}
    BY DEF LinkInit, Init, Range
  <1>3. LinkType
    BY <1>1 DEF LinkType, CounterName
  <1>4. PendingInv
    <2>1. \A j \in Job : ~AtPlace(j)
      BY <1>2, QueueOfAssumption DEF AtPlace, LeaderWaits, Finishing
    <2> QED
      BY <1>1, <1>2, <2>1 DEF PendingInv
  <1>5. LedInv /\ CoalesceInv /\ StopInv
    BY <1>1, <1>2 DEF LedInv, FailureStaysWithLeader, CoalesceInv, CoalescedReplyFits, StopInv,
                      Stopping, Draining, Finishing
  <1>6. CountersAddUp
    <2>1. /\ {j \in Job : answer[j] \in {"completed"}} = {} /\ {j \in Job : answer[j] \in {"cancelled"}} = {}
          /\ {j \in Job : answer[j] \in {"deadline", "failed", "stopped"}} = {}
          /\ {j \in Job : led[j] = 1} = {}
      BY <1>1
    <2>2. Cardinality({}) = 0
      BY FS_EmptySet
    <2> QED
      BY <1>1, <2>1, <2>2 DEF CountersAddUp
  <1> QED
    BY <1>3, <1>4, <1>5, <1>6 DEF LinkInv

LEMMA LinkInvariants == LinkSpec => [](QueueBase /\ LinkInv)
  <1>1. QueueBase /\ LinkInv /\ [LinkNext]_allVars => LinkInv'
    <2> SUFFICES ASSUME QueueBase, LinkInv, [LinkNext]_allVars PROVE LinkInv'
      OBVIOUS
    <2>0. LinkType /\ PendingInv /\ LedInv /\ CoalesceInv /\ StopInv /\ CountersAddUp
      BY DEF LinkInv
    <2>1. LinkType'
      BY <2>0, LinkTypeNext
    <2>2. PendingInv'
      BY <2>0, PendingNext
    <2>3. LedInv'
      BY <2>0, LedNext
    <2>4. CoalesceInv'
      BY <2>0, CoalesceNext
    <2>5. StopInv'
      BY <2>0, StopNext
    <2>6. CountersAddUp'
      BY <2>0, CountersNext
    <2> QED
      BY <2>1, <2>2, <2>3, <2>4, <2>5, <2>6 DEF LinkInv
  <1> QED
    BY <1>1, LinkInvInit, LinkBase, PTL DEF LinkSpec

(* LinkSnapshot: for every number of requests, every settled one is counted   *)
(* once by its outcome (mark_completed, mark_failed, mark_cancelled), and an  *)
(* exchange once for its leader, through coalescing, requeue, sweep and abort. *)
THEOREM LinkCountersAddUp == LinkSpec => []CountersAddUp
  <1>1. LinkInv => CountersAddUp
    BY DEF LinkInv
  <1> QED
    BY <1>1, LinkInvariants, PTL

(* run and requeue_followers: no request is exchanged twice, and the error of *)
(* an exchange reaches its leader only, however often followers are put back. *)
THEOREM LinkFailureStaysWithLeader == LinkSpec => []FailureStaysWithLeader
  <1>1. LinkInv => FailureStaysWithLeader
    BY DEF LinkInv, LedInv
  <1> QED
    BY <1>1, LinkInvariants, PTL

(* take_coalescible_followers and complete_followers: a reply given to another *)
(* request than the one that asked answers an equal read of the same queue,    *)
(* appended later and never exchanged itself.                                  *)
THEOREM LinkCoalescedReplyFits == LinkSpec => []CoalescedReplyFits
  <1>1. LinkInv => CoalescedReplyFits
    BY DEF LinkInv, CoalesceInv
  <1> QED
    BY <1>1, LinkInvariants, PTL

(* LinkRunner::run "Serves the queue until every client is closed": a request  *)
(* is refused with RunnerStopped only after the channel failed or the last     *)
(* client was gone.                                                            *)
THEOREM LinkServedUntilClosed == LinkSpec => []ServedUntilClosed
  <1>1. LinkInv => ServedUntilClosed
    BY DEF LinkInv, StopInv, ServedUntilClosed
  <1> QED
    BY <1>1, LinkInvariants, PTL

-----------------------------------------------------------------------------
(* The link implements LinkService. *)

(* The leader, and an entry that is completed or drained, is the oldest      *)
(* unanswered request of its queue.                                          *)
LEMMA OldestIsAnswered ==
    ASSUME QueueBase, PendingInv, NEW j \in Job, AtPlace(j),
           \/ rpc \in {"serve", "exchange"} /\ j = leader
           \/ rpc = "decrement" /\ back \in {"complete", "drain"} /\ j = hand
    PROVE  Service!Oldest(j)
  <1>0. /\ RunnerInv /\ PlaceInv /\ LeaderInv /\ OrderInv /\ ticket \in [Job -> Nat]
    BY DEF QueueBase, PlacesOrder, TypeOK, SlotType
  <1>1. \A k \in Job : Service!Pending(k) <=> AtPlace(k)
    BY DEF PendingInv, Service!Pending
  <1>2. ASSUME NEW k \in Job, AtPlace(k), QueueOf[k] = QueueOf[j] PROVE ticket[j] <= ticket[k]
    <2>1. CASE rpc \in {"serve", "exchange"} /\ j = leader
      <3>1. HasLeader /\ rpc \notin Finishing
        BY <2>1 DEF HasLeader, Serving, Finishing
      <3>2. k \in Range(entries[QueueOf[leader]]) \/ k \in Range(followers) \/ k = leader
        BY <1>2, <2>1, <3>1 DEF AtPlace
      <3> QED
        BY <1>0, <2>1, <3>1, <3>2 DEF OrderInv
    <2>2. CASE rpc = "decrement" /\ back \in {"complete", "drain"} /\ j = hand
      <3>1. rpc \in Finishing /\ ~LeaderWaits
        BY <2>2 DEF Finishing, LeaderWaits
      <3>2. back = "drain" => Range(followers) = {}
        BY <1>0, <2>2 DEF LeaderInv, HasLeader, Serving, Range
      <3>3. \/ k \in Range(entries[QueueOf[hand]]) \/ k = hand
            \/ k \in Range(followers) /\ back = "complete"
        BY <1>2, <2>2, <3>1, <3>2 DEF AtPlace
      <3>4. CASE k = hand
        BY <1>0, <2>2, <3>4
      <3>5. CASE k # hand
        <4>1. ticket[hand] < ticket[k]
          BY <1>0, <3>1, <3>3, <3>5 DEF OrderInv
        <4> QED
          BY <1>0, <2>2, <4>1
      <3> QED
        BY <3>4, <3>5
    <2> QED
      BY <2>1, <2>2
  <1> QED
    BY <1>1, <1>2 DEF Service!Oldest

(* An answer settles, cancels or turns down a request. *)
LEMMA AnswersAreResults ==
    ASSUME QueueBase, PendingInv, LinkAnswers
    PROVE  Service!ServiceNext
  <1> DEFINE up == ~runner_closed /\ rpc # "gone"
  <1>1. PICK j \in Job, told \in Outcome \ {"dropped"}, k \in Job \cup {NoJob} : Answering(j, told, k)
    BY LinkAnswerSteps
  <1>2. UNCHANGED <<ticket, runner_closed>> /\ rpc # "gone"
    BY LinkAnswerSteps
  <1>3. /\ AtPlace(j) /\ answer' = [answer EXCEPT ![j] = told]
        /\ \/ rpc \in {"serve", "exchange"} /\ j = leader
           \/ rpc = "decrement" /\ j = hand /\ back # "serve" /\ rpc' = back
        /\ rpc = "serve" => told \in {"cancelled", "deadline"}
        /\ rpc = "exchange" => told \in {"completed", "cancelled", "deadline", "failed"}
        /\ rpc = "decrement" =>
             /\ back = "coalesce" => told = "cancelled"
             /\ back = "complete" => told \in {"completed", "cancelled", "deadline"}
             /\ back = "drain" => told \in {"cancelled", "stopped"}
    BY <1>1 DEF Answering, Told
  <1>4. back \in {"serve", "coalesce", "complete", "drain"} /\ (runner_closed <=> Draining)
    BY DEF QueueBase, TypeOK, RunnerType, PlacesOrder, LeaderInv
  <1>5. Service!Pending(j)
    BY <1>3 DEF PendingInv, Service!Pending
  <1>6. CASE told = "cancelled"
    <2>1. up' \in {up, FALSE}
      BY Zenon, <1>2
    <2>2. Service!Cancel(j)
      BY <1>2, <1>3, <1>5, <1>6, <2>1 DEF Service!Cancel
    <2> QED
      BY <2>2 DEF Service!ServiceNext
  <1>7. CASE told \in {"completed", "deadline", "failed"}
    <2>1. \/ rpc \in {"serve", "exchange"} /\ j = leader
          \/ rpc = "decrement" /\ back = "complete" /\ j = hand
      BY <1>3, <1>4, <1>7
    <2>2. up
      BY <1>2, <1>4, <2>1 DEF Draining, Finishing
    <2>3. Service!Oldest(j)
      BY <1>3, <2>1, OldestIsAnswered
    <2>4. Service!Settle(j)
      BY <1>2, <1>3, <1>7, <2>2, <2>3 DEF Service!Settle, Service!Served
    <2> QED
      BY <2>4 DEF Service!ServiceNext
  <1>8. CASE told = "stopped"
    <2>1. rpc = "decrement" /\ back = "drain" /\ j = hand /\ rpc' = "drain"
      BY <1>3, <1>4, <1>8
    <2>2. runner_closed
      BY <1>4, <2>1 DEF Draining, Finishing
    <2>3. Service!Oldest(j)
      BY <1>3, <2>1, OldestIsAnswered
    <2>4. Service!TurnDown(j)
      BY <1>2, <1>3, <1>8, <2>1, <2>2, <2>3 DEF Service!TurnDown
    <2> QED
      BY <2>4 DEF Service!ServiceNext
  <1> QED
    BY <1>6, <1>7, <1>8 DEF Outcome

(* The task of the runner is dropped with a leader and its followers, which   *)
(* are the oldest unanswered requests of one queue, or with none.             *)
LEMMA DropIsLoss ==
    ASSUME QueueBase, PendingInv, LinkDropRunner
    PROVE  Service!ServiceNext
  <1> DEFINE lost == ({leader} \cup Range(followers)) \cap Job
  <1>0. /\ RunnerInv /\ PlaceInv /\ LeaderInv /\ OrderInv /\ ticket \in [Job -> Nat] /\ DropRunner
    BY DEF QueueBase, PlacesOrder, TypeOK, SlotType, LinkDropRunner
  <1>1. /\ UNCHANGED <<ticket, runner_closed>> /\ rpc \in {"wait", "exchange"} /\ rpc' = "gone"
        /\ answer' = [j \in Job |-> IF j \in lost THEN "dropped" ELSE answer[j]]
    BY <1>0, DropSteps DEF DropRunner
  <1>2. ~runner_closed /\ rpc \notin Finishing
    BY <1>0, <1>1 DEF LeaderInv, Draining, Finishing
  <1>3. \A j \in Job : Service!Pending(j) <=> AtPlace(j)
    BY DEF PendingInv, Service!Pending
  <1>4. \A j \in lost : Service!Pending(j)
    BY <1>0, <1>3, DropPlaces
  <1>5. lost # {} => HasLeader /\ LeaderWaits
    BY <1>0, <1>1, JobAssumption DEF LeaderInv, HasLeader, Serving, Finishing, LeaderWaits, Range
  <1>6. \A j, k \in lost : QueueOf[j] = QueueOf[k]
    BY <1>0, <1>5 DEF PlaceInv, FollowersInv
  <1>7. ASSUME NEW j \in lost, NEW k \in Job, QueueOf[k] = QueueOf[j], Service!Pending(k), ticket[k] < ticket[j]
        PROVE  k \in lost
    <2>1. HasLeader /\ LeaderWaits /\ AtPlace(k) /\ QueueOf[j] = QueueOf[leader]
      BY <1>0, <1>3, <1>5, <1>7 DEF PlaceInv, FollowersInv
    <2>2. k \notin Range(entries[QueueOf[leader]])
      <3>1. \A i \in Range(entries[QueueOf[leader]]) : ticket[j] < ticket[i]
        BY Zenon, <1>0, <1>7, <2>1 DEF OrderInv
      <3>2. ticket[j] \in Nat /\ ticket[k] \in Nat
        BY <1>0, <1>7
      <3> QED
        BY <1>7, <3>1, <3>2
    <2> QED
      BY <1>2, <1>7, <2>1, <2>2 DEF AtPlace
  <1> HIDE DEF lost
  <1>8. Service!Lose(lost)
    BY Zenon, <1>1, <1>2, <1>4, <1>6, <1>7 DEF Service!Lose
  <1>9. lost \in SUBSET Job
    BY DEF lost
  <1> QED
    BY <1>8, <1>9 DEF Service!ServiceNext

(* close_runner stops the service, and no other step that answers nobody is   *)
(* seen by its users.                                                         *)
LEMMA MovesAreStop ==
    ASSUME QueueBase, LinkMoves
    PROVE  [Service!ServiceNext]_(Service!serviceVars)
  <1>0. Moves /\ UNCHANGED <<answer, ticket>> /\ rpc # "gone" /\ rpc' # "gone"
    BY LinkMoveSteps
  <1>1. CASE CloseRunner
    <2>1. ~runner_closed
      BY <1>1 DEF CloseRunner, QueueBase, PlacesOrder, LeaderInv, Draining, Finishing
    <2>2. Service!Stop
      BY <1>0, <1>1, <2>1 DEF CloseRunner, Service!Stop
    <2> QED
      BY <2>2 DEF Service!ServiceNext
  <1>2. CASE ~CloseRunner
    <2>1. runner_closed' = runner_closed
      <3>1. CASE \/ CreateNotified \/ ScanRank \/ CheckInput \/ Wake \/ ReleasePermit \/ EndComplete
                 \/ CompleteFollower \/ DrainNext \/ (\E usable \in BOOLEAN : IdleInput(usable))
        BY Zenon, <3>1 DEF CreateNotified, ScanRank, CheckInput, Wake, ReleasePermit, EndComplete,
                    CompleteFollower, DrainNext, IdleInput
      <3>2. CASE PopStrict \/ PopWeighted \/ DrainEntry \/ DiscardCandidate
        BY <3>2 DEF PopStrict, PopWeighted, DrainEntry, DiscardCandidate, TakeFront
      <3>3. CASE Admit \/ Follow \/ ReturnCandidate \/ EndCoalescing
        BY <3>3 DEF Admit, Follow, ReturnCandidate, EndCoalescing
      <3> QED
        BY <1>0, <1>2, <3>1, <3>2, <3>3 DEF Moves
    <2> QED
      BY <1>0, <2>1 DEF Service!serviceVars
  <1> QED
    BY <1>1, <1>2

(* LinkService counts arrivals as QueueSet counts tickets. *)
LEMMA SameCardinality == \A S : Service!Cardinality(S) = Cardinality(S)
  BY Zenon DEF Cardinality, Service!Cardinality

LEMMA OutsideIsArrival ==
    ASSUME QueueBase, UNCHANGED allVars \/ (\E j \in Job : Abandon(j) \/ Expire(j)) \/ LinkClients
    PROVE  [Service!ServiceNext]_(Service!serviceVars)
  <1>0. UNCHANGED <<answer, rpc>>
    BY Zenon, OutsideSteps
  <1>1. CASE UNCHANGED allVars \/ \E j \in Job : Abandon(j) \/ Expire(j)
    <2>1. UNCHANGED vars
      BY Zenon, <1>1 DEF allVars, Abandon, Expire
    <2>2. UNCHANGED <<ticket, runner_closed>>
      BY <2>1 DEF vars, slotVars
    <2> QED
      BY <1>0, <2>2 DEF Service!serviceVars
  <1>2. CASE LinkClients
    <2>1. Client
      BY <1>2 DEF LinkClients
    <2>2. runner_closed' = runner_closed
      BY <2>1, ClientPlacesOf
    <2>3. CASE ticket' = ticket
      BY <1>0, <2>2, <2>3 DEF Service!serviceVars
    <2>4. ASSUME NEW k \in Job, PushBack(k) PROVE Service!ServiceNext
      <3>1. ticket \in [Job -> Nat] /\ push[k] = "append"
        BY <2>4 DEF PushBack, Goto, QueueBase, TypeOK, SlotType
      <3>2. ticket[k] = 0
        BY <3>1 DEF QueueBase, PlacesOrder, TicketInv, Appended
      <3>3. Service!Cardinality({i \in Job : ticket[i] > 0}) = Cardinality({i \in Job : ticket[i] > 0})
        BY SameCardinality
      <3>4. ticket' = [ticket EXCEPT ![k] = 1 + Service!Cardinality({i \in Job : ticket[i] > 0})]
        BY Zenon, <2>4, <3>3 DEF PushBack
      <3>5. Service!Arrive(k)
        BY <1>0, <2>2, <3>2, <3>4 DEF Service!Arrive
      <3> QED
        BY <3>5 DEF Service!ServiceNext
    <2> QED
      BY <2>1, <2>3, <2>4, ClientPlacesOf
  <1> QED
    BY <1>1, <1>2

(* LinkClient, LinkRunner and QueueSet together do only what LinkService      *)
(* allows, for every number of queues, requests and followers: at most one    *)
(* result for a request, results in the order of its queue unless its caller  *)
(* gave up, nothing served once the runner is closed or lost, and with a lost *)
(* runner only the oldest requests of one queue.                              *)
THEOREM LinkImplementsService == LinkSpec => ImplementsService
  <1>1. LinkInit => Service!ServiceInit
    BY DEF LinkInit, Init, Service!ServiceInit
  <1>2. QueueBase /\ LinkInv /\ [LinkNext]_allVars => [Service!ServiceNext]_(Service!serviceVars)
    <2> SUFFICES ASSUME QueueBase, LinkInv, [LinkNext]_allVars
                 PROVE  [Service!ServiceNext]_(Service!serviceVars)
      OBVIOUS
    <2>0. PendingInv
      BY DEF LinkInv
    <2>1. CASE UNCHANGED allVars \/ (\E j \in Job : Abandon(j) \/ Expire(j)) \/ LinkClients
      BY <2>1, OutsideIsArrival
    <2>2. CASE LinkMoves
      BY <2>2, MovesAreStop
    <2>3. CASE LinkAnswers
      BY <2>0, <2>3, AnswersAreResults
    <2>4. CASE LinkDecrement /\ back = "serve"
      <3>1. UNCHANGED <<answer, ticket>> /\ rpc # "gone" /\ rpc' # "gone"
        BY <2>4, ServeSteps
      <3>2. UNCHANGED runner_closed
        BY <2>4 DEF LinkDecrement, Decrement
      <3> QED
        BY <3>1, <3>2 DEF Service!serviceVars
    <2>5. CASE LinkDropRunner
      BY <2>0, <2>5, DropIsLoss
    <2> QED
      BY <2>1, <2>2, <2>3, <2>4, <2>5, LinkSteps
  <1> QED
    BY <1>1, <1>2, LinkInvariants, PTL DEF LinkSpec, ImplementsService, Service!ServiceSpec
===============================================================================

---------------------------- MODULE ExchangeProofs ----------------------------
(***************************************************************************)
(* Proofs about the runner on the line (module Exchange), for every number   *)
(* of jobs and every retry policy: types, the end-to-end deadline, the bound *)
(* on transmissions, and what the drain after a response timeout guarantees  *)
(* about actions and late replies.                                           *)
(***************************************************************************)
EXTENDS Exchange, SequenceTheorems, FiniteSetTheorems, TLAPS

Active == {"send", "receive", "sleep"}
Result == [tag : Tag, from : 0 .. Jobs]

(* The constants of a retry policy are natural numbers. *)
LEMMA PolicyTypes ==
    /\ Jobs \in Nat
    /\ transport_retries \in Nat /\ busy_retries \in Nat /\ delayed_response_polls \in Nat
    /\ retry_delay \in Nat /\ late_response_guard \in Nat /\ MaxBursts \in Nat
    /\ response_timeout \in Nat \ {0} /\ total_timeout \in Nat \ {0} /\ Latency \in Nat \ {0}
    /\ Action \subseteq Job
    /\ Job \subseteq Nat
  BY JobsAssumption, PolicyAssumption DEF Job

(* The number of Burst frames in a sequence of frames is a natural number. *)
LEMMA BurstsInType ==
    ASSUME NEW S, NEW frames \in Seq(S)
    PROVE  BurstsIn(frames) \in Nat
  <1> DEFINE D == {i \in DOMAIN frames : frames[i].kind = "burst"}
  <1>1. DOMAIN frames = 1 .. Len(frames) /\ Len(frames) \in Nat
    BY LenProperties
  <1>2. IsFiniteSet(1 .. Len(frames))
    BY <1>1, FS_Interval
  <1>3. D \in SUBSET (1 .. Len(frames))
    BY <1>1
  <1>4. IsFiniteSet(D)
    BY <1>2, <1>3, FS_Subset
  <1> QED
    BY <1>4, FS_CardinalityType DEF BurstsIn

(* What the rest of the frames is, after n of them were handed over. *)
LEMMA RestOfInbox ==
    ASSUME NEW S, NEW q \in Seq(S), NEW m \in 1 .. Len(q), NEW n \in 1 .. m
    PROVE  /\ SubSeq(q, m + 1, Len(q)) \in Seq(S)
           /\ Len(SubSeq(q, m + 1, Len(q))) = Len(q) - m
           /\ \A i \in 1 .. Len(q) - m : SubSeq(q, m + 1, Len(q))[i] = q[m + i]
           /\ SubSeq(q, 1, n) \in Seq(S)
  <1>0. Len(q) \in Nat /\ \A i \in 1 .. Len(q) : q[i] \in S
    BY ElementOfSeq, LenProperties
  <1>1. \A i \in m + 1 .. Len(q) : q[i] \in S
    BY <1>0
  <1>2. \A i \in 1 .. n : q[i] \in S
    BY <1>0
  <1>3. m + 1 \in Int /\ Len(q) \in Int /\ n \in Int
    BY <1>0
  <1>4. /\ SubSeq(q, m + 1, Len(q)) \in Seq(S)
        /\ Len(SubSeq(q, m + 1, Len(q))) = IF m + 1 <= Len(q) THEN Len(q) - (m + 1) + 1 ELSE 0
        /\ \A i \in 1 .. Len(q) - (m + 1) + 1 : SubSeq(q, m + 1, Len(q))[i] = q[m + 1 + i - 1]
    BY <1>1, <1>3, SubSeqProperties
  <1>5. SubSeq(q, 1, n) \in Seq(S)
    BY <1>2, <1>3, SubSeqProperties
  <1> QED
    BY <1>0, <1>4, <1>5

-----------------------------------------------------------------------------
(* Types. *)

LEMMA ReturnType ==
    ASSUME TypeOK, job \in Job, NEW r \in Result, Return(r)
    PROVE  /\ pc' \in {"idle", "drain", "stopped"}
           /\ until' \in Nat
           /\ result' \in [Job -> Result]
  <1>1. result \in [Job -> Result]
    BY DEF TypeOK, Result
  <1>2. result' \in [Job -> Result]
    BY <1>1 DEF Return
  <1>3. until' \in Nat
    <2>1. until' = now + late_response_guard
      BY DEF Return
    <2> QED
      BY <2>1, PolicyTypes DEF TypeOK
  <1>4. pc' \in {"idle", "drain", "stopped"}
    BY DEF Return
  <1> QED
    BY <1>2, <1>3, <1>4

LEMMA ErrType == \A tag \in Tag : Err(tag) \in Result
  BY PolicyTypes DEF Err, Result

LEMMA AgainType ==
    ASSUME TypeOK, job \in Job, Again
    PROVE  /\ pc' \in {"idle", "drain", "stopped", "send"}
           /\ until' \in Nat
           /\ result' \in [Job -> Result]
  <1>1. CASE now >= deadline
    <2>1. Err("deadline") \in Result
      BY ErrType DEF Tag
    <2> QED
      BY <1>1, <2>1, ReturnType DEF Again
  <1>2. CASE ~(now >= deadline)
    BY <1>2, PolicyTypes DEF TypeOK, Again, Earlier, Result
  <1> QED
    BY <1>1, <1>2

LEMMA WaitType ==
    ASSUME TypeOK, job \in Job, wait_before_retry
    PROVE  /\ pc' \in {"idle", "drain", "stopped", "send", "sleep"}
           /\ until' \in Nat
           /\ result' \in [Job -> Result]
  <1>1. CASE retry_delay = 0
    BY <1>1, AgainType DEF wait_before_retry
  <1>2. CASE retry_delay # 0 /\ now + retry_delay >= deadline
    <2>1. Err("deadline") \in Result
      BY ErrType DEF Tag
    <2> QED
      BY <1>2, <2>1, ReturnType DEF wait_before_retry
  <1>3. CASE retry_delay # 0 /\ ~(now + retry_delay >= deadline)
    BY <1>3, PolicyTypes DEF TypeOK, wait_before_retry, Result
  <1> QED
    BY <1>1, <1>2, <1>3

LEMMA HandleReplyType ==
    ASSUME TypeOK, job \in Job, NEW f \in Frame, HandleReply(f)
    PROVE  /\ pc' \in {"idle", "drain", "stopped", "send", "sleep"}
           /\ until' \in Nat
           /\ result' \in [Job -> Result]
           /\ transport' \in Nat /\ busy' \in Nat /\ delayed' \in Nat
  <1>1. CASE f.code = "ok"
    <2>1. Ok(f) \in Result
      BY DEF Ok, Result, Tag, Frame
    <2> QED
      BY <1>1, <2>1, ReturnType DEF HandleReply, budget, TypeOK
  <1>2. CASE f.code = "busy"
    <2>1. Err("busy") \in Result
      BY ErrType DEF Tag
    <2>2. CASE busy >= busy_retries
      BY <1>2, <2>1, <2>2, ReturnType DEF HandleReply, TypeOK
    <2>3. CASE ~(busy >= busy_retries)
      BY <1>2, <2>3, WaitType DEF HandleReply, TypeOK
    <2> QED
      BY <2>2, <2>3
  <1>3. CASE f.code = "delayed"
    <2>1. Err("delayed") \in Result
      BY ErrType DEF Tag
    <2>2. CASE delayed >= delayed_response_polls
      BY Zenon, <1>3, <2>1, <2>2, ReturnType DEF HandleReply, TypeOK
    <2>3. CASE ~(delayed >= delayed_response_polls)
      BY <1>3, <2>3, WaitType DEF HandleReply, TypeOK
    <2> QED
      BY <2>2, <2>3
  <1> QED
    BY <1>1, <1>2, <1>3 DEF Frame, Code

LEMMA InitType == Init => TypeOK
  <1> SUFFICES ASSUME Init PROVE TypeOK
    OBVIOUS
  <1>1. inbox \in Seq(Frame) /\ air \in SUBSET Frame
    BY EmptySeq DEF Init
  <1>2. result \in [Job -> Result]
    BY PolicyTypes DEF Init, None, Tag, Result
  <1>3. sends \in [Job -> Nat] /\ executed \in [Job -> Nat]
    BY DEF Init
  <1>4. /\ now = 0 /\ pc = "idle" /\ job = 0 /\ deadline = 0 /\ until = 0
        /\ transport = 0 /\ busy = 0 /\ delayed = 0
        /\ published = 0 /\ read = 0
    BY DEF Init
  <1>5. unanswered \in BOOLEAN
    BY DEF Init
  <1> QED
    BY PolicyTypes, <1>1, <1>2, <1>3, <1>4, <1>5 DEF TypeOK, Result

LEMMA NextType == TypeOK /\ [Next]_vars => TypeOK'
  <1> SUFFICES ASSUME TypeOK, [Next]_vars PROVE TypeOK'
    OBVIOUS
  <1> USE PolicyTypes
  <1>1. CASE Arrive
    <2>1. PICK f \in air : /\ air' = air \ {f}
                          /\ inbox' = Append(inbox, f)
                          /\ UNCHANGED <<now, pc, job, deadline, until, budget, sends, result,
                                         executed, bursts, unanswered>>
      BY <1>1 DEF Arrive
    <2>2. air' \in SUBSET Frame /\ inbox' \in Seq(Frame)
      BY <2>1, AppendProperties DEF TypeOK
    <2> QED
      BY <2>1, <2>2 DEF TypeOK, budget, bursts
  <1>2. CASE SendBurst
    <2>1. Burst \in Frame
      BY DEF Burst, Frame, Code
    <2>2. inbox' \in Seq(Frame)
      BY <1>2, <2>1, AppendProperties DEF SendBurst, TypeOK
    <2> QED
      BY <1>2, <2>2 DEF SendBurst, TypeOK, budget, bursts
  <1>3. CASE Tick
    BY <1>3 DEF Tick, TypeOK, budget, line, bursts
  <1>4. CASE StartExchange
    <2>1. PICK left \in 1 .. total_timeout :
             deadline' = now + left /\ until' = now + Earlier(response_timeout, left)
      BY <1>4 DEF StartExchange
    <2>2. job' \in Job /\ job' \in 0 .. Jobs
      BY <1>4 DEF StartExchange, TypeOK, Job
    <2>3. deadline' \in Nat /\ until' \in Nat
      BY <2>1 DEF TypeOK, Earlier
    <2> QED
      BY <1>4, <2>2, <2>3 DEF StartExchange, TypeOK, line, bursts
  <1>n. CASE NothingToSend
    <2>1. job + 1 \in Job /\ job' = job + 1 /\ job' \in 0 .. Jobs
      BY <1>n DEF NothingToSend, TypeOK, Job
    <2>2. PICK tag \in {"deadline", "format"} : result' = [result EXCEPT ![job + 1] = Err(tag)]
      BY <1>n DEF NothingToSend
    <2>3. Err(tag) \in Result
      BY ErrType DEF Tag
    <2>4. result' \in [Job -> Result]
      BY <2>1, <2>2, <2>3 DEF TypeOK, Result
    <2> QED
      BY <1>n, <2>1, <2>4 DEF NothingToSend, TypeOK, Result, budget, line, bursts
  <1>5. CASE IdleFails
    BY <1>5 DEF IdleFails, TypeOK, budget, line, bursts
  <1>6. CASE EndSleep
    <2>1. job \in Job
      BY <1>6 DEF EndSleep, TypeOK
    <2>2. /\ pc' \in {"idle", "drain", "stopped", "send"}
          /\ until' \in Nat
          /\ result' \in [Job -> Result]
      BY <1>6, <2>1, AgainType DEF EndSleep
    <2> QED
      BY <1>6, <2>1, <2>2 DEF EndSleep, TypeOK, Result, budget, line, bursts
  <1>7. CASE SendOk
    <2>1. job \in Job
      BY <1>7 DEF SendOk, TypeOK
    <2>2. sends' \in [Job -> Nat]
      BY <1>7, <2>1 DEF SendOk, TypeOK
    <2>3. executed' \in [Job -> Nat] /\ air' \in SUBSET Frame
      <3>1. CASE UNCHANGED <<air, executed>>
        BY <3>1 DEF TypeOK
      <3>2. ASSUME NEW code \in Code,
                   executed' = [executed EXCEPT ![job] = IF code = "ok" THEN @ + 1 ELSE @],
                   \/ UNCHANGED air
                   \/ \E d \in 1 .. Latency :
                         air' = air \cup {Reply(job, sends[job], code, now + d)}
            PROVE  executed' \in [Job -> Nat] /\ air' \in SUBSET Frame
        <4>1. executed' \in [Job -> Nat]
          BY <3>2, <2>1 DEF TypeOK
        <4>2. ASSUME NEW d \in 1 .. Latency
              PROVE  Reply(job, sends[job], code, now + d) \in Frame
          BY <2>1 DEF Reply, Frame, TypeOK
        <4> QED
          BY <3>2, <4>1, <4>2 DEF TypeOK
      <3> QED
        BY <1>7, <3>1, <3>2 DEF SendOk, DeviceTakes
    <2> QED
      BY <1>7, <2>1, <2>2, <2>3 DEF SendOk, TypeOK, budget, bursts
  <1>8. CASE SendFails
    <2>1. job \in Job
      BY <1>8 DEF SendFails, TypeOK
    <2>2. Err("channel") \in Result /\ Err("send_timeout") \in Result
      BY ErrType DEF Tag
    <2>3. /\ pc' \in {"idle", "drain", "stopped"}
          /\ until' \in Nat
          /\ result' \in [Job -> Result]
      BY <1>8, <2>1, <2>2, ReturnType DEF SendFails
    <2>4. executed' \in [Job -> Nat]
      BY <1>8, <2>1 DEF SendFails, TypeOK
    <2> QED
      BY <1>8, <2>1, <2>3, <2>4 DEF SendFails, TypeOK, Result, budget, bursts
  <1>9. CASE Receive
    <2>0. PICK n \in 1 .. Len(inbox) : \E last \in 1 .. n :
             /\ pc = "receive"
             /\ \/ HandleReply(inbox[last]) /\ unanswered' = FALSE
                \/ UNCHANGED <<pc, until, result, budget, unanswered>>
             /\ inbox' = SubSeq(inbox, n + 1, Len(inbox))
             /\ published' = published + BurstsIn(SubSeq(inbox, 1, last))
             /\ read' = read + BurstsIn(SubSeq(inbox, 1, n))
             /\ UNCHANGED <<now, job, deadline, sends, air, executed>>
      BY <1>9 DEF Receive
    <2>1. PICK last \in 1 .. n :
             /\ pc = "receive"
             /\ \/ HandleReply(inbox[last]) /\ unanswered' = FALSE
                \/ UNCHANGED <<pc, until, result, budget, unanswered>>
             /\ inbox' = SubSeq(inbox, n + 1, Len(inbox))
             /\ published' = published + BurstsIn(SubSeq(inbox, 1, last))
             /\ read' = read + BurstsIn(SubSeq(inbox, 1, n))
             /\ UNCHANGED <<now, job, deadline, sends, air, executed>>
      BY <2>0
    <2>2. job \in Job
      BY <2>1 DEF TypeOK
    <2>3. inbox \in Seq(Frame) /\ Len(inbox) \in Nat /\ inbox[last] \in Frame
      BY ElementOfSeq, LenProperties DEF TypeOK
    <2>4. /\ inbox' \in Seq(Frame)
          /\ SubSeq(inbox, 1, last) \in Seq(Frame)
          /\ SubSeq(inbox, 1, n) \in Seq(Frame)
      BY <2>1, <2>3, RestOfInbox
    <2>5. published' \in Nat /\ read' \in Nat
      <3>1. BurstsIn(SubSeq(inbox, 1, last)) \in Nat /\ BurstsIn(SubSeq(inbox, 1, n)) \in Nat
        BY Zenon, <2>4, BurstsInType
      <3>2. /\ published' = published + BurstsIn(SubSeq(inbox, 1, last))
            /\ read' = read + BurstsIn(SubSeq(inbox, 1, n))
        BY <2>1
      <3> QED
        BY <3>1, <3>2 DEF TypeOK
    <2>6. CASE HandleReply(inbox[last]) /\ unanswered' = FALSE
      <3>1. /\ pc' \in {"idle", "drain", "stopped", "send", "sleep"}
            /\ until' \in Nat
            /\ result' \in [Job -> Result]
            /\ transport' \in Nat /\ busy' \in Nat /\ delayed' \in Nat
        BY <2>2, <2>3, <2>6, HandleReplyType
      <3> QED
        BY <2>1, <2>2, <2>4, <2>5, <2>6, <3>1 DEF TypeOK, Result
    <2>7. CASE UNCHANGED <<pc, until, result, budget, unanswered>>
      BY <2>1, <2>2, <2>4, <2>5, <2>7 DEF TypeOK, budget
    <2> QED
      BY <2>1, <2>6, <2>7
  <1>10. CASE ReceiveTimeout
    <2>1. job \in Job
      BY <1>10 DEF ReceiveTimeout, TypeOK
    <2>2. Err("response_timeout") \in Result
      BY ErrType DEF Tag
    <2>3. /\ pc' \in {"idle", "drain", "stopped", "send"}
          /\ until' \in Nat
          /\ result' \in [Job -> Result]
          /\ transport' \in Nat
      <3>1. CASE transport < transport_limit
        BY <1>10, <2>1, <3>1, AgainType DEF ReceiveTimeout, ResponseTimeout, TypeOK
      <3>2. CASE ~(transport < transport_limit)
        BY <1>10, <2>1, <2>2, <3>2, ReturnType DEF ReceiveTimeout, ResponseTimeout, TypeOK
      <3> QED
        BY <3>1, <3>2
    <2> QED
      BY <1>10, <2>1, <2>3
      DEF ReceiveTimeout, ResponseTimeout, TypeOK, Result, line, bursts
  <1>11. CASE ReceiveFails
    <2>1. job \in Job
      BY <1>11 DEF ReceiveFails, TypeOK
    <2>2. Err("channel") \in Result
      BY ErrType DEF Tag
    <2>3. /\ pc' \in {"idle", "drain", "stopped"}
          /\ until' \in Nat
          /\ result' \in [Job -> Result]
      BY <1>11, <2>1, <2>2, ReturnType DEF ReceiveFails
    <2> QED
      BY <1>11, <2>1, <2>3 DEF ReceiveFails, TypeOK, Result, budget, line, bursts
  <1>12. CASE ReceiveIdle
    <2>1. PICK n \in 1 .. Len(inbox) :
             /\ inbox' = SubSeq(inbox, n + 1, Len(inbox))
             /\ published' = published + BurstsIn(SubSeq(inbox, 1, n))
             /\ read' = read + BurstsIn(SubSeq(inbox, 1, n))
             /\ UNCHANGED <<now, pc, job, deadline, until, budget, sends, result, air,
                            executed, unanswered>>
      BY <1>12 DEF ReceiveIdle
    <2>2. inbox \in Seq(Frame) /\ Len(inbox) \in Nat /\ n \in 1 .. n
      BY LenProperties DEF TypeOK
    <2>3. inbox' \in Seq(Frame) /\ SubSeq(inbox, 1, n) \in Seq(Frame)
      BY <2>1, <2>2, RestOfInbox
    <2>4. published' \in Nat /\ read' \in Nat
      <3>1. BurstsIn(SubSeq(inbox, 1, n)) \in Nat
        BY Zenon, <2>3, BurstsInType
      <3> QED
        BY <2>1, <3>1 DEF TypeOK
    <2> QED
      BY <2>1, <2>3, <2>4 DEF TypeOK, budget
  <1>13. CASE EndDrain
    BY Zenon, <1>13 DEF EndDrain, TypeOK, budget, line, bursts
  <1>14. CASE UNCHANGED vars
    BY <1>14 DEF TypeOK, vars, budget, line, bursts
  <1> QED
    BY <1>1, <1>2, <1>3, <1>4, <1>n, <1>5, <1>6, <1>7, <1>8, <1>9, <1>10, <1>11, <1>12, <1>13, <1>14
    DEF Next, RunnerStep

(* Every variable of the runner and of the line keeps its type.  *)
THEOREM TypeCorrect == Spec => []TypeOK
  BY InitType, NextType, PTL DEF Spec

-----------------------------------------------------------------------------
(* The deadline and the budgets. *)

(* A wait never reaches beyond the deadline of the job. *)
WaitInv == pc \in Active => now <= until /\ until <= deadline

(* A job before its turn has not been sent.  During an exchange every        *)
(* transmission but the one in progress has been paid for by a budget.       *)
BudgetInv ==
    /\ BudgetsBoundSends
    /\ \A k \in Job : k > job => sends[k] = 0
    /\ pc \in Active =>
         /\ transport <= transport_limit
         /\ busy <= busy_retries
         /\ delayed <= delayed_response_polls
         /\ sends[job] = transport + busy + delayed + (IF pc = "receive" THEN 1 ELSE 0)

LEMMA LimitType == transport_limit \in Nat
  BY PolicyTypes DEF transport_limit

LEMMA ReturnEnds == ASSUME NEW r, Return(r) PROVE pc' \notin Active
  BY DEF Return, Active

(* The loop goes on only before the deadline, and no further than to it. *)
LEMMA AgainWaits ==
    ASSUME TypeOK, Again, pc' \in Active
    PROVE  pc' = "send" /\ now <= until' /\ until' <= deadline
  <1>1. ~(now >= deadline)
    BY ReturnEnds DEF Again
  <1> QED
    BY <1>1, PolicyTypes DEF Again, Earlier, TypeOK

LEMMA WaitWaits ==
    ASSUME TypeOK, wait_before_retry, pc' \in Active
    PROVE  pc' \in {"send", "sleep"} /\ now <= until' /\ until' <= deadline
  <1>1. CASE retry_delay = 0
    BY <1>1, AgainWaits DEF wait_before_retry
  <1>2. CASE retry_delay # 0
    <2>1. ~(now + retry_delay >= deadline)
      BY <1>2, ReturnEnds DEF wait_before_retry
    <2> QED
      BY <1>2, <2>1, PolicyTypes DEF wait_before_retry, TypeOK
  <1> QED
    BY <1>1, <1>2

(* A reply that does not end the exchange costs one unit of one budget. *)
LEMMA ReplyCosts ==
    ASSUME TypeOK, NEW f \in Frame, HandleReply(f), pc' \in Active
    PROVE  /\ pc' \in {"send", "sleep"} /\ now <= until' /\ until' <= deadline
           /\ transport' = transport
           /\ \/ busy < busy_retries /\ busy' = busy + 1 /\ delayed' = delayed
              \/ delayed < delayed_response_polls /\ delayed' = delayed + 1 /\ busy' = busy
  <1>1. f.code # "ok"
    BY ReturnEnds DEF HandleReply
  <1>2. CASE f.code = "busy"
    <2>1. ~(busy >= busy_retries)
      BY <1>2, ReturnEnds DEF HandleReply
    <2>2. wait_before_retry /\ busy' = busy + 1 /\ UNCHANGED <<transport, delayed>>
      BY <1>2, <2>1 DEF HandleReply
    <2> QED
      BY <2>1, <2>2, WaitWaits, PolicyTypes DEF TypeOK
  <1>3. CASE f.code = "delayed"
    <2>1. ~(delayed >= delayed_response_polls)
      BY <1>3, ReturnEnds DEF HandleReply
    <2>2. wait_before_retry /\ delayed' = delayed + 1 /\ UNCHANGED <<transport, busy>>
      BY <1>3, <2>1 DEF HandleReply
    <2> QED
      BY <2>1, <2>2, WaitWaits, PolicyTypes DEF TypeOK
  <1> QED
    BY <1>1, <1>2, <1>3 DEF Frame, Code

(* An attempt that times out and is repeated costs one transport retry. *)
LEMMA TimeoutCosts ==
    ASSUME TypeOK, ResponseTimeout, pc' \in Active
    PROVE  /\ pc' = "send" /\ now <= until' /\ until' <= deadline
           /\ transport < transport_limit /\ transport' = transport + 1
           /\ busy' = busy /\ delayed' = delayed
  <1>1. transport < transport_limit
    BY ReturnEnds DEF ResponseTimeout
  <1> QED
    BY <1>1, AgainWaits DEF ResponseTimeout

(* What one call of receive does to the runner. *)
LEMMA ReceiveStep ==
    ASSUME TypeOK, Receive
    PROVE  /\ pc = "receive"
           /\ UNCHANGED <<now, job, deadline, sends, air, executed>>
           /\ \/ UNCHANGED <<pc, until, result, budget>>
              \/ \E f \in Frame : HandleReply(f)
  <1>1. ASSUME NEW n \in 1 .. Len(inbox), NEW last \in 1 .. n PROVE inbox[last] \in Frame
    BY <1>1, ElementOfSeq, LenProperties DEF TypeOK
  <1> QED
    BY <1>1 DEF Receive

LEMMA NextWaits == TypeOK /\ WaitInv /\ [Next]_vars => WaitInv'
  <1> SUFFICES ASSUME TypeOK, WaitInv, [Next]_vars, pc' \in Active
               PROVE  (now <= until /\ until <= deadline)'
    BY DEF WaitInv
  <1>1. CASE Tick
    BY <1>1 DEF Tick, WaitInv, TypeOK, Active
  <1>2. CASE StartExchange
    <2>1. PICK left \in 1 .. total_timeout :
             deadline' = now + left /\ until' = now + Earlier(response_timeout, left)
      BY <1>2 DEF StartExchange
    <2>2. now' = now
      BY <1>2 DEF StartExchange
    <2> QED
      BY <2>1, <2>2, PolicyTypes DEF Earlier, TypeOK
  <1>n. CASE NothingToSend
    BY <1>n DEF NothingToSend, Active
  <1>3. CASE EndSleep
    BY <1>3, AgainWaits DEF EndSleep
  <1>4. CASE SendOk
    BY <1>4 DEF SendOk, WaitInv, Active
  <1>5. CASE SendFails \/ ReceiveFails
    BY <1>5, ReturnEnds DEF SendFails, ReceiveFails
  <1>6. CASE Receive
    <2>1. CASE UNCHANGED <<pc, until, result, budget>>
      BY <1>6, <2>1, ReceiveStep DEF WaitInv
    <2>2. ASSUME NEW f \in Frame, HandleReply(f)
          PROVE  (now <= until /\ until <= deadline)'
      BY <1>6, <2>2, ReceiveStep, ReplyCosts
    <2> QED
      BY <1>6, <2>1, <2>2, ReceiveStep
  <1>7. CASE ReceiveTimeout
    BY <1>7, TimeoutCosts DEF ReceiveTimeout
  <1>8. CASE Arrive \/ SendBurst \/ ReceiveIdle \/ UNCHANGED vars
    BY <1>8 DEF Arrive, SendBurst, ReceiveIdle, vars, WaitInv
  <1>9. CASE IdleFails \/ EndDrain
    BY <1>9 DEF IdleFails, EndDrain, Active
  <1> QED
    BY <1>1, <1>2, <1>n, <1>3, <1>4, <1>5, <1>6, <1>7, <1>8, <1>9 DEF Next, RunnerStep

(* "retries cannot silently extend it": no send, receive or retry delay of   *)
(* an exchange lasts beyond the end-to-end deadline of its job, whatever the *)
(* retry policy (exchange, exchange_once, wait_before_retry).                *)
THEOREM DeadlineIsKept == Spec => []DeadlineKept
  <1>1. Init => WaitInv
    BY DEF Init, WaitInv, Active
  <1>2. TypeOK /\ WaitInv => DeadlineKept
    BY DEF TypeOK, WaitInv, DeadlineKept, Active
  <1> QED
    BY <1>1, <1>2, InitType, NextType, NextWaits, PTL DEF Spec

LEMMA NextBudgets == TypeOK /\ BudgetInv /\ [Next]_vars => BudgetInv'
  <1> SUFFICES ASSUME TypeOK, BudgetInv, [Next]_vars PROVE BudgetInv'
    OBVIOUS
  <1> USE PolicyTypes, LimitType
  <1>t. TypeOK'
    BY NextType
  <1>a. ASSUME job' = job, sends' = sends, pc' \notin Active PROVE BudgetInv'
    BY <1>a DEF BudgetInv, BudgetsBoundSends
  <1>b. ASSUME job' = job, sends' = sends, pc' \in Active, pc \in Active,
               pc' = "receive" <=> pc = "receive", UNCHANGED budget
        PROVE  BudgetInv'
    BY <1>b DEF BudgetInv, BudgetsBoundSends, budget, transport_limit
  <1>c. ASSUME job' = job, sends' = sends, pc = "receive", pc' \in {"send", "sleep"},
               transport' + busy' + delayed' = transport + busy + delayed + 1,
               transport' <= transport_limit, busy' <= busy_retries,
               delayed' <= delayed_response_polls
        PROVE  BudgetInv'
    <2>1. sends[job] = transport + busy + delayed + 1
      BY <1>c DEF BudgetInv, Active
    <2>2. transport' \in Nat /\ busy' \in Nat /\ delayed' \in Nat
      BY <1>t DEF TypeOK
    <2>3. transport_limit' = transport_limit
      BY <1>c DEF transport_limit
    <2>4. sends'[job'] = transport' + busy' + delayed' + (IF pc' = "receive" THEN 1 ELSE 0)
      BY <1>c, <2>1, <2>2
    <2>5. BudgetsBoundSends' /\ \A k \in Job : k > job' => sends'[k] = 0
      BY <1>c DEF BudgetInv, BudgetsBoundSends
    <2> QED
      BY <1>c, <2>3, <2>4, <2>5 DEF BudgetInv
  <1>1. CASE Tick \/ Arrive \/ SendBurst \/ ReceiveIdle \/ UNCHANGED vars
    BY <1>1, <1>a, <1>b DEF Tick, Arrive, SendBurst, ReceiveIdle, vars
  <1>2. CASE StartExchange
    <2>1. job' = job + 1 /\ job' \in Job /\ sends' = sends /\ pc' = "send"
          /\ transport' = 0 /\ busy' = 0 /\ delayed' = 0
      BY <1>2 DEF StartExchange, TypeOK, Job
    <2>2. sends[job'] = 0
      BY <2>1 DEF BudgetInv, TypeOK
    <2> QED
      BY <2>1, <2>2 DEF BudgetInv, BudgetsBoundSends, TypeOK, transport_limit
  <1>n. CASE NothingToSend
    <2>1. job' = job + 1 /\ sends' = sends /\ pc' \notin Active
      BY <1>n DEF NothingToSend, Active
    <2> QED
      BY <2>1 DEF BudgetInv, BudgetsBoundSends, TypeOK
  <1>3. CASE EndSleep
    <2>1. CASE pc' \in Active
      BY <1>3, <2>1, <1>b, AgainWaits DEF EndSleep, Active
    <2> QED
      BY <1>3, <2>1, <1>a DEF EndSleep
  <1>4. CASE SendOk
    <2>1. job \in Job /\ job' = job /\ pc = "send" /\ pc' = "receive" /\ UNCHANGED budget
          /\ sends' = [sends EXCEPT ![job] = @ + 1]
      BY <1>4 DEF SendOk, TypeOK
    <2>2. sends'[job] = sends[job] + 1 /\ \A k \in Job \ {job} : sends'[k] = sends[k]
      BY <2>1 DEF TypeOK
    <2>3. /\ transport <= transport_limit /\ busy <= busy_retries
          /\ delayed <= delayed_response_polls
          /\ sends[job] = transport + busy + delayed
      BY <2>1 DEF BudgetInv, Active, TypeOK
    <2>4. sends'[job] <= 1 + (IF job \in Action THEN 0 ELSE transport_retries)
                           + busy_retries + delayed_response_polls
      BY <2>1, <2>2, <2>3 DEF TypeOK, transport_limit
    <2>5. BudgetsBoundSends'
      BY <2>2, <2>4 DEF BudgetInv, BudgetsBoundSends
    <2>6. \A k \in Job : k > job => sends'[k] = 0
      BY <2>1, <2>2 DEF BudgetInv, TypeOK
    <2> QED
      BY <2>1, <2>2, <2>3, <2>5, <2>6 DEF BudgetInv, budget, TypeOK, transport_limit
  <1>5. CASE SendFails \/ ReceiveFails
    BY <1>5, <1>a, ReturnEnds DEF SendFails, ReceiveFails
  <1>6. CASE Receive
    <2>1. pc = "receive" /\ job' = job /\ sends' = sends
      BY <1>6, ReceiveStep
    <2>2. CASE UNCHANGED <<pc, until, result, budget>>
      BY <2>1, <2>2, <1>b DEF Active
    <2>3. ASSUME NEW f \in Frame, HandleReply(f), pc' \in Active
          PROVE  BudgetInv'
      <3>1. /\ pc' \in {"send", "sleep"} /\ transport' = transport
            /\ \/ busy < busy_retries /\ busy' = busy + 1 /\ delayed' = delayed
               \/ delayed < delayed_response_polls /\ delayed' = delayed + 1 /\ busy' = busy
        BY <2>3, ReplyCosts
      <3>2. /\ transport <= transport_limit /\ busy <= busy_retries
            /\ delayed <= delayed_response_polls
        BY <2>1 DEF BudgetInv, Active
      <3>3. /\ transport' + busy' + delayed' = transport + busy + delayed + 1
            /\ transport' <= transport_limit /\ busy' <= busy_retries
            /\ delayed' <= delayed_response_polls
        <4>1. transport \in Nat /\ busy \in Nat /\ delayed \in Nat
          BY DEF TypeOK
        <4>2. CASE busy < busy_retries /\ busy' = busy + 1 /\ delayed' = delayed
          BY <3>1, <3>2, <4>1, <4>2
        <4>3. CASE delayed < delayed_response_polls /\ delayed' = delayed + 1 /\ busy' = busy
          BY <3>1, <3>2, <4>1, <4>3
        <4> QED
          BY <3>1, <4>2, <4>3
      <3> QED
        BY <2>1, <3>1, <3>3, <1>c
    <2> QED
      BY <1>6, <2>1, <2>2, <2>3, <1>a, ReceiveStep
  <1>7. CASE ReceiveTimeout
    <2>1. pc = "receive" /\ job' = job /\ sends' = sends /\ ResponseTimeout
      BY <1>7 DEF ReceiveTimeout
    <2>2. CASE pc' \in Active
      <3>1. /\ pc' = "send" /\ transport < transport_limit /\ transport' = transport + 1
            /\ busy' = busy /\ delayed' = delayed
        BY <2>1, <2>2, TimeoutCosts
      <3>2. busy <= busy_retries /\ delayed <= delayed_response_polls
        BY <2>1 DEF BudgetInv, Active
      <3>3. transport' + busy' + delayed' = transport + busy + delayed + 1
            /\ transport' <= transport_limit
        <4>1. transport \in Nat /\ busy \in Nat /\ delayed \in Nat
          BY DEF TypeOK
        <4> QED
          BY <3>1, <4>1
      <3> QED
        BY <2>1, <3>1, <3>2, <3>3, <1>c
    <2> QED
      BY <2>1, <2>2, <1>a
  <1>8. CASE IdleFails \/ EndDrain
    BY <1>8, <1>a DEF IdleFails, EndDrain, Active
  <1> QED
    BY <1>1, <1>2, <1>n, <1>3, <1>4, <1>5, <1>6, <1>7, <1>8 DEF Next, RunnerStep

(* A request is transmitted once, plus once per unit of the budgets that its *)
(* policy and its safety class allow, and never more (exchange).             *)
THEOREM BudgetsAreKept == Spec => []BudgetsBoundSends
  <1>1. Init => BudgetInv
    BY PolicyTypes DEF Init, BudgetInv, BudgetsBoundSends, Active
  <1>2. BudgetInv => BudgetsBoundSends
    BY DEF BudgetInv
  <1> QED
    BY <1>1, <1>2, InitType, NextType, NextBudgets, PTL DEF Spec

-----------------------------------------------------------------------------
(* Actions and late replies on the line. *)

(* Replies that wait in a sequence of frames. *)
Replies(frames) == {i \in DOMAIN frames : frames[i].kind = "reply"}

(* Before a transmission the line holds no reply.  While its answer is       *)
(* awaited there is at most one reply, to this very job, and one that asks   *)
(* for a repetition comes from a device that has not carried the job out.    *)
(* During the drain every reply is due before the end of the drain.          *)
LineInv ==
    /\ \A f \in air : f.kind = "reply" /\ now <= f.due
    /\ pc \in {"idle", "send", "sleep"} => air = {} /\ Replies(inbox) = {}
    /\ pc = "receive" =>
         /\ \A f \in air : f.job = job /\ (f.code # "ok" => executed[job] = 0)
         /\ \A i \in Replies(inbox) :
              inbox[i].job = job /\ (inbox[i].code # "ok" => executed[job] = 0)
         /\ \A f \in air : f.due <= now + Latency
         /\ \A f, g \in air : f = g
         /\ \A i, k \in Replies(inbox) : i = k
         /\ air = {} \/ Replies(inbox) = {}
    /\ pc = "drain" => \A f \in air : f.due < until
    /\ pc \in {"send", "sleep"} => executed[job] = 0
    /\ \A k \in Job : executed[k] <= 1 /\ (k > job => executed[k] = 0)
    /\ \A k \in Job : result[k].tag = "ok" => result[k].from = k

(* The replies in a sequence after appending a frame, and in a suffix. *)
LEMMA RepliesAppend ==
    ASSUME NEW q \in Seq(Frame), NEW f \in Frame
    PROVE  /\ f.kind # "reply" => Replies(Append(q, f)) = Replies(q)
           /\ f.kind = "reply" => Replies(Append(q, f)) = Replies(q) \cup {Len(q) + 1}
           /\ \A i \in Replies(q) : Append(q, f)[i] = q[i]
           /\ Append(q, f)[Len(q) + 1] = f
  <1>1. /\ Append(q, f) \in Seq(Frame)
        /\ Len(Append(q, f)) = Len(q) + 1
        /\ \A i \in 1 .. Len(q) : Append(q, f)[i] = q[i]
        /\ Append(q, f)[Len(q) + 1] = f
    BY AppendProperties
  <1>2. /\ DOMAIN q = 1 .. Len(q) /\ Len(q) \in Nat
        /\ DOMAIN Append(q, f) = 1 .. Len(q) + 1
    BY <1>1, LenProperties
  <1> QED
    BY <1>1, <1>2 DEF Replies

LEMMA RepliesRest ==
    ASSUME NEW q \in Seq(Frame), NEW n \in 1 .. Len(q)
    PROVE  \A i \in Replies(SubSeq(q, n + 1, Len(q))) :
             n + i \in Replies(q) /\ SubSeq(q, n + 1, Len(q))[i] = q[n + i]
  <1> DEFINE r == SubSeq(q, n + 1, Len(q))
  <1>1. /\ r \in Seq(Frame)
        /\ Len(r) = Len(q) - n
        /\ \A i \in 1 .. Len(q) - n : r[i] = q[n + i]
    <2>1. n \in 1 .. n
      BY LenProperties
    <2> QED
      BY <2>1, RestOfInbox
  <1>2. DOMAIN q = 1 .. Len(q) /\ Len(q) \in Nat /\ DOMAIN r = 1 .. Len(r)
    BY <1>1, LenProperties
  <1> HIDE DEF r
  <1>3. \A i \in Replies(r) : n + i \in Replies(q) /\ r[i] = q[n + i]
    BY <1>1, <1>2 DEF Replies
  <1> QED
    BY <1>3 DEF r

(* exchange hands nothing but a matching reply out as a success. *)
LEMMA ErrResult ==
    ASSUME TypeOK, job \in Job, NEW r \in Result, Return(r), r.tag = "ok" => r.from = job,
           \A k \in Job : result[k].tag = "ok" => result[k].from = k
    PROVE  \A k \in Job : result'[k].tag = "ok" => result'[k].from = k
  <1>1. result' = [result EXCEPT ![job] = r]
    BY DEF Return
  <1>2. result'[job] = r /\ \A k \in Job \ {job} : result'[k] = result[k]
    BY <1>1 DEF TypeOK
  <1> QED
    BY <1>2

LEMMA ErrTags ==
    \A tag \in Tag \ {"ok"} : Err(tag) \in Result /\ Err(tag).tag # "ok" /\ Err(tag).tag = tag
  BY PolicyTypes DEF Err, Result

LEMMA AgainResult ==
    ASSUME TypeOK, job \in Job, Again,
           \A k \in Job : result[k].tag = "ok" => result[k].from = k
    PROVE  \A k \in Job : result'[k].tag = "ok" => result'[k].from = k
  <1>1. Err("deadline") \in Result /\ Err("deadline").tag # "ok"
    BY ErrTags DEF Tag
  <1>2. CASE now >= deadline
    BY <1>1, <1>2, ErrResult DEF Again
  <1>3. CASE ~(now >= deadline)
    BY <1>3 DEF Again
  <1> QED
    BY <1>2, <1>3

LEMMA HandleReplyResult ==
    ASSUME TypeOK, job \in Job, NEW f \in Frame, HandleReply(f), f.job = job,
           \A k \in Job : result[k].tag = "ok" => result[k].from = k
    PROVE  \A k \in Job : result'[k].tag = "ok" => result'[k].from = k
  <1>1. /\ Ok(f) \in Result /\ Ok(f).from = job
        /\ Err("busy") \in Result /\ Err("busy").tag # "ok"
        /\ Err("delayed") \in Result /\ Err("delayed").tag # "ok"
        /\ Err("deadline") \in Result /\ Err("deadline").tag # "ok"
    BY ErrTags DEF Ok, Result, Tag, Frame
  <1>2. ASSUME wait_before_retry
        PROVE  \A k \in Job : result'[k].tag = "ok" => result'[k].from = k
    <2>1. CASE retry_delay = 0
      BY <1>2, <2>1, AgainResult DEF wait_before_retry
    <2>2. CASE retry_delay # 0 /\ now + retry_delay >= deadline
      BY <1>1, <1>2, <2>2, ErrResult DEF wait_before_retry
    <2>3. CASE retry_delay # 0 /\ ~(now + retry_delay >= deadline)
      BY <1>2, <2>3 DEF wait_before_retry
    <2> QED
      BY <2>1, <2>2, <2>3
  <1>3. CASE f.code = "ok"
    BY <1>1, <1>3, ErrResult DEF HandleReply
  <1>4. CASE f.code = "busy"
    BY <1>1, <1>2, <1>4, ErrResult DEF HandleReply
  <1>5. CASE f.code = "delayed"
    BY <1>1, <1>2, <1>5, ErrResult DEF HandleReply
  <1> QED
    BY <1>3, <1>4, <1>5 DEF Frame, Code

LEMMA NextLine ==
    ASSUME Action = Job, late_response_guard > Latency
    PROVE  TypeOK /\ LineInv /\ [Next]_vars => LineInv'
  <1> SUFFICES ASSUME TypeOK, LineInv, [Next]_vars PROVE LineInv'
    OBVIOUS
  <1> USE PolicyTypes
  <1>t. TypeOK'
    BY NextType
  (* An exchange ends, or goes on after a reply, with nothing left on the    *)
  (* line.                                                                   *)
  <1>a. ASSUME pc' \notin {"receive"}, air = {}, air' = air, Replies(inbox') = {},
               job' = job, executed' = executed, pc' \in {"send", "sleep"} => executed[job] = 0,
               \A k \in Job : result'[k].tag = "ok" => result'[k].from = k
        PROVE  LineInv'
    BY <1>a DEF LineInv
  <1>1. CASE Arrive
    <2>1. PICK f \in air : /\ f.due = now
                          /\ air' = air \ {f}
                          /\ inbox' = Append(inbox, f)
                          /\ UNCHANGED <<now, pc, job, until, result, executed>>
      BY <1>1 DEF Arrive
    <2>2. pc \notin {"idle", "send", "sleep"} /\ f \in Frame /\ inbox \in Seq(Frame)
      BY <2>1 DEF LineInv, TypeOK
    <2>3. f.kind = "reply"
      BY <2>1 DEF LineInv
    <2>4. /\ Replies(inbox') = Replies(inbox) \cup {Len(inbox) + 1}
          /\ \A i \in Replies(inbox) : inbox'[i] = inbox[i]
          /\ inbox'[Len(inbox) + 1] = f
      BY <2>1, <2>2, <2>3, RepliesAppend
    <2>5. CASE pc = "receive"
      <3>1. Replies(inbox') = {Len(inbox) + 1} /\ air' = {}
        BY <2>1, <2>4, <2>5 DEF LineInv
      <3> QED
        BY <2>1, <2>4, <2>5, <3>1 DEF LineInv
    <2>6. CASE pc # "receive"
      BY Zenon, <2>1, <2>2, <2>6 DEF LineInv
    <2> QED
      BY <2>5, <2>6
  <1>2. CASE SendBurst
    <2>1. Burst \in Frame /\ Burst.kind # "reply"
      BY DEF Burst, Frame, Code
    <2>2. inbox \in Seq(Frame) /\ inbox' = Append(inbox, Burst)
      BY <1>2 DEF SendBurst, TypeOK
    <2>3. Replies(inbox') = Replies(inbox) /\ \A i \in Replies(inbox) : inbox'[i] = inbox[i]
      BY Zenon, <2>1, <2>2, RepliesAppend
    <2> QED
      BY <1>2, <2>3 DEF SendBurst, LineInv
  <1>3. CASE Tick
    <2>1. \A f \in air : f.due > now /\ f.due \in Nat
      BY <1>3 DEF Tick, TypeOK, Frame
    <2>2. now' = now + 1 /\ UNCHANGED <<pc, job, until, result, air, inbox, executed>>
      BY <1>3 DEF Tick, line
    <2>3. \A f \in air : now' <= f.due /\ (f.due <= now + Latency => f.due <= now' + Latency)
      BY <2>1, <2>2 DEF TypeOK
    <2> QED
      BY <2>2, <2>3 DEF LineInv
  <1>4. CASE StartExchange
    <2>1. /\ pc = "idle" /\ pc' = "send" /\ job' = job + 1 /\ job' \in Job
          /\ UNCHANGED <<now, result, air, inbox, executed>>
      BY <1>4 DEF StartExchange, line, TypeOK, Job
    <2>2. executed[job'] = 0 /\ \A k \in Job : k > job' => executed[k] = 0
      BY <2>1 DEF LineInv, TypeOK
    <2> QED
      BY <2>1, <2>2 DEF LineInv
  <1>n. CASE NothingToSend
    <2>1. /\ pc = "idle" /\ pc' = "idle" /\ job' = job + 1 /\ job + 1 \in Job
          /\ UNCHANGED <<now, until, air, inbox, executed>>
      BY <1>n DEF NothingToSend, line, TypeOK, Job
    <2>2. PICK tag \in {"deadline", "format"} : result' = [result EXCEPT ![job + 1] = Err(tag)]
      BY <1>n DEF NothingToSend
    <2>3. \A k \in Job : result'[k].tag = "ok" => result'[k].from = k
      <3>1. Err(tag).tag # "ok"
        BY DEF Err
      <3> QED
        BY <2>1, <2>2, <3>1 DEF LineInv, TypeOK
    <2>4. executed[job + 1] = 0 /\ \A k \in Job : k > job + 1 => executed[k] = 0
      BY <2>1 DEF LineInv, TypeOK
    <2> QED
      BY <2>1, <2>3, <2>4 DEF LineInv
  <1>5. CASE IdleFails
    BY Zenon, <1>5 DEF IdleFails, line, LineInv
  <1>6. CASE EndSleep
    <2>1. /\ pc = "sleep" /\ job \in Job /\ air = {} /\ Replies(inbox) = {} /\ executed[job] = 0
          /\ UNCHANGED <<now, job, air, inbox, executed>>
      BY <1>6 DEF EndSleep, LineInv, TypeOK, line
    <2>2. \A k \in Job : result'[k].tag = "ok" => result'[k].from = k
      BY <1>6, <2>1, AgainResult DEF EndSleep, LineInv
    <2>3. pc' # "receive"
      BY <1>6, <2>1, AgainType DEF EndSleep
    <2> QED
      BY <2>1, <2>2, <2>3, <1>a
  <1>7. CASE SendOk
    <2>1. /\ pc = "send" /\ pc' = "receive" /\ job \in Job
          /\ air = {} /\ Replies(inbox) = {} /\ executed[job] = 0
          /\ UNCHANGED <<now, job, result, inbox>>
      BY <1>7 DEF SendOk, LineInv, TypeOK
    <2>2. CASE UNCHANGED <<air, executed>>
      BY <2>1, <2>2 DEF LineInv
    <2>3. ASSUME NEW code \in Code,
                 executed' = [executed EXCEPT ![job] = IF code = "ok" THEN @ + 1 ELSE @],
                 \/ UNCHANGED air
                 \/ \E d \in 1 .. Latency :
                       air' = air \cup {Reply(job, sends[job], code, now + d)}
          PROVE  LineInv'
      <3>1. /\ executed'[job] = (IF code = "ok" THEN 1 ELSE 0)
            /\ \A k \in Job \ {job} : executed'[k] = executed[k]
        BY <2>1, <2>3 DEF TypeOK
      <3>2. \A k \in Job : executed'[k] <= 1 /\ (k > job => executed'[k] = 0)
        BY <2>1, <3>1 DEF LineInv, TypeOK
      <3>3. \A f \in air' : /\ f.kind = "reply" /\ f.job = job /\ f.code = code
                            /\ now <= f.due /\ f.due <= now + Latency
        <4>1. ASSUME NEW d \in 1 .. Latency, NEW n
              PROVE  LET f == Reply(job, n, code, now + d)
                     IN  /\ f.kind = "reply" /\ f.job = job /\ f.code = code
                         /\ now <= f.due /\ f.due <= now + Latency
          BY DEF Reply, TypeOK
        <4> QED
          BY <2>1, <2>3, <4>1
      <3>4. \A f, g \in air' : f = g
        BY <2>1, <2>3
      <3> QED
        BY <2>1, <3>1, <3>2, <3>3, <3>4 DEF LineInv
    <2> QED
      BY <1>7, <2>2, <2>3 DEF SendOk, DeviceTakes
  <1>8. CASE SendFails \/ ReceiveFails
    <2>1. job \in Job
      BY <1>8 DEF SendFails, ReceiveFails, TypeOK
    <2>2. PICK tag \in {"channel", "send_timeout"} : Return(Err(tag))
      BY <1>8 DEF SendFails, ReceiveFails
    <2>3. Err(tag) \in Result /\ Err(tag).tag = tag /\ tag # "ok" /\ tag # "response_timeout"
      BY ErrTags DEF Tag
    <2>4. pc' = "stopped"
      BY <2>2, <2>3 DEF Return
    <2>5. \A k \in Job : result'[k].tag = "ok" => result'[k].from = k
      BY Zenon, <2>1, <2>2, <2>3, ErrResult DEF LineInv
    <2>6. \A k \in Job : executed'[k] <= 1 /\ (k > job => executed'[k] = 0)
      <3>1. CASE executed' = executed
        BY Zenon, <3>1 DEF LineInv
      <3>2. CASE executed' # executed
        <4>1. pc = "send" /\ executed' = [executed EXCEPT ![job] = @ + 1]
          BY <1>8, <3>2 DEF SendFails, ReceiveFails, line
        <4>2. executed[job] = 0
          BY <4>1 DEF LineInv
        <4> QED
          BY <2>1, <4>1, <4>2 DEF LineInv, TypeOK
      <3> QED
        BY <3>1, <3>2
    <2> QED
      BY <1>8, <2>4, <2>5, <2>6 DEF SendFails, ReceiveFails, line, LineInv
  <1>9. CASE Receive
    <2>0. PICK n \in 1 .. Len(inbox) : \E last \in 1 .. n :
             /\ pc = "receive"
             /\ \A i \in 1 .. last - 1 : ~Matches(inbox[i])
             /\ \/ Matches(inbox[last]) /\ HandleReply(inbox[last])
                \/ /\ last = n /\ ~Matches(inbox[last])
                   /\ UNCHANGED <<pc, until, result, budget>>
             /\ inbox' = SubSeq(inbox, n + 1, Len(inbox))
             /\ UNCHANGED <<now, job, air, executed>>
      BY <1>9 DEF Receive
    <2>1. PICK last \in 1 .. n :
             /\ pc = "receive"
             /\ \A i \in 1 .. last - 1 : ~Matches(inbox[i])
             /\ \/ Matches(inbox[last]) /\ HandleReply(inbox[last])
                \/ /\ last = n /\ ~Matches(inbox[last])
                   /\ UNCHANGED <<pc, until, result, budget>>
             /\ inbox' = SubSeq(inbox, n + 1, Len(inbox))
             /\ UNCHANGED <<now, job, air, executed>>
      BY <2>0
    <2>2. /\ job \in Job /\ inbox \in Seq(Frame) /\ Len(inbox) \in Nat
          /\ DOMAIN inbox = 1 .. Len(inbox) /\ inbox[last] \in Frame
      BY <2>1, ElementOfSeq, LenProperties DEF TypeOK
    <2>3. \A i \in Replies(inbox') : n + i \in Replies(inbox) /\ inbox'[i] = inbox[n + i]
                                     /\ i \in Nat \ {0}
      <3>1. inbox' \in Seq(Frame)
        BY <1>t DEF TypeOK
      <3>2. \A i \in Replies(inbox') : i \in Nat \ {0}
        BY <3>1, LenProperties DEF Replies
      <3> QED
        BY <2>1, <2>2, <3>2, RepliesRest
    <2>4. CASE Matches(inbox[last]) /\ HandleReply(inbox[last])
      <3>1. last \in Replies(inbox)
        BY <2>2, <2>4 DEF Matches, Replies
      <3>2. air = {} /\ Replies(inbox') = {}
        <4>1. air = {} /\ \A i \in Replies(inbox) : i = last
          BY <2>1, <3>1 DEF LineInv
        <4>2. \A i \in Replies(inbox') : n + i = last
          BY <2>3, <4>1
        <4> QED
          BY <2>3, <4>1, <4>2
      <3>3. inbox[last].job = job /\ (inbox[last].code # "ok" => executed[job] = 0)
        BY <2>1, <3>1 DEF LineInv
      <3>4. pc' # "receive"
        BY <2>2, <2>4, HandleReplyType
      <3>5. pc' \in {"send", "sleep"} => inbox[last].code # "ok"
        <4>1. ASSUME inbox[last].code = "ok" PROVE pc' \notin Active
          BY <2>4, <4>1, ReturnEnds DEF HandleReply
        <4> QED
          BY <4>1 DEF Active
      <3>6. \A k \in Job : result'[k].tag = "ok" => result'[k].from = k
        BY Zenon, <2>2, <2>4, <3>3, HandleReplyResult DEF LineInv
      <3> QED
        BY <2>1, <3>2, <3>3, <3>4, <3>5, <3>6, <1>a
    <2>5. CASE UNCHANGED <<pc, until, result, budget>>
      <3>1. \A i \in Replies(inbox') :
               inbox'[i].job = job /\ (inbox'[i].code # "ok" => executed[job] = 0)
        <4>1. \A i \in Replies(inbox) :
                 inbox[i].job = job /\ (inbox[i].code # "ok" => executed[job] = 0)
          BY <2>1 DEF LineInv
        <4> QED
          BY <2>3, <4>1
      <3>2. \A i, k \in Replies(inbox') : i = k
        <4>1. \A i, k \in Replies(inbox') : n + i = n + k
          BY <2>1, <2>3 DEF LineInv
        <4> QED
          BY <2>3, <4>1
      <3>3. air = {} \/ Replies(inbox') = {}
        BY <2>1, <2>3 DEF LineInv
      <3> QED
        BY Zenon, <2>1, <2>5, <3>1, <3>2, <3>3 DEF LineInv
    <2> QED
      BY <2>1, <2>4, <2>5
  <1>10. CASE ReceiveTimeout
    <2>1. /\ pc = "receive" /\ job \in Job /\ inbox = <<>> /\ ResponseTimeout
          /\ UNCHANGED <<now, job, air, inbox, executed>>
      BY <1>10 DEF ReceiveTimeout, line, TypeOK
    <2>2. Return(Err("response_timeout"))
      BY <2>1 DEF ResponseTimeout, transport_limit, TypeOK
    <2>3. /\ Err("response_timeout") \in Result
          /\ Err("response_timeout").tag = "response_timeout"
      BY ErrTags DEF Tag
    <2>4. pc' = "drain" /\ until' = now + late_response_guard
      BY <2>2, <2>3 DEF Return
    <2>5. \A k \in Job : result'[k].tag = "ok" => result'[k].from = k
      BY <2>1, <2>2, <2>3, ErrResult DEF LineInv
    <2>6. \A f \in air : f.due < until'
      <3>1. \A f \in air : f.due \in Nat /\ f.due <= now + Latency
        BY <2>1 DEF LineInv, TypeOK, Frame
      <3> QED
        BY <2>4, <3>1 DEF TypeOK
    <2> QED
      BY <2>1, <2>4, <2>5, <2>6 DEF LineInv
  <1>11. CASE ReceiveIdle
    <2>1. PICK n \in 1 .. Len(inbox) :
             /\ pc \in {"idle", "drain"}
             /\ inbox' = SubSeq(inbox, n + 1, Len(inbox))
             /\ UNCHANGED <<now, pc, job, until, result, air, executed>>
      BY <1>11 DEF ReceiveIdle
    <2>2. Replies(inbox) = {} => Replies(inbox') = {}
      <3>1. inbox \in Seq(Frame)
        BY DEF TypeOK
      <3>2. \A i \in Replies(inbox') : n + i \in Replies(inbox)
        BY <2>1, <3>1, RepliesRest
      <3> QED
        BY <3>2
    <2> QED
      BY Zenon, <2>1, <2>2 DEF LineInv
  <1>12. CASE EndDrain
    <2>1. /\ pc = "drain" /\ pc' = "idle" /\ now >= until /\ inbox = <<>>
          /\ UNCHANGED <<now, job, result, air, inbox, executed>>
      BY <1>12 DEF EndDrain, line
    <2>2. air = {}
      <3>1. \A f \in air : f.due \in Nat /\ now <= f.due /\ f.due < until
        BY <2>1 DEF LineInv, TypeOK, Frame
      <3> QED
        BY <2>1, <3>1 DEF TypeOK
    <2>3. Replies(inbox') = {}
      BY <2>1 DEF Replies
    <2> QED
      BY <2>1, <2>2, <2>3 DEF LineInv
  <1>13. CASE UNCHANGED vars
    BY Zenon, <1>13 DEF vars, line, LineInv
  <1> QED
    BY <1>1, <1>2, <1>3, <1>4, <1>n, <1>5, <1>6, <1>7, <1>8, <1>9, <1>10, <1>11, <1>12, <1>13
    DEF Next, RunnerStep

(* When every request is an Action and a late reply comes within the drain   *)
(* period (late_response_guard exceeds the latency of the device), the       *)
(* device carries out no action twice, whatever is lost or late and however  *)
(* often it answers busy: a missing response "never causes HartLink to       *)
(* repeat the physical calibration automatically" (exchange with             *)
(* transport_limit 0, drain_late_responses).                                 *)
THEOREM ActionsOnce ==
    ASSUME Action = Job, late_response_guard > Latency
    PROVE  Spec => []ActionOnce
  <1>1. Init => LineInv
    BY PolicyTypes DEF Init, LineInv, Replies, None
  <1>2. LineInv => ActionOnce
    BY PolicyTypes DEF LineInv, ActionOnce
  <1>3. TypeOK /\ LineInv /\ [Next]_vars => LineInv'
    BY NextLine
  <1> QED
    BY <1>1, <1>2, <1>3, InitType, NextType, PTL DEF Spec

(* Under the same assumptions a late reply is never taken for the answer to  *)
(* another request: an action that succeeds does so by its own reply.        *)
THEOREM ActionRepliesOwn ==
    ASSUME Action = Job, late_response_guard > Latency
    PROVE  Spec => []ActionReplyIsOwn
  <1>1. Init => LineInv
    BY PolicyTypes DEF Init, LineInv, Replies, None
  <1>2. LineInv => ActionReplyIsOwn
    BY PolicyTypes DEF LineInv, ActionReplyIsOwn
  <1>3. TypeOK /\ LineInv /\ [Next]_vars => LineInv'
    BY NextLine
  <1> QED
    BY <1>1, <1>2, <1>3, InitType, NextType, PTL DEF Spec
===============================================================================

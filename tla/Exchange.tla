------------------------------- MODULE Exchange -------------------------------
(***************************************************************************)
(* The runner on the line (src/service/link.rs:1692-1994): exchange with its *)
(* retry budgets, exchange_once, drain_late_responses and idle input, over   *)
(* discrete time, against a device that answers late or not at all and       *)
(* publishes Burst frames whenever it likes.  HART frames carry no           *)
(* transaction identifier: a reply belongs to a request if command and       *)
(* address agree.  Jobs 1 .. Jobs are exchanged one after the other; module  *)
(* LinkRunner says which job is next.                                        *)
(*                                                                         *)
(* The runner is prompt: time passes only while it waits.                    *)
(***************************************************************************)
EXTENDS Integers, Sequences, FiniteSets

CONSTANTS
    Jobs,                    \* number of jobs
    Command,                 \* Command[j]: command and address of job j
    Action,                  \* jobs whose resolved safety is Action
    transport_retries,       \* RetryPolicy, the same for every job
    busy_retries,
    delayed_response_polls,
    retry_delay,
    response_timeout,
    total_timeout,
    late_response_guard,     \* LinkConfig
    Latency,                 \* the device answers within this time or never
    MaxBursts                \* bound: Burst frames sent

Job == 1 .. Jobs

ASSUME JobsAssumption == Jobs \in Nat /\ Action \subseteq Job
ASSUME PolicyAssumption ==
    /\ {transport_retries, busy_retries, delayed_response_polls, retry_delay,
        late_response_guard, MaxBursts} \subseteq Nat
    /\ {response_timeout, total_timeout, Latency} \subseteq Nat \ {0}

VARIABLES
    now,                \* the clock
    pc,                 \* where the runner is
    job,                \* job being exchanged, the last one when idle
    deadline,           \* its end-to-end deadline
    until,              \* exchange_deadline, end of the retry delay or of the drain
    transport, busy, delayed,  \* retries used by the exchange
    sends,              \* sends[j]: transmissions of job j
    result,             \* result[j]: what exchange returned for job j
    air,                \* replies on their way
    inbox,              \* frames the channel has received and not handed over
    published,          \* Burst frames given to the hub
    read,               \* ghost: Burst frames the channel has handed over
    executed,           \* ghost: executed[j] times the device carried out job j
    unanswered          \* ghost: the last attempt timed out and no drain followed

budget == <<transport, busy, delayed>>
line   == <<air, inbox, executed>>
bursts == <<published, read>>
vars   == <<now, pc, job, deadline, until, budget, sends, result, line, bursts, unanswered>>

Code == {"ok", "busy", "delayed"}
Reply(j, n, code, due) == [kind |-> "reply", job |-> j, n |-> n, code |-> code, due |-> due]
Burst == [kind |-> "burst", job |-> 0, n |-> 0, code |-> "ok", due |-> 0]

None == [tag |-> "none", from |-> 0]
Ok(f) == [tag |-> "ok", from |-> f.job]
Err(tag) == [tag |-> tag, from |-> 0]

Init ==
    /\ now = 0
    /\ pc = "idle"
    /\ job = 0
    /\ deadline = 0
    /\ until = 0
    /\ transport = 0 /\ busy = 0 /\ delayed = 0
    /\ sends = [j \in Job |-> 0]
    /\ result = [j \in Job |-> None]
    /\ air = {}
    /\ inbox = <<>>
    /\ published = 0 /\ read = 0
    /\ executed = [j \in Job |-> 0]
    /\ unanswered = FALSE

-----------------------------------------------------------------------------
(* The line and the device. *)

(* One request reaches the device or not; the device carries it out, or      *)
(* turns it down as busy or delayed; its reply comes back or not.            *)
DeviceTakes ==
    \/ UNCHANGED <<air, executed>>
    \/ \E code \in Code :
         /\ executed' = [executed EXCEPT ![job] = IF code = "ok" THEN @ + 1 ELSE @]
         /\ \/ UNCHANGED air
            \/ \E d \in 1 .. Latency : air' = air \cup {Reply(job, sends[job], code, now + d)}

Arrive ==
    \E f \in air :
        /\ f.due = now
        /\ air' = air \ {f}
        /\ inbox' = Append(inbox, f)
        /\ UNCHANGED <<now, pc, job, deadline, until, budget, sends, result, executed, bursts,
                       unanswered>>

BurstsIn(frames) == Cardinality({i \in DOMAIN frames : frames[i].kind = "burst"})

SendBurst ==
    /\ read + BurstsIn(inbox) < MaxBursts
    /\ inbox' = Append(inbox, Burst)
    /\ UNCHANGED <<now, pc, job, deadline, until, budget, sends, result, air, executed, bursts,
                   unanswered>>

Tick ==
    /\ \A f \in air : f.due > now
    /\ \/ pc = "idle" /\ inbox = <<>> /\ air # {}
       \/ pc \in {"receive", "drain"} /\ inbox = <<>> /\ now < until
       \/ pc \in {"send", "sleep"} /\ now < until
    /\ now' = now + 1
    /\ UNCHANGED <<pc, job, deadline, until, budget, sends, result, line, bursts, unanswered>>

-----------------------------------------------------------------------------
(* exchange: the loop over attempts. *)

Earlier(s, t) == IF s < t THEN s ELSE t
LimitForAll == transport_retries     \* mutant of transport_limit
transport_limit == IF job \in Action THEN 0 ELSE transport_retries

(* exchange returns r to run, which drains the line after an unanswered      *)
(* request and leaves its loop when the channel is unusable.                 *)
Return(r) ==
    /\ result' = [result EXCEPT ![job] = r]
    /\ pc' = CASE r.tag = "response_timeout" /\ late_response_guard > 0 -> "drain"
               [] r.tag \in {"channel", "send_timeout"} -> "stopped"
               [] OTHER -> "idle"
    /\ until' = now + late_response_guard

(* The end of the loop body, and the head of the next attempt. *)
Again ==
    IF now >= deadline THEN Return(Err("deadline"))
    ELSE /\ pc' = "send"
         /\ until' = Earlier(now + response_timeout, deadline)
         /\ UNCHANGED result

(* Mutant of wait_before_retry: it sleeps past the deadline. *)
WaitRegardless ==
    /\ pc' = "sleep"
    /\ until' = now + retry_delay
    /\ UNCHANGED result

wait_before_retry ==
    IF retry_delay = 0 THEN Again
    ELSE IF now + retry_delay >= deadline THEN Return(Err("deadline"))
    ELSE /\ pc' = "sleep"
         /\ until' = now + retry_delay
         /\ UNCHANGED result

(* run takes the next job, which has spent part of its time in the queue. *)
StartExchange ==
    /\ pc = "idle"
    /\ job < Jobs
    /\ job' = job + 1
    /\ \E left \in 1 .. total_timeout :
         /\ deadline' = now + left
         /\ until' = now + Earlier(response_timeout, left)
    /\ pc' = "send"
    /\ transport' = 0 /\ busy' = 0 /\ delayed' = 0
    /\ UNCHANGED <<now, sends, result, line, bursts, unanswered>>

(* exchange returns before its first attempt: the deadline has come since    *)
(* run looked, or the request has no encoding.                               *)
NothingToSend ==
    /\ pc = "idle"
    /\ job < Jobs
    /\ job' = job + 1
    /\ \E tag \in {"deadline", "format"} : result' = [result EXCEPT ![job + 1] = Err(tag)]
    /\ UNCHANGED <<now, pc, deadline, until, budget, sends, line, bursts, unanswered>>

(* A matching reply: it ends the exchange, or costs one unit of a budget. *)
HandleReply(f) ==
    \/ /\ f.code = "ok"
       /\ Return(Ok(f))
       /\ UNCHANGED budget
    \/ /\ f.code = "busy"
       /\ IF busy >= busy_retries
            THEN Return(Err("busy")) /\ UNCHANGED busy
            ELSE wait_before_retry /\ busy' = busy + 1
       /\ UNCHANGED <<transport, delayed>>
    \/ /\ f.code = "delayed"
       /\ IF delayed >= delayed_response_polls
            THEN Return(Err("delayed")) /\ UNCHANGED delayed
            ELSE wait_before_retry /\ delayed' = delayed + 1
       /\ UNCHANGED <<transport, busy>>

(* Mutant of EndSleep: the wake-up time itself is missed. *)
OverSleep ==
    /\ pc = "sleep"
    /\ now > until
    /\ Again
    /\ UNCHANGED <<now, job, deadline, budget, sends, line, bursts, unanswered>>

EndSleep ==
    /\ pc = "sleep"
    /\ now >= until
    /\ Again
    /\ UNCHANGED <<now, job, deadline, budget, sends, line, bursts, unanswered>>

(* Mutant of ResponseTimeout: a retry is not counted. *)
RetryUncounted ==
    /\ IF transport < transport_limit THEN Again ELSE Return(Err("response_timeout"))
    /\ unanswered' = TRUE
    /\ UNCHANGED budget

(* An attempt without a reply: only this error is retried. *)
ResponseTimeout ==
    /\ IF transport < transport_limit
         THEN Again /\ transport' = transport + 1
         ELSE Return(Err("response_timeout")) /\ UNCHANGED transport
    /\ unanswered' = TRUE
    /\ UNCHANGED <<busy, delayed>>

-----------------------------------------------------------------------------
(* exchange_once: one transmission and the wait for its reply. *)

SendOk ==
    /\ pc = "send"
    /\ pc' = "receive"
    /\ sends' = [sends EXCEPT ![job] = @ + 1]
    /\ DeviceTakes
    /\ UNCHANGED <<now, job, deadline, until, budget, result, inbox, bursts, unanswered>>

(* The channel refuses the frame, or has not taken it at the deadline: the   *)
(* channel is unusable, and the device may have the request all the same.    *)
SendFails ==
    /\ pc = "send"
    /\ \/ Return(Err("channel"))
       \/ now >= until /\ Return(Err("send_timeout"))
    /\ executed' \in {executed, [executed EXCEPT ![job] = @ + 1]}
    /\ UNCHANGED <<now, job, deadline, budget, sends, air, inbox, bursts, unanswered>>

Matches(f) == f.kind = "reply" /\ Command[f.job] = Command[job]

(* receive hands over the first n frames.  Burst frames are published,       *)
(* echoes, damaged and stale frames are skipped, up to the first match; the  *)
(* loop over the decoded events is left there.                               *)
Receive ==
    \E n \in 1 .. Len(inbox) : \E last \in 1 .. n :
        /\ pc = "receive"
        /\ \A i \in 1 .. last - 1 : ~Matches(inbox[i])
        /\ \/ Matches(inbox[last]) /\ HandleReply(inbox[last]) /\ unanswered' = FALSE
           \/ /\ last = n /\ ~Matches(inbox[last])
              /\ UNCHANGED <<pc, until, result, budget, unanswered>>
        /\ inbox' = SubSeq(inbox, n + 1, Len(inbox))
        /\ published' = published + BurstsIn(SubSeq(inbox, 1, last))
        /\ read' = read + BurstsIn(SubSeq(inbox, 1, n))
        /\ UNCHANGED <<now, job, deadline, sends, air, executed>>

(* The deadline of the attempt, or the channel's own receive timeout. *)
ReceiveTimeout ==
    /\ pc = "receive"
    /\ inbox = <<>>
    /\ ResponseTimeout
    /\ UNCHANGED <<now, job, deadline, sends, line, bursts>>

(* The channel is closed, fails or returns an impossible length. *)
ReceiveFails ==
    /\ pc = "receive"
    /\ Return(Err("channel"))
    /\ UNCHANGED <<now, job, deadline, budget, sends, line, bursts, unanswered>>

-----------------------------------------------------------------------------
(* Between exchanges: idle input and drain_late_responses. *)

(* process_idle_input: every Burst frame is published, a reply is reported   *)
(* as late.                                                                  *)
ReceiveIdle ==
    \E n \in 1 .. Len(inbox) :
        /\ pc \in {"idle", "drain"}
        /\ inbox' = SubSeq(inbox, n + 1, Len(inbox))
        /\ published' = published + BurstsIn(SubSeq(inbox, 1, n))
        /\ read' = read + BurstsIn(SubSeq(inbox, 1, n))
        /\ UNCHANGED <<now, pc, job, deadline, until, budget, sends, result, air, executed,
                       unanswered>>

IdleFails ==
    /\ pc \in {"idle", "drain"}
    /\ pc' = "stopped"
    /\ UNCHANGED <<now, job, deadline, until, budget, sends, result, line, bursts, unanswered>>

(* Mutant of EndDrain: the line is drained only of what is there. *)
EndDrainAtOnce ==
    /\ pc = "drain"
    /\ inbox = <<>>
    /\ pc' = "idle"
    /\ unanswered' = FALSE
    /\ UNCHANGED <<now, job, deadline, until, budget, sends, result, line, bursts>>

EndDrain ==
    /\ pc = "drain"
    /\ now >= until
    /\ inbox = <<>>
    /\ pc' = "idle"
    /\ unanswered' = FALSE
    /\ UNCHANGED <<now, job, deadline, until, budget, sends, result, line, bursts>>

RunnerStep == EndSleep \/ SendOk \/ SendFails \/ Receive \/ ReceiveTimeout \/ ReceiveFails
                \/ ReceiveIdle \/ EndDrain

Next == Arrive \/ SendBurst \/ Tick \/ StartExchange \/ NothingToSend \/ IdleFails \/ RunnerStep

Spec == Init /\ [][Next]_vars

(* Time passes, what is due arrives, and the runner's timers and the bytes it *)
(* receives wake it.  Nothing makes the channel take a frame early or fail.   *)
DueStep == \/ EndSleep \/ Receive \/ ReceiveIdle \/ EndDrain
           \/ now >= until /\ (SendOk \/ SendFails \/ ReceiveTimeout)

FairSpec == Spec /\ WF_vars(Tick) /\ WF_vars(Arrive) /\ WF_vars(DueStep)

-----------------------------------------------------------------------------
Frame == [kind : {"reply", "burst"}, job : 0 .. Jobs, n : Nat, code : Code, due : Nat]
Tag == {"none", "ok", "busy", "delayed", "deadline", "format", "response_timeout", "send_timeout",
        "channel"}

TypeOK ==
    /\ now \in Nat
    /\ pc \in {"idle", "send", "receive", "sleep", "drain", "stopped"}
    /\ job \in 0 .. Jobs
    /\ pc \in {"send", "receive", "sleep"} => job \in Job
    /\ deadline \in Nat
    /\ until \in Nat
    /\ transport \in Nat /\ busy \in Nat /\ delayed \in Nat
    /\ sends \in [Job -> Nat]
    /\ result \in [Job -> [tag : Tag, from : 0 .. Jobs]]
    /\ air \in SUBSET Frame
    /\ inbox \in Seq(Frame)
    /\ published \in Nat /\ read \in Nat
    /\ executed \in [Job -> Nat]
    /\ unanswered \in BOOLEAN

(* The retry budgets bound the transmissions of a job, each budget on its    *)
(* own, and an Action is sent again only after a reply that asked for it.    *)
BudgetsBoundSends ==
    \A j \in Job :
        sends[j] <= 1 + (IF j \in Action THEN 0 ELSE transport_retries)
                      + busy_retries + delayed_response_polls

(* "retries cannot silently extend it": an exchange, its retry delays        *)
(* included, is over when the end-to-end deadline of its job has come.       *)
DeadlineKept == pc \in {"send", "receive", "sleep"} => now <= deadline

(* "A missing response therefore never causes HartLink to repeat the         *)
(* physical calibration automatically": whatever is late or lost, and also   *)
(* when the next action is the same command, the device carries out an       *)
(* action at most once.                                                      *)
ActionOnce == \A j \in Action : executed[j] <= 1

(* Late replies are not taken for the answer to the next request: an action  *)
(* that succeeds succeeds by a reply to its own transmission.  This is said  *)
(* of late_response_guard > Latency: the device answers within the drain     *)
(* period or never.                                                          *)
ActionReplyIsOwn == \A j \in Action : result[j].tag = "ok" => result[j].from = j

(* "Sets the input-drain period after a response timeout": no exchange       *)
(* begins after an attempt that timed out before the line has been drained.  *)
DrainedAfterTimeout == pc = "send" /\ sends[job] = 0 => ~unanswered

(* "Routes unsolicited Burst frames through the supplied hub": every Burst   *)
(* frame that the channel handed over was published.                         *)
BurstsRouted == published = read

(* A job that was started ends, by a result or because the channel failed. *)
ExchangeEnds == (pc \in {"send", "receive", "sleep", "drain"}) ~> (pc \in {"idle", "stopped"})
=============================================================================

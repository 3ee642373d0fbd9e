------------------------------ MODULE LinkRunner ------------------------------
(***************************************************************************)
(* One link: its clients, its queue set and its runner                       *)
(* (src/service/link.rs:756-1155 and 1540-1690).  Module QueueSet leaves     *)
(* open what the runner does with the jobs it takes; here a job has a        *)
(* request, a deadline and a caller who may stop waiting, the runner         *)
(* coalesces equal reads, answers every job it takes and counts what it did, *)
(* and the channel may fail.  An exchange is one step with an outcome that   *)
(* the device and the line choose; module Exchange opens it up.              *)
(***************************************************************************)
EXTENDS QueueSet

CONSTANTS Request,            \* Request[j]: request, policy and prefix of job j
          ReadOnly,           \* jobs whose request is ReadOnly and has no prefix
          maximum_coalesced,  \* followers one exchange may answer
          MayAbandon,         \* jobs whose caller may drop its PendingReply
          MayExpire,          \* jobs whose deadline may pass
          ChannelFails,       \* the channel may become unusable
          RunnerAborts        \* the task of the runner may be aborted

ASSUME RequestAssumption == ReadOnly \subseteq Job /\ DOMAIN Request = Job
ASSUME CoalescedAssumption == maximum_coalesced \in Nat

VARIABLES
    abandoned,       \* jobs whose oneshot receiver is gone
    expired,         \* jobs whose deadline has passed
    answer,          \* answer[j]: what became of job j
    by,              \* by[j]: leader of the exchange that answered job j
    led,             \* ghost: led[j] exchanges were started for job j
    counters,        \* the counters of a LinkSnapshot
    channel_ok       \* ghost: the channel has not failed

linkVars == <<abandoned, expired, answer, by, led, counters, channel_ok>>
allVars  == <<vars, linkVars>>

LinkInit ==
    /\ Init
    /\ abandoned = {}
    /\ expired = {}
    /\ answer = [j \in Job |-> "none"]
    /\ by = [j \in Job |-> NoJob]
    /\ led = [j \in Job |-> 0]
    /\ counters = [started |-> 0, completed |-> 0, failed |-> 0, cancelled |-> 0, coalesced |-> 0]
    /\ channel_ok = TRUE

-----------------------------------------------------------------------------
(* The world around the runner. *)

(* The caller drops its PendingReply before an answer is sent. *)
Abandon(j) ==
    /\ j \in MayAbandon \ abandoned
    /\ push[j] = "accepted"
    /\ answer[j] = "none"
    /\ abandoned' = abandoned \cup {j}
    /\ UNCHANGED <<vars, expired, answer, by, led, counters, channel_ok>>

(* The clock reaches the deadline that make_job computed. *)
Expire(j) ==
    /\ j \in MayExpire \ expired
    /\ push[j] # "new"
    /\ expired' = expired \cup {j}
    /\ UNCHANGED <<vars, abandoned, answer, by, led, counters, channel_ok>>

LinkClients == Client /\ UNCHANGED linkVars

-----------------------------------------------------------------------------
(* Answers: mark_completed, mark_failed and mark_cancelled with the send.    *)
Counter(outcome) == CASE outcome = "completed" -> "completed"
                      [] outcome = "cancelled" -> "cancelled"
                      [] OTHER -> "failed"

(* Job j is answered, unless nobody waits for it, by the exchange of k. *)
Answer(j, outcome, k) ==
    LET told == IF j \in abandoned THEN "cancelled" ELSE outcome IN
    /\ answer' = [answer EXCEPT ![j] = told]
    /\ by' = [by EXCEPT ![j] = k]
    /\ counters' = [counters EXCEPT ![Counter(told)] = @ + 1]

(* next_job and the first half of finish_entry do not look at a job. *)
LinkNextJob ==
    /\ \/ CreateNotified \/ ScanRank \/ PopStrict \/ PopWeighted \/ CheckInput \/ Wake
       \/ ReleasePermit \/ EndComplete \/ CompleteFollower \/ DrainEntry \/ DrainNext
       \/ CloseRunner
    /\ UNCHANGED linkVars

LinkIdleInput ==
    \E usable \in BOOLEAN :
        /\ usable \/ ChannelFails
        /\ IdleInput(usable)
        /\ channel_ok' = usable
        /\ UNCHANGED <<abandoned, expired, answer, by, led, counters>>

(* finish_entry returns to its caller, which settles every job but a leader: *)
(* a candidate nobody waits for, a follower of a successful exchange, or a   *)
(* job the stopping runner found in a queue (fail_stopped_job).              *)
LinkDecrement ==
    /\ Decrement
    /\ CASE back = "serve" -> UNCHANGED <<answer, by, counters>>
         [] back = "coalesce" -> Answer(hand, "cancelled", NoJob)
         [] back = "complete" ->
              Answer(hand, IF hand \in expired THEN "deadline" ELSE "completed", leader)
         [] back = "drain" -> Answer(hand, "stopped", NoJob)
    /\ UNCHANGED <<abandoned, expired, led, channel_ok>>

(* run: a job nobody waits for, or past its deadline, is not exchanged. *)
LinkSkip ==
    /\ Skip
    /\ leader \in abandoned \cup expired
    /\ Answer(leader, "deadline", NoJob)
    /\ UNCHANGED <<abandoned, expired, led, channel_ok>>

LinkAdmit ==
    /\ Admit
    /\ leader \notin abandoned \cup expired
    /\ UNCHANGED linkVars

(* take_coalescible_followers: only reads without a prefix are coalesced,    *)
(* with equal reads that follow them in the same queue without a gap.        *)
MayCoalesce == leader \in ReadOnly /\ Len(followers) < maximum_coalesced
Candidate == Head(entries[QueueOf[leader]])
AnyCanCoalesce(k, j) == TRUE     \* mutant of requests_can_coalesce
requests_can_coalesce(k, j) == Request[j] = Request[k]

(* Mutant of LinkFollow: a follower is counted as started. *)
LinkFollowStarts ==
    /\ MayCoalesce
    /\ Follow
    /\ requests_can_coalesce(leader, Candidate)
    /\ Candidate \notin abandoned
    /\ counters' = [counters EXCEPT !.started = @ + 1]
    /\ UNCHANGED <<abandoned, expired, answer, by, led, channel_ok>>

LinkFollow ==
    /\ MayCoalesce
    /\ Follow
    /\ requests_can_coalesce(leader, Candidate)
    /\ Candidate \notin abandoned
    /\ counters' = [counters EXCEPT !.coalesced = @ + 1]
    /\ UNCHANGED <<abandoned, expired, answer, by, led, channel_ok>>

LinkDiscardCandidate ==
    /\ MayCoalesce
    /\ DiscardCandidate
    /\ requests_can_coalesce(leader, Candidate)
    /\ Candidate \in abandoned
    /\ UNCHANGED linkVars

(* run: started is counted when the followers are known. *)
Start ==
    /\ led' = [led EXCEPT ![leader] = @ + 1]
    /\ counters' = [counters EXCEPT !.started = @ + 1]
    /\ UNCHANGED <<abandoned, expired, answer, by, channel_ok>>

LinkReturnCandidate ==
    /\ MayCoalesce
    /\ ReturnCandidate
    /\ ~requests_can_coalesce(leader, Candidate)
    /\ Start

LinkEndCoalescing ==
    /\ EndCoalescing
    /\ MayCoalesce => entries[QueueOf[leader]] = <<>>
    /\ Start

(* The exchange returns a reply: the leader is answered first. *)
LinkExchangeOk ==
    /\ ExchangeOk
    /\ Answer(leader, "completed", leader)
    /\ UNCHANGED <<abandoned, expired, led, channel_ok>>

(* The exchange fails: only the leader has the error. *)
LinkExchangeErr ==
    \E next \in AfterError, error \in {"deadline", "failed"} :
        /\ next = "stop" => ChannelFails /\ error = "failed"
        /\ next = "gone" => RunnerAborts /\ error = "failed"
        /\ ExchangeErr(next)
        /\ Answer(leader, error, leader)
        /\ channel_ok' = (next # "stop")
        /\ UNCHANGED <<abandoned, expired, led>>

(* The aborted runner takes the senders of leader and followers with it. *)
LinkDropRunner ==
    /\ RunnerAborts
    /\ DropRunner
    /\ answer' = [j \in Job |-> IF j \in {leader} \cup Range(followers) THEN "dropped"
                                                                      ELSE answer[j]]
    /\ UNCHANGED <<abandoned, expired, by, led, counters, channel_ok>>

LinkExchange == LinkExchangeOk \/ LinkExchangeErr

LinkRunnerStep ==
    \/ LinkNextJob \/ LinkDecrement \/ LinkSkip \/ LinkAdmit
    \/ LinkFollow \/ LinkDiscardCandidate \/ LinkReturnCandidate \/ LinkEndCoalescing
    \/ LinkExchange

LinkNext ==
    \/ LinkClients
    \/ \E j \in Job : Abandon(j) \/ Expire(j)
    \/ LinkRunnerStep \/ LinkIdleInput \/ LinkDropRunner

LinkSpec == LinkInit /\ [][LinkNext]_allVars

(* Threads that are inside a push or a set_priority keep running, and so     *)
(* does the runner; every exchange ends because each of its waits has a      *)
(* deadline.  Nothing makes a client push, close, or the line send.          *)
PushStep(j) == FinishPush(j) \/ PushBack(j) \/ CountPush(j) \/ NotifyPush(j)

Fairness ==
    /\ WF_allVars(LinkRunnerStep)
    /\ \A j \in Job : WF_allVars(PushStep(j) /\ UNCHANGED linkVars)
    /\ WF_allVars(NotifyPriority /\ UNCHANGED linkVars)

FairLinkSpec == LinkSpec /\ Fairness

-----------------------------------------------------------------------------
(* LinkSnapshot adds up: every settled job is counted once, by its outcome,  *)
(* and an exchange is counted once for the job that led it.  Jobs whose      *)
(* sender was dropped with the runner are counted nowhere.                   *)
CountersAddUp ==
    LET With(outcomes) == Cardinality({j \in Job : answer[j] \in outcomes})
    IN  /\ counters.completed = With({"completed"})
        /\ counters.cancelled = With({"cancelled"})
        /\ counters.failed = With({"deadline", "failed", "stopped"})
        /\ counters.started = Cardinality({j \in Job : led[j] = 1})

(* A job is exchanged at most once, however often it was coalesced and put   *)
(* back, and only the leader has the error of an exchange: a follower of a   *)
(* failed exchange gets one of its own.                                      *)
FailureStaysWithLeader ==
    \A j \in Job : led[j] <= 1 /\ (answer[j] = "failed" => led[j] = 1 /\ by[j] = j)

(* A reply that answers another job than the one it was asked for answers an *)
(* equal, coalescible read, and a job answered that way was never exchanged. *)
CoalescedReplyFits ==
    \A j \in Job : answer[j] = "completed" /\ by[j] # j =>
        /\ led[j] = 0
        /\ by[j] \in ReadOnly /\ Request[by[j]] = Request[j] /\ QueueOf[by[j]] = QueueOf[j]
        /\ ticket[by[j]] < ticket[j]

(* "Serves the queue until every client is closed": an accepted request is   *)
(* failed with RunnerStopped only if the channel failed or the last client   *)
(* was gone.  (A request accepted just before the last client goes may still *)
(* be failed: the runner can have looked at the queues before it came.)      *)
ServedUntilClosed ==
    \A j \in Job : answer[j] = "stopped" => ~channel_ok \/ input_closed

(* "End-to-end deadline from enqueue to result": an accepted request has a   *)
(* result in the end, unless its caller no longer waits for one.             *)
EveryRequestEnds ==
    \A j \in Job : push[j] = "accepted" ~> (answer[j] # "none" \/ j \in abandoned)

(* When the last client is gone the runner serves what is left and stops. *)
RunnerStops == input_closed ~> rpc = "stopped"
=============================================================================

----------------------------- MODULE LinkService -----------------------------
(* What one link promises the holders of its clients, without its threads:   *)
(* requests arrive in queues; the oldest unanswered request of a queue is    *)
(* the next one of that queue to get a result; a result is final; a caller   *)
(* that stopped waiting lets its request be cancelled at any time; and once  *)
(* the service is down no request is served any more.  LinkRefinement shows  *)
(* that clients, queue set and runner implement it.                          *)
EXTENDS Integers, FiniteSets

CONSTANTS Job, QueueOf

VARIABLES
    arrival,     \* arrival[j]: place in the order of arrival, 0 before it
    result,      \* result[j]: what its caller was told, "none" before it
    up           \* the service is running

serviceVars == <<arrival, result, up>>

Served == {"completed", "deadline", "failed"}

ServiceInit ==
    /\ arrival = [j \in Job |-> 0]
    /\ result = [j \in Job |-> "none"]
    /\ up = TRUE

Pending(j) == arrival[j] > 0 /\ result[j] = "none"

(* No older request of the same queue waits for its result. *)
Oldest(j) ==
    /\ Pending(j)
    /\ \A k \in Job : Pending(k) /\ QueueOf[k] = QueueOf[j] => arrival[j] <= arrival[k]

Arrive(j) ==
    /\ arrival[j] = 0
    /\ arrival' = [arrival EXCEPT ![j] = 1 + Cardinality({k \in Job : arrival[k] > 0})]
    /\ UNCHANGED <<result, up>>

(* The oldest request of a queue has its result; the service may go down     *)
(* with the exchange that gave it.                                           *)
Settle(j) ==
    /\ up /\ Oldest(j)
    /\ \E r \in Served : result' = [result EXCEPT ![j] = r]
    /\ up' \in BOOLEAN
    /\ UNCHANGED arrival

Cancel(j) ==
    /\ Pending(j)
    /\ result' = [result EXCEPT ![j] = "cancelled"]
    /\ up' \in {up, FALSE}
    /\ UNCHANGED arrival

(* The service stops, and then turns down what still waits, oldest first. *)
Stop ==
    /\ up /\ up' = FALSE
    /\ UNCHANGED <<arrival, result>>

TurnDown(j) ==
    /\ ~up /\ Oldest(j)
    /\ result' = [result EXCEPT ![j] = "stopped"]
    /\ UNCHANGED <<arrival, up>>

(* The service is lost with the requests it was working on, the oldest ones  *)
(* of one queue.                                                             *)
Lose(S) ==
    /\ up /\ up' = FALSE
    /\ \A j \in S : Pending(j)
    /\ \A j \in S, k \in Job :
         QueueOf[k] = QueueOf[j] /\ Pending(k) /\ arrival[k] < arrival[j] => k \in S
    /\ \A j, k \in S : QueueOf[j] = QueueOf[k]
    /\ result' = [j \in Job |-> IF j \in S THEN "dropped" ELSE result[j]]
    /\ UNCHANGED arrival

ServiceNext ==
    \/ \E j \in Job : Arrive(j) \/ Settle(j) \/ Cancel(j) \/ TurnDown(j)
    \/ Stop
    \/ \E S \in SUBSET Job : Lose(S)

ServiceSpec == ServiceInit /\ [][ServiceNext]_serviceVars
=============================================================================

------------------------------ MODULE Scheduler ------------------------------
(***************************************************************************)
(* The scheduler of a link under load: QueueSet::pop_scheduled applied again *)
(* and again while requests keep arriving and an application reconfigures    *)
(* the queues (src/service/queue_set.rs:406-556).  Here a decision is one    *)
(* step and a slot's counter always equals its number of entries, which is   *)
(* what one thread observes; module QueueSet takes the decision apart.  The  *)
(* question asked here is the one the README answers in its scheduling       *)
(* table: who is served how often.                                           *)
(***************************************************************************)
EXTENDS QueueSchedule

CONSTANTS Depth,         \* Depth[s]: capacity of slot s
          InitPriority,  \* InitPriority[s]: configured priority of slot s
          Reconfig        \* Reconfig[s]: priorities set_priority may give slot s

ASSUME DepthAssumption == Depth \in [Slots -> Nat \ {0}]
ASSUME PriorityAssumption == /\ InitPriority \in [Slots -> QueuePriority]
                             /\ Reconfig \in [Slots -> SUBSET QueuePriority]

VARIABLES
    waiting,   \* waiting[s]: entries of slot s
    priority,  \* priority[s]: current priority of slot s
    cursor,    \* the runner's QueueCursor
    passed     \* ghost: passed[s][t] entries were taken from a peer t of s since
               \* s was last served, while s had an entry waiting

schedulerVars == <<waiting, priority, cursor, passed>>

Ready == {s \in Slots : waiting[s] > 0}

SchedulerInit ==
    /\ waiting = [s \in Slots |-> 0]
    /\ priority = InitPriority
    /\ cursor = InitCursor
    /\ passed = [s \in Slots |-> [t \in Slots |-> 0]]

(* A request reaches slot s: finish_push, as one step. *)
Arrive(s) ==
    /\ waiting[s] < Depth[s]
    /\ waiting' = [waiting EXCEPT ![s] = @ + 1]
    /\ UNCHANGED <<priority, cursor, passed>>

(* An application changes the priority of slot s.  What s and the others     *)
(* were owed was owed under the old priority, so counting starts again.      *)
SetPriority(s) ==
    \E p \in Reconfig[s] \ {priority[s]} :
        /\ priority' = [priority EXCEPT ![s] = p]
        /\ passed' = [x \in Slots |-> [t \in Slots |->
                         IF s \in {x, t} THEN 0 ELSE passed[x][t]]]
        /\ UNCHANGED <<waiting, cursor>>

(* pop_scheduled: pop_strict, and pop_weighted when that finds nothing. *)
PopStrict == StrictSlot(priority, Ready, StrictRank(priority, Ready), cursor)
PopWeighted == WeightedSlot(priority, Ready, cursor)

(* Peers compete for the same turn: two weighted slots, two of equal rank. *)
Peers(s, t) ==
    /\ s # t
    /\ \/ IsWeighted(priority[s]) /\ IsWeighted(priority[t])
       \/ IsStrict(priority[s]) /\ priority[s] = priority[t]

(* What the ghost records of one entry taken from slot t. *)
Charge(t) ==
    passed' = [s \in Slots |->
                 IF s = t \/ waiting[s] = 0 THEN [u \in Slots |-> 0]
                 ELSE [passed[s] EXCEPT ![t] = IF Peers(s, t) THEN @ + 1 ELSE @]]

TakeStrict ==
    \E s \in {PopStrict} \ {NoSlot} :
        /\ waiting' = [waiting EXCEPT ![s] = @ - 1]
        /\ cursor' = StrictCursor(cursor, s)
        /\ Charge(s)
        /\ UNCHANGED priority

TakeWeighted ==
    /\ PopStrict = NoSlot
    /\ \E s \in {PopWeighted} \ {NoSlot} :
        /\ waiting' = [waiting EXCEPT ![s] = @ - 1]
        /\ cursor' = WeightedCursor(priority, cursor, s)
        /\ Charge(s)
        /\ UNCHANGED priority

Pop == TakeStrict \/ TakeWeighted

SchedulerNext ==
    \/ \E s \in Slots : Arrive(s) \/ SetPriority(s)
    \/ Pop

SchedulerSpec == SchedulerInit /\ [][SchedulerNext]_schedulerVars

-----------------------------------------------------------------------------
(* "Weighted queues rotate without starvation" and "relative shares 6:2:1":  *)
(* a decision finds work whenever there is any, and while a weighted slot    *)
(* has work waiting, another weighted slot is served at most its own weight  *)
(* of times before the waiting slot is served, also across arrivals, strict  *)
(* work in between and changes of other weights.  So without strict work a   *)
(* waiting slot is served within the sum of the other weights decisions.     *)
WeightedShare ==
    /\ Ready # {} => PopStrict # NoSlot \/ PopWeighted # NoSlot
    /\ \A s \in Ready, t \in Slots :
         Peers(s, t) /\ IsWeighted(priority[s]) => passed[s][t] <= priority[t].value

(* "equal ranks rotate fairly": a strict slot with work waiting is passed    *)
(* over at most once by another slot of the same rank.                       *)
EqualRanksRotate ==
    \A s, t \in Slots :
        Peers(s, t) /\ IsStrict(priority[s]) => passed[s][t] <= 1
=============================================================================

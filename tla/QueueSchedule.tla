--------------------------- MODULE QueueSchedule ---------------------------
(***************************************************************************)
(* The scheduling decision of a queue set (src/service/queue_set.rs): which *)
(* slot pop_strict and pop_weighted take an entry from, as a function of    *)
(* the slots' priorities, of what the slots show and of the cursor.  The    *)
(* functions lock one slot at a time; what other threads can change between *)
(* the two halves of pop_strict, and between pop_strict and pop_weighted,   *)
(* is modelled by the modules that use these operators.                     *)
(*                                                                         *)
(* Slots are numbered 0 .. N-1 in the order of the configured layout.       *)
(***************************************************************************)
EXTENDS Integers, FiniteSets, FiniteSetsExt

CONSTANT N    \* number of configured queues

ASSUME NAssumption == N \in Nat \ {0}

Slots == 0 .. N - 1

(* A priority is a weighted quota or a strict rank (enum QueuePriority). *)
Weighted(weight) == [kind |-> "weighted", value |-> weight]
Strict(rank)     == [kind |-> "strict", value |-> rank]

IsWeighted(p) == p.kind = "weighted"
IsStrict(p)   == p.kind = "strict"

(* Every valid priority: QueuePriority::weighted refuses a zero quota. *)
QueuePriority == [kind : {"weighted"}, value : Nat \ {0}]
                   \cup [kind : {"strict"}, value : Nat]

NoSlot == -1
NoRank == -1

(* The cursor the runner keeps between two decisions. *)
QueueCursor == [weighted_index : Slots, weighted_used : Nat, strict_index : Slots]
InitCursor  == [weighted_index |-> 0, weighted_used |-> 0, strict_index |-> 0]

-----------------------------------------------------------------------------
(* The slots that follow index in rotation order, at offsets lo .. hi, and   *)
(* among them the first one that satisfies a set; NoSlot if none does.       *)
At(index, offset) == (index + offset) % N

FirstFrom(index, lo, hi, ok) ==
    IF \E o \in lo .. hi : At(index, o) \in ok
      THEN At(index, CHOOSE o \in lo .. hi :
                        /\ At(index, o) \in ok
                        /\ \A p \in lo .. o - 1 : At(index, p) \notin ok)
      ELSE NoSlot

(* pop_strict, first half: the highest rank among the strict slots whose     *)
(* queued counter is positive.                                               *)
StrictRank(priority, counted) ==
    LET ranks == {priority[s].value : s \in {t \in counted : IsStrict(priority[t])}}
    IN  IF ranks = {} THEN NoRank ELSE Max(ranks)

(* pop_strict, second half: the first slot of exactly that rank, after the   *)
(* last strict slot served, that holds an entry.                             *)
StrictSlot(priority, nonEmpty, rank, cursor) ==
    FirstFrom(cursor.strict_index, 1, N,
              {s \in nonEmpty : priority[s] = Strict(rank)})

(* Mutant of WeightedSlot: the quota is exceeded by one. *)
WeightedSlotOverQuota(priority, nonEmpty, cursor) ==
    LET current == cursor.weighted_index
        ready   == {s \in nonEmpty : IsWeighted(priority[s])}
    IN  IF current \in ready /\ cursor.weighted_used <= priority[current].value
          THEN current ELSE FirstFrom(current, 1, N, ready)

(* pop_weighted: the current slot while its quota lasts, else the next       *)
(* weighted slot with an entry, else the current slot once more.             *)
WeightedSlot(priority, nonEmpty, cursor) ==
    LET current == cursor.weighted_index
        ready   == {s \in nonEmpty : IsWeighted(priority[s])}
        other   == FirstFrom(current, 1, N - 1, ready)
    IN  IF current \in ready /\ cursor.weighted_used < priority[current].value
          THEN current
        ELSE IF other # NoSlot THEN other
        ELSE IF current \in ready THEN current ELSE NoSlot

(* The cursor after pop_weighted took an entry from slot s.  The quota the   *)
(* last branch of the code stores is the current slot's whole weight.        *)
WeightedCursor(priority, cursor, s) ==
    IF s # cursor.weighted_index
      THEN [cursor EXCEPT !.weighted_index = s, !.weighted_used = 1]
    ELSE IF cursor.weighted_used < priority[s].value
      THEN [cursor EXCEPT !.weighted_used = @ + 1]
    ELSE [cursor EXCEPT !.weighted_used = priority[s].value]

(* The cursor after pop_strict took an entry from slot s. *)
StrictCursor(cursor, s) == [cursor EXCEPT !.strict_index = s]
=============================================================================

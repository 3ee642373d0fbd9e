----------------------------- MODULE MCQueueSet -----------------------------
(* Instances of QueueSet for TLC. *)
EXTENDS QueueSet, TLC

CONSTANTS a, b, c

OnePlace == [s \in Slots |-> 1]

(* Slot 0 is strict and takes a and b, slot 1 is weighted and takes c. *)
TwoQueues          == (a :> 0) @@ (b :> 0) @@ (c :> 1)
StrictThenWeighted == [s \in Slots |-> IF s = 0 THEN Strict(5) ELSE Weighted(1)]
SecondMayBeStrict  == [s \in Slots |-> IF s = 0 THEN {} ELSE {Weighted(1), Strict(9)}]
=============================================================================

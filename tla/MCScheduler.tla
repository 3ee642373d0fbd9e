----------------------------- MODULE MCScheduler -----------------------------
(* Instances of Scheduler for TLC. *)
EXTENDS Scheduler

TwoDeep == [s \in Slots |-> 2]
MixedDepth == [s \in Slots |-> IF s \in {0, 2} THEN 2 ELSE 1]

(* Two slots of one strict rank and two weighted slots; one slot of each     *)
(* kind can be reconfigured while the others wait.                           *)
MixedPriority == [s \in Slots |-> CASE s = 0 -> Weighted(2)
                                    [] s = 1 -> Strict(5)
                                    [] s = 2 -> Weighted(1)
                                    [] OTHER -> Strict(5)]
MixedChoices == [s \in Slots |-> CASE s = 0 -> {Weighted(1), Weighted(2)}
                                   [] s = 3 -> {Weighted(1), Strict(5)}
                                   [] OTHER -> {}]

(* Two slots of rank 10 and one of rank 20, never reconfigured. *)
RankedPriority == [s \in Slots |-> IF s = 2 THEN Strict(20) ELSE Strict(10)]
NoChoices == [s \in Slots |-> {}]
=============================================================================

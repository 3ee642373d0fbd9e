---------------------------- MODULE MCLinkRunner ----------------------------
(* Instances of LinkRunner for TLC. *)
EXTENDS LinkRefinement, TLC

CONSTANTS a, b, c

OneQueue    == [j \in Job |-> 0]
TwoPlaces   == [s \in Slots |-> 2]
AllWeighted == [s \in Slots |-> Weighted(1)]
AllStrict   == [s \in Slots |-> Strict(5)]
NoReconfig  == [s \in Slots |-> {}]

(* Two equal reads and one other request. *)
TwoReadsAndOther == (a :> "read") @@ (b :> "read") @@ (c :> "other")
AllReads         == [j \in Job |-> "read"]
=============================================================================

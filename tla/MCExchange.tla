----------------------------- MODULE MCExchange -----------------------------
(* Instances of Exchange for TLC. *)
EXTENDS Exchange

(* Every job sends the same command to the same device. *)
SameCommand == [j \in Job |-> "command"]
=============================================================================

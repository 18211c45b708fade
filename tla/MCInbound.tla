----------------------------- MODULE MCInbound -----------------------------
(* Instances of Inbound for TLC.                                           *)
EXTENDS Inbound, TLC

(* A key derived from a signature made at time 1, and one the caller chose.*)
SignedAndNamed == [k \in Keys |-> IF k = "signed" THEN 1 ELSE Null]

CallSymmetry == Permutations(Calls)
=============================================================================

---------------------------- MODULE MCSyncEngine ----------------------------
(* Instances of SyncEngine for TLC.                                        *)
EXTENDS SyncEngine, TLC

(* One per-source step over one source, strict about rejections.           *)
OneStep == <<"orders">>
PerSource == [e \in {"orders"} |-> "per-source"]
Strict == [e \in {"orders"} |-> "hold"]
AllOfA == [i \in Items |-> <<"orders", "a">>]

(* A global step that tolerates a share of rejections, then a step without *)
(* sources().                                                              *)
TwoSteps == <<"orders", "stock">>
GlobalThenNone == [e \in {"orders", "stock"} |-> IF e = "orders" THEN "global" ELSE "no-sources"]
Lenient == [e \in {"orders", "stock"} |-> IF e = "orders" THEN "ratio" ELSE "always"]
AllGlobal == [i \in Items |-> <<"orders", "">>]

(* advanceTo: window.until, past it, behind it, or null.                   *)
AnyAdvance == {0, 2, -1, Null}
UntilOnly == {0}

ItemSymmetry == Permutations(Items)
=============================================================================

------------------------------ MODULE MCAdmin ------------------------------
(* Instances of Admin for TLC.                                             *)
EXTENDS Admin, TLC

(* A rejected item of one installation and a webhook of another.           *)
TwoRows ==
    <<[table |-> "rejected", installation |-> "i1"],
      [table |-> "webhook", installation |-> "i2"]>>

AdminSymmetry == Permutations(Slots) \union Permutations(IPs) \union Permutations(Sids)

=============================================================================

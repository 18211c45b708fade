--------------------------- MODULE MCProvisioning ---------------------------
(* Instances of Provisioning for TLC.                                      *)
EXTENDS Provisioning, TLC

Plan(s, p, st, rf, inv, ev) ==
    [sources |-> s, parent |-> p, stable |-> st, refs |-> rf, invalid |-> inv, events |-> ev]

NoDefs == [d \in {} |-> {}]
NoSources == [s \in {} |-> Null]

(* A shop with a branch, declared in that order and with stable keys,      *)
(* and an event.                                                           *)
ShopAndBranch ==
    Plan(<<"shop", "branch">>, [shop |-> Null, branch |-> "shop"], {"shop", "branch"},
         NoDefs, {}, {"visited"})

(* Visits that refer to customers.                                         *)
VisitsOfCustomers ==
    Plan(<<>>, NoSources, {}, [customer |-> {}, visit |-> {"customer"}], {}, {})

(* Definitions that refer to each other, one of them also malformed.       *)
Cycle ==
    Plan(<<"shop">>, [shop |-> Null], {},
         [customer |-> {"visit"}, visit |-> {"customer"}], {}, {})

Malformed ==
    Plan(<<>>, NoSources, {},
         [customer |-> {}, visit |-> {"customer", "visit"}], {"customer"}, {})

EveryPlan == {ShopAndBranch, VisitsOfCustomers, Cycle, Malformed}

RunSymmetry == Permutations(Runs)

=============================================================================

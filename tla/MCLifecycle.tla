---------------------------- MODULE MCLifecycle ----------------------------
(* Instances of Lifecycle for TLC.                                         *)
EXTENDS Lifecycle, TLC

CONSTANTS s1, s2, d3

(* d3 is the second webhook, every other delivery a copy of the first.     *)
TwoWebhooks == [d \in Deliveries |-> IF d = d3 THEN s2 ELSE s1]

Body2(event, configs) == [event |-> event, token |-> event \in {"install", "activate"}, configs |-> configs]

AllOfOne == [d \in Deliveries |-> s1]

CopySymmetry == Permutations(Deliveries \ {d3})

(* Every event, with configs or, for the events that save none, without.   *)
EveryEvent == {Body2(e, e \in {"install", "activate", "config_updated"}) : e \in Events}

ActivateOnly == {Body2("activate", FALSE)}

ActivateDeactivate == {Body2("activate", FALSE), Body2("deactivate", FALSE)}
=============================================================================

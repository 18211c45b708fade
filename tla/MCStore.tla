------------------------------ MODULE MCStore ------------------------------
(* Instances of Store for TLC.                                             *)
EXTENDS Store

EveryTable == {"installs", "integration_state", "sync_cursor", "sync_run",
               "inbound_event", "webhook_seen", "webhook_log", "rejected_item", "audit_log"}

(* Three ids in the tables where a claim may use up two, and a list have  *)
(* three pages.                                                           *)
EveryMaxId == [t \in EveryTable |-> IF t \in {"inbound_event", "audit_log"} THEN 3 ELSE 2]

Symmetry == Permutations(Insts) \union Permutations(Clients) \union Permutations(Slugs)

=============================================================================

------------------------------- MODULE Schema -------------------------------
(***************************************************************************)
(* The tables of the store, as both Port and Store see them.  Columns that *)
(* every statement treats alike are one column here:                       *)
(*   id      the row id, 0 in a table that has none;                       *)
(*   inst    installation_id;                                              *)
(*   key     the rest of the key, or Null;                                 *)
(*   val     what a write replaces (status, value, event, entity, action); *)
(*   kept    what a write keeps when it is given NULL (shop_domain,        *)
(*           shop_name and installed_at, or consecutive_failures);         *)
(*   stamps  the three lifecycle stamps of an installation;                *)
(*   ref     its external account;                                         *)
(*   at      the time column the table is purged, counted or listed by.    *)
(***************************************************************************)
EXTENDS Integers, FiniteSets

CONSTANTS
    Tables,    \* the tables considered, one in each behaviour
    Paged,     \* those that are listed page by page
    Insts,     \* installations
    Keys,      \* state keys, (entity, source) pairs, idempotency keys, signatures
    Clients,   \* callers of the store: flows of a process, or processes
    Slugs,     \* integrations
    Retention, \* the retention, and the window of a dashboard count, in ticks
    Limit,     \* the rows of a page
    IdCap,     \* the ids one deleteByIds takes
    Null

ASSUME SchemaAssumption ==
    /\ Retention \in Nat \ {0} /\ Limit \in Nat \ {0} /\ IdCap \in Nat \ {0}
    /\ IsFiniteSet(Insts) /\ Null \notin Clients \union Slugs
    /\ Tables \subseteq {"installs", "integration_state", "sync_cursor", "sync_run",
                         "inbound_event", "webhook_seen", "webhook_log", "rejected_item",
                         "audit_log"}
    /\ Paged \subseteq {"installs", "sync_run", "inbound_event", "webhook_log", "rejected_item",
                        "audit_log"}

(* One row per installation, or per installation and key.                  *)
Upserted == {"installs", "integration_state", "sync_cursor"}
Claimed == {"inbound_event", "webhook_seen"}
Unique == Upserted \union Claimed

(* Rows are added with an id, and listed by it.                            *)
Logged == {"sync_run", "webhook_log", "rejected_item", "audit_log"}
Numbered == Logged \union {"inbound_event"}
Finished == {"sync_run", "inbound_event"}
Purged == Numbered \union {"webhook_seen"}

KeysOf(table) == IF table \in Unique \ {"installs"} THEN Keys ELSE {Null}

(* The value a row is added with, and the others it may have.              *)
Begun(table) ==
    CASE table = "sync_run" -> {"running"}
      [] table = "inbound_event" -> {"received"}
      [] table = "installs" -> {"active", "inactive"}
      [] table = "integration_state" -> {"clear", "sealed"}
      [] table = "sync_cursor" -> {"ok", "error"}
      [] table = "webhook_log" -> {"accepted", "refused"}
      [] OTHER -> {"written"}
Ended(table) ==
    CASE table = "sync_run" -> {"ok", "failed"}
      [] table = "inbound_event" -> {"done", "failed"}
      [] OTHER -> {}
Values(table) == Begun(table) \union Ended(table)

(* What a write may give a column that NULL does not overwrite, and what   *)
(* it has in a row written for the first time with NULL.                   *)
Given(table) == 
    CASE table = "installs" -> {Null, "name"}
      [] table = "sync_cursor" -> {Null, "0", "1"}
      [] OTHER -> {Null}
Initially(table) == IF table = "sync_cursor" THEN "0" ELSE Null

NewRow(id, inst, key, val, kept, at) ==
    [id |-> id, inst |-> inst, key |-> key, val |-> val, kept |-> kept,
     stamps |-> Null, ref |-> Null, at |-> at]

(* The rows that a list is about: those of an installation, or all of them *)
(* where the filter may be left out.                                       *)
Unscoped == {"installs", "audit_log"}
Scopes(table) ==
    (IF table \in Numbered \ Unscoped THEN {{i} : i \in Insts} ELSE {})
      \union (IF table \in Unscoped \union {"rejected_item"} THEN {Insts} ELSE {})

(* What tells the rows of a page apart.                                    *)
Names(s) == {[id |-> r.id, inst |-> r.inst] : r \in s}

(* What the store says of a state entry: never a sealed value.             *)
Meta(row) == [key |-> row.key, preview |-> IF row.val = "sealed" THEN Null ELSE row.val]

=============================================================================

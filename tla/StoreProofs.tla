---------------------------- MODULE StoreProofs ----------------------------
(* What is proved of Store, for every value of the constants.              *)
(*                                                                         *)
(* The proof is in layers, each an inductive invariant on top of the ones  *)
(* before it:                                                              *)
(*   TypeInv   types, ids and keys of their own, stamps of one format once *)
(*             the application serves, and who may serve: TypeCorrect      *)
(*   WalkInv   which rows a console that turns pages still has to see:     *)
(*             WalksSeeEverything                                          *)
(*   ClaimInv  what a call between two statements of PostgreSQL may rely   *)
(*             on, although other calls run in between                     *)
(*   RefInv    that and how far a listing has turned: StoreKeepsPromise,   *)
(*             one lemma for each statement of the code, and with what is  *)
(*             read by one statement StoreImplementsPort                   *)
EXTENDS Store, FiniteSetTheorems, SequenceTheorems, TLAPS

RowOf(t) == [id : Nat, inst : Insts, key : KeysOf(t), val : Values(t), kept : Given(t),
             stamps : {Null, "stamped"}, ref : {Null, "account"}, at : [t : Nat, legacy : BOOLEAN]]

(* The rows have ids of their own that have been drawn, keys of their own  *)
(* where these are unique, and stamps that have passed; greater ids are    *)
(* not older.                                                              *)
RowsOK(rs, n) ==
    /\ IsFiniteSet(rs) /\ rs \subseteq RowOf(table)
    /\ \A r \in rs : /\ r.id <= n /\ (r.id = 0 <=> table \notin Numbered)
                     /\ r.at.t <= now
                     /\ r.at.legacy => backend = "sqlite" /\ version < Normalise
    /\ \A q, r \in rs : /\ q.id = r.id /\ q.id # 0 => q = r
                        /\ q.inst = r.inst /\ q.key = r.key /\ table \in Unique => q = r
                        /\ q.id < r.id => q.at.t <= r.at.t

BootOK ==
    /\ backend \in {"sqlite", "postgres"} /\ table \in Tables /\ slug \in [Clients -> Slugs]
    /\ version \in 0..Latest /\ now \in Start..MaxNow /\ seq \in 0..MaxId[table]
    /\ up \subseteq Clients /\ lock \in (Clients \ up) \union {Null}
    /\ lock # Null => backend = "postgres"
    /\ up # {} => version = Latest
    /\ owner \in Slugs \union {Null}
    /\ backend = "postgres" => \A c \in up : owner = slug[c]
    /\ held \in [Clients -> 0..seq]

(* A call is between two statements only in PostgreSQL, of a client that   *)
(* serves.                                                                 *)
CallOK(c) ==
    \/ call[c] = Idle
    \/ /\ backend = "postgres" /\ c \in up
       /\ \/ /\ table = "inbound_event"
             /\ call[c] \in [at : {"find", "retry"}, inst : Insts, key : Keys]
                              \union [at : {"refind"}, inst : Insts, key : Keys, id : 0..seq]
          \/ /\ table \in Paged
             /\ call[c] \in [at : {"items"}, total : Nat, scope : Scopes(table), offset : Nat]

CallsOK == DOMAIN call = Clients /\ \A c \in Clients : CallOK(c)

TypeInv == BootOK /\ RowsOK(rows, seq) /\ CallsOK

-----------------------------------------------------------------------------
(* The tables.                                                             *)

(* What kinds of tables there are: a log is numbered and has no key, what  *)
(* is upserted has a key and no number.                                    *)
LEMMA TableFacts ==
    ASSUME NEW t \in Tables
    PROVE  /\ t \in Unique => t \notin Logged
           /\ t \in Upserted => t \notin Numbered /\ t \in Unique
           /\ t \in Logged => t \in Numbered /\ t \notin Unique
           /\ t \in Finished => t \in Numbered
           /\ t \in Paged => t \in Numbered \union {"installs"}
           /\ Scopes(t) \subseteq (SUBSET Insts)
           /\ Begun(t) \subseteq Values(t) /\ Ended(t) \subseteq Values(t)
           /\ Null \in Given(t) /\ Initially(t) \in Given(t)
BY SchemaAssumption
DEF Unique, Logged, Upserted, Claimed, Numbered, Finished, Scopes, Unscoped, Values, Given, Initially

(* The keys of each kind of table.                                         *)
LEMMA KeysFacts ==
    ASSUME NEW t \in Tables
    PROVE  /\ t = "installs" => KeysOf(t) = {Null}
           /\ t \in {"integration_state", "sync_cursor", "inbound_event", "webhook_seen"} => KeysOf(t) = Keys
           /\ t \in Logged => KeysOf(t) = {Null}
BY DEF KeysOf, Unique, Upserted, Claimed, Logged

(* inbound_event is claimed under a key, and numbered.                     *)
LEMMA InboundFacts ==
    /\ "inbound_event" \in Unique /\ "inbound_event" \in Numbered
    /\ "inbound_event" \notin Logged /\ "inbound_event" \notin Upserted
    /\ Begun("inbound_event") = {"received"} /\ Ended("inbound_event") = {"done", "failed"}
BY DEF Unique, Claimed, Upserted, Numbered, Logged, Begun, Ended

(* webhook_seen is claimed under a signature, without a number.            *)
LEMMA SeenFacts ==
    /\ "webhook_seen" \in Unique /\ "webhook_seen" \notin Numbered
    /\ Begun("webhook_seen") = {"written"} /\ Ended("webhook_seen") = {}
BY DEF Unique, Claimed, Upserted, Numbered, Logged, Begun, Ended

(* The clock and the sequence are numbers; what is written now is in the   *)
(* format of today.                                                        *)
LEMMA Types ==
    ASSUME BootOK
    PROVE  /\ now \in Nat /\ seq \in Nat /\ MaxId[table] \in Nat \ {0}
           /\ NowIso \in [t : Nat, legacy : BOOLEAN] /\ NowIso.t = now /\ ~NowIso.legacy
BY StoreAssumption DEF BootOK, NowIso, Iso

-----------------------------------------------------------------------------
(* What a statement leaves in the table.                                   *)

(* Deleting rows.                                                          *)
LEMMA SubsetRows ==
    ASSUME NEW n, RowsOK(rows, n), NEW new \in SUBSET rows
    PROVE  RowsOK(new, n)
BY FS_Subset DEF RowsOK

(* Changing rows, each of which keeps its id and its key; only rows        *)
(* without an id may get a new stamp.                                      *)
LEMMA MappedRows ==
    ASSUME BootOK, RowsOK(rows, seq), NEW f \in [rows -> RowOf(table)],
           \A r \in rows : /\ f[r].id = r.id /\ f[r].inst = r.inst /\ f[r].key = r.key
                           /\ f[r].at = r.at \/ (f[r].at = NowIso /\ table \notin Numbered)
    PROVE  RowsOK({f[r] : r \in rows}, seq)
<1> DEFINE new == {f[r] : r \in rows}
<1>1. IsFiniteSet(new) /\ new \subseteq RowOf(table)
  <2>1. f \in Surjection(rows, new)
    BY DEF Surjection
  <2> QED
    BY <2>1, FS_Surjection DEF RowsOK
<1>2. \A r \in new : /\ r.id <= seq /\ (r.id = 0 <=> table \notin Numbered) /\ r.at.t <= now
                     /\ r.at.legacy => backend = "sqlite" /\ version < Normalise
  <2> SUFFICES ASSUME NEW p \in rows
               PROVE  /\ f[p].id <= seq /\ (f[p].id = 0 <=> table \notin Numbered) /\ f[p].at.t <= now
                      /\ f[p].at.legacy => backend = "sqlite" /\ version < Normalise
    OBVIOUS
  <2>1. /\ p.id <= seq /\ (p.id = 0 <=> table \notin Numbered) /\ p.at.t <= now
        /\ p.at.legacy => backend = "sqlite" /\ version < Normalise
    BY DEF RowsOK
  <2>2. f[p].id = p.id /\ (f[p].at = p.at \/ f[p].at = NowIso)
    OBVIOUS
  <2>3. NowIso.t <= now /\ ~NowIso.legacy
    BY Types DEF NowIso, Iso
  <2> QED
    BY <2>1, <2>2, <2>3
<1>3. ASSUME NEW p \in rows, NEW r \in rows
      PROVE  /\ f[p].id = f[r].id /\ f[p].id # 0 => f[p] = f[r]
             /\ f[p].inst = f[r].inst /\ f[p].key = f[r].key /\ table \in Unique => f[p] = f[r]
  BY DEF RowsOK
<1>4. ASSUME NEW p \in rows, NEW r \in rows, f[p].id < f[r].id
      PROVE  f[p].at.t <= f[r].at.t
  <2>1. p.id < r.id /\ r.id # 0
    BY <1>4 DEF RowsOK, RowOf
  <2> QED
    BY <2>1 DEF RowsOK
<1> QED
  BY <1>1, <1>2, <1>3, <1>4 DEF RowsOK

(* Adding a row with a new id, or a new key.                               *)
LEMMA AddedRow ==
    ASSUME BootOK, RowsOK(rows, seq), NEW row \in RowOf(table), NEW n \in {seq, seq + 1},
           row.at = NowIso,
           IF table \in Numbered THEN row.id = seq + 1 /\ n = seq + 1 ELSE row.id = 0,
           table \in Unique => At(row.inst, row.key) = {}
    PROVE  RowsOK(rows \union {row}, n)
<1>1. IsFiniteSet(rows \union {row}) /\ rows \union {row} \subseteq RowOf(table)
  BY FS_AddElement DEF RowsOK
<1>2. \A r \in rows : r.id \in Nat /\ r.id <= seq /\ r.at.t <= now
  BY DEF RowsOK, RowOf
<1>3. \A r \in rows \union {row} : /\ r.id <= n /\ (r.id = 0 <=> table \notin Numbered) /\ r.at.t <= now
                     /\ r.at.legacy => backend = "sqlite" /\ version < Normalise
  BY <1>2, Types DEF RowsOK
<1>4. \A q \in rows : /\ (q.id = row.id => q.id = 0) /\ ~(row.id < q.id /\ q.id # 0)
                      /\ q.at.t <= row.at.t
                      /\ ~(q.inst = row.inst /\ q.key = row.key /\ table \in Unique)
                      /\ (q.id = 0 => row.id = 0)
  BY <1>2, Types DEF RowsOK, At
<1> QED
  BY <1>1, <1>3, <1>4, <1>2, Types DEF RowsOK

Written(r, v, g, a) == [r EXCEPT !.val = v, !.kept = g, !.at = a]
Stamped(r, v, s, a) == [r EXCEPT !.val = v, !.stamps = s, !.at = a]
Referred(r, ref, a) == [r EXCEPT !.ref = ref, !.at = a]

(* A row that is upserted keeps its id and key.                            *)
LEMMA WrittenRow ==
    ASSUME NEW t, NEW r \in RowOf(t), NEW v \in Values(t), NEW g \in Given(t),
           NEW a \in [t : Nat, legacy : BOOLEAN]
    PROVE  LET q == Written(r, v, g, a) IN
           q \in RowOf(t) /\ q.id = r.id /\ q.inst = r.inst /\ q.key = r.key /\ q.at = a
BY DEF RowOf, Written

(* A row whose status is set keeps its id and key.                         *)
LEMMA StampedRow ==
    ASSUME NEW t, NEW r \in RowOf(t), NEW v \in Values(t), NEW s \in {Null, "stamped"},
           NEW a \in [t : Nat, legacy : BOOLEAN]
    PROVE  LET q == Stamped(r, v, s, a) IN
           q \in RowOf(t) /\ q.id = r.id /\ q.inst = r.inst /\ q.key = r.key /\ q.at = a
BY DEF RowOf, Stamped

(* A row whose account is set keeps its id and key.                        *)
LEMMA ReferredRow ==
    ASSUME NEW t, NEW r \in RowOf(t), NEW ref \in {Null, "account"},
           NEW a \in [t : Nat, legacy : BOOLEAN]
    PROVE  LET q == Referred(r, ref, a) IN
           q \in RowOf(t) /\ q.id = r.id /\ q.inst = r.inst /\ q.key = r.key /\ q.at = a
BY DEF RowOf, Referred

(* INSERT ... ON CONFLICT DO UPDATE.                                       *)
LEMMA UpsertedRows ==
    ASSUME TypeInv, table \in Upserted, NEW i \in Insts, NEW k \in KeysOf(table),
           NEW v \in Values(table), NEW g \in Given(table)
    PROVE  RowsOK(InsertOrUpdate(i, k, v, g), seq)
<1>0. /\ BootOK /\ RowsOK(rows, seq) /\ rows \subseteq RowOf(table)
      /\ table \notin Numbered /\ NowIso \in [t : Nat, legacy : BOOLEAN]
      /\ Initially(table) \in Given(table) /\ seq \in Nat
  BY TableFacts, Types DEF TypeInv, BootOK, RowsOK
<1>1. CASE At(i, k) = {}
  <2> DEFINE row == NewRow(0, i, k, v, Coalesce(g, Initially(table)), NowIso)
  <2>1. /\ row \in RowOf(table) /\ row.id = 0 /\ row.at = NowIso /\ row.inst = i /\ row.key = k
    BY <1>0 DEF RowOf, NewRow, Coalesce
  <2>2. InsertOrUpdate(i, k, v, g) = rows \union {row}
    BY <1>1 DEF InsertOrUpdate
  <2> HIDE DEF row
  <2> QED
    BY <1>0, <1>1, <2>1, <2>2, AddedRow
<1>2. CASE At(i, k) # {}
  <2> DEFINE f == [r \in rows |-> IF r \in At(i, k)
                     THEN [r EXCEPT !.val = v, !.kept = Coalesce(g, r.kept), !.at = NowIso] ELSE r]
  <2>1. ASSUME NEW r \in rows
        PROVE  /\ f[r] \in RowOf(table) /\ f[r].id = r.id /\ f[r].inst = r.inst /\ f[r].key = r.key
               /\ f[r].at = r.at \/ f[r].at = NowIso
    <3>1. r \in RowOf(table) /\ r.kept \in Given(table) /\ Coalesce(g, r.kept) \in Given(table)
      BY <1>0 DEF RowOf, Coalesce
    <3>2. CASE r \in At(i, k)
      <4>1. f[r] = Written(r, v, Coalesce(g, r.kept), NowIso)
        BY <3>2 DEF Written
      <4> HIDE DEF f
      <4> QED
        BY <1>0, <3>1, <4>1, WrittenRow
    <3> QED
      BY <3>1, <3>2
  <2>2. InsertOrUpdate(i, k, v, g) = {f[r] : r \in rows}
    BY <1>2 DEF InsertOrUpdate
  <2>3. f \in [rows -> RowOf(table)]
    BY <2>1
  <2> HIDE DEF f
  <2> QED
    BY <1>0, <2>1, <2>2, <2>3, MappedRows
<1> QED
  BY <1>1, <1>2

(* UPDATE installs SET status.                                             *)
LEMMA StatusRows ==
    ASSUME TypeInv, table = "installs", NEW i \in Insts, NEW v \in Values(table),
           NEW stamps \in {Null, "stamped"}
    PROVE  RowsOK({IF r.inst = i THEN [r EXCEPT !.val = v, !.stamps = stamps, !.at = NowIso]
                   ELSE r : r \in rows}, seq)
<1> DEFINE f == [r \in rows |-> IF r.inst = i
                   THEN [r EXCEPT !.val = v, !.stamps = stamps, !.at = NowIso] ELSE r]
<1>0. /\ BootOK /\ RowsOK(rows, seq) /\ rows \subseteq RowOf(table)
      /\ table \notin Numbered /\ NowIso \in [t : Nat, legacy : BOOLEAN]
  BY TableFacts, Types DEF TypeInv, BootOK, RowsOK, Upserted
<1>1. ASSUME NEW r \in rows
      PROVE  /\ f[r] \in RowOf(table) /\ f[r].id = r.id /\ f[r].inst = r.inst /\ f[r].key = r.key
             /\ f[r].at = r.at \/ f[r].at = NowIso
  <2>1. r \in RowOf(table)
    BY <1>0
  <2>2. CASE r.inst = i
    <3>1. f[r] = Stamped(r, v, stamps, NowIso)
      BY <2>2 DEF Stamped
    <3> HIDE DEF f
    <3> QED
      BY <1>0, <2>1, <3>1, StampedRow
  <2> QED
    BY <2>1, <2>2
<1>2. {IF r.inst = i THEN [r EXCEPT !.val = v, !.stamps = stamps, !.at = NowIso]
       ELSE r : r \in rows} = {f[r] : r \in rows}
  OBVIOUS
<1>3. f \in [rows -> RowOf(table)]
  BY <1>1
<1> HIDE DEF f
<1> QED
  BY <1>0, <1>1, <1>2, <1>3, MappedRows

(* UPDATE installs SET external_account.                                   *)
LEMMA AccountRows ==
    ASSUME TypeInv, table = "installs", NEW i \in Insts, NEW ref \in {Null, "account"}
    PROVE  RowsOK({IF r.inst = i THEN [r EXCEPT !.ref = ref, !.at = NowIso] ELSE r : r \in rows}, seq)
<1> DEFINE f == [r \in rows |-> IF r.inst = i THEN [r EXCEPT !.ref = ref, !.at = NowIso] ELSE r]
<1>0. /\ BootOK /\ RowsOK(rows, seq) /\ rows \subseteq RowOf(table)
      /\ table \notin Numbered /\ NowIso \in [t : Nat, legacy : BOOLEAN]
  BY TableFacts, Types DEF TypeInv, BootOK, RowsOK, Upserted
<1>1. ASSUME NEW r \in rows
      PROVE  /\ f[r] \in RowOf(table) /\ f[r].id = r.id /\ f[r].inst = r.inst /\ f[r].key = r.key
             /\ f[r].at = r.at \/ f[r].at = NowIso
  <2>1. r \in RowOf(table)
    BY <1>0
  <2>2. CASE r.inst = i
    <3>1. f[r] = Referred(r, ref, NowIso)
      BY <2>2 DEF Referred
    <3> HIDE DEF f
    <3> QED
      BY <1>0, <2>1, <3>1, ReferredRow
  <2> QED
    BY <2>1, <2>2
<1>2. {IF r.inst = i THEN [r EXCEPT !.ref = ref, !.at = NowIso] ELSE r : r \in rows}
        = {f[r] : r \in rows}
  OBVIOUS
<1>3. f \in [rows -> RowOf(table)]
  BY <1>1
<1> HIDE DEF f
<1> QED
  BY <1>0, <1>1, <1>2, <1>3, MappedRows

(* UPDATE ... SET status WHERE id.                                         *)
LEMMA FinishedRows ==
    ASSUME TypeInv, NEW id, NEW v \in Values(table)
    PROVE  RowsOK({IF r.id = id THEN [r EXCEPT !.val = v] ELSE r : r \in rows}, seq)
<1> DEFINE f == [r \in rows |-> IF r.id = id THEN [r EXCEPT !.val = v] ELSE r]
<1>0. BootOK /\ RowsOK(rows, seq) /\ rows \subseteq RowOf(table)
  BY DEF TypeInv, RowsOK
<1>1. ASSUME NEW r \in rows
      PROVE  /\ f[r] \in RowOf(table) /\ f[r].id = r.id /\ f[r].inst = r.inst /\ f[r].key = r.key
             /\ f[r].at = r.at
  BY <1>0 DEF RowOf
<1>2. {IF r.id = id THEN [r EXCEPT !.val = v] ELSE r : r \in rows} = {f[r] : r \in rows}
  OBVIOUS
<1>3. f \in [rows -> RowOf(table)]
  BY <1>1
<1> HIDE DEF f
<1> QED
  BY <1>0, <1>1, <1>2, <1>3, MappedRows

(* INSERT into a log.                                                      *)
LEMMA InsertedRows ==
    ASSUME TypeInv, table \in Logged, NEW i \in Insts, NEW v \in Values(table)
    PROVE  RowsOK(Insert(i, v), NextId)
<1>0. /\ BootOK /\ RowsOK(rows, seq) /\ NowIso \in [t : Nat, legacy : BOOLEAN] /\ seq \in Nat
      /\ table \in Numbered /\ table \notin Unique /\ KeysOf(table) = {Null} /\ Null \in Given(table)
  BY TableFacts, KeysFacts, Types DEF TypeInv, BootOK
<1> DEFINE row == NewRow(NextId, i, Null, v, Null, NowIso)
<1>1. row \in RowOf(table) /\ row.id = seq + 1 /\ row.at = NowIso
  BY <1>0 DEF RowOf, NewRow, NextId
<1>2. Insert(i, v) = rows \union {row}
  BY DEF Insert
<1> HIDE DEF row
<1> QED
  BY <1>0, <1>1, <1>2, AddedRow DEF NextId

(* INSERT ... ON CONFLICT DO NOTHING, without a conflict.                  *)
LEMMA ClaimedRows ==
    ASSUME TypeInv, table \in Claimed, NEW i \in Insts, NEW k \in Keys, At(i, k) = {}
    PROVE  /\ RowsOK(Claims(i, k), IF table = "webhook_seen" THEN seq ELSE NextId)
           /\ \E row \in RowOf(table) :
                /\ Claims(i, k) = rows \union {row} /\ row.inst = i /\ row.key = k /\ row.at = NowIso
                /\ row.id = IF table = "webhook_seen" THEN 0 ELSE NextId
                /\ row.val \in Begun(table) /\ row.kept = Null /\ row.stamps = Null /\ row.ref = Null
<1>0. /\ BootOK /\ RowsOK(rows, seq) /\ NowIso \in [t : Nat, legacy : BOOLEAN] /\ seq \in Nat
      /\ table \in Unique /\ KeysOf(table) = Keys /\ Null \in Given(table)
      /\ table = "webhook_seen" => table \notin Numbered
      /\ table # "webhook_seen" => table \in Numbered
      /\ Begun(table) \subseteq Values(table)
  BY TableFacts, KeysFacts, Types, SeenFacts, InboundFacts DEF TypeInv, BootOK, Claimed, Unique
<1>1. PICK v \in Begun(table) : v = CHOOSE w \in Begun(table) : TRUE
  BY SeenFacts, InboundFacts DEF Claimed
<1> DEFINE row == NewRow(IF table = "webhook_seen" THEN 0 ELSE NextId, i, k, v, Null, NowIso)
<1>2. /\ row \in RowOf(table) /\ row.at = NowIso /\ row.inst = i /\ row.key = k
      /\ row.id = IF table = "webhook_seen" THEN 0 ELSE seq + 1
      /\ row.val = v /\ row.kept = Null /\ row.stamps = Null /\ row.ref = Null
  BY <1>0 DEF RowOf, NewRow, NextId
<1>3. Claims(i, k) = rows \union {row}
  BY <1>1 DEF Claims
<1> HIDE DEF row
<1>4. RowsOK(rows \union {row}, IF table = "webhook_seen" THEN seq ELSE NextId)
  <2>1. IF table \in Numbered THEN row.id = seq + 1 ELSE row.id = 0
    BY <1>0, <1>2
  <2> QED
    BY <1>0, <1>2, <2>1, AddedRow DEF NextId
<1> QED
  BY <1>2, <1>3, <1>4 DEF NextId


-----------------------------------------------------------------------------
(* The steps keep the types.                                               *)

(* A call in progress that does not move.                                  *)
LEMMA SameCall ==
    ASSUME TypeInv, UNCHANGED <<fixed, boot>>, seq' \in Nat, seq <= seq', NEW c \in Clients, call'[c] = call[c]
    PROVE  CallOK(c)'
<1>1. CallOK(c) /\ seq \in Nat /\ 0..seq \subseteq 0..seq'
  BY Types DEF TypeInv, CallsOK
<1> QED
  BY <1>1 DEF CallOK, fixed, boot

(* The types, when a statement of one client changes rows, sequence, and   *)
(* its own call.                                                           *)
LEMMA Serving ==
    ASSUME TypeInv, UNCHANGED <<fixed, boot, now>>, seq' \in seq..MaxId[table], RowsOK(rows', seq'),
           held' \in [Clients -> 0..seq'], DOMAIN call' = Clients,
           NEW d \in Clients, CallOK(d)', \A c \in Clients \ {d} : call'[c] = call[c]
    PROVE  TypeInv'
<1>1. seq' \in Nat /\ seq <= seq' /\ seq' \in 0..MaxId[table]
  BY Types DEF TypeInv
<1>2. BootOK'
  BY <1>1 DEF TypeInv, BootOK, fixed, boot
<1>3. RowsOK(rows, seq)'
  BY DEF RowsOK, fixed, boot
<1>4. CallsOK'
  BY <1>1, SameCall DEF CallsOK
<1> QED
  BY <1>2, <1>3, <1>4 DEF TypeInv

(* The types, when a statement changes rows only.                          *)
LEMMA QuietTypes ==
    ASSUME TypeInv, Quietly, RowsOK(rows', seq), NEW d \in Clients
    PROVE  TypeInv'
<1>1. /\ UNCHANGED <<fixed, boot, now>> /\ seq' = seq /\ held' = held /\ call' = call
      /\ seq \in Nat /\ seq <= MaxId[table] /\ MaxId[table] \in Nat
  BY Types DEF Quietly, TypeInv, BootOK
<1>2. seq' \in seq..MaxId[table] /\ held' \in [Clients -> 0..seq'] /\ DOMAIN call' = Clients
  BY <1>1 DEF TypeInv, BootOK, CallsOK
<1>3. CallOK(d)'
  BY <1>1, SameCall
<1> QED
  BY <1>1, <1>2, <1>3, Serving

(* A greater sequence fits the same rows.                                  *)
LEMMA SameRows ==
    ASSUME TypeInv, NEW n \in Nat, seq <= n
    PROVE  RowsOK(rows, n)
BY Types DEF TypeInv, RowsOK, RowOf

(* The next id is a new one.                                               *)
LEMMA NumberFacts ==
    ASSUME TypeInv
    PROVE  /\ seq \in Nat /\ NextId \in Nat /\ NextId > 0 /\ NextId > seq /\ seq \in seq..MaxId[table]
           /\ Room => NextId \in seq..MaxId[table]
           /\ Burnt \in seq..MaxId[table] /\ Burnt \in Nat /\ seq <= Burnt
           /\ held \in [Clients -> 0..seq]
           /\ \A n \in Nat : seq <= n => held \in [Clients -> 0..n]
           /\ DOMAIN call = Clients
<1>1. /\ seq \in Nat /\ MaxId[table] \in Nat /\ seq <= MaxId[table] /\ held \in [Clients -> 0..seq]
      /\ DOMAIN call = Clients
  BY Types DEF TypeInv, BootOK, CallsOK
<1> QED
  BY <1>1 DEF NextId, Room, Burnt

(* Migrations, boots, crashes and the clock keep the types: an application *)
(* serves on a whole schema only, whose stamps are normalised.             *)
LEMMA BootTypes ==
    ASSUME TypeInv,
           \/ ApplyMigration \/ Serve \/ Tick
           \/ \E c \in Clients : TakeLock(c) \/ Commit(c) \/ Rollback(c) \/ Crash(c)
    PROVE  TypeInv'
<1> USE DEF fixed, boot
<1>0. \A c \in Clients : c # Null /\ slug[c] # Null
  BY SchemaAssumption DEF TypeInv, BootOK
<1>1. CASE ApplyMigration
  <2>1. \A c \in Clients : call[c] = Idle
    BY <1>1 DEF ApplyMigration, TypeInv, CallsOK, CallOK
  <2>2. CallsOK'
    BY <1>1, <2>1 DEF ApplyMigration, TypeInv, CallsOK, CallOK
  <2>3. BootOK'
    BY <1>1, StoreAssumption DEF ApplyMigration, TypeInv, BootOK
  <2>4. RowsOK(rows, seq)'
    <3>0. Latest \in Nat /\ Normalise \in Nat /\ version \in Nat
      BY StoreAssumption DEF TypeInv, BootOK
    <3>1. CASE version' = Normalise
      <4> DEFINE f == [r \in rows |-> Normalised(r)]
      <4>1. BootOK /\ RowsOK(rows, seq) /\ rows \subseteq RowOf(table)
        BY DEF TypeInv, RowsOK
      <4>2. ASSUME NEW r \in rows
            PROVE  /\ f[r] \in RowOf(table) /\ f[r].id = r.id /\ f[r].inst = r.inst /\ f[r].key = r.key
                   /\ f[r].at.t = r.at.t /\ ~f[r].at.legacy
        BY <4>1 DEF RowOf, Normalised
      <4>3. f \in Surjection(rows, rows')
        BY <1>1, <3>1, <4>2 DEF ApplyMigration, Surjection
      <4>5. rows' = {f[r] : r \in rows}
        BY <1>1, <3>1 DEF ApplyMigration
      <4>4. IsFiniteSet(rows') /\ rows' \subseteq RowOf(table)
        <5>1. IsFiniteSet(rows')
          BY <4>1, <4>3, FS_Surjection DEF RowsOK
        <5> HIDE DEF f
        <5> QED
          BY <4>2, <4>5, <5>1
      <4>6. UNCHANGED <<table, seq, now, backend>>
        BY <1>1 DEF ApplyMigration
      <4> HIDE DEF f
      <4>7. ASSUME NEW p \in rows, NEW r \in rows
            PROVE  /\ f[p].id <= seq /\ (f[p].id = 0 <=> table \notin Numbered) /\ f[p].at.t <= now
                   /\ f[p].id = f[r].id /\ f[p].id # 0 => f[p] = f[r]
                   /\ f[p].inst = f[r].inst /\ f[p].key = f[r].key /\ table \in Unique => f[p] = f[r]
                   /\ f[p].id < f[r].id => f[p].at.t <= f[r].at.t
        <5>1. /\ p.id <= seq /\ (p.id = 0 <=> table \notin Numbered) /\ p.at.t <= now
              /\ p.id = r.id /\ p.id # 0 => p = r
              /\ p.inst = r.inst /\ p.key = r.key /\ table \in Unique => p = r
              /\ p.id < r.id => p.at.t <= r.at.t
          BY <4>1 DEF RowsOK
        <5> QED
          BY <4>2, <5>1
      <4> QED
        BY <4>2, <4>4, <4>5, <4>6, <4>7 DEF RowsOK
    <3>2. CASE version' # Normalise
      BY <1>1, <3>0, <3>2 DEF ApplyMigration, TypeInv, RowsOK
    <3> QED
      BY <3>1, <3>2
  <2> QED
    BY <2>2, <2>3, <2>4 DEF TypeInv
<1>2. CASE Serve
  <2>1. \A c \in Clients : call[c] = Idle
    BY <1>2 DEF Serve, TypeInv, CallsOK, CallOK
  <2> QED
    BY <1>2, <2>1 DEF Serve, TypeInv, BootOK, RowsOK, CallsOK, CallOK
<1>3. CASE Tick
  <2>1. now' \in Start..MaxNow /\ now <= now' /\ now \in Nat
    BY <1>3, StoreAssumption DEF Tick, TypeInv, BootOK
  <2>2. BootOK' /\ CallsOK'
    BY <1>3, <2>1 DEF Tick, TypeInv, BootOK, CallsOK, CallOK
  <2>3. RowsOK(rows, seq)'
    <3>1. \A r \in rows : r.at.t \in Nat /\ r.at.t <= now
      BY DEF TypeInv, RowsOK, RowOf
    <3>2. \A r \in rows : r.at.t <= now'
      BY <2>1, <3>1
    <3> QED
      BY <1>3, <3>2 DEF Tick, TypeInv, RowsOK
  <2> QED
    BY <2>2, <2>3 DEF TypeInv
<1>4. ASSUME NEW c \in Clients, TakeLock(c) PROVE TypeInv'
  BY <1>4 DEF TakeLock, TypeInv, BootOK, RowsOK, CallsOK, CallOK
<1>5. ASSUME NEW c \in Clients, Commit(c) PROVE TypeInv'
  <2>1. backend = "postgres" /\ c \notin up
    BY <1>0, <1>5 DEF Commit, TypeInv, BootOK
  <2>2. BootOK'
    BY <1>0, <1>5, <2>1, StoreAssumption DEF Commit, TypeInv, BootOK
  <2>3. CallsOK'
    BY <1>5, <2>1 DEF Commit, TypeInv, CallsOK, CallOK
  <2>4. RowsOK(rows, seq)'
    BY <1>5, <2>1 DEF Commit, TypeInv, RowsOK
  <2> QED
    BY <2>2, <2>3, <2>4 DEF TypeInv
<1>6. ASSUME NEW c \in Clients, Rollback(c) PROVE TypeInv'
  BY <1>6 DEF Rollback, TypeInv, BootOK, RowsOK, CallsOK, CallOK
<1>7. ASSUME NEW c \in Clients, Crash(c) PROVE TypeInv'
  <2>1. \A d \in Clients : call'[d] = Idle \/ (call'[d] = call[d] /\ (d \in up => d \in up'))
    BY <1>7 DEF Crash
  <2>2. CallsOK'
    BY <1>7, <2>1 DEF Crash, TypeInv, CallsOK, CallOK
  <2>3. held' \in [Clients -> 0..seq]
    BY <1>7, Types DEF Crash, TypeInv, BootOK
  <2>4. BootOK' /\ RowsOK(rows, seq)'
    BY <1>7, <2>3 DEF Crash, TypeInv, BootOK, RowsOK
  <2> QED
    BY <2>2, <2>4 DEF TypeInv
<1> QED
  BY <1>1, <1>2, <1>3, <1>4, <1>5, <1>6, <1>7


(* The statements that write, but for the claims.                          *)
LEMMA WriteTypes ==
    ASSUME TypeInv, NEW c \in Clients,
           \/ InstallsUpsert(c) \/ InstallsSetStatus(c) \/ InstallsSetExternalAccount(c)
           \/ StateWrite(c) \/ StateDelete(c) \/ CursorsSet(c) \/ WebhookSeenRelease(c)
           \/ PurgeOldRecords(c) \/ RejectedItemsDeleteByIds(c) \/ WebhookSeenClaim(c)
    PROVE  TypeInv'
<1>0. Quietly
  BY DEF InstallsUpsert, InstallsSetStatus, InstallsSetExternalAccount, StateWrite, StateDelete,
         CursorsSet, WebhookSeenRelease, PurgeOldRecords, RejectedItemsDeleteByIds, WebhookSeenClaim
<1>1. /\ RowsOK(rows, seq) /\ table \in Tables /\ Begun(table) \subseteq Values(table)
      /\ seq \in Nat /\ BootOK
  BY TableFacts, Types DEF TypeInv, BootOK
<1>2. CASE InstallsUpsert(c) \/ StateWrite(c) \/ CursorsSet(c)
  <2>1. PICK i \in Insts, k \in KeysOf(table), v \in Begun(table), g \in Given(table) :
            rows' = InsertOrUpdate(i, k, v, g) /\ table \in Upserted
    <3>1. CASE InstallsUpsert(c)
      BY <1>1, <3>1, KeysFacts DEF InstallsUpsert, Rows, Upserted
    <3>2. CASE StateWrite(c)
      <4>1. KeysOf(table) = Keys /\ Null \in Given(table) /\ table \in Upserted
        BY <1>1, <3>2, KeysFacts, TableFacts DEF StateWrite, Upserted
      <4> QED
        BY <3>2, <4>1 DEF StateWrite, Rows
    <3>3. CASE CursorsSet(c)
      <4>1. KeysOf(table) = Keys /\ table \in Upserted
        BY <1>1, <3>3, KeysFacts DEF CursorsSet, Upserted
      <4> QED
        BY <3>3, <4>1 DEF CursorsSet, Rows
    <3> QED
      BY <1>2, <3>1, <3>2, <3>3
  <2> QED
    BY <1>0, <1>1, <2>1, UpsertedRows, QuietTypes
<1>3. CASE InstallsSetStatus(c)
  <2>1. PICK i \in Insts, v \in Begun(table), stamps \in {Null, "stamped"} :
            rows' = {IF r.inst = i THEN [r EXCEPT !.val = v, !.stamps = stamps, !.at = NowIso]
                     ELSE r : r \in rows}
    BY <1>3 DEF InstallsSetStatus, Rows
  <2>2. RowsOK(rows', seq)
    BY <1>1, <1>3, <2>1, StatusRows DEF InstallsSetStatus
  <2> QED
    BY <1>0, <2>2, QuietTypes
<1>4. CASE InstallsSetExternalAccount(c)
  <2>1. PICK i \in Insts, ref \in {Null, "account"} :
            rows' = {IF r.inst = i THEN [r EXCEPT !.ref = ref, !.at = NowIso] ELSE r : r \in rows}
    BY <1>4 DEF InstallsSetExternalAccount, Rows
  <2>2. RowsOK(rows', seq)
    BY <1>1, <1>4, <2>1, AccountRows DEF InstallsSetExternalAccount
  <2> QED
    BY <1>0, <2>2, QuietTypes
<1>5. CASE StateDelete(c) \/ WebhookSeenRelease(c) \/ PurgeOldRecords(c) \/ RejectedItemsDeleteByIds(c)
  <2>1. rows' \subseteq rows
    BY <1>5 DEF StateDelete, WebhookSeenRelease, PurgeOldRecords, RejectedItemsDeleteByIds, Rows
  <2> QED
    BY <1>0, <1>1, <2>1, SubsetRows, QuietTypes
<1>6. CASE WebhookSeenClaim(c)
  <2>1. table = "webhook_seen" /\ table \in Claimed
    BY <1>6 DEF WebhookSeenClaim, Claimed
  <2>2. PICK i \in Insts, k \in Keys : rows' = IF At(i, k) = {} THEN Claims(i, k) ELSE rows
    BY <1>6 DEF WebhookSeenClaim, Rows
  <2>3. RowsOK(rows', seq)
    BY <1>1, <2>1, <2>2, ClaimedRows
  <2> QED
    BY <1>0, <2>3, QuietTypes
<1> QED
  BY <1>2, <1>3, <1>4, <1>5, <1>6

(* What draws or uses an id keeps the types.                               *)
LEMMA NumberTypes ==
    ASSUME TypeInv, NEW c \in Clients, RunsStart(c) \/ Log(c) \/ Finish(c)
    PROVE  TypeInv'
<1>1. /\ RowsOK(rows, seq) /\ table \in Tables /\ Begun(table) \subseteq Values(table)
      /\ Ended(table) \subseteq Values(table)
  BY TableFacts DEF TypeInv, BootOK
<1>2. UNCHANGED <<fixed, boot, now, call>>
  BY DEF RunsStart, Log, Finish
<1>3. DOMAIN call' = Clients
  BY <1>2, NumberFacts
<1>4. CASE RunsStart(c) \/ Log(c)
  <2>1. PICK i \in Insts, v \in Begun(table) : rows' = Insert(i, v)
    <3>1. CASE RunsStart(c)
      BY <3>1 DEF RunsStart, Rows, Begun
    <3>2. CASE Log(c)
      BY <3>2 DEF Log, Rows
    <3> QED
      BY <1>4, <3>1, <3>2
  <2>2. table \in Logged /\ seq' = NextId /\ Room
    BY <1>4 DEF RunsStart, Log, Logged
  <2>3. RowsOK(rows', seq')
    BY <1>1, <2>1, <2>2, InsertedRows
  <2>4. seq' \in seq..MaxId[table] /\ seq' \in Nat /\ seq <= seq' /\ held \in [Clients -> 0..seq'] /\ NextId \in 0..seq'
    BY <2>2, NumberFacts
  <2>5. held' \in [Clients -> 0..seq']
    BY <1>4, <2>2, <2>4 DEF RunsStart, Log, Holds
  <2>6. CallOK(c)'
    BY <1>2, <2>4, SameCall
  <2> QED
    BY <1>2, <1>3, <2>3, <2>4, <2>5, <2>6, Serving
<1>5. CASE Finish(c)
  <2>1. PICK v \in Ended(table) :
            rows' = {IF r.id = held[c] THEN [r EXCEPT !.val = v] ELSE r : r \in rows}
    BY <1>5 DEF Finish, Rows
  <2>2. seq' = seq
    BY <1>5 DEF Finish
  <2>3. RowsOK(rows', seq')
    BY <1>1, <2>1, <2>2, FinishedRows
  <2>4. held' \in [Clients -> 0..seq'] /\ seq' \in seq..MaxId[table] /\ seq' \in Nat /\ seq <= seq'
    BY <1>5, <2>2, NumberFacts DEF Finish, Holds
  <2>5. CallOK(c)'
    BY <1>2, <2>4, SameCall
  <2> QED
    BY <1>2, <1>3, <2>3, <2>4, <2>5, Serving
<1> QED
  BY <1>4, <1>5


(* What is known of a call between two statements.                         *)
LEMMA CallKinds ==
    ASSUME TypeInv, NEW c \in Clients
    PROVE  /\ call[c].at = "idle" <=> call[c] = Idle
           /\ call[c].at \in {"find", "retry"} =>
                /\ call[c] \in [at : {"find", "retry"}, inst : Insts, key : Keys]
                /\ table = "inbound_event" /\ backend = "postgres" /\ c \in up
           /\ call[c].at = "refind" =>
                /\ call[c] \in [at : {"refind"}, inst : Insts, key : Keys, id : 0..seq]
                /\ table = "inbound_event" /\ backend = "postgres" /\ c \in up
           /\ call[c].at = "items" =>
                /\ call[c] \in [at : {"items"}, total : Nat, scope : Scopes(table), offset : Nat]
                /\ table \in Paged /\ backend = "postgres" /\ c \in up
           /\ call[c].at \in {"idle", "find", "retry", "refind", "items"}
<1>1. CallOK(c)
  BY DEF TypeInv, CallsOK
<1>2. CASE call[c] = Idle
  BY <1>2 DEF Idle
<1>3. CASE call[c] \in [at : {"find", "retry"}, inst : Insts, key : Keys]
  BY <1>1, <1>3 DEF CallOK, Idle
<1>4. CASE call[c] \in [at : {"refind"}, inst : Insts, key : Keys, id : 0..seq]
  BY <1>1, <1>4 DEF CallOK, Idle
<1>5. CASE call[c] \in [at : {"items"}, total : Nat, scope : Scopes(table), offset : Nat]
  BY <1>1, <1>5 DEF CallOK, Idle
<1> QED
  BY <1>1, <1>2, <1>3, <1>4, <1>5 DEF CallOK

(* The parts of a row.                                                     *)
LEMMA RowIds ==
    ASSUME TypeInv, NEW r \in rows
    PROVE  /\ r.id \in 0..seq /\ r.inst \in Insts /\ r.key \in KeysOf(table) /\ r \in RowOf(table)
           /\ r.val \in Values(table)
<1>1. r \in RowOf(table) /\ r.id <= seq /\ seq \in Nat
  BY Types DEF TypeInv, RowsOK
<1> QED
  BY <1>1 DEF RowOf

(* The statements of a claim keep the types.                               *)
LEMMA ClaimTypes ==
    ASSUME TypeInv, NEW c \in Clients,
           InboundClaim(c) \/ FindClaimed(c) \/ RetryClaim(c) \/ FindRetried(c)
    PROVE  TypeInv'
<1>0. /\ RowsOK(rows, seq) /\ UNCHANGED <<fixed, boot, now>>
  BY DEF TypeInv, InboundClaim, FindClaimed, RetryClaim, FindRetried
<1>1. CASE InboundClaim(c)
  <2>0. table = "inbound_event" /\ table \in Claimed /\ Room /\ c \in up /\ NextId \in Nat
    BY <1>1, NumberFacts DEF InboundClaim, Claimed, Ready
  <2>1. PICK i \in Insts, k \in Keys :
           \/ /\ At(i, k) = {} /\ Rows(Claims(i, k)) /\ seq' = NextId /\ Holds(c, NextId) /\ UNCHANGED call
           \/ /\ At(i, k) # {} /\ \E row \in At(i, k) : Existing(c, row)
              /\ UNCHANGED <<rows, seq, call>>
           \/ /\ At(i, k) # {} /\ backend = "postgres" /\ seq' = Burnt
              /\ call' = [call EXCEPT ![c] = [at |-> "find", inst |-> i, key |-> k]]
              /\ UNCHANGED <<rows, held>>
    BY <1>1 DEF InboundClaim
  <2>2. CASE At(i, k) = {} /\ Rows(Claims(i, k)) /\ seq' = NextId /\ Holds(c, NextId) /\ UNCHANGED call
    <3>1. rows' = Claims(i, k) /\ RowsOK(rows', seq')
      BY <2>0, <2>2, ClaimedRows DEF Rows
    <3>2. /\ seq' \in seq..MaxId[table] /\ seq' \in Nat /\ seq <= seq' /\ held \in [Clients -> 0..seq']
          /\ NextId \in 0..seq' /\ DOMAIN call' = Clients
      BY <2>0, <2>2, NumberFacts
    <3>3. held' \in [Clients -> 0..seq']
      BY <2>2, <3>2 DEF Holds
    <3>4. CallOK(c)'
      BY <1>0, <2>2, <3>2, SameCall
    <3> QED
      BY <1>0, <2>2, <3>1, <3>2, <3>3, <3>4, Serving
  <2>3. CASE \E row \in At(i, k) : Existing(c, row) /\ UNCHANGED <<rows, seq, call>>
    <3>1. PICK row \in At(i, k) : Existing(c, row)
      BY <2>3
    <3>2. row.id \in 0..seq
      BY <3>1, RowIds DEF At
    <3>3. seq' \in seq..MaxId[table] /\ seq' \in Nat /\ seq <= seq' /\ DOMAIN call' = Clients
      BY <2>3, NumberFacts
    <3>4. held' \in [Clients -> 0..seq']
      BY <2>3, <3>1, <3>2, NumberFacts DEF Existing, Holds
    <3>5. CallOK(c)' /\ RowsOK(rows', seq')
      BY <1>0, <2>3, <3>3, SameCall
    <3> QED
      BY <1>0, <2>3, <3>3, <3>4, <3>5, Serving
  <2>4. CASE /\ backend = "postgres" /\ seq' = Burnt
             /\ call' = [call EXCEPT ![c] = [at |-> "find", inst |-> i, key |-> k]]
             /\ UNCHANGED <<rows, held>>
    <3>1. /\ seq' \in seq..MaxId[table] /\ seq' \in Nat /\ seq <= seq' /\ DOMAIN call' = Clients
          /\ held' \in [Clients -> 0..seq']
      BY <2>4, NumberFacts
    <3>2. RowsOK(rows', seq')
      BY <2>4, <3>1, SameRows
    <3>3. call'[c] = [at |-> "find", inst |-> i, key |-> k]
      BY <2>4, NumberFacts
    <3>4. CallOK(c)'
      BY <1>0, <2>0, <2>4, <3>3 DEF CallOK, fixed, boot
    <3>5. \A d \in Clients \ {c} : call'[d] = call[d]
      BY <2>4
    <3> QED
      BY <1>0, <3>1, <3>2, <3>4, <3>5, Serving
  <2> QED
    BY <2>1, <2>2, <2>3, <2>4
<1>2. CASE FindClaimed(c)
  <2>0. /\ call[c] \in [at : {"find", "retry"}, inst : Insts, key : Keys]
        /\ table = "inbound_event" /\ backend = "postgres" /\ c \in up
    BY <1>2, CallKinds DEF FindClaimed
  <2>1. /\ seq' = seq /\ rows' = rows
        /\ seq' \in seq..MaxId[table] /\ seq' \in Nat /\ seq <= seq' /\ DOMAIN call' = Clients
        /\ \A d \in Clients \ {c} : call'[d] = call[d]
    BY <1>2, NumberFacts DEF FindClaimed
  <2>2. CallOK(c)'
    <3>1. call'[c] = Idle \/ call'[c] = [call[c] EXCEPT !.at = "retry"]
      BY <1>2, NumberFacts DEF FindClaimed
    <3> QED
      BY <1>0, <2>0, <3>1 DEF CallOK, fixed, boot
  <2>3. held' \in [Clients -> 0..seq']
    <3>1. CASE held' = held
      BY <2>1, <3>1, NumberFacts
    <3>2. CASE \E row \in At(call[c].inst, call[c].key) : Existing(c, row)
      <4>1. PICK row \in At(call[c].inst, call[c].key) : Existing(c, row)
        BY <3>2
      <4>2. row.id \in 0..seq
        BY <4>1, RowIds DEF At
      <4> QED
        BY <2>1, <4>1, <4>2, NumberFacts DEF Existing, Holds
    <3> QED
      BY <1>2, <3>1, <3>2 DEF FindClaimed
  <2> QED
    BY <1>0, <2>1, <2>2, <2>3, Serving
<1>3. CASE RetryClaim(c)
  <2>0. /\ call[c] \in [at : {"find", "retry"}, inst : Insts, key : Keys]
        /\ table = "inbound_event" /\ backend = "postgres" /\ c \in up /\ table \in Claimed
    BY <1>3, CallKinds DEF RetryClaim, Claimed
  <2> DEFINE i == call[c].inst
             k == call[c].key
             id == IF At(i, k) = {} THEN NextId ELSE 0
  <2>1. /\ call' = [call EXCEPT ![c] = [at |-> "refind", inst |-> i, key |-> k, id |-> id]]
        /\ seq' = Burnt /\ held' = held /\ (At(i, k) = {} => Room)
        /\ rows' = IF At(i, k) = {} THEN Claims(i, k) ELSE rows
    BY <1>3 DEF RetryClaim, Rows
  <2>2. /\ i \in Insts /\ k \in Keys
        /\ seq' \in seq..MaxId[table] /\ seq' \in Nat /\ seq <= seq' /\ DOMAIN call' = Clients
        /\ held' \in [Clients -> 0..seq'] /\ NextId \in Nat
    BY <2>0, <2>1, NumberFacts
  <2> HIDE DEF i, k
  <2>3. At(i, k) = {} => seq' = NextId
    BY <2>1 DEF Burnt
  <2>4. RowsOK(rows', seq')
    <3>1. CASE At(i, k) = {}
      BY <2>0, <2>1, <2>2, <2>3, <3>1, ClaimedRows
    <3>2. CASE At(i, k) # {}
      BY <2>1, <2>2, <3>2, SameRows
    <3> QED
      BY <3>1, <3>2
  <2>5. CallOK(c)'
    <3>1. id \in 0..seq'
      BY <2>2, <2>3
    <3>2. call'[c] = [at |-> "refind", inst |-> i, key |-> k, id |-> id]
      BY <2>1, NumberFacts
    <3> HIDE DEF id
    <3> QED
      BY <1>0, <2>0, <2>2, <3>1, <3>2 DEF CallOK, fixed, boot
  <2>6. \A d \in Clients \ {c} : call'[d] = call[d]
    BY <2>1
  <2> QED
    BY <1>0, <2>2, <2>4, <2>5, <2>6, Serving
<1>4. CASE FindRetried(c)
  <2>0. /\ call[c].id \in 0..seq
    BY <1>4, CallKinds DEF FindRetried
  <2>1. /\ seq' = seq /\ rows' = rows /\ call'[c] = Idle
        /\ seq' \in seq..MaxId[table] /\ seq' \in Nat /\ seq <= seq' /\ DOMAIN call' = Clients
        /\ \A d \in Clients \ {c} : call'[d] = call[d]
    BY <1>4, NumberFacts DEF FindRetried
  <2>2. CallOK(c)'
    BY <2>1 DEF CallOK, Idle
  <2>3. held' \in [Clients -> 0..seq']
    <3> DEFINE old == At(call[c].inst, call[c].key)
               row == IF old = {} THEN [id |-> call[c].id, val |-> "received"] ELSE CHOOSE r \in old : TRUE
    <3>1. row.id \in 0..seq
      <4>1. CASE old = {}
        BY <2>0, <4>1
      <4>2. CASE old # {}
        <5>1. row \in old
          BY <4>2
        <5> HIDE DEF row
        <5> QED
          BY <5>1, RowIds DEF At
      <4> QED
        BY <4>1, <4>2
    <3>2. PICK id \in {row.id, 0} : held' = [held EXCEPT ![c] = id]
      BY <1>4 DEF FindRetried, Holds
    <3>3. 0 \in 0..seq
      BY NumberFacts
    <3> HIDE DEF row
    <3> QED
      BY <2>1, <3>1, <3>2, <3>3, NumberFacts
  <2> QED
    BY <1>0, <2>1, <2>2, <2>3, Serving
<1> QED
  BY <1>1, <1>2, <1>3, <1>4


-----------------------------------------------------------------------------
(* The operator's list keeps its type.                                     *)

WalkTyped == walk \in [scope : Scopes(table) \union {{}}, offset : Nat, due : SUBSET Ids(rows)]

Walks == [scope : Scopes(table) \union {{}}, offset : Nat, due : SUBSET Ids(rows)]

(* A list is finite, and its ids have been drawn.                          *)
LEMMA ListedTypes ==
    ASSUME TypeInv, NEW scope
    PROVE  /\ IsFiniteSet(Listed(scope)) /\ Cardinality(Listed(scope)) \in Nat
           /\ Ids(Listed(scope)) \subseteq Ids(rows) /\ Ids(rows) \subseteq 1..seq
<1>1. IsFiniteSet(Listed(scope))
  BY FS_Subset DEF TypeInv, RowsOK, Listed
<1>2. Ids(rows) \subseteq 1..seq
  BY RowIds, Types DEF Ids, TypeInv
<1> QED
  BY <1>1, <1>2, FS_CardinalityType DEF Listed, Ids

(* The operator opens a list, or goes on with it.                          *)
LEMMA TurnTypes ==
    ASSUME TypeInv, WalkTyped, NEW turn \in Turns
    PROVE  turn \in Walks /\ turn.scope \in Scopes(table)
<1>1. CASE walk.scope # {}
  BY <1>1 DEF WalkTyped, Walks, Turns
<1>2. CASE walk.scope = {}
  <2>1. PICK s \in Scopes(table) : turn = [scope |-> s, offset |-> 0, due |-> Ids(Listed(s))]
    BY <1>2 DEF Turns
  <2> QED
    BY <2>1, ListedTypes DEF Walks
<1> QED
  BY <1>1, <1>2

(* A page that has been turned leaves a walk.                              *)
LEMMA TurnedTypes ==
    ASSUME NEW turn \in Walks, NEW items, NEW total
    PROVE  Turned(turn, items, total) \in Walks
<1> DEFINE due == turn.due \ Ids(items)
           next == turn.offset + Limit
<1>1. due \subseteq Ids(rows) /\ next \in Nat /\ Limit \in Nat
  BY SchemaAssumption DEF Walks
<1>2. Turned(turn, items, total) \in {NoWalk, [turn EXCEPT !.due = due, !.offset = next], [NoWalk EXCEPT !.due = due]}
  BY DEF Turned
<1> HIDE DEF due, next
<1>3. NoWalk \in Walks
  BY DEF NoWalk, Walks
<1>4. [turn EXCEPT !.due = due, !.offset = next] \in Walks
  BY <1>1 DEF Walks
<1>5. [NoWalk EXCEPT !.due = due] \in Walks
  BY <1>1, <1>3 DEF Walks
<1> QED
  BY <1>2, <1>3, <1>4, <1>5

(* A statement that writes leaves a walk.                                  *)
LEMMA RowsWalk ==
    ASSUME WalkTyped, NEW new, Rows(new)
    PROVE  walk' \in [scope : Scopes(table) \union {{}}, offset : Nat, due : SUBSET Ids(new)]
BY DEF Rows, WalkTyped, NoWalk

(* No statement changes what a behaviour fixes.                            *)
LEMMA FixedStays == [Next]_vars => fixed' = fixed
<1>1. ApplyMigration \/ Serve \/ Tick \/ UNCHANGED vars => fixed' = fixed
  BY DEF vars, fixed, ApplyMigration, Serve, Tick
<1>2. ASSUME NEW c \in Clients PROVE TakeLock(c) \/ Commit(c) \/ Rollback(c) \/ Crash(c) => fixed' = fixed
  BY DEF fixed, TakeLock, Commit, Rollback, Crash
<1>3. ASSUME NEW c \in Clients PROVE InstallsUpsert(c) \/ InstallsSetStatus(c) \/ InstallsSetExternalAccount(c) => fixed' = fixed
  BY DEF fixed, Quietly, InstallsUpsert, InstallsSetStatus, InstallsSetExternalAccount
<1>4. ASSUME NEW c \in Clients PROVE StateWrite(c) \/ StateDelete(c) \/ CursorsSet(c) => fixed' = fixed
  BY DEF fixed, Quietly, StateWrite, StateDelete, CursorsSet
<1>5. ASSUME NEW c \in Clients PROVE RunsStart(c) \/ Log(c) \/ Finish(c) => fixed' = fixed
  BY DEF fixed, Quietly, RunsStart, Log, Finish
<1>6. ASSUME NEW c \in Clients PROVE WebhookSeenClaim(c) \/ WebhookSeenRelease(c) => fixed' = fixed
  BY DEF fixed, Quietly, WebhookSeenClaim, WebhookSeenRelease
<1>7. ASSUME NEW c \in Clients PROVE InboundClaim(c) \/ FindClaimed(c) => fixed' = fixed
  BY DEF fixed, Quietly, InboundClaim, FindClaimed
<1>8. ASSUME NEW c \in Clients PROVE RetryClaim(c) \/ FindRetried(c) => fixed' = fixed
  BY DEF fixed, Quietly, RetryClaim, FindRetried
<1>9. ASSUME NEW c \in Clients PROVE PurgeOldRecords(c) \/ RejectedItemsDeleteByIds(c) => fixed' = fixed
  BY DEF fixed, Quietly, PurgeOldRecords, RejectedItemsDeleteByIds
<1>10. ASSUME NEW c \in Clients PROVE ListSqlite(c) \/ CountPg(c) \/ ItemsPg(c) => fixed' = fixed
  BY DEF fixed, Quietly, ListSqlite, CountPg, ItemsPg
<1> QED
  BY <1>1, <1>2, <1>3, <1>4, <1>5, <1>6, <1>7, <1>8, <1>9, <1>10 DEF Next

(* So does every step.                                                     *)
LEMMA WalkStep ==
    ASSUME TypeInv, WalkTyped, Next
    PROVE  WalkTyped'
<1>1. table' = table
  BY FixedStays DEF fixed
<1>2. Scopes(table)' = Scopes(table)
  BY <1>1 DEF Scopes, Numbered, Logged, Unscoped
<1>3. ASSUME NEW new, Rows(new) PROVE WalkTyped'
  <2>1. rows' = new /\ walk' \in [scope : Scopes(table) \union {{}}, offset : Nat, due : SUBSET Ids(new)]
    BY <1>3, RowsWalk DEF Rows
  <2>2. Ids(rows)' = Ids(new)
    BY <2>1 DEF Ids
  <2> QED
    BY <1>2, <2>1, <2>2 DEF WalkTyped
<1>4. CASE UNCHANGED <<rows, walk>>
  BY <1>2, <1>4 DEF WalkTyped, Ids
<1>5. CASE ApplyMigration
  <2>1. rows' = rows \/ rows' = {Normalised(r) : r \in rows}
    BY <1>5 DEF ApplyMigration
  <2>2. \A r \in rows : Normalised(r).id = r.id
    BY RowIds DEF Normalised, RowOf
  <2>3. Ids(rows)' = Ids(rows)
    BY <2>1, <2>2 DEF Ids
  <2>4. walk' = walk
    BY <1>5 DEF ApplyMigration
  <2> QED
    BY <1>2, <2>3, <2>4 DEF WalkTyped
<1>6. CASE Serve \/ Tick \/ \E c \in Clients : TakeLock(c) \/ Commit(c) \/ Rollback(c) \/ Crash(c)
  BY <1>4, <1>6 DEF Serve, Tick, TakeLock, Commit, Rollback, Crash
<1>7. ASSUME NEW c \in Clients,
             \/ InstallsUpsert(c) \/ InstallsSetStatus(c) \/ InstallsSetExternalAccount(c)
             \/ StateWrite(c) \/ StateDelete(c) \/ CursorsSet(c)
      PROVE  \E new : Rows(new)
  BY <1>7 DEF InstallsUpsert, InstallsSetStatus, InstallsSetExternalAccount, StateWrite, StateDelete,
              CursorsSet
<1>8. ASSUME NEW c \in Clients,
             \/ RunsStart(c) \/ Log(c) \/ Finish(c) \/ WebhookSeenClaim(c) \/ WebhookSeenRelease(c)
             \/ RetryClaim(c) \/ PurgeOldRecords(c)
      PROVE  \E new : Rows(new)
  BY <1>8 DEF RunsStart, Log, Finish, WebhookSeenClaim, WebhookSeenRelease, RetryClaim, PurgeOldRecords
<1>9. ASSUME NEW c \in Clients, InboundClaim(c) \/ FindClaimed(c) \/ FindRetried(c) PROVE WalkTyped'
  <2>1. (\E new : Rows(new)) \/ UNCHANGED <<rows, walk>>
    BY <1>9 DEF InboundClaim, FindClaimed, FindRetried
  <2> QED
    BY <1>3, <1>4, <2>1
<1>10. ASSUME NEW c \in Clients, RejectedItemsDeleteByIds(c) PROVE WalkTyped'
  <2>1. UNCHANGED <<rows, walk>> \/ walk' = NoWalk
    BY <1>10 DEF RejectedItemsDeleteByIds
  <2> QED
    BY <1>2, <1>4, <2>1 DEF WalkTyped, NoWalk
<1>11. ASSUME NEW c \in Clients, ListSqlite(c) \/ CountPg(c) \/ ItemsPg(c) PROVE WalkTyped'
  <2>1. rows' = rows
    BY <1>11 DEF ListSqlite, CountPg, ItemsPg
  <2>2. \/ \E turn \in Turns : walk' = turn
        \/ \E turn \in Turns \union {walk} : \E items, total : walk' = Turned(turn, items, total)
    BY <1>11 DEF ListSqlite, CountPg, ItemsPg, Page
  <2>3. walk \in Walks
    BY DEF WalkTyped, Walks
  <2>4. walk' \in Walks
    BY <2>2, <2>3, TurnTypes, TurnedTypes
  <2>5. Ids(rows)' = Ids(rows)
    BY <2>1 DEF Ids
  <2> QED
    BY <1>2, <2>4, <2>5 DEF WalkTyped, Walks
<1> QED
  BY <1>3, <1>5, <1>6, <1>7, <1>8, <1>9, <1>10, <1>11 DEF Next

(* The statements of a list keep the types.                                *)
LEMMA ListTypes ==
    ASSUME TypeInv, WalkTyped, NEW c \in Clients, ListSqlite(c) \/ CountPg(c) \/ ItemsPg(c)
    PROVE  TypeInv'
<1>0. /\ RowsOK(rows, seq) /\ UNCHANGED <<fixed, boot, now>> /\ seq' = seq /\ rows' = rows /\ held' = held
  BY DEF TypeInv, ListSqlite, CountPg, ItemsPg, Quietly
<1>1. /\ seq' \in seq..MaxId[table] /\ seq' \in Nat /\ seq <= seq' /\ DOMAIN call' = Clients
      /\ held' \in [Clients -> 0..seq'] /\ RowsOK(rows', seq')
  BY <1>0, NumberFacts DEF ListSqlite, CountPg, ItemsPg, Quietly
<1>2. CASE ListSqlite(c)
  <2>1. call' = call
    BY <1>2 DEF ListSqlite, Quietly
  <2>2. CallOK(c)'
    BY <1>0, <1>1, <2>1, SameCall
  <2> QED
    BY <1>0, <1>1, <2>1, <2>2, Serving
<1>3. CASE CountPg(c)
  <2>1. PICK turn \in Turns :
           call' = [call EXCEPT ![c] = [at |-> "items", total |-> Cardinality(Listed(turn.scope)),
                                        scope |-> turn.scope, offset |-> turn.offset]]
    BY <1>3 DEF CountPg
  <2>2. turn.scope \in Scopes(table) /\ turn.offset \in Nat /\ Cardinality(Listed(turn.scope)) \in Nat
    BY TurnTypes, ListedTypes DEF Walks
  <2>3. call'[c] = [at |-> "items", total |-> Cardinality(Listed(turn.scope)),
                    scope |-> turn.scope, offset |-> turn.offset]
    BY <2>1, NumberFacts
  <2>4. backend = "postgres" /\ c \in up /\ table \in Paged
    BY <1>3 DEF CountPg, Ready
  <2>5. Scopes(table)' = Scopes(table)
    BY <1>0 DEF fixed, Scopes, Numbered, Logged, Unscoped
  <2>6. CallOK(c)'
    BY <1>0, <2>2, <2>3, <2>4, <2>5 DEF CallOK, fixed, boot
  <2>7. \A d \in Clients \ {c} : call'[d] = call[d]
    BY <2>1
  <2> QED
    BY <1>0, <1>1, <2>6, <2>7, Serving
<1>4. CASE ItemsPg(c)
  <2>1. call'[c] = Idle /\ \A d \in Clients \ {c} : call'[d] = call[d]
    BY <1>4, NumberFacts DEF ItemsPg
  <2>2. CallOK(c)'
    BY <2>1 DEF CallOK, Idle
  <2> QED
    BY <1>0, <1>1, <2>1, <2>2, Serving
<1> QED
  BY <1>2, <1>3, <1>4

(* The types are inductive.                                                *)
LEMMA TypeNext == TypeInv /\ WalkTyped /\ [Next]_vars => TypeInv' /\ WalkTyped'
<1> SUFFICES ASSUME TypeInv, WalkTyped, [Next]_vars PROVE TypeInv' /\ WalkTyped'
  OBVIOUS
<1>1. CASE Next
  <2>1. ASSUME NEW c \in Clients,
              \/ InstallsUpsert(c) \/ InstallsSetStatus(c) \/ InstallsSetExternalAccount(c)
              \/ StateWrite(c) \/ StateDelete(c) \/ CursorsSet(c)
              \/ RunsStart(c) \/ Log(c) \/ Finish(c)
              \/ WebhookSeenClaim(c) \/ WebhookSeenRelease(c)
              \/ InboundClaim(c) \/ FindClaimed(c) \/ RetryClaim(c) \/ FindRetried(c)
              \/ PurgeOldRecords(c) \/ RejectedItemsDeleteByIds(c)
              \/ ListSqlite(c) \/ CountPg(c) \/ ItemsPg(c)
        PROVE  TypeInv'
    BY <2>1, WriteTypes, NumberTypes, ClaimTypes, ListTypes
  <2>2. TypeInv'
    BY <1>1, <2>1, BootTypes DEF Next
  <2> QED
    BY <1>1, <2>2, WalkStep
<1>2. CASE UNCHANGED vars
  BY <1>2 DEF vars, fixed, boot, TypeInv, WalkTyped, BootOK, RowsOK, CallsOK, CallOK
<1> QED
  BY <1>1, <1>2

(* An empty or an old schema, and nobody serves.                           *)
LEMMA TypeInit == Init => TypeInv /\ WalkTyped
<1> SUFFICES ASSUME Init PROVE TypeInv /\ WalkTyped
  OBVIOUS
<1>0. /\ table \in Tables /\ now \in Start..MaxNow /\ now = Start /\ Start \in Nat
      /\ MaxId[table] \in Nat \ {0} /\ Latest \in Nat /\ Normalise \in 1..Latest
      /\ Null \notin Slugs
  BY StoreAssumption, SchemaAssumption DEF Init
<1>1. ASSUME NEW r, NEW stamps, r \in OldRows(stamps), stamps \subseteq [t : 0..Start, legacy : BOOLEAN]
      PROVE  /\ r \in RowOf(table) /\ r.id = IF table \in Numbered THEN 1 ELSE 0
             /\ r.at \in stamps /\ r.at.t <= now
  <2>1. PICK i \in Insts, k \in KeysOf(table), v \in Values(table), s \in stamps :
           r = NewRow(IF table \in Numbered THEN 1 ELSE 0, i, k, v, Initially(table), s)
    BY <1>1 DEF OldRows
  <2>2. s \in [t : Nat, legacy : BOOLEAN] /\ s.t <= now
    BY <1>0, <1>1, <2>1
  <2>3. Initially(table) \in Given(table)
    BY <1>0, TableFacts
  <2> QED
    BY <2>1, <2>2, <2>3 DEF NewRow, RowOf
<1>2. /\ {Legacy(t) : t \in 0..Start} \subseteq [t : 0..Start, legacy : BOOLEAN]
      /\ {Iso(t) : t \in 0..Start} \subseteq [t : 0..Start, legacy : BOOLEAN]
      /\ \A s \in {Iso(t) : t \in 0..Start} : ~s.legacy
  <2>1. ASSUME NEW n \in 0..Start
        PROVE  /\ Legacy(n) \in [t : 0..Start, legacy : BOOLEAN]
               /\ Iso(n) \in [t : 0..Start, legacy : BOOLEAN] /\ ~Iso(n).legacy
    BY DEF Legacy, Iso
  <2> QED
    BY <2>1
<1>4. \/ version = 0 /\ owner = Null /\ rows = {} /\ seq = 0
      \/ \E r \in RowOf(table) :
            /\ rows = {r} /\ seq = r.id /\ r.id = IF table \in Numbered THEN 1 ELSE 0
            /\ r.at.t <= now /\ (r.at.legacy => backend = "sqlite" /\ version < Normalise)
            /\ version \in 0..Latest /\ owner \in Slugs \union {Null}
  <2>1. CASE /\ backend = "sqlite" /\ version = Normalise - 1 /\ owner = Null
             /\ \E r \in OldRows({Legacy(t) : t \in 0..Start}) : rows = {r} /\ seq = r.id
    BY <1>0, <1>1, <1>2, <2>1
  <2>2. CASE /\ backend = "postgres" /\ version = Latest /\ owner \in Slugs
             /\ \E r \in OldRows({Iso(t) : t \in 0..Start}) : rows = {r} /\ seq = r.id
    BY <1>0, <1>1, <1>2, <2>2
  <2> QED
    BY <2>1, <2>2 DEF Init
<1>5. CallsOK
  BY DEF Init, CallsOK, CallOK
<1>6. BootOK
  <2>1. version \in 0..Latest /\ owner \in Slugs \union {Null} /\ seq \in 0..MaxId[table]
    BY <1>0, <1>4
  <2> QED
    BY <1>0, <2>1 DEF Init, BootOK
<1>7. RowsOK(rows, seq)
  <2>1. CASE rows = {}
    BY <2>1, FS_EmptySet DEF RowsOK
  <2>2. CASE \E r \in RowOf(table) :
            /\ rows = {r} /\ seq = r.id /\ r.id = IF table \in Numbered THEN 1 ELSE 0
            /\ r.at.t <= now /\ (r.at.legacy => backend = "sqlite" /\ version < Normalise)
    <3>1. PICK r \in RowOf(table) :
            /\ rows = {r} /\ seq = r.id /\ r.id = IF table \in Numbered THEN 1 ELSE 0
            /\ r.at.t <= now /\ (r.at.legacy => backend = "sqlite" /\ version < Normalise)
      BY <2>2
    <3>2. IsFiniteSet(rows)
      BY <3>1, FS_Singleton
    <3>3. r.id \in Nat /\ r.at.t \in Nat
      BY DEF RowOf
    <3> QED
      BY <3>1, <3>2, <3>3 DEF RowsOK
  <2> QED
    BY <1>4, <2>1, <2>2
<1>3. WalkTyped
  BY DEF Init, WalkTyped, NoWalk
<1> QED
  BY <1>3, <1>5, <1>6, <1>7 DEF TypeInv

(* They contain what TLC checks.                                           *)
LEMMA TypeInvIsTypeOK == TypeInv /\ WalkTyped => TypeOK
<1> SUFFICES ASSUME TypeInv, WalkTyped PROVE TypeOK
  OBVIOUS
<1>1. ASSUME NEW r \in rows
      PROVE  /\ r.inst \in Insts /\ r.key \in KeysOf(table) /\ r.val \in Values(table)
             /\ r.kept \in Given(table) /\ r.id \in 0..seq /\ r.at.t <= now
             /\ \A q \in rows : q = r \/ q.id # r.id \/ q.id = 0
             /\ table \in Unique => At(r.inst, r.key) = {r}
             /\ up # {} => ~r.at.legacy
  <2>1. r \in RowOf(table) /\ r.kept \in Given(table)
    BY RowIds DEF RowOf
  <2>2. /\ r.at.t <= now
        /\ \A q \in rows : q = r \/ q.id # r.id \/ q.id = 0
        /\ table \in Unique => \A q \in rows : q.inst = r.inst /\ q.key = r.key => q = r
        /\ r.at.legacy => version < Normalise
    BY DEF TypeInv, RowsOK
  <2>3. up # {} => version >= Normalise /\ version \in Nat /\ Normalise \in Nat
    BY StoreAssumption DEF TypeInv, BootOK
  <2> QED
    BY <2>1, <2>2, <2>3, RowIds DEF At
<1>2. /\ backend \in {"sqlite", "postgres"} /\ table \in Tables
      /\ version \in 0..Latest /\ now \in Start..MaxNow /\ seq \in 0..MaxId[table]
      /\ up \subseteq Clients /\ lock \in (Clients \ up) \union {Null}
      /\ up # {} => version = Latest
      /\ backend = "postgres" => \A c \in up : owner = slug[c]
      /\ \A c \in Clients : held[c] \in 0..seq
  BY DEF TypeInv, BootOK
<1>3. \A c \in Clients : call[c].at \in {"idle", "find", "retry", "refind", "items"}
  BY CallKinds
<1>4. walk.scope \subseteq Insts /\ walk.due \subseteq Ids(rows)
  <2>1. Scopes(table) \subseteq (SUBSET Insts)
    BY <1>2, TableFacts
  <2> QED
    BY <2>1 DEF WalkTyped
<1> QED
  BY <1>1, <1>2, <1>3, <1>4 DEF TypeOK

(* Every variable of the store keeps its type; rows have ids and keys of   *)
(* their own, and stamps in today's format once the app serves; whoever    *)
(* serves is of the owner's integration.                                   *)
THEOREM TypeCorrect == Spec => []TypeOK
BY TypeInit, TypeNext, TypeInvIsTypeOK, PTL DEF Spec


-----------------------------------------------------------------------------
(* The rows in order: what comes before a row of a list is what is newer.  *)

(* A set of numbers has a least one.                                       *)
LEMMA LeastOf ==
    ASSUME NEW S \in SUBSET Nat, S # {}
    PROVE  \E i \in S : \A j \in S : i <= j
<1>0. S \subseteq Nat
  OBVIOUS
<1>1. \E R : IsWellFoundedOn(R, Nat) /\ \A j, k \in Nat : j < k => <<j, k>> \in R
  <2>1. \A j, k \in Nat : j < k => <<j, k>> \in OpToRel(<, Nat)
    BY DEF OpToRel
  <2>2. IsWellFoundedOn(OpToRel(<, Nat), Nat)
    BY NatLessThanWellFounded
  <2> QED
    BY <2>1, <2>2
<1>2. PICK R : IsWellFoundedOn(R, Nat) /\ \A j, k \in Nat : j < k => <<j, k>> \in R
  BY <1>1
<1>3. \E i \in S : \A j \in S : ~(<<j, i>> \in R)
  <2>1. IsWellFoundedOn(R, Nat)
    BY <1>2
  <2>2. \A T : T \subseteq Nat /\ T # {} => \E x \in T : \A y \in T : ~(<<y, x>> \in R)
    <3> SUFFICES ASSUME NEW T, T \subseteq Nat, T # {} PROVE \E x \in T : \A y \in T : ~(<<y, x>> \in R)
      OBVIOUS
    <3> QED
      BY <2>1, WFMin, ZenonT(30)
  <2> QED
    BY <1>0, <2>2
<1>4. PICK i \in S : \A j \in S : ~(<<j, i>> \in R)
  BY <1>3
<1>5. \A j \in S : i \in Nat /\ j \in Nat /\ ~(j < i)
  BY <1>0, <1>2, <1>4
<1>6. \A j \in S : i <= j
  BY <1>5
<1> QED
  BY <1>6

(* An order of a list has each of its rows once, and no newer row after an *)
(* older one.                                                              *)
LEMMA OrderTypes ==
    ASSUME TypeInv, NEW scope, NEW s \in InOrder(scope)
    PROVE  LET N == Cardinality(Listed(scope)) IN
           /\ N \in Nat /\ Len(s) = N /\ DOMAIN s = 1..N /\ s \in [1..N -> Listed(scope)]
           /\ \A i, j \in 1..N : i # j => s[i] # s[j]
           /\ \A r \in Listed(scope) : \E i \in 1..N : s[i] = r
           /\ \A m \in 1..(N - 1) : ~Newer(s[m + 1], s[m])
<1> DEFINE N == Cardinality(Listed(scope))
<1>1. N \in Nat /\ IsFiniteSet(Listed(scope))
  BY ListedTypes
<1>2. s \in [1..N -> Listed(scope)] /\ \A i, j \in 1..N : i # j => s[i] # s[j]
  BY DEF InOrder, SetToSeqs
<1>3. Len(s) = N
  <2>1. s \in Seq(Listed(scope))
    BY <1>1, <1>2, SeqDef
  <2>2. Len(s) \in Nat /\ 1..Len(s) = 1..N
    BY <1>2, <2>1, LenProperties
  <2> QED
    BY <1>1, <2>2
<1>4. \A r \in Listed(scope) : \E i \in 1..N : s[i] = r
  <2>1. s \in Injection(1..N, Listed(scope))
    BY <1>2 DEF Injection, IsInjective
  <2>2. Cardinality(1..N) = N
    BY <1>1, FS_Interval
  <2>3. s \in Surjection(1..N, Listed(scope))
    BY <1>1, <2>1, <2>2, FS_Injection
  <2> QED
    BY <2>3 DEF Surjection
<1>5. \A m \in 1..(N - 1) : ~Newer(s[m + 1], s[m])
  BY <1>3 DEF InOrder
<1> HIDE DEF N
<1>6. DOMAIN s = 1..N
  BY <1>2
<1> QED
  BY <1>1, <1>2, <1>3, <1>4, <1>5, <1>6 DEF N

(* Ids descend along the order of a numbered table, as greater ids are not *)
(* older.                                                                  *)
LEMMA OrderDescends ==
    ASSUME TypeInv, table \in Numbered, NEW scope, NEW s \in InOrder(scope),
           NEW m \in 1..Len(s), NEW n \in 1..Len(s), m < n
    PROVE  s[n].id < s[m].id
<1>0. /\ Len(s) \in Nat /\ \A i \in 1..Len(s) : s[i] \in rows /\ s[i].id \in Nat
      /\ \A i, j \in 1..Len(s) : i # j => s[i].id # s[j].id
  <2>1. /\ Len(s) \in Nat /\ \A i \in 1..Len(s) : s[i] \in rows
        /\ \A i, j \in 1..Len(s) : i # j => s[i] # s[j]
    <3>1. Listed(scope) \subseteq rows
      BY DEF Listed
    <3>2. /\ Len(s) \in Nat /\ s \in [1..Len(s) -> Listed(scope)]
          /\ \A i, j \in 1..Len(s) : i # j => s[i] # s[j]
      BY OrderTypes
    <3> QED
      BY <3>1, <3>2
  <2>2. \A q, r \in rows : q # r => q.id # r.id
    BY DEF TypeInv, RowsOK
  <2> QED
    BY <2>1, <2>2, RowIds
<1>1. \A i \in 1..(Len(s) - 1) : s[i + 1].id < s[i].id
  <2> SUFFICES ASSUME NEW i \in 1..(Len(s) - 1) PROVE s[i + 1].id < s[i].id
    OBVIOUS
  <2>1. i \in 1..Len(s) /\ i + 1 \in 1..Len(s) /\ i # i + 1
    BY <1>0
  <2>2. ~Newer(s[i + 1], s[i])
    BY OrderTypes
  <2>3. table # "installs"
    BY DEF Numbered, Logged
  <2>4. ~(s[i + 1].id > s[i].id)
    BY <2>2, <2>3 DEF Newer
  <2> QED
    BY <1>0, <2>1, <2>4
<1> DEFINE Wrong == {i \in 1..Len(s) : m < i /\ ~(s[i].id < s[m].id)}
<1>2. SUFFICES ASSUME Wrong # {} PROVE FALSE
  OBVIOUS
<1>3. PICK i \in Wrong : \A j \in Wrong : i <= j
  <2>1. Wrong \in SUBSET Nat
    BY <1>0
  <2> HIDE DEF Wrong
  <2> QED
    BY <1>2, <2>1, LeastOf
<1>4. i \in Nat /\ m \in Nat /\ i - 1 \in 1..(Len(s) - 1) /\ i - 1 \notin Wrong /\ (i - 1) + 1 = i
  BY <1>0, <1>3
<1>5. s[i].id < s[i - 1].id
  BY <1>1, <1>4
<1>6. i - 1 \in 1..Len(s) /\ i \in 1..Len(s)
  BY <1>0, <1>3
<1>7. CASE i - 1 = m
  BY <1>3, <1>5, <1>7
<1>8. CASE i - 1 # m
  <2>1. s[i - 1].id < s[m].id
    BY <1>3, <1>4, <1>6, <1>8
  <2> QED
    BY <1>0, <1>3, <1>5, <1>6, <2>1
<1> QED
  BY <1>7, <1>8

NewerIds(rs, scope, d) == {n \in Ids({r \in rs : r.inst \in scope}) : n > d}

(* The place of a row is one more than there are newer rows.               *)
LEMMA RankOf ==
    ASSUME TypeInv, table \in Numbered, NEW scope, NEW s \in InOrder(scope), NEW n \in 1..Len(s)
    PROVE  Cardinality(NewerIds(rows, scope, s[n].id)) = n - 1
<1> DEFINE T == NewerIds(rows, scope, s[n].id)
           g == [m \in 1..(n - 1) |-> s[m].id]
<1>0. /\ Len(s) \in Nat /\ n \in Nat /\ n - 1 \in Nat
      /\ \A i \in 1..Len(s) : s[i] \in Listed(scope) /\ s[i].id \in Nat /\ s[i].id # 0
      /\ \A r \in Listed(scope) : \E i \in 1..Len(s) : s[i] = r
  <2>1. /\ Len(s) \in Nat /\ \A i \in 1..Len(s) : s[i] \in Listed(scope)
        /\ \A r \in Listed(scope) : \E i \in 1..Len(s) : s[i] = r
    BY OrderTypes
  <2>2. \A r \in rows : r.id \in Nat /\ r.id # 0
    BY RowIds DEF TypeInv, RowsOK
  <2> QED
    BY <2>1, <2>2 DEF Listed
<1>1. T = {i \in {r.id : r \in Listed(scope)} \ {0} : i > s[n].id}
  BY DEF NewerIds, Ids, Listed
<1>2. ASSUME NEW m \in 1..(n - 1) PROVE g[m] \in T /\ m \in 1..Len(s) /\ g[m] = s[m].id
  <2>1. m \in 1..Len(s) /\ m < n
    BY <1>0
  <2>2. s[n].id < s[m].id
    BY <2>1, OrderDescends
  <2> QED
    BY <1>0, <1>1, <2>1, <2>2
<1>3. ASSUME NEW i \in 1..(n - 1), NEW j \in 1..(n - 1), i # j PROVE g[i] # g[j]
  <2>1. i \in 1..Len(s) /\ j \in 1..Len(s) /\ (i < j \/ j < i)
    BY <1>0, <1>3
  <2>2. s[i].id < s[j].id \/ s[j].id < s[i].id
    BY <2>1, OrderDescends
  <2> QED
    BY <1>0, <2>1, <2>2
<1>4. ASSUME NEW t \in T PROVE \E m \in 1..(n - 1) : g[m] = t
  <2>1. PICK r \in Listed(scope) : r.id = t /\ t > s[n].id
    BY <1>1
  <2>2. PICK m \in 1..Len(s) : s[m] = r
    BY <1>0
  <2>3. m # n /\ ~(n < m)
    <3>1. CASE n < m
      <4>1. s[m].id < s[n].id
        BY <3>1, OrderDescends
      <4> QED
        BY <1>0, <2>1, <2>2, <4>1
    <3> QED
      BY <1>0, <2>1, <2>2, <3>1
  <2>4. m \in 1..(n - 1)
    BY <1>0, <2>3
  <2> QED
    BY <2>1, <2>2, <2>4
<1> HIDE DEF T
<1>5. g \in Bijection(1..(n - 1), T)
  <2>1. g \in [1..(n - 1) -> T]
    BY <1>2
  <2> QED
    BY <1>3, <1>4, <2>1 DEF Bijection, Injection, Surjection, IsInjective
<1>6. ExistsBijection(1..(n - 1), T)
  BY <1>5 DEF ExistsBijection
<1> QED
  BY <1>0, <1>6, FS_CountingElements DEF T


-----------------------------------------------------------------------------
(* The walk.                                                               *)

(* What is due on a list is still to come: as many rows are newer as the   *)
(* operator has gone past.                                                 *)
ToCome(w) ==
    /\ w.scope = {} => w.due = {}
    /\ w.due \subseteq Ids(Listed(w.scope))
    /\ \A d \in w.due : Cardinality(NewerIds(rows, w.scope, d)) >= w.offset

(* The count of a last page has not been outgrown.                         *)
Counted(scope, offset, total) ==
    offset + Limit >= total => Cardinality(Ids(Listed(scope))) <= total

(* One page is being read at most, of the operator's list.                 *)
PagesOK ==
    \A c \in Clients : call[c].at = "items" =>
        /\ \A d \in Clients \ {c} : call[d].at # "items"
        /\ walk # NoWalk => /\ walk.scope = call[c].scope /\ walk.offset = call[c].offset
                            /\ Counted(walk.scope, walk.offset, call[c].total)

WalkInv == TypeInv /\ WalkTyped /\ ToCome(walk) /\ PagesOK

(* The newer rows are finitely many.                                       *)
LEMMA NewerTypes ==
    ASSUME TypeInv, NEW scope, NEW d
    PROVE  /\ IsFiniteSet(NewerIds(rows, scope, d)) /\ Cardinality(NewerIds(rows, scope, d)) \in Nat
           /\ IsFiniteSet(Ids(Listed(scope))) /\ Cardinality(Ids(Listed(scope))) \in Nat
           /\ NewerIds(rows, scope, d) \subseteq Ids(Listed(scope))
<1>1. IsFiniteSet(1..seq)
  BY Types, FS_Interval DEF TypeInv
<1>2. NewerIds(rows, scope, d) \subseteq Ids(Listed(scope)) /\ Ids(Listed(scope)) \subseteq 1..seq
  BY ListedTypes DEF NewerIds, Listed
<1>3. IsFiniteSet(NewerIds(rows, scope, d)) /\ IsFiniteSet(Ids(Listed(scope)))
  BY <1>1, <1>2, FS_Subset
<1> QED
  BY <1>2, <1>3, FS_CardinalityType

(* A walk that is given up, or done, owes nothing.                         *)
LEMMA NoWalkFits == TypeInv => ToCome(NoWalk) /\ NoWalk.due = {}
BY DEF ToCome, NoWalk

(* What is due and not on the page is still to come after it.              *)
LEMMA PageLeaves ==
    ASSUME TypeInv, NEW scope, NEW offset \in Nat, NEW items \in PagesOf(scope, offset),
           NEW d \in Ids(Listed(scope)) \ Ids(items),
           Cardinality(NewerIds(rows, scope, d)) >= offset
    PROVE  Cardinality(NewerIds(rows, scope, d)) >= offset + Limit
<1>0. table \in Numbered
  BY DEF TypeInv, RowsOK, Ids, Listed
<1>1. PICK s \in InOrder(scope) :
          items = {s[n] : n \in DOMAIN s \intersect ((offset + 1)..(offset + Limit))}
  BY DEF PagesOf
<1>2. PICK r \in Listed(scope) : r.id = d /\ d # 0
  BY DEF Ids
<1>3. PICK n \in 1..Len(s) : s[n] = r /\ DOMAIN s = 1..Len(s) /\ Len(s) \in Nat
  BY OrderTypes
<1>4. Cardinality(NewerIds(rows, scope, d)) = n - 1
  BY <1>0, <1>2, <1>3, RankOf
<1>5. n \notin (offset + 1)..(offset + Limit)
  BY <1>1, <1>2, <1>3 DEF Ids
<1> QED
  BY <1>3, <1>4, <1>5, SchemaAssumption

(* Turning a page: what is due and not on it comes later; where the total  *)
(* says that there is no other page, nothing is due.                       *)
LEMMA TurnKeeps ==
    ASSUME TypeInv, NEW turn \in Walks, ToCome(turn), NEW items \in PagesOf(turn.scope, turn.offset),
           NEW total \in Nat, Counted(turn.scope, turn.offset, total)
    PROVE  ToCome(Turned(turn, items, total))
<1> DEFINE due == turn.due \ Ids(items)
           next == turn.offset + Limit
           Newer2(d) == Cardinality(NewerIds(rows, turn.scope, d))
<1>0. turn.offset \in Nat /\ next \in Nat /\ Limit \in Nat \ {0}
  BY SchemaAssumption DEF Walks
<1>1. ASSUME NEW d \in due PROVE Newer2(d) >= next /\ d \in Ids(Listed(turn.scope)) /\ Newer2(d) \in Nat
  <2>1. d \in Ids(Listed(turn.scope)) \ Ids(items) /\ Newer2(d) >= turn.offset
    BY DEF ToCome
  <2> QED
    BY <1>0, <2>1, PageLeaves, NewerTypes
<1>2. CASE turn = NoWalk
  BY <1>2, NoWalkFits DEF Turned
<1>3. CASE turn # NoWalk /\ next < total
  <2> DEFINE w == [turn EXCEPT !.due = due, !.offset = next]
  <2>1. Turned(turn, items, total) = w
    BY <1>3 DEF Turned
  <2>2. w.scope = turn.scope /\ w.due = due /\ w.offset = next
    BY DEF Walks
  <2> HIDE DEF w, next
  <2>3. w.scope = {} => due = {}
    BY <2>2 DEF ToCome
  <2> QED
    BY <1>1, <2>1, <2>2, <2>3 DEF ToCome
<1>4. CASE turn # NoWalk /\ ~(next < total)
  <2>1. due = {}
    <3> SUFFICES ASSUME NEW d \in due PROVE FALSE
      OBVIOUS
    <3>1. Cardinality(Ids(Listed(turn.scope))) <= total /\ total <= next
      BY <1>0, <1>4 DEF Counted
    <3>2. /\ NewerIds(rows, turn.scope, d) \in SUBSET (Ids(Listed(turn.scope)) \ {d})
          /\ IsFiniteSet(Ids(Listed(turn.scope))) /\ d \in Ids(Listed(turn.scope))
      <4>1. d \notin NewerIds(rows, turn.scope, d)
        <5>1. d \in Nat
          BY <1>1, ListedTypes, Types DEF TypeInv
        <5> QED
          BY <5>1 DEF NewerIds
      <4> QED
        BY <1>1, <4>1, NewerTypes
    <3>3. Cardinality(Ids(Listed(turn.scope)) \ {d}) = Cardinality(Ids(Listed(turn.scope))) - 1
      BY <3>2, FS_RemoveElement
    <3>4. Newer2(d) <= Cardinality(Ids(Listed(turn.scope)) \ {d})
      <4>1. IsFiniteSet(Ids(Listed(turn.scope)) \ {d})
        BY <3>2, FS_RemoveElement
      <4> QED
        BY <3>2, <4>1, FS_Subset
    <3>5. Newer2(d) >= next /\ Newer2(d) \in Nat /\ Cardinality(Ids(Listed(turn.scope))) \in Nat
      BY <1>1, NewerTypes
    <3> QED
      BY <1>0, <3>1, <3>3, <3>4, <3>5
  <2>2. Turned(turn, items, total) = [NoWalk EXCEPT !.due = due]
    BY <1>4 DEF Turned
  <2>3. Turned(turn, items, total) = NoWalk
    BY <2>1, <2>2 DEF NoWalk
  <2> QED
    BY <2>3, NoWalkFits
<1> QED
  BY <1>2, <1>3, <1>4

(* A total that is counted now has not been outgrown.                      *)
LEMMA CountBounds ==
    ASSUME TypeInv, NEW scope, NEW offset
    PROVE  Counted(scope, offset, Cardinality(Listed(scope)))
<1>1. IsFiniteSet(Listed(scope)) /\ Cardinality(Listed(scope)) \in Nat
  BY ListedTypes
<1>2. Cardinality(Ids(Listed(scope))) <= Cardinality(Listed(scope))
  <2> DEFINE numbered == {r \in Listed(scope) : r.id # 0}
             f == [r \in numbered |-> r.id]
  <2>1. f \in Surjection(numbered, Ids(Listed(scope)))
    BY DEF Surjection, Ids
  <2>2. IsFiniteSet(numbered) /\ Cardinality(numbered) <= Cardinality(Listed(scope)) /\ Cardinality(numbered) \in Nat
    BY <1>1, FS_Subset, FS_CardinalityType
  <2>3. Cardinality(Ids(Listed(scope))) <= Cardinality(numbered)
    BY <2>1, <2>2, FS_Surjection
  <2> QED
    BY <1>1, <2>2, <2>3, NewerTypes
<1> QED
  BY <1>2 DEF Counted

(* A list that is opened has everything due, from offset 0.                *)
LEMMA TurnToCome ==
    ASSUME TypeInv, WalkTyped, ToCome(walk), NEW turn \in Turns
    PROVE  ToCome(turn)
<1>1. CASE walk.scope # {}
  BY <1>1 DEF Turns
<1>2. CASE walk.scope = {}
  <2>1. PICK s \in Scopes(table) : turn = [scope |-> s, offset |-> 0, due |-> Ids(Listed(s))]
    BY <1>2 DEF Turns
  <2>2. turn.scope = s /\ turn.offset = 0 /\ turn.due = Ids(Listed(s))
    BY <2>1
  <2>3. s = {} => Ids(Listed(s)) = {}
    BY DEF Listed, Ids
  <2>4. \A d \in turn.due : Cardinality(NewerIds(rows, s, d)) >= 0
    BY NewerTypes
  <2> QED
    BY <2>2, <2>3, <2>4 DEF ToCome
<1> QED
  BY <1>1, <1>2


(* Stamps of today's format compare as instants do.                        *)
LEMMA Division ==
    ASSUME NEW m \in Int, NEW n \in Int, NEW d \in Nat \ {0}, m \div d < n \div d
    PROVE  m < n
OBVIOUS

(* In the format of today, the order of texts is that of instants          *)
(* (store/time.ts).                                                        *)
LEMMA IsoBefore ==
    ASSUME NEW a, NEW b, a.t \in Int, b.t \in Int, a.legacy = FALSE, b.legacy = FALSE
    PROVE  TextBefore(a, b) <=> a.t < b.t
<1> DEFINE p == a.t \div DayLength
           q == b.t \div DayLength
<1>0. DayLength \in Nat \ {0}
  BY StoreAssumption
<1>1. p \in Int /\ q \in Int
  BY <1>0
<1>2. p < q => a.t < b.t
  BY <1>0, Division
<1>3. q < p => b.t < a.t
  BY <1>0, Division
<1>4. TextBefore(a, b) <=> (p < q \/ (p = q /\ a.t < b.t))
  BY DEF TextBefore
<1> HIDE DEF p, q
<1> QED
  BY <1>1, <1>2, <1>3, <1>4

(* Stamps are in the format of today once the application serves.          *)
LEMMA ServingStamps ==
    ASSUME TypeInv, up # {}, NEW r \in rows
    PROVE  r.at.t \in Nat /\ r.at.legacy = FALSE
<1>1. version >= Normalise /\ version \in Nat /\ Normalise \in Nat
  BY StoreAssumption DEF TypeInv, BootOK
<1>2. r.at.t \in Nat /\ r.at.legacy \in BOOLEAN /\ (r.at.legacy => version < Normalise)
  BY DEF TypeInv, RowsOK, RowOf
<1> QED
  BY <1>1, <1>2

(* What is older than a cutoff as a text is older as an instant.           *)
LEMMA BeforeFacts ==
    ASSUME TypeInv, up # {}, NEW n \in Int
    PROVE  Before(IsoTicksAgo(n)) = {r \in rows : r.at.t < now - n}
<1>1. /\ IsoTicksAgo(n).t = now - n /\ IsoTicksAgo(n).legacy = FALSE /\ now - n \in Int
  BY Types DEF TypeInv, IsoTicksAgo, Iso
<1>2. ASSUME NEW r \in rows PROVE TextBefore(r.at, IsoTicksAgo(n)) <=> r.at.t < now - n
  <2> DEFINE cutoff == IsoTicksAgo(n)
  <2>0. r.at.t \in Nat /\ r.at.legacy = FALSE
    BY ServingStamps
  <2>1. r.at.t \in Int /\ r.at.legacy = FALSE
    BY <2>0
  <2>2. cutoff.t \in Int /\ cutoff.legacy = FALSE /\ cutoff.t = now - n
    BY <1>1
  <2> HIDE DEF cutoff
  <2>3. TextBefore(r.at, cutoff) <=> r.at.t < cutoff.t
    BY <2>1, <2>2, IsoBefore
  <2> QED
    BY <2>2, <2>3 DEF cutoff
<1> QED
  BY <1>2 DEF Before

(* A row that is newer than one that stays, stays.                         *)
Keeps(new) ==
    \A r \in rows, q \in new : q.id \in Ids(rows) /\ q.id <= r.id =>
        \E p \in new : p.id = r.id /\ p.inst = r.inst

(* The statements that write leave a table of which that is true.          *)
LEMMA WritesKeep ==
    ASSUME TypeInv, NEW c \in Clients, NEW new, Rows(new),
           \/ InstallsUpsert(c) \/ InstallsSetStatus(c) \/ InstallsSetExternalAccount(c)
           \/ StateWrite(c) \/ StateDelete(c) \/ CursorsSet(c)
           \/ RunsStart(c) \/ Log(c) \/ Finish(c)
           \/ WebhookSeenClaim(c) \/ WebhookSeenRelease(c)
           \/ InboundClaim(c) \/ FindClaimed(c) \/ RetryClaim(c) \/ FindRetried(c)
           \/ PurgeOldRecords(c)
    PROVE  Keeps(new)
<1>0. rows' = new
  BY DEF Rows
<1>1. CASE table \notin Numbered
  BY <1>1 DEF Keeps, Ids, TypeInv, RowsOK
<1>2. CASE rows \subseteq new
  BY <1>2 DEF Keeps
<1>3. CASE Finish(c)
  <2>1. PICK v : new = {IF r.id = held[c] THEN [r EXCEPT !.val = v] ELSE r : r \in rows}
    BY <1>0, <1>3 DEF Finish, Rows
  <2>2. ASSUME NEW r \in rows PROVE \E p \in new : p.id = r.id /\ p.inst = r.inst
    <3>1. r \in RowOf(table)
      BY RowIds
    <3> DEFINE p == IF r.id = held[c] THEN [r EXCEPT !.val = v] ELSE r
    <3>2. p \in new
      BY <2>1
    <3>3. p.id = r.id /\ p.inst = r.inst
      BY <3>1 DEF RowOf
    <3> QED
      BY <3>2, <3>3
  <2> QED
    BY <2>2 DEF Keeps
<1>4. CASE PurgeOldRecords(c)
  <2>1. new = rows \ {r \in rows : r.at.t < now - Retention}
    <3>1. up # {} /\ Retention \in Int
      BY <1>4, SchemaAssumption DEF PurgeOldRecords, Ready
    <3>2. Before(IsoTicksAgo(Retention)) = {r \in rows : r.at.t < now - Retention}
      BY <3>1, BeforeFacts
    <3> QED
      BY <1>0, <1>4, <3>2 DEF PurgeOldRecords, Rows
  <2>2. ASSUME NEW r \in rows, NEW q \in new, q.id <= r.id, q.id \in Ids(rows) PROVE r \in new
    <3>1. /\ q \in rows /\ q.at.t \in Nat /\ r.at.t \in Nat /\ q.id \in Nat /\ r.id \in Nat
          /\ ~(q.at.t < now - Retention)
      BY <2>1 DEF TypeInv, RowsOK, RowOf
    <3>2. q.id < r.id => q.at.t <= r.at.t
      BY <3>1 DEF TypeInv, RowsOK
    <3>3. q.id = r.id => q = r
      BY <2>2, <3>1 DEF TypeInv, RowsOK, Ids
    <3>4. now - Retention \in Int
      BY Types, SchemaAssumption DEF TypeInv
    <3> QED
      BY <2>1, <2>2, <3>1, <3>2, <3>3, <3>4
  <2> QED
    BY <2>2 DEF Keeps
<1>5. CASE RunsStart(c) \/ Log(c)
  <2>1. rows \subseteq new
    BY <1>0, <1>5 DEF RunsStart, Log, Rows, Insert
  <2> QED
    BY <1>2, <2>1
<1>6. CASE InboundClaim(c) \/ FindClaimed(c) \/ RetryClaim(c) \/ FindRetried(c)
  <2>1. rows \subseteq new
    BY <1>0, <1>6 DEF InboundClaim, FindClaimed, RetryClaim, FindRetried, Rows, Claims
  <2> QED
    BY <1>2, <2>1
<1>7. CASE \/ InstallsUpsert(c) \/ InstallsSetStatus(c) \/ InstallsSetExternalAccount(c)
           \/ StateWrite(c) \/ StateDelete(c) \/ CursorsSet(c)
           \/ WebhookSeenClaim(c) \/ WebhookSeenRelease(c)
  <2>1. table \in {"installs", "integration_state", "sync_cursor", "webhook_seen"}
    BY <1>7 DEF InstallsUpsert, InstallsSetStatus, InstallsSetExternalAccount, StateWrite, StateDelete,
                CursorsSet, WebhookSeenClaim, WebhookSeenRelease
  <2>2. table \notin Numbered
    BY <2>1 DEF Numbered, Logged
  <2> QED
    BY <1>1, <2>2
<1> QED
  BY <1>3, <1>4, <1>5, <1>6, <1>7

(* Rows that are added are newer than what is due, and rows that a purge   *)
(* takes are older, or due no more.                                        *)
LEMMA RowsKeepWalk ==
    ASSUME WalkInv, TypeInv', NEW new, Rows(new), Keeps(new),
           \A c \in Clients : call'[c].at = "items" => call'[c] = call[c]
    PROVE  ToCome(walk)' /\ PagesOK'
<1>0. /\ rows' = new /\ TypeInv /\ walk \in Walks
      /\ walk' = NoWalk \/ walk' = [walk EXCEPT !.due = @ \intersect Ids(new)]
  BY DEF WalkInv, Rows, WalkTyped, Walks
<1>1. \A d : IsFiniteSet(NewerIds(new, walk.scope, d)) /\ Cardinality(NewerIds(new, walk.scope, d)) \in Nat
  <2>1. IsFiniteSet(new) /\ \A r \in new : r.id \in Nat /\ r.id <= seq'
    BY <1>0 DEF TypeInv, RowsOK, RowOf
  <2>2. seq' \in Nat
    BY StoreAssumption DEF TypeInv, BootOK
  <2> SUFFICES ASSUME NEW d
               PROVE  IsFiniteSet(NewerIds(new, walk.scope, d)) /\ Cardinality(NewerIds(new, walk.scope, d)) \in Nat
    OBVIOUS
  <2>3. NewerIds(new, walk.scope, d) \in SUBSET (0..seq')
    BY <2>1, <2>2 DEF NewerIds, Ids
  <2> QED
    <3>0. 0 \in Int /\ seq' \in Int
      BY <2>2
    <3>1. IsFiniteSet(0..seq')
      BY <3>0, FS_Interval
    <3>2. IsFiniteSet(NewerIds(new, walk.scope, d))
      BY <2>3, <3>1, FS_Subset
    <3> QED
      BY <3>2, FS_CardinalityType
<1>2. ASSUME walk' # NoWalk
      PROVE  /\ walk'.scope = walk.scope /\ walk'.offset = walk.offset
             /\ walk'.due = walk.due \intersect Ids(new) /\ walk # NoWalk
  <2>1. walk' = [walk EXCEPT !.due = @ \intersect Ids(new)]
    BY <1>0, <1>2
  <2>2. walk # NoWalk
    BY <1>2, <2>1 DEF NoWalk
  <2> QED
    BY <1>0, <2>1, <2>2 DEF Walks
<1>3. ASSUME walk' # NoWalk, NEW d \in walk'.due
      PROVE  /\ d \in Ids({r \in new : r.inst \in walk.scope})
             /\ Cardinality(NewerIds(new, walk.scope, d)) >= walk.offset
  <2>1. d \in walk.due /\ d \in Ids(new) /\ d \in Ids(rows) /\ d \in Ids(Listed(walk.scope))
    BY <1>2, <1>3, ListedTypes DEF WalkInv, ToCome
  <2>2. PICK q \in new : q.id = d /\ d # 0
    BY <2>1 DEF Ids
  <2>3. ASSUME NEW n \in Ids(Listed(walk.scope)), d <= n
        PROVE  n \in Ids({r \in new : r.inst \in walk.scope})
    <3>1. PICK r \in rows : r.id = n /\ r.inst \in walk.scope /\ n # 0
      BY DEF Ids, Listed
    <3>2. PICK p \in new : p.id = n /\ p.inst = r.inst
      BY <2>1, <2>2, <2>3, <3>1 DEF Keeps
    <3> QED
      BY <3>1, <3>2 DEF Ids
  <2>4. d \in Nat /\ Ids(Listed(walk.scope)) \subseteq Nat
    BY <1>0, <2>1, ListedTypes, Types DEF TypeInv
  <2>5. NewerIds(rows, walk.scope, d) \in SUBSET NewerIds(new, walk.scope, d)
    <3> SUFFICES ASSUME NEW n \in NewerIds(rows, walk.scope, d) PROVE n \in NewerIds(new, walk.scope, d)
      OBVIOUS
    <3>1. n \in Ids(Listed(walk.scope)) /\ n > d
      BY DEF NewerIds, Listed
    <3>2. d <= n
      BY <2>4, <3>1
    <3> QED
      BY <2>3, <3>1, <3>2 DEF NewerIds
  <2>6. Cardinality(NewerIds(rows, walk.scope, d)) <= Cardinality(NewerIds(new, walk.scope, d))
    BY <1>1, <2>5, FS_Subset
  <2>7. Cardinality(NewerIds(rows, walk.scope, d)) >= walk.offset
    BY <2>1 DEF WalkInv, ToCome
  <2>8. /\ Cardinality(NewerIds(rows, walk.scope, d)) \in Nat /\ walk.offset \in Nat
        /\ Cardinality(NewerIds(new, walk.scope, d)) \in Nat
    BY <1>0, <1>1, NewerTypes DEF Walks
  <2> QED
    BY <2>1, <2>3, <2>4, <2>6, <2>7, <2>8
<1>4. ToCome(walk)'
  <2>1. CASE walk' = NoWalk
    BY <2>1 DEF ToCome, NoWalk
  <2>2. CASE walk' # NoWalk
    <3>1. walk'.scope = {} => walk'.due = {}
      BY <1>2, <2>2 DEF WalkInv, ToCome
    <3>2. Ids(Listed(walk.scope))' = Ids({r \in new : r.inst \in walk'.scope})
      BY <1>0 DEF Ids, Listed
    <3>3. /\ walk'.due \subseteq Ids({r \in rows' : r.inst \in walk'.scope})
          /\ \A d \in walk'.due : Cardinality(NewerIds(rows', walk'.scope, d)) >= walk'.offset
      BY <1>0, <1>2, <1>3, <2>2
    <3> QED
      BY <3>1, <3>3 DEF ToCome, NewerIds, Ids, Listed
  <2> QED
    BY <2>1, <2>2
<1>5. ASSUME NEW c \in Clients, call'[c].at = "items", walk' # NoWalk
      PROVE  /\ walk'.scope = call'[c].scope /\ walk'.offset = call'[c].offset
             /\ Counted(walk.scope, walk.offset, call[c].total)'
  <2>1. call'[c] = call[c] /\ call[c].at = "items" /\ walk # NoWalk
    BY <1>2, <1>5
  <2>2. /\ walk.scope = call[c].scope /\ walk.offset = call[c].offset
        /\ Counted(walk.scope, walk.offset, call[c].total)
    BY <2>1 DEF WalkInv, PagesOK
  <2>3. ASSUME walk.offset + Limit >= call[c].total
        PROVE  Cardinality(Ids({r \in new : r.inst \in walk.scope})) <= call[c].total
    <3>1. Ids(new) \subseteq Ids(rows)
      <4>1. OnLastPage
        BY <2>1, <2>2, <2>3 DEF OnLastPage
      <4> QED
        BY <1>5, <4>1 DEF Rows
    <3>2. ASSUME NEW n \in Ids({r \in new : r.inst \in walk.scope}) PROVE n \in Ids(Listed(walk.scope))
      <4>1. PICK q \in new : q.id = n /\ n # 0 /\ q.inst \in walk.scope
        BY DEF Ids
      <4>2. n \in Ids(rows)
        BY <3>1, <4>1 DEF Ids
      <4>3. PICK r \in rows : r.id = n
        BY <4>2 DEF Ids
      <4>4. n <= n
        BY <1>0, <4>3, RowIds, Types DEF TypeInv
      <4>5. PICK p \in new : p.id = n /\ p.inst = r.inst
        BY <4>1, <4>2, <4>3, <4>4 DEF Keeps
      <4>6. p = q
        BY <1>0, <4>1, <4>5 DEF TypeInv, RowsOK
      <4> QED
        BY <4>1, <4>3, <4>5, <4>6 DEF Ids, Listed
    <3>3. Cardinality(Ids({r \in new : r.inst \in walk.scope})) <= Cardinality(Ids(Listed(walk.scope)))
      <4>1. Ids({r \in new : r.inst \in walk.scope}) \in SUBSET Ids(Listed(walk.scope))
        BY <3>2
      <4>2. IsFiniteSet(Ids(Listed(walk.scope)))
        BY <1>0, NewerTypes
      <4> QED
        BY <4>1, <4>2, FS_Subset
    <3>4. Cardinality(Ids(Listed(walk.scope))) <= call[c].total
      BY <2>2, <2>3 DEF Counted
    <3>5. /\ Cardinality(Ids(Listed(walk.scope))) \in Nat /\ call[c].total \in Nat
          /\ Cardinality(Ids({r \in new : r.inst \in walk.scope})) \in Nat
      <4>1. Cardinality(Ids(Listed(walk.scope))) \in Nat /\ IsFiniteSet(Ids(Listed(walk.scope)))
        BY <1>0, NewerTypes
      <4>2. call[c].total \in Nat
        BY <1>0, <2>1, CallKinds
      <4>3. IsFiniteSet(Ids({r \in new : r.inst \in walk.scope}))
        BY <3>2, <4>1, FS_Subset
      <4> QED
        BY <4>1, <4>2, <4>3, FS_CardinalityType
    <3> QED
      BY <3>3, <3>4, <3>5
  <2>4. Ids({r \in new : r.inst \in walk.scope}) = Ids(Listed(walk.scope))'
    BY <1>0, <1>2, <1>5 DEF Ids, Listed
  <2>5. walk'.scope = walk.scope /\ walk'.offset = walk.offset
    BY <1>2, <1>5
  <2> QED
    BY <2>1, <2>2, <2>3, <2>4, <2>5 DEF Counted
<1>6. \A c, d \in Clients : c # d /\ call'[c].at = "items" => call'[d].at # "items"
  BY DEF WalkInv, PagesOK
<1>7. PagesOK'
  BY <1>5, <1>6 DEF PagesOK
<1> QED
  BY <1>4, <1>7


(* The invariant is inductive.                                             *)
LEMMA WalkNext == WalkInv /\ [Next]_vars => WalkInv'
<1> SUFFICES ASSUME WalkInv, [Next]_vars PROVE WalkInv'
  OBVIOUS
<1>0. TypeInv /\ WalkTyped /\ ToCome(walk) /\ PagesOK /\ TypeInv' /\ WalkTyped'
  BY TypeNext DEF WalkInv
<1> USE DEF WalkInv
<1>1. ASSUME UNCHANGED walk, Ids(rows)' = Ids(rows),
             \A r \in rows : \E q \in rows' : q.id = r.id /\ q.inst = r.inst,
             \A q \in rows' : \E r \in rows : q.id = r.id /\ q.inst = r.inst,
             \A c \in Clients : call'[c].at = "items" => call'[c] = call[c]
      PROVE  WalkInv'
  <2>1. \A scope : Ids(Listed(scope))' = Ids(Listed(scope))
    BY <1>1 DEF Ids, Listed
  <2>2. \A scope, d : NewerIds(rows', scope, d) = NewerIds(rows, scope, d)
    BY <2>1 DEF NewerIds, Ids, Listed
  <2>3. Ids(Listed(walk.scope))' = Ids(Listed(walk.scope))
    BY <1>1, <2>1 DEF Ids, Listed
  <2>4. ToCome(walk)'
    <3>1. /\ walk.scope = {} => walk.due = {}
          /\ walk.due \subseteq Ids(Listed(walk.scope))'
          /\ \A d \in walk.due : Cardinality(NewerIds(rows', walk.scope, d)) >= walk.offset
      BY <1>0, <2>2, <2>3 DEF ToCome
    <3> QED
      BY <1>1, <3>1 DEF ToCome, NewerIds
  <2>5. PagesOK'
    <3>1. ASSUME NEW c \in Clients, call'[c].at = "items", walk # NoWalk
          PROVE  /\ walk.scope = call[c].scope /\ walk.offset = call[c].offset
                 /\ Counted(walk.scope, walk.offset, call[c].total)
                 /\ call'[c] = call[c]
      BY <1>0, <1>1, <3>1 DEF PagesOK
    <3>2. ASSUME NEW c \in Clients, call'[c].at = "items", walk # NoWalk
          PROVE  /\ walk'.scope = call'[c].scope /\ walk'.offset = call'[c].offset
                 /\ Counted(walk.scope, walk.offset, call[c].total)'
      BY <1>1, <2>3, <3>1, <3>2 DEF Counted
    <3>3. \A c, d \in Clients : c # d /\ call'[c].at = "items" => call'[d].at # "items"
      BY <1>0, <1>1 DEF PagesOK
    <3> QED
      BY <1>1, <3>2, <3>3 DEF PagesOK
  <2> QED
    BY <1>0, <2>4, <2>5
<1>2. ASSUME UNCHANGED <<rows, walk>>, \A c \in Clients : call'[c].at = "items" => call'[c] = call[c]
      PROVE  WalkInv'
  <2>1. Ids(rows)' = Ids(rows)
    BY <1>2 DEF Ids
  <2> QED
    BY <1>1, <1>2, <2>1
<1>3. CASE ApplyMigration
  <2>1. rows' = rows \/ rows' = {Normalised(r) : r \in rows}
    BY <1>3 DEF ApplyMigration
  <2>2. \A r \in rows : Normalised(r).id = r.id /\ Normalised(r).inst = r.inst
    BY <1>0, RowIds DEF Normalised, RowOf
  <2>3. /\ \A r \in rows : \E q \in rows' : q.id = r.id /\ q.inst = r.inst
        /\ \A q \in rows' : \E r \in rows : q.id = r.id /\ q.inst = r.inst
    BY <2>1, <2>2
  <2>4. Ids(rows)' = Ids(rows)
    BY <2>3 DEF Ids
  <2> QED
    BY <1>1, <1>3, <2>3, <2>4 DEF ApplyMigration
<1>4. CASE Serve \/ Tick \/ \E c \in Clients : TakeLock(c) \/ Commit(c) \/ Rollback(c)
  BY <1>2, <1>4 DEF Serve, Tick, TakeLock, Commit, Rollback
<1>5. ASSUME NEW c \in Clients, Crash(c) PROVE WalkInv'
  <2>1. \A d \in Clients : call'[d] = Idle \/ call'[d] = call[d]
    BY <1>5 DEF Crash
  <2> QED
    BY <1>2, <1>5, <2>1 DEF Crash, Idle
<1>6. ASSUME NEW c \in Clients,
             \/ InstallsUpsert(c) \/ InstallsSetStatus(c) \/ InstallsSetExternalAccount(c)
             \/ StateWrite(c) \/ StateDelete(c) \/ CursorsSet(c)
             \/ RunsStart(c) \/ Log(c) \/ Finish(c)
             \/ WebhookSeenClaim(c) \/ WebhookSeenRelease(c)
             \/ InboundClaim(c) \/ FindClaimed(c) \/ RetryClaim(c) \/ FindRetried(c)
             \/ PurgeOldRecords(c)
      PROVE  WalkInv'
  <2>1. \A d \in Clients : call'[d].at = "items" => call'[d] = call[d]
    <3>0. DOMAIN call = Clients /\ Idle.at = "idle"
      BY <1>0, NumberFacts DEF Idle
    <3>1. CASE call' = call
      BY <3>1
    <3>2. CASE InboundClaim(c) \/ RetryClaim(c) \/ FindRetried(c)
      BY <3>0, <3>1, <3>2 DEF InboundClaim, RetryClaim, FindRetried
    <3>3. CASE FindClaimed(c)
      <4>1. call[c].at = "find" /\ call[c] \in [at : {"find", "retry"}, inst : Insts, key : Keys]
        BY <1>0, <3>3, CallKinds DEF FindClaimed
      <4>2. call' = [call EXCEPT ![c] = Idle] \/ call' = [call EXCEPT ![c] = [call[c] EXCEPT !.at = "retry"]]
        BY <3>3 DEF FindClaimed
      <4>3. [call[c] EXCEPT !.at = "retry"].at = "retry"
        BY <4>1
      <4> QED
        BY <3>0, <4>2, <4>3
    <3> QED
      BY <1>6, <3>1, <3>2, <3>3
      DEF Quietly, InstallsUpsert, InstallsSetStatus, InstallsSetExternalAccount, StateWrite, StateDelete,
          CursorsSet, RunsStart, Log, Finish, WebhookSeenClaim, WebhookSeenRelease, PurgeOldRecords
  <2>2. (\E new : Rows(new)) \/ UNCHANGED <<rows, walk>>
    <3>1. CASE \/ InstallsUpsert(c) \/ InstallsSetStatus(c) \/ InstallsSetExternalAccount(c)
               \/ StateWrite(c) \/ StateDelete(c) \/ CursorsSet(c) \/ RunsStart(c) \/ Log(c) \/ Finish(c)
      BY <3>1 DEF InstallsUpsert, InstallsSetStatus, InstallsSetExternalAccount, StateWrite, StateDelete,
                  CursorsSet, RunsStart, Log, Finish
    <3>2. CASE \/ WebhookSeenClaim(c) \/ WebhookSeenRelease(c) \/ PurgeOldRecords(c)
               \/ InboundClaim(c) \/ FindClaimed(c) \/ RetryClaim(c) \/ FindRetried(c)
      BY <3>2 DEF WebhookSeenClaim, WebhookSeenRelease, PurgeOldRecords,
                  InboundClaim, FindClaimed, RetryClaim, FindRetried
    <3> QED
      BY <1>6, <3>1, <3>2
  <2>3. ASSUME NEW new, Rows(new) PROVE WalkInv'
    <3>1. Keeps(new)
      BY <1>0, <1>6, <2>3, WritesKeep
    <3> QED
      BY <1>0, <2>1, <2>3, <3>1, RowsKeepWalk
  <2> QED
    BY <1>2, <2>1, <2>2, <2>3
<1>7. ASSUME NEW c \in Clients, RejectedItemsDeleteByIds(c) PROVE WalkInv'
  <2>1. UNCHANGED <<rows, walk>> \/ walk' = NoWalk
    BY <1>7 DEF RejectedItemsDeleteByIds
  <2>2. call' = call
    BY <1>7 DEF RejectedItemsDeleteByIds, Quietly
  <2>3. CASE walk' = NoWalk
    <3>1. ToCome(walk)'
      BY <2>3 DEF ToCome, NoWalk
    <3>2. PagesOK'
      BY <1>0, <2>2, <2>3 DEF PagesOK
    <3> QED
      BY <1>0, <3>1, <3>2
  <2> QED
    BY <1>2, <2>1, <2>2, <2>3
<1>8. ASSUME UNCHANGED rows, ToCome(walk'), NEW w, walk' = w,
             \A d \in Clients : call'[d].at # "items"
      PROVE  WalkInv'
  <2>1. ToCome(walk)'
    BY <1>8 DEF ToCome, NewerIds, Listed, Ids
  <2>2. PagesOK'
    BY <1>8 DEF PagesOK
  <2> QED
    BY <1>0, <2>1, <2>2
<1>9. ASSUME NEW c \in Clients, ListSqlite(c) PROVE WalkInv'
  <2>0. PICK turn \in Turns : \E items \in PagesOf(turn.scope, turn.offset) :
            walk' = Turned(turn, items, Cardinality(Listed(turn.scope)))
    BY <1>9 DEF ListSqlite, Page
  <2>1. PICK items \in PagesOf(turn.scope, turn.offset) :
            walk' = Turned(turn, items, Cardinality(Listed(turn.scope)))
    BY <2>0
  <2>2. /\ turn \in Walks /\ ToCome(turn) /\ Cardinality(Listed(turn.scope)) \in Nat
        /\ Counted(turn.scope, turn.offset, Cardinality(Listed(turn.scope)))
    BY <1>0, TurnTypes, TurnToCome, ListedTypes, CountBounds
  <2>3. ToCome(walk')
    BY <1>0, <2>1, <2>2, TurnKeeps
  <2>4. \A d \in Clients : call'[d].at # "items"
    BY <1>0, <1>9, CallKinds DEF ListSqlite, Quietly
  <2> QED
    BY <1>8, <1>9, <2>3, <2>4 DEF ListSqlite
<1>10. ASSUME NEW c \in Clients, CountPg(c) PROVE WalkInv'
  <2>1. PICK turn \in Turns :
            /\ call' = [call EXCEPT ![c] = [at |-> "items", total |-> Cardinality(Listed(turn.scope)),
                                            scope |-> turn.scope, offset |-> turn.offset]]
            /\ walk' = turn
    BY <1>10 DEF CountPg
  <2>2. ToCome(turn) /\ Counted(turn.scope, turn.offset, Cardinality(Listed(turn.scope)))
    BY <1>0, TurnToCome, CountBounds
  <2>3. rows' = rows /\ \A d \in Clients : call[d].at # "items"
    BY <1>10 DEF CountPg
  <2>4. ToCome(walk)'
    BY <2>1, <2>2, <2>3 DEF ToCome, NewerIds, Listed, Ids
  <2>5. call'[c] = [at |-> "items", total |-> Cardinality(Listed(turn.scope)),
                    scope |-> turn.scope, offset |-> turn.offset]
    BY <1>0, <2>1, NumberFacts
  <2>6. \A d \in Clients \ {c} : call'[d].at # "items"
    BY <2>1, <2>3
  <2>7. Counted(walk.scope, walk.offset, call[c].total)'
    BY <2>1, <2>2, <2>3, <2>5 DEF Counted, Ids, Listed
  <2>8. PagesOK'
    BY <2>1, <2>5, <2>6, <2>7 DEF PagesOK
  <2> QED
    BY <1>0, <2>4, <2>8
<1>11. ASSUME NEW c \in Clients, ItemsPg(c) PROVE WalkInv'
  <2>1. PICK items \in PagesOf(call[c].scope, call[c].offset) : walk' = Turned(walk, items, call[c].total)
    BY <1>11 DEF ItemsPg, Page
  <2>2. call[c].at = "items" /\ call[c].total \in Nat /\ walk \in Walks
    BY <1>0, <1>11, CallKinds DEF ItemsPg, WalkTyped, Walks
  <2>3. ToCome(walk')
    <3>1. CASE walk = NoWalk
      BY <1>0, <2>1, <3>1, NoWalkFits DEF Turned
    <3>2. CASE walk # NoWalk
      <4>1. /\ walk.scope = call[c].scope /\ walk.offset = call[c].offset
            /\ Counted(walk.scope, walk.offset, call[c].total)
        BY <1>0, <2>2, <3>2 DEF PagesOK
      <4> QED
        BY <1>0, <2>1, <2>2, <4>1, TurnKeeps
    <3> QED
      BY <3>1, <3>2
  <2>4. \A d \in Clients : call'[d].at # "items"
    <3>1. call'[c] = Idle /\ \A d \in Clients \ {c} : call'[d] = call[d]
      BY <1>0, <1>11, NumberFacts DEF ItemsPg
    <3>2. \A d \in Clients \ {c} : call[d].at # "items"
      BY <1>0, <2>2 DEF PagesOK
    <3> QED
      BY <3>1, <3>2 DEF Idle
  <2> QED
    BY <1>8, <1>11, <2>3, <2>4 DEF ItemsPg
<1>12. CASE UNCHANGED vars
  BY <1>2, <1>12 DEF vars
<1> QED
  BY <1>3, <1>4, <1>5, <1>6, <1>7, <1>9, <1>10, <1>11, <1>12 DEF Next

(* Nobody has opened a list.                                               *)
LEMMA WalkInit == Init => WalkInv
<1> SUFFICES ASSUME Init PROVE WalkInv
  OBVIOUS
<1>1. TypeInv /\ WalkTyped
  BY TypeInit
<1>2. ToCome(walk)
  BY <1>1, NoWalkFits DEF Init
<1>3. PagesOK
  BY DEF Init, PagesOK, Idle
<1> QED
  BY <1>1, <1>2, <1>3 DEF WalkInv

(* It contains what TLC checks.                                            *)
LEMMA WalkInvSeesAll == WalkInv => WalkSeesAll
BY DEF WalkInv, ToCome, WalkSeesAll

(* An operator who pages a list to its end has seen every row that was     *)
(* there all along, through additions, purges and restarts (the lists of   *)
(* the console, over LIMIT and OFFSET), for any page size; but for a walk  *)
(* during which rows were deleted by id, or in PostgreSQL rows were added  *)
(* between the COUNT and the SELECT of its last page, which is given up.   *)
THEOREM WalksSeeEverything == Spec => []WalkSeesAll
BY WalkInit, WalkNext, WalkInvSeesAll, PTL DEF Spec


-----------------------------------------------------------------------------
(* A claim that is tried again (PgInboundEventStore.claim): as long as a   *)
(* call is short beside a tick of the clock, what it has met cannot be     *)
(* purged; and nobody else holds the id it has been given.                 *)

ClaimOK(c) ==
    LET mine == At(call[c].inst, call[c].key) IN
    /\ call[c].at = "retry" => \A r \in mine : r.at = NowIso
    /\ call[c].at = "refind" =>
         \E r \in mine : r.at = NowIso /\ (call[c].id # 0 => r.id = call[c].id /\ r.val = "received")
    /\ call[c].at = "refind" /\ call[c].id # 0 =>
         \A d \in Clients : /\ held[d] # call[c].id
                            /\ d # c /\ call[d].at = "refind" => call[d].id # call[c].id

ClaimInv == TypeInv /\ \A c \in Clients : ClaimOK(c)

(* What leaves the claim of c as it is.                                    *)
Spares(c) ==
    /\ UNCHANGED <<now, table>> /\ call'[c] = call[c]
    /\ \A r \in rows : r.at = NowIso =>
           \E q \in rows' : /\ q.inst = r.inst /\ q.key = r.key /\ q.id = r.id /\ q.at = r.at
                            /\ (\A d \in Clients : held[d] # r.id) => q.val = r.val
    /\ \A q \in rows' : q.at = NowIso \/ \E r \in rows : q.inst = r.inst /\ q.key = r.key /\ q.at = r.at
    /\ call[c].at = "refind" /\ call[c].id # 0 =>
         \A d \in Clients : /\ held'[d] # call[c].id
                            /\ d # c /\ call'[d].at = "refind" => call'[d].id # call[c].id

(* A claim stays as it is while no row of the moment goes, changes its     *)
(* status, or is held.                                                     *)
LEMMA ClaimStays ==
    ASSUME NEW c \in Clients, ClaimOK(c), Spares(c)
    PROVE  ClaimOK(c)'
<1>0. call'[c] = call[c] /\ NowIso' = NowIso
  BY DEF Spares, NowIso, Iso
<1>1. ASSUME call[c].at = "retry", NEW q \in rows', q.inst = call[c].inst, q.key = call[c].key
      PROVE  q.at = NowIso
  BY <1>1 DEF ClaimOK, Spares, At
<1>2. ASSUME call[c].at = "refind"
      PROVE  \E q \in rows' : /\ q.inst = call[c].inst /\ q.key = call[c].key /\ q.at = NowIso
                              /\ call[c].id # 0 => q.id = call[c].id /\ q.val = "received"
  <2>1. PICK r \in rows : /\ r.inst = call[c].inst /\ r.key = call[c].key /\ r.at = NowIso
                          /\ call[c].id # 0 => r.id = call[c].id /\ r.val = "received"
    BY <1>2 DEF ClaimOK, At
  <2>2. PICK q \in rows' : /\ q.inst = r.inst /\ q.key = r.key /\ q.id = r.id /\ q.at = r.at
                           /\ (\A d \in Clients : held[d] # r.id) => q.val = r.val
    BY <2>1 DEF Spares
  <2>3. call[c].id # 0 => \A d \in Clients : held[d] # r.id
    BY <1>2, <2>1 DEF ClaimOK
  <2> QED
    BY <2>1, <2>2, <2>3
<1>3. call[c].at = "refind" /\ call[c].id # 0 =>
         \A d \in Clients : /\ held'[d] # call[c].id
                            /\ d # c /\ call'[d].at = "refind" => call'[d].id # call[c].id
  BY DEF Spares
<1>4. call'[c].at = "retry" => \A r \in At(call[c].inst, call[c].key)' : r.at = NowIso'
  BY <1>0, <1>1 DEF At
<1>5. call'[c].at = "refind" =>
         \E r \in At(call[c].inst, call[c].key)' :
            r.at = NowIso' /\ (call'[c].id # 0 => r.id = call'[c].id /\ r.val = "received")
  BY <1>0, <1>2 DEF At
<1> QED
  BY <1>0, <1>3, <1>4, <1>5 DEF ClaimOK

(* A call that is not about to read again relies on nothing.               *)
LEMMA ClaimIdle ==
    ASSUME NEW c \in Clients, call'[c].at \notin {"retry", "refind"}
    PROVE  ClaimOK(c)'
BY DEF ClaimOK

(* Where only those move whose claim is over or not begun.                 *)
LEMMA ClaimsAside ==
    ASSUME ClaimInv, UNCHANGED <<now, table, rows>>,
           \A c \in Clients : held'[c] \in {held[c], 0},
           \A c \in Clients : call'[c] = call[c] \/ call'[c].at \notin {"retry", "refind"}
    PROVE  \A c \in Clients : ClaimOK(c)'
<1> SUFFICES ASSUME NEW c \in Clients PROVE ClaimOK(c)'
  OBVIOUS
<1>1. CASE call'[c].at \notin {"retry", "refind"}
  BY <1>1, ClaimIdle
<1>2. CASE call'[c] = call[c]
  <2>1. ClaimOK(c)
    BY DEF ClaimInv
  <2>2. Spares(c)
    <3>1. call[c].at = "refind" /\ call[c].id # 0 =>
             \A d \in Clients : /\ held'[d] # call[c].id
                                /\ d # c /\ call'[d].at = "refind" => call'[d].id # call[c].id
      BY <2>1 DEF ClaimOK
    <3> QED
      BY <1>2, <3>1 DEF Spares
  <2> QED
    BY <2>1, <2>2, ClaimStays
<1> QED
  BY <1>1, <1>2

(* The invariant is inductive, given the types.                            *)
LEMMA ClaimNext == ClaimInv /\ [Next]_vars /\ TypeInv' => ClaimInv'
<1> SUFFICES ASSUME ClaimInv, [Next]_vars, TypeInv' PROVE \A c \in Clients : ClaimOK(c)'
  BY DEF ClaimInv
<1>0. TypeInv /\ (\A c \in Clients : ClaimOK(c)) /\ DOMAIN call = Clients /\ held \in [Clients -> 0..seq] /\ seq \in Nat
  BY NumberFacts DEF ClaimInv
<1>1. CASE table # "inbound_event"
  <2>1. table' # "inbound_event"
    <3>1. table' = table
      BY FixedStays DEF fixed
    <3> QED
      BY <1>1, <3>1
  <2>2. \A c \in Clients : call'[c].at \notin {"retry", "refind"}
    BY <2>1 DEF TypeInv, CallsOK, CallOK, Idle
  <2> QED
    BY <2>2, ClaimIdle
<1>2. CASE table = "inbound_event"
  <2> USE <1>0, <1>2
  <2>1. ASSUME NEW c \in Clients, PurgeOldRecords(c) PROVE \A d \in Clients : ClaimOK(d)'
    <3>1. /\ rows' = rows \ Before(IsoTicksAgo(Retention)) /\ UNCHANGED <<now, table, call, held>> /\ up # {}
      BY <2>1 DEF PurgeOldRecords, Rows, Quietly, fixed, Ready
    <3>2. \A r \in rows : r.at = NowIso => r \in rows'
      <4>1. Before(IsoTicksAgo(Retention)) = {r \in rows : r.at.t < now - Retention}
        BY <3>1, BeforeFacts, SchemaAssumption
      <4>2. now \in Nat /\ NowIso.t = now /\ Retention \in Nat \ {0}
        BY Types, SchemaAssumption DEF TypeInv
      <4> QED
        BY <3>1, <4>1, <4>2
    <3>3. rows' \subseteq rows
      BY <3>1
    <3> SUFFICES ASSUME NEW d \in Clients PROVE Spares(d)
      BY ClaimStays
    <3>4. /\ \A r \in rows : r.at = NowIso =>
                 \E q \in rows' : /\ q.inst = r.inst /\ q.key = r.key /\ q.id = r.id /\ q.at = r.at
                                  /\ (\A e \in Clients : held[e] # r.id) => q.val = r.val
          /\ \A q \in rows' : \E r \in rows : q.inst = r.inst /\ q.key = r.key /\ q.at = r.at
      BY <3>2, <3>3
    <3>5. ClaimOK(d)
      OBVIOUS
    <3> QED
      BY <3>1, <3>4, <3>5 DEF Spares, ClaimOK
  <2>2. ASSUME NEW c \in Clients, Finish(c) PROVE \A d \in Clients : ClaimOK(d)'
    <3>1. PICK v : rows' = {IF r.id = held[c] THEN [r EXCEPT !.val = v] ELSE r : r \in rows}
      BY <2>2 DEF Finish, Rows
    <3>2. UNCHANGED <<now, table, call>> /\ held' = [held EXCEPT ![c] = 0]
      BY <2>2 DEF Finish, fixed, Holds
    <3> SUFFICES ASSUME NEW d \in Clients PROVE Spares(d)
      BY ClaimStays
    <3>3. ASSUME NEW r \in rows
          PROVE  LET q == IF r.id = held[c] THEN [r EXCEPT !.val = v] ELSE r IN
                 /\ q \in rows' /\ q.inst = r.inst /\ q.key = r.key /\ q.id = r.id /\ q.at = r.at
                 /\ held[c] # r.id => q.val = r.val
      <4>1. r \in RowOf(table)
        BY RowIds
      <4> QED
        BY <3>1, <4>1 DEF RowOf
    <3>4. \A r \in rows : r.at = NowIso =>
              \E q \in rows' : /\ q.inst = r.inst /\ q.key = r.key /\ q.id = r.id /\ q.at = r.at
                               /\ (\A e \in Clients : held[e] # r.id) => q.val = r.val
      BY <3>3
    <3>5. \A q \in rows' : \E r \in rows : q.inst = r.inst /\ q.key = r.key /\ q.at = r.at
      BY <3>1, <3>3
    <3>6. ClaimOK(d)
      OBVIOUS
    <3>7. \A e \in Clients : held'[e] \in {held[e], 0}
      BY <3>2
    <3> QED
      BY <3>2, <3>4, <3>5, <3>6, <3>7 DEF Spares, ClaimOK
  <2>3. ASSUME NEW c \in Clients, NEW i \in Insts, NEW k \in Keys, At(i, k) = {}, rows' = Claims(i, k),
               UNCHANGED <<now, table>>, seq < NextId, NextId \in Nat,
               \A d \in Clients \ {c} : call'[d] = call[d] /\ held'[d] = held[d],
               held'[c] \in {held[c], NextId},
               call'[c].at = "refind" => call'[c].id = NextId
        PROVE  \A d \in Clients \ {c} : ClaimOK(d)'
    <3>0. \A d \in Clients : call[d].at = "refind" => call[d].id \in 0..seq
      BY CallKinds
    <3>1. \E row : rows' = rows \union {row} /\ row.at = NowIso
      <4>1. table \in Claimed
        BY DEF Claimed
      <4> QED
        BY <2>3, <4>1, ClaimedRows
    <3> SUFFICES ASSUME NEW d \in Clients \ {c} PROVE Spares(d)
      BY ClaimStays
    <3>2. ClaimOK(d)
      OBVIOUS
    <3>3. call[d].at = "refind" /\ call[d].id # 0 =>
             \A e \in Clients : /\ held'[e] # call[d].id
                                /\ e # d /\ call'[e].at = "refind" => call'[e].id # call[d].id
      BY <2>3, <3>0, <3>2 DEF ClaimOK
    <3>4. /\ \A r \in rows : r \in rows'
          /\ \A q \in rows' : q.at = NowIso \/ q \in rows
      BY <3>1
    <3> QED
      BY <2>3, <3>3, <3>4 DEF Spares
  <2>4. ASSUME NEW c \in Clients, NEW row \in rows, Existing(c, row), UNCHANGED <<now, table, rows>>,
               \A d \in Clients \ {c} : call'[d] = call[d],
               call'[c] = call[c] \/ call'[c].at = "idle", call[c].at \notin {"retry", "refind"}
        PROVE  \A d \in Clients : ClaimOK(d)'
    <3>1. held' = [held EXCEPT ![c] = IF row.val = "failed" THEN row.id ELSE 0]
      BY <2>4 DEF Existing, Holds
    <3>2. ASSUME NEW d \in Clients \ {c} PROVE ClaimOK(d)'
      <4>1. ClaimOK(d) /\ call'[d] = call[d]
        BY <2>4
      <4>2. ASSUME call[d].at = "refind", call[d].id # 0
            PROVE  \A e \in Clients : /\ held'[e] # call[d].id
                                      /\ e # d /\ call'[e].at = "refind" => call'[e].id # call[d].id
        <5>1. PICK r \in rows : r.id = call[d].id /\ r.val = "received"
          BY <4>1, <4>2 DEF ClaimOK, At
        <5>2. row.id = r.id => row = r
          BY <4>2, <5>1 DEF TypeInv, RowsOK
        <5>3. held'[c] # call[d].id
          BY <3>1, <4>2, <5>1, <5>2
        <5>4. \A e \in Clients \ {c} : held'[e] = held[e]
          BY <3>1
        <5> QED
          BY <2>4, <4>1, <4>2, <5>3, <5>4 DEF ClaimOK
      <4>3. Spares(d)
        BY <2>4, <4>1, <4>2 DEF Spares
      <4> QED
        BY <4>1, <4>3, ClaimStays
    <3>3. ClaimOK(c)'
      BY <2>4, ClaimIdle
    <3> QED
      BY <3>2, <3>3
  <2>5. ASSUME NEW c \in Clients, InboundClaim(c) PROVE \A d \in Clients : ClaimOK(d)'
    <3>0. call[c] = Idle /\ call[c].at = "idle" /\ UNCHANGED <<now, table>>
      BY <2>5 DEF InboundClaim, Ready, Idle, fixed
    <3>1. PICK i \in Insts, k \in Keys :
           \/ /\ At(i, k) = {} /\ Rows(Claims(i, k)) /\ seq' = NextId /\ Holds(c, NextId) /\ UNCHANGED call
           \/ /\ At(i, k) # {} /\ \E row \in At(i, k) : Existing(c, row)
              /\ UNCHANGED <<rows, seq, call>>
           \/ /\ At(i, k) # {} /\ backend = "postgres" /\ seq' = Burnt
              /\ call' = [call EXCEPT ![c] = [at |-> "find", inst |-> i, key |-> k]]
              /\ UNCHANGED <<rows, held>>
      BY <2>5 DEF InboundClaim
    <3>2. CASE At(i, k) = {} /\ Rows(Claims(i, k)) /\ seq' = NextId /\ Holds(c, NextId) /\ UNCHANGED call
      <4>1. /\ rows' = Claims(i, k) /\ held' = [held EXCEPT ![c] = NextId] /\ seq < NextId /\ NextId \in Nat
        BY <3>2, NumberFacts DEF Rows, Holds
      <4>2. /\ \A d \in Clients \ {c} : call'[d] = call[d] /\ held'[d] = held[d]
            /\ held'[c] = NextId /\ call'[c].at = "idle"
        BY <3>0, <3>2, <4>1
      <4> QED
        BY <2>3, <3>0, <3>2, <4>1, <4>2, ClaimIdle
    <3>3. CASE (\E row \in At(i, k) : Existing(c, row)) /\ UNCHANGED <<rows, seq, call>>
      <4>1. PICK row \in rows : Existing(c, row)
        BY <3>3 DEF At
      <4> QED
        BY <2>4, <3>0, <3>3, <4>1
    <3>4. CASE /\ call' = [call EXCEPT ![c] = [at |-> "find", inst |-> i, key |-> k]]
               /\ UNCHANGED <<rows, held>>
      <4>1. \A d \in Clients : call'[d] = call[d] \/ call'[d].at \notin {"retry", "refind"}
        BY <3>4
      <4> QED
        BY <3>0, <3>4, <4>1, ClaimsAside
    <3> QED
      BY <3>1, <3>2, <3>3, <3>4
  <2>6. ASSUME NEW c \in Clients, FindClaimed(c) PROVE \A d \in Clients : ClaimOK(d)'
    <3> DEFINE old == At(call[c].inst, call[c].key)
    <3>0. call[c].at = "find" /\ UNCHANGED <<now, table, rows>>
      BY <2>6 DEF FindClaimed, fixed
    <3>1. CASE \E row \in old : Existing(c, row) /\ call' = [call EXCEPT ![c] = Idle]
      <4>1. PICK row \in rows : Existing(c, row)
        BY <3>1 DEF At
      <4>2. call'[c].at = "idle" /\ \A d \in Clients \ {c} : call'[d] = call[d]
        BY <3>1 DEF Idle
      <4> QED
        BY <2>4, <3>0, <4>1, <4>2
    <3>2. CASE old = {} /\ call' = [call EXCEPT ![c].at = "retry"] /\ UNCHANGED held
      <4>1. call'[c] = [call[c] EXCEPT !.at = "retry"]
        BY <3>2
      <4>2. call[c] \in [at : {"find", "retry"}, inst : Insts, key : Keys]
        BY <3>0, CallKinds
      <4>3. call'[c].at = "retry" /\ call'[c].inst = call[c].inst /\ call'[c].key = call[c].key
        BY <4>1, <4>2
      <4>4. ClaimOK(c)'
        BY <3>0, <3>2, <4>3 DEF ClaimOK, At
      <4>5. \A d \in Clients \ {c} : call'[d] = call[d]
        BY <3>2
      <4>6. \A d \in Clients \ {c} : ClaimOK(d)'
        <5> SUFFICES ASSUME NEW d \in Clients \ {c} PROVE Spares(d)
          BY ClaimStays
        <5>1. ClaimOK(d)
          OBVIOUS
        <5> QED
          BY <3>0, <3>2, <4>3, <4>5, <5>1 DEF Spares, ClaimOK
      <4> QED
        BY <4>4, <4>6
    <3> QED
      BY <2>6, <3>1, <3>2 DEF FindClaimed
  <2>7. ASSUME NEW c \in Clients, RetryClaim(c) PROVE \A d \in Clients : ClaimOK(d)'
    <3> DEFINE i == call[c].inst
               k == call[c].key
               id == IF At(i, k) = {} THEN NextId ELSE 0
    <3>0. /\ call[c].at = "retry" /\ UNCHANGED <<now, table, held>>
          /\ call' = [call EXCEPT ![c] = [at |-> "refind", inst |-> i, key |-> k, id |-> id]]
          /\ rows' = IF At(i, k) = {} THEN Claims(i, k) ELSE rows
      BY <2>7 DEF RetryClaim, Rows, fixed
    <3>1. i \in Insts /\ k \in Keys /\ NextId \in Nat /\ NextId > 0 /\ seq < NextId
      BY <3>0, CallKinds, NumberFacts
    <3>2. call'[c] = [at |-> "refind", inst |-> i, key |-> k, id |-> id]
      BY <3>0
    <3>3. /\ call'[c].at = "refind" /\ call'[c].inst = i /\ call'[c].key = k /\ call'[c].id = id
          /\ \A d \in Clients \ {c} : call'[d] = call[d]
      BY <3>0, <3>2
    <3>4. ClaimOK(c)
      OBVIOUS
    <3> HIDE DEF i, k
    <3>5. CASE At(i, k) = {}
      <4>1. id = NextId
        BY <3>5
      <4>2. \A d \in Clients \ {c} : ClaimOK(d)'
        BY <2>3, <3>0, <3>1, <3>3, <3>5, <4>1
      <4>3. PICK row : rows' = rows \union {row} /\ row.inst = i /\ row.key = k /\ row.at = NowIso
                       /\ row.id = NextId /\ row.val = "received"
        <5>1. table \in Claimed /\ Begun(table) = {"received"} /\ table # "webhook_seen"
          BY InboundFacts DEF Claimed
        <5> QED
          BY <3>0, <3>1, <3>5, <5>1, ClaimedRows
      <4>4. \E r \in rows' : /\ r.inst = call'[c].inst /\ r.key = call'[c].key
                             /\ r.at = NowIso' /\ r.id = NextId /\ r.val = "received"
        <5>1. NowIso' = NowIso
          BY <3>0 DEF NowIso, Iso
        <5> QED
          BY <3>3, <4>3, <5>1
      <4>5. \E r \in At(call[c].inst, call[c].key)' : r.at = NowIso' /\ r.id = NextId /\ r.val = "received"
        BY <4>4 DEF At
      <4>6. \A d \in Clients : /\ held'[d] # NextId
                               /\ d # c /\ call'[d].at = "refind" => call'[d].id # NextId
        <5>1. \A d \in Clients : held[d] \in 0..seq /\ (call[d].at = "refind" => call[d].id \in 0..seq)
          BY CallKinds
        <5> QED
          BY <3>0, <3>1, <3>3, <5>1
      <4>7. ClaimOK(c)'
        BY <3>3, <4>1, <4>5, <4>6 DEF ClaimOK
      <4> QED
        BY <4>2, <4>7
    <3>6. CASE At(i, k) # {}
      <4>1. id = 0 /\ rows' = rows
        BY <3>0, <3>6
      <4>2. \E r \in At(i, k) : r.at = NowIso
        BY <3>0, <3>4, <3>6 DEF ClaimOK, i, k
      <4>3. ClaimOK(c)'
        BY <3>0, <3>3, <4>1, <4>2 DEF ClaimOK, At, NowIso, Iso
      <4>4. \A d \in Clients \ {c} : ClaimOK(d)'
        <5> SUFFICES ASSUME NEW d \in Clients \ {c} PROVE Spares(d)
          BY ClaimStays
        <5>1. ClaimOK(d)
          OBVIOUS
        <5> QED
          BY <3>0, <3>3, <4>1, <5>1 DEF Spares, ClaimOK
      <4> QED
        BY <4>3, <4>4
    <3> QED
      BY <3>5, <3>6
  <2>8. ASSUME NEW c \in Clients, FindRetried(c) PROVE \A d \in Clients : ClaimOK(d)'
    <3>0. /\ call[c].at = "refind" /\ UNCHANGED <<now, table, rows>> /\ call' = [call EXCEPT ![c] = Idle]
      BY <2>8 DEF FindRetried, fixed
    <3>1. call'[c].at = "idle" /\ \A d \in Clients \ {c} : call'[d] = call[d]
      BY <3>0 DEF Idle
    <3>2. PICK row \in rows : held' = [held EXCEPT ![c] = IF call[c].id # 0 \/ row.val = "failed" THEN row.id ELSE 0]
                              /\ (call[c].id # 0 => row.id = call[c].id)
      <4> DEFINE old == At(call[c].inst, call[c].key)
      <4>1. PICK r \in old : call[c].id # 0 => r.id = call[c].id
        BY <3>0 DEF ClaimOK
      <4>2. \A q \in old : q = r
        <5>1. table \in Unique
          BY InboundFacts
        <5> QED
          BY <4>1, <5>1 DEF TypeInv, RowsOK, At
      <4>3. (CHOOSE q \in old : TRUE) = r
        BY <4>1, <4>2
      <4>4. held' = [held EXCEPT ![c] = IF call[c].id # 0 \/ r.val = "failed" THEN r.id ELSE 0]
        BY <2>8, <4>1, <4>3 DEF FindRetried, Holds
      <4> QED
        BY <4>1, <4>4 DEF At
    <3>3. ASSUME NEW d \in Clients \ {c} PROVE ClaimOK(d)'
      <4>1. ClaimOK(d) /\ call'[d] = call[d]
        BY <3>1
      <4>2. ASSUME call[d].at = "refind", call[d].id # 0
            PROVE  \A e \in Clients : /\ held'[e] # call[d].id
                                      /\ e # d /\ call'[e].at = "refind" => call'[e].id # call[d].id
        <5>1. PICK r \in rows : r.id = call[d].id /\ r.val = "received"
          BY <4>1, <4>2 DEF ClaimOK, At
        <5>2. row.id = r.id => row = r
          BY <4>2, <5>1 DEF TypeInv, RowsOK
        <5>3. call[c].id # call[d].id
          BY <3>0, <4>1, <4>2 DEF ClaimOK
        <5>4. held'[c] # call[d].id
          BY <3>2, <4>2, <5>1, <5>2, <5>3
        <5>5. \A e \in Clients \ {c} : held'[e] = held[e]
          BY <3>2
        <5> QED
          BY <3>1, <4>1, <4>2, <5>4, <5>5 DEF ClaimOK
      <4>3. Spares(d)
        BY <3>0, <4>1, <4>2 DEF Spares
      <4> QED
        BY <4>1, <4>3, ClaimStays
    <3>4. ClaimOK(c)'
      BY <3>1, ClaimIdle
    <3> QED
      BY <3>3, <3>4
  <2>9. CASE Tick
    <3>1. \A c \in Clients : call'[c].at = "idle"
      BY <2>9 DEF Tick, Idle
    <3> QED
      BY <3>1, ClaimIdle
  <2>10. CASE ApplyMigration
    <3>1. \A c \in Clients : call'[c].at = "idle"
      BY <2>10, CallKinds DEF ApplyMigration
    <3> QED
      BY <3>1, ClaimIdle
  <2>11. CASE Serve \/ \E c \in Clients : TakeLock(c) \/ Commit(c) \/ Rollback(c)
    <3>1. UNCHANGED <<now, table, rows, held, call>>
      BY <2>11 DEF Serve, TakeLock, Commit, Rollback, fixed
    <3> QED
      BY <3>1, ClaimsAside
  <2>12. ASSUME NEW c \in Clients, Crash(c) PROVE \A d \in Clients : ClaimOK(d)'
    <3>1. /\ UNCHANGED <<now, table, rows>>
          /\ \A d \in Clients : held'[d] \in {held[d], 0} /\ call'[d] \in {call[d], Idle}
      BY <2>12 DEF Crash, fixed
    <3>2. \A d \in Clients : call'[d] = call[d] \/ call'[d].at \notin {"retry", "refind"}
      BY <3>1 DEF Idle
    <3> QED
      BY <3>1, <3>2, ClaimsAside
  <2>13. ASSUME NEW c \in Clients, ListSqlite(c) \/ CountPg(c) \/ ItemsPg(c) PROVE \A d \in Clients : ClaimOK(d)'
    <3>1. UNCHANGED <<now, table, rows, held>>
      BY <2>13 DEF ListSqlite, CountPg, ItemsPg, Quietly, fixed
    <3>2. \A d \in Clients : call'[d] = call[d] \/ call'[d].at \notin {"retry", "refind"}
      BY <2>13 DEF ListSqlite, CountPg, ItemsPg, Quietly, Idle
    <3> QED
      BY <3>1, <3>2, ClaimsAside
  <2>14. ASSUME NEW c \in Clients,
                \/ InstallsUpsert(c) \/ InstallsSetStatus(c) \/ InstallsSetExternalAccount(c)
                \/ StateWrite(c) \/ StateDelete(c) \/ CursorsSet(c)
                \/ RunsStart(c) \/ Log(c) \/ WebhookSeenClaim(c) \/ WebhookSeenRelease(c)
                \/ RejectedItemsDeleteByIds(c)
         PROVE  FALSE
    BY <2>14, InboundFacts DEF InstallsUpsert, InstallsSetStatus, InstallsSetExternalAccount, StateWrite, StateDelete,
                CursorsSet, RunsStart, Log, WebhookSeenClaim, WebhookSeenRelease, RejectedItemsDeleteByIds
  <2>15. CASE UNCHANGED vars
    BY <2>15, ClaimsAside DEF vars, fixed
  <2> QED
    BY <2>1, <2>2, <2>5, <2>6, <2>7, <2>8, <2>9, <2>10, <2>11, <2>12, <2>13, <2>14, <2>15 DEF Next
<1> QED
  BY <1>1, <1>2

-----------------------------------------------------------------------------
(* The promise speaks of the same tables.                                  *)

(* Port and Store have Schema in common: they name the same tables,        *)
LEMMA SameTables ==
    /\ Promise!Upserted = Upserted /\ Promise!Claimed = Claimed /\ Promise!Unique = Unique
    /\ Promise!Logged = Logged /\ Promise!Numbered = Numbered
    /\ Promise!Finished = Finished /\ Promise!Purged = Purged
BY DEF Promise!Upserted, Promise!Claimed, Promise!Unique, Promise!Logged, Promise!Numbered,
       Promise!Finished, Promise!Purged,
       Upserted, Claimed, Unique, Logged, Numbered, Finished, Purged

(* keys and values,                                                        *)
LEMMA SameSchema ==
    ASSUME NEW t \in Tables
    PROVE  /\ Promise!KeysOf(t) = KeysOf(t) /\ Promise!Begun(t) = Begun(t)
           /\ Promise!Ended(t) = Ended(t) /\ Promise!Values(t) = Values(t)
           /\ Promise!Given(t) = Given(t) /\ Promise!Initially(t) = Initially(t)
<1>1. Promise!Begun(t) = Begun(t)
  BY DEF Promise!Begun, Begun
<1>2. Promise!Ended(t) = Ended(t)
  BY DEF Promise!Ended, Ended
<1>3. Promise!Given(t) = Given(t)
  BY DEF Promise!Given, Given
<1>4. Promise!KeysOf(t) = KeysOf(t)
  BY SameTables DEF Promise!KeysOf, KeysOf
<1> QED
  BY <1>1, <1>2, <1>3, <1>4 DEF Promise!Values, Values, Promise!Initially, Initially

(* and lists.                                                              *)
LEMMA SameScopes ==
    ASSUME NEW t \in Tables
    PROVE  Promise!Scopes(t) = Scopes(t)
BY SameTables DEF Promise!Scopes, Scopes, Promise!Unscoped, Unscoped

(* The two instances of Cardinality are equal.                             *)
LEMMA SameCard ==
    ASSUME NEW S
    PROVE  Promise!Cardinality(S) = Cardinality(S)
BY DEF Promise!Cardinality, Cardinality

(* A new row is the same in both.                                          *)
LEMMA SameNewRow ==
    ASSUME NEW id, NEW i, NEW k, NEW v, NEW g, NEW a
    PROVE  Promise!NewRow(id, i, k, v, g, a) = NewRow(id, i, k, v, g, a)
BY DEF Promise!NewRow, NewRow

-----------------------------------------------------------------------------
(* A row as the port gives it: its stamp is an instant.                    *)

ParsedOf(t) == [id : Nat, inst : Insts, key : KeysOf(t), val : Values(t), kept : Given(t),
                stamps : {Null, "stamped"}, ref : {Null, "account"}, at : Nat]

(* Parsing a row changes its stamp only.                                   *)
LEMMA ParsedRow ==
    ASSUME NEW t, NEW r \in RowOf(t)
    PROVE  /\ Parsed(r) \in ParsedOf(t)
           /\ Parsed(r).id = r.id /\ Parsed(r).inst = r.inst /\ Parsed(r).key = r.key
           /\ Parsed(r).val = r.val /\ Parsed(r).kept = r.kept /\ Parsed(r).stamps = r.stamps
           /\ Parsed(r).ref = r.ref /\ Parsed(r).at = r.at.t
BY DEF RowOf, ParsedOf, Parsed, ParseStoreTimestamp

(* Parsed rows are equal when their columns are.                           *)
LEMMA ParsedSame ==
    ASSUME NEW t, NEW p \in ParsedOf(t), NEW q \in ParsedOf(t),
           p.id = q.id, p.inst = q.inst, p.key = q.key, p.val = q.val, p.kept = q.kept,
           p.stamps = q.stamps, p.ref = q.ref, p.at = q.at
    PROVE  p = q
BY DEF ParsedOf

(* In the format of today, rows with equal parses are equal.               *)
LEMMA ParsedInjective ==
    ASSUME NEW t, NEW q \in RowOf(t), NEW r \in RowOf(t), Parsed(q) = Parsed(r),
           q.at.legacy = FALSE, r.at.legacy = FALSE
    PROVE  q = r
<1>1. q.at = r.at
  <2>1. q.at \in [t : Nat, legacy : BOOLEAN] /\ r.at \in [t : Nat, legacy : BOOLEAN] /\ q.at.t = r.at.t
    BY ParsedRow DEF RowOf
  <2> QED
    BY <2>1
<1>2. /\ q.id = r.id /\ q.inst = r.inst /\ q.key = r.key /\ q.val = r.val /\ q.kept = r.kept
      /\ q.stamps = r.stamps /\ q.ref = r.ref
  BY ParsedRow
<1> QED
  BY <1>1, <1>2 DEF RowOf

(* As many rows.                                                           *)
LEMMA CardParsed ==
    ASSUME TypeInv, up # {}, NEW s \in SUBSET rows
    PROVE  Cardinality(ParsedRows(s)) = Cardinality(s)
<1> DEFINE f == [r \in s |-> Parsed(r)]
<1>1. ASSUME NEW q \in s, NEW r \in s, f[q] = f[r] PROVE q = r
  BY <1>1, ParsedInjective, ServingStamps, RowIds
<1>2. f \in Bijection(s, ParsedRows(s))
  BY <1>1 DEF Bijection, Injection, Surjection, IsInjective, ParsedRows
<1>3. IsFiniteSet(s)
  BY FS_Subset DEF TypeInv, RowsOK
<1> QED
  BY <1>2, <1>3, FS_Bijection DEF ExistsBijection

(* The rows under a key, parsed.                                           *)
LEMMA SameAt ==
    ASSUME TypeInv, NEW i, NEW k
    PROVE  Promise!At(i, k) = ParsedRows(At(i, k))
<1>1. \A r \in rows : Parsed(r).inst = r.inst /\ Parsed(r).key = r.key
  BY RowIds, ParsedRow
<1> QED
  BY <1>1 DEF Promise!At, At, ParsedRows
-----------------------------------------------------------------------------
(* What has been decided of the calls.                                     *)

Earlies == [d \in Clients |-> Early(d)]

(* What is decided of a call, by where it is.                              *)
LEMMA EarlyKinds ==
    ASSUME NEW c \in Clients
    PROVE  /\ call[c].at \notin {"items", "refind"} => Early(c) = Null
           /\ call[c].at = "refind" /\ call[c].id = 0 => Early(c) = Null
           /\ call[c].at = "items" => Early(c) = [total |-> call[c].total]
           /\ call[c].at = "refind" /\ call[c].id # 0 =>
                Early(c) = [id |-> call[c].id, fresh |-> TRUE, status |-> "received"]
BY DEF Early

(* Nothing is decided of a call that does not move.                        *)
LEMMA EarlyStays ==
    ASSUME NEW c, call'[c] = call[c]
    PROVE  Early(c)' = Early(c)
BY DEF Early

(* A step decides of one call.                                             *)
LEMMA EarlyMoves ==
    ASSUME NEW c \in Clients, NEW e, Early(c)' = e, \A d \in Clients \ {c} : call'[d] = call[d]
    PROVE  Earlies' = [Earlies EXCEPT ![c] = e]
<1>1. \A d \in Clients \ {c} : Early(d)' = Early(d)
  BY EarlyStays
<1> QED
  BY <1>1 DEF Earlies

(* A step that decides of none.                                            *)
LEMMA EarlyAll ==
    ASSUME \A d \in Clients : Early(d)' = Early(d)
    PROVE  Earlies' = Earlies
BY DEF Earlies

(* A step that the promise does not see.                                   *)
LEMMA Stutters ==
    ASSUME UNCHANGED <<fixed, owner, up, seq, now, answer>>, ParsedRows(rows') = ParsedRows(rows),
           \A d \in Clients : Early(d)' = Early(d)
    PROVE  UNCHANGED Promise!vars
<1>1. Earlies' = Earlies
  BY EarlyAll
<1>2. ParsedRows(rows)' = ParsedRows(rows)
  BY DEF ParsedRows, Parsed, ParseStoreTimestamp
<1> QED
  BY <1>1, <1>2 DEF Promise!vars, fixed, Earlies

(* What statements leave alone.                                            *)
LEMMA Frames ==
    ASSUME UNCHANGED <<fixed, boot, now>>
    PROVE  Promise!Frame
BY DEF Promise!Frame, fixed, boot

(* A call that is answered at once.                                        *)
LEMMA Calls ==
    ASSUME NEW c \in Clients, c \in up, Early(c) = Null, Promise!Call(c)
    PROVE  Promise!Next
BY DEF Promise!Next, Promise!Ready

(* A client that may call serves, and nothing is decided of it.            *)
LEMMA ReadyCalls ==
    ASSUME NEW c \in Clients, Ready(c)
    PROVE  c \in up /\ Early(c) = Null /\ up # {}
BY EarlyKinds DEF Ready, Idle

(* A statement that changes rows only.                                     *)
LEMMA QuietFrame ==
    ASSUME Quietly
    PROVE  Promise!Frame /\ seq' = seq /\ Earlies' = Earlies
BY Frames, EarlyStays, EarlyAll DEF Quietly

-----------------------------------------------------------------------------
(* The steps outside the calls.                                            *)

(* Migrations are stutters: normalising a stamp does not change its        *)
(* instant. A boot, a crash and the clock are those of the promise.        *)
LEMMA BootSteps ==
    ASSUME TypeInv, 
           \/ ApplyMigration \/ Serve \/ Tick
           \/ \E c \in Clients : TakeLock(c) \/ Commit(c) \/ Rollback(c) \/ Crash(c)
    PROVE  [Promise!Next]_(Promise!vars)
<1>1. CASE ApplyMigration
  <2>1. ParsedRows(rows') = ParsedRows(rows)
    <3>1. \A r \in rows : Parsed(Normalised(r)) = Parsed(r)
      BY RowIds DEF RowOf, Parsed, Normalised, ParseStoreTimestamp
    <3>2. rows' = {Normalised(r) : r \in rows} \/ rows' = rows
      BY <1>1 DEF ApplyMigration
    <3> QED
      BY <3>1, <3>2 DEF ParsedRows
  <2>2. UNCHANGED <<fixed, owner, up, seq, now, answer, call>>
    BY <1>1 DEF ApplyMigration, fixed
  <2> QED
    BY <2>1, <2>2, Stutters, EarlyStays
<1>2. CASE Serve
  <2>1. /\ backend = "sqlite" /\ backend' = backend /\ up' = up \union Clients
        /\ UNCHANGED <<table, slug, owner, rows, seq, now, answer, call>>
    BY <1>2 DEF Serve, fixed
  <2>2. Earlies' = Earlies
    BY <2>1, EarlyStays, EarlyAll
  <2>3. Promise!Migrate(Clients)
    BY <2>1, <2>2 DEF Promise!Migrate, Earlies, ParsedRows, Parsed, ParseStoreTimestamp
  <2> QED
    BY <2>3 DEF Promise!Next
<1>3. CASE Tick
  <2>1. now' = now + 1 /\ UNCHANGED <<fixed, boot, rows, seq, answer, call>>
    BY <1>3 DEF Tick
  <2>2. Earlies' = Earlies
    BY <2>1, EarlyStays, EarlyAll
  <2>3. Promise!Tick
    BY <2>1, <2>2 DEF Promise!Tick, Earlies, ParsedRows, Parsed, ParseStoreTimestamp, fixed, boot
  <2> QED
    BY <2>3 DEF Promise!Next
<1>4. ASSUME NEW c \in Clients, TakeLock(c) \/ Rollback(c) PROVE UNCHANGED Promise!vars
  <2>1. UNCHANGED <<fixed, owner, up, rows, seq, now, answer, call>>
    BY <1>4 DEF TakeLock, Rollback
  <2> QED
    BY <2>1, Stutters, EarlyStays
<1>5. ASSUME NEW c \in Clients, Commit(c) PROVE Promise!Next
  <2>1. /\ owner \in {Null, slug[c]} /\ owner' = slug[c] /\ up' = up \union {c}
        /\ UNCHANGED <<table, backend, slug, rows, seq, now, answer, call>> /\ lock = c
    BY <1>5 DEF Commit, fixed
  <2>2. backend # "sqlite"
    BY <2>1, SchemaAssumption DEF TypeInv, BootOK
  <2>3. Earlies' = Earlies
    BY <2>1, EarlyStays, EarlyAll
  <2>4. Promise!Migrate({c})
    BY <2>1, <2>2, <2>3 DEF Promise!Migrate, Earlies, ParsedRows, Parsed, ParseStoreTimestamp
  <2>5. {c} \in SUBSET Clients
    OBVIOUS
  <2> QED
    BY <2>4, <2>5 DEF Promise!Next
<1>6. ASSUME NEW c \in Clients, Crash(c) PROVE Promise!Next
  <2> DEFINE dead == IF backend = "sqlite" THEN Clients ELSE {c}
  <2>1. /\ up' = up \ dead /\ UNCHANGED <<table, backend, slug, owner, rows, seq, now, answer>>
        /\ call' = [d \in Clients |-> IF d \in dead THEN Idle ELSE call[d]]
    BY <1>6 DEF Crash, fixed
  <2>2. \A d \in Clients : Early(d)' = IF d \in dead THEN Null ELSE Early(d)
    <3> SUFFICES ASSUME NEW d \in Clients PROVE Early(d)' = IF d \in dead THEN Null ELSE Early(d)
      OBVIOUS
    <3>1. CASE d \in dead
      <4>1. call'[d].at = "idle"
        BY <2>1, <3>1 DEF Idle
      <4> QED
        BY <3>1, <4>1 DEF Early
    <3>2. CASE d \notin dead
      BY <2>1, <3>2, EarlyStays
    <3> QED
      BY <3>1, <3>2
  <2>3. dead \in SUBSET Clients
    OBVIOUS
  <2> HIDE DEF dead
  <2>4. Earlies' = [d \in Clients |-> IF d \in dead THEN Null ELSE Earlies[d]]
    BY <2>2 DEF Earlies
  <2>5. Promise!Crash(dead)
    BY <2>1, <2>4 DEF Promise!Crash, Earlies, ParsedRows, Parsed, ParseStoreTimestamp
  <2> QED
    BY <2>3, <2>5 DEF Promise!Next
<1> QED
  BY <1>1, <1>2, <1>3, <1>4, <1>5, <1>6

-----------------------------------------------------------------------------
(* The writes.                                                             *)

(* The parsed rows after a step.                                           *)
LEMMA RowsPrimed ==
    ASSUME NEW new, rows' = new
    PROVE  ParsedRows(rows)' = ParsedRows(new)
BY DEF ParsedRows, Parsed, ParseStoreTimestamp

(* Parsing a row that is upserted.                                         *)
LEMMA ParsedWritten ==
    ASSUME NEW t, NEW r \in RowOf(t), NEW v, NEW g, NEW a
    PROVE  Parsed(Written(r, v, g, a)) = Written(Parsed(r), v, g, a.t)
BY DEF RowOf, Parsed, Written, ParseStoreTimestamp

(* Parsing the stamp of now.                                               *)
LEMMA NowIsNow == NowIso.t = now
BY DEF NowIso, Iso

(* Parsing rows that are changed one by one.                               *)
LEMMA ParsedMapped ==
    ASSUME NEW f, NEW h, \A r \in rows : Parsed(f[r]) = h[Parsed(r)]
    PROVE  ParsedRows({f[r] : r \in rows}) = {h[p] : p \in ParsedRows(rows)}
BY DEF ParsedRows

(* Parsing a new row.                                                      *)
LEMMA ParsedNew ==
    ASSUME NEW id, NEW i, NEW k, NEW v, NEW g, NEW a
    PROVE  Parsed(NewRow(id, i, k, v, g, a)) = NewRow(id, i, k, v, g, a.t)
BY DEF Parsed, NewRow, ParseStoreTimestamp

(* The only row of a key.                                                  *)
LEMMA OnlyRow ==
    ASSUME TypeInv, table \in Unique, NEW i, NEW k, NEW r \in At(i, k)
    PROVE  /\ At(i, k) = {r} /\ r \in rows
           /\ Promise!At(i, k) = {Parsed(r)}
           /\ (CHOOSE q \in Promise!At(i, k) : TRUE) = Parsed(r)
<1>1. At(i, k) = {r} /\ r \in rows
  BY DEF TypeInv, RowsOK, At
<1>2. Promise!At(i, k) = {Parsed(r)}
  BY <1>1, SameAt DEF ParsedRows
<1> QED
  BY <1>1, <1>2

(* INSERT ... ON CONFLICT DO UPDATE is an upsert.                          *)
LEMMA Upserts ==
    ASSUME TypeInv, NEW c \in Clients, Ready(c), table \in Upserted,
           NEW i \in Insts, NEW k \in KeysOf(table), NEW v \in Begun(table), NEW g \in Given(table),
           rows' = InsertOrUpdate(i, k, v, g), Answer(Done), Quietly
    PROVE  Promise!Next
<1>0. table \in Tables /\ table \in Unique
  BY DEF TypeInv, BootOK, Unique
<1>1. PICK last : /\ last = (IF Promise!At(i, k) = {}
                             THEN Promise!NewRow(0, i, k, v, Promise!Initially(table), now)
                             ELSE CHOOSE r \in Promise!At(i, k) : TRUE)
  OBVIOUS
<1> DEFINE row == [last EXCEPT !.val = v, !.at = now, !.kept = IF g = Null THEN @ ELSE g]
<1>2. ParsedRows(rows') = (ParsedRows(rows) \ Promise!At(i, k)) \union {row}
  <2>1. CASE At(i, k) = {}
    <3>1. Promise!At(i, k) = {}
      BY <2>1, SameAt DEF ParsedRows
    <3>2. last = NewRow(0, i, k, v, Initially(table), now)
      BY <1>0, <1>1, <3>1, SameNewRow, SameSchema
    <3>3. Parsed(NewRow(0, i, k, v, Coalesce(g, Initially(table)), NowIso)) = row
      <4>1. Parsed(NewRow(0, i, k, v, Coalesce(g, Initially(table)), NowIso))
              = NewRow(0, i, k, v, Coalesce(g, Initially(table)), now)
        BY ParsedNew, NowIsNow
      <4>2. row = [NewRow(0, i, k, v, Initially(table), now)
                     EXCEPT !.val = v, !.at = now, !.kept = IF g = Null THEN @ ELSE g]
        BY <3>2
      <4>3. row = NewRow(0, i, k, v, Coalesce(g, Initially(table)), now)
        <5> HIDE DEF row
        <5> QED
          BY <4>2 DEF NewRow, Coalesce
      <4> HIDE DEF row
      <4> QED
        BY <4>1, <4>3
    <3>4. rows' = rows \union {NewRow(0, i, k, v, Coalesce(g, Initially(table)), NowIso)}
      BY <2>1 DEF InsertOrUpdate
    <3> QED
      BY <3>1, <3>3, <3>4 DEF ParsedRows
  <2>2. CASE At(i, k) # {}
    <3>1. PICK r \in At(i, k) : TRUE
      BY <2>2
    <3>2. /\ At(i, k) = {r} /\ r \in rows /\ r \in RowOf(table)
          /\ Promise!At(i, k) = {Parsed(r)} /\ last = Parsed(r)
      BY <1>0, <1>1, OnlyRow, RowIds, At(i, k) # {}
    <3> DEFINE new == Written(r, v, Coalesce(g, r.kept), NowIso)
    <3>3. rows' = (rows \ {r}) \union {new}
      BY <2>2, <3>2 DEF InsertOrUpdate, Written
    <3>4. Parsed(new) = row
      <4>1. Parsed(new) = Written(Parsed(r), v, Coalesce(g, r.kept), now)
        BY <3>2, ParsedWritten, NowIsNow
      <4>2. Parsed(r).kept = r.kept /\ Parsed(r) \in ParsedOf(table)
        BY <3>2, ParsedRow
      <4> QED
        BY <3>2, <4>1, <4>2 DEF Coalesce, ParsedOf, Written
    <3>5. \A q \in rows \ {r} : Parsed(q) # Parsed(r)
      <4> SUFFICES ASSUME NEW q \in rows \ {r}, Parsed(q) = Parsed(r) PROVE FALSE
        OBVIOUS
      <4>1. q.inst = r.inst /\ q.key = r.key
        BY <3>2, RowIds, ParsedRow
      <4> QED
        BY <3>2, <4>1 DEF At
    <3> HIDE DEF new, row
    <3> QED
      BY <3>2, <3>3, <3>4, <3>5 DEF ParsedRows
  <2> QED
    BY <2>1, <2>2
<1>3. ParsedRows(rows)' = (ParsedRows(rows) \ Promise!At(i, k)) \union {row}
  BY <1>2, RowsPrimed
<1>4. Promise!Frame /\ seq' = seq /\ Earlies' = Earlies
  BY QuietFrame
<1>5. Promise!Upsert(i, k, v, g)
  BY <1>0, <1>1, <1>3, <1>4, SameTables DEF Promise!Upsert, Promise!Answer, Promise!Done, Answer, Done, Earlies
<1>6. Promise!Call(c)
  BY <1>0, <1>5, SameSchema DEF Promise!Call
<1> QED
  BY <1>6, Calls, ReadyCalls

(* Parsing a row whose status is set.                                      *)
LEMMA ParsedStamped ==
    ASSUME NEW t, NEW r \in RowOf(t), NEW v, NEW s, NEW a
    PROVE  Parsed(Stamped(r, v, s, a)) = Stamped(Parsed(r), v, s, a.t)
BY DEF RowOf, Parsed, Stamped, ParseStoreTimestamp

(* Parsing a row whose account is set.                                     *)
LEMMA ParsedReferred ==
    ASSUME NEW t, NEW r \in RowOf(t), NEW ref, NEW a
    PROVE  Parsed(Referred(r, ref, a)) = Referred(Parsed(r), ref, a.t)
BY DEF RowOf, Parsed, Referred, ParseStoreTimestamp

(* UPDATE installs SET status sets the status.                             *)
LEMMA SetsStatus ==
    ASSUME TypeInv, NEW c \in Clients, InstallsSetStatus(c)
    PROVE  Promise!Next
<1>1. PICK i \in Insts, v \in Begun(table), s \in {Null, "stamped"} :
          rows' = {IF r.inst = i THEN Stamped(r, v, s, NowIso) ELSE r : r \in rows}
  BY DEF InstallsSetStatus, Rows, Stamped
<1>2. table = "installs" /\ table \in Tables /\ Ready(c) /\ Answer(Done) /\ Quietly
  BY DEF InstallsSetStatus, TypeInv, BootOK
<1> DEFINE P == ParsedRows(rows)
           changed == [r \in P |-> [r EXCEPT !.val = v, !.stamps = s]]
           f == [r \in rows |-> IF r.inst = i THEN Stamped(r, v, s, NowIso) ELSE r]
           h == [p \in P |-> IF p.inst = i THEN [changed[p] EXCEPT !.at = now] ELSE p]
<1>3. ParsedRows(rows') = {IF p.inst = i THEN [changed[p] EXCEPT !.at = now] ELSE p : p \in P}
  <2>1. ASSUME NEW r \in rows
        PROVE  Parsed(f[r]) = h[Parsed(r)]
    <3>1. r \in RowOf(table) /\ Parsed(r).inst = r.inst /\ Parsed(r) \in P /\ Parsed(r) \in ParsedOf(table)
      BY RowIds, ParsedRow DEF ParsedRows
    <3>2. Parsed(Stamped(r, v, s, NowIso)) = Stamped(Parsed(r), v, s, now)
      BY <3>1, ParsedStamped, NowIsNow
    <3>3. Stamped(Parsed(r), v, s, now) = [changed[Parsed(r)] EXCEPT !.at = now]
      BY <3>1 DEF ParsedOf, Stamped
    <3> HIDE DEF P, changed
    <3> QED
      BY <3>1, <3>2, <3>3
  <2>2. ParsedRows({f[r] : r \in rows}) = {h[p] : p \in P}
    <3> HIDE DEF f, h
    <3> QED
      BY <2>1, ParsedMapped
  <2> QED
    BY <1>1, <2>2
<1>4. ParsedRows(rows)' = {IF p.inst = i THEN [changed[p] EXCEPT !.at = now] ELSE p : p \in P}
  BY <1>3, RowsPrimed
<1>5. Promise!Frame /\ seq' = seq /\ Earlies' = Earlies
  BY <1>2, QuietFrame
<1>6. Promise!SetStatus(i, v, s)
  BY <1>2, <1>4, <1>5
  DEF Promise!SetStatus, Promise!Rewrite, Promise!Answer, Promise!Done, Answer, Done, Earlies
<1>7. Promise!Call(c)
  BY <1>2, <1>6, SameSchema DEF Promise!Call
<1> QED
  BY <1>2, <1>7, Calls, ReadyCalls

(* UPDATE installs SET external_account sets the account.                  *)
LEMMA SetsAccount ==
    ASSUME TypeInv, NEW c \in Clients, InstallsSetExternalAccount(c)
    PROVE  Promise!Next
<1>1. PICK i \in Insts, ref \in {Null, "account"} :
          rows' = {IF r.inst = i THEN Referred(r, ref, NowIso) ELSE r : r \in rows}
  BY DEF InstallsSetExternalAccount, Rows, Referred
<1>2. table = "installs" /\ table \in Tables /\ Ready(c) /\ Answer(Done) /\ Quietly
  BY DEF InstallsSetExternalAccount, TypeInv, BootOK
<1> DEFINE P == ParsedRows(rows)
           changed == [r \in P |-> [r EXCEPT !.ref = ref]]
           f == [r \in rows |-> IF r.inst = i THEN Referred(r, ref, NowIso) ELSE r]
           h == [p \in P |-> IF p.inst = i THEN [changed[p] EXCEPT !.at = now] ELSE p]
<1>3. ParsedRows(rows') = {IF p.inst = i THEN [changed[p] EXCEPT !.at = now] ELSE p : p \in P}
  <2>1. ASSUME NEW r \in rows
        PROVE  Parsed(f[r]) = h[Parsed(r)]
    <3>1. r \in RowOf(table) /\ Parsed(r).inst = r.inst /\ Parsed(r) \in P /\ Parsed(r) \in ParsedOf(table)
      BY RowIds, ParsedRow DEF ParsedRows
    <3>2. Parsed(Referred(r, ref, NowIso)) = Referred(Parsed(r), ref, now)
      BY <3>1, ParsedReferred, NowIsNow
    <3>3. Referred(Parsed(r), ref, now) = [changed[Parsed(r)] EXCEPT !.at = now]
      BY <3>1 DEF ParsedOf, Referred
    <3> HIDE DEF P, changed
    <3> QED
      BY <3>1, <3>2, <3>3
  <2>2. ParsedRows({f[r] : r \in rows}) = {h[p] : p \in P}
    <3> HIDE DEF f, h
    <3> QED
      BY <2>1, ParsedMapped
  <2> QED
    BY <1>1, <2>2
<1>4. ParsedRows(rows)' = {IF p.inst = i THEN [changed[p] EXCEPT !.at = now] ELSE p : p \in P}
  BY <1>3, RowsPrimed
<1>5. Promise!Frame /\ seq' = seq /\ Earlies' = Earlies
  BY <1>2, QuietFrame
<1>6. Promise!SetExternalAccount(i, ref)
  BY <1>2, <1>4, <1>5
  DEF Promise!SetExternalAccount, Promise!Rewrite, Promise!Answer, Promise!Done, Answer, Done, Earlies
<1>7. Promise!Call(c)
  BY <1>2, <1>6, SameSchema DEF Promise!Call
<1> QED
  BY <1>2, <1>7, Calls, ReadyCalls

(* Parsing what a deletion leaves.                                         *)
LEMMA ParsedWithout ==
    ASSUME TypeInv, NEW i, NEW k
    PROVE  ParsedRows(rows \ At(i, k)) = ParsedRows(rows) \ Promise!At(i, k)
<1>1. \A r \in rows : Parsed(r).inst = r.inst /\ Parsed(r).key = r.key
  BY RowIds, ParsedRow
<1> QED
  BY <1>1 DEF Promise!At, At, ParsedRows

(* DELETE by key deletes.                                                  *)
LEMMA Deletes ==
    ASSUME TypeInv, NEW c \in Clients, StateDelete(c) \/ WebhookSeenRelease(c)
    PROVE  Promise!Next
<1>1. PICK i \in Insts, k \in Keys : rows' = rows \ At(i, k)
  BY DEF StateDelete, WebhookSeenRelease, Rows
<1>2. /\ table \in {"integration_state", "webhook_seen"} /\ table \in Tables
      /\ Ready(c) /\ Answer(Done) /\ Quietly
  BY DEF StateDelete, WebhookSeenRelease, TypeInv, BootOK
<1>3. ParsedRows(rows)' = ParsedRows(rows) \ Promise!At(i, k)
  BY <1>1, RowsPrimed, ParsedWithout
<1>4. Promise!Frame /\ seq' = seq /\ Earlies' = Earlies
  BY <1>2, QuietFrame
<1>5. Promise!Delete(i, k)
  BY <1>2, <1>3, <1>4 DEF Promise!Delete, Promise!Answer, Promise!Done, Answer, Done, Earlies
<1>6. k \in Promise!KeysOf(table)
  BY <1>2, SameSchema, KeysFacts
<1>7. Promise!Call(c)
  BY <1>5, <1>6 DEF Promise!Call
<1> QED
  BY <1>2, <1>7, Calls, ReadyCalls

(* Parsing one row more.                                                   *)
LEMMA ParsedUnion ==
    ASSUME NEW s, NEW r
    PROVE  ParsedRows(s \union {r}) = ParsedRows(s) \union {Parsed(r)}
BY DEF ParsedRows

(* INSERT with a new id adds.                                              *)
LEMMA Adds ==
    ASSUME TypeInv, NEW c \in Clients, RunsStart(c) \/ Log(c)
    PROVE  Promise!Next
<1>0. /\ table \in Tables /\ table \in Logged /\ Ready(c) /\ UNCHANGED <<fixed, boot, now, call>>
      /\ seq' = NextId /\ NextId > seq
      /\ answer' = IF table = "sync_run" THEN [id |-> NextId] ELSE Done
  BY NumberFacts DEF TypeInv, BootOK, RunsStart, Log, Logged, Answer
<1>1. PICK i \in Insts, v \in Begun(table) : rows' = Insert(i, v)
  <2>1. CASE RunsStart(c)
    <3>1. "running" \in Begun(table)
      BY <2>1 DEF RunsStart, Begun
    <3> QED
      BY <2>1, <3>1 DEF RunsStart, Rows
  <2>2. CASE Log(c)
    BY <2>2 DEF Log, Rows
  <2> QED
    BY <2>1, <2>2
<1>2. ParsedRows(rows)' = ParsedRows(rows) \union {Promise!NewRow(NextId, i, Null, v, Null, now)}
  <2> DEFINE row == NewRow(NextId, i, Null, v, Null, NowIso)
  <2>1. rows' = rows \union {row}
    BY <1>1 DEF Insert
  <2>2. Parsed(row) = Promise!NewRow(NextId, i, Null, v, Null, now)
    BY ParsedNew, NowIsNow, SameNewRow
  <2> HIDE DEF row
  <2> QED
    BY <2>1, <2>2, ParsedUnion, RowsPrimed
<1>3. Promise!Frame /\ Earlies' = Earlies
  BY <1>0, Frames, EarlyStays, EarlyAll
<1>4. Promise!Add(i, v)
  BY <1>0, <1>2, <1>3, SameTables DEF Promise!Add, Promise!Answer, Promise!Done, Done, Earlies
<1>5. Promise!Call(c)
  BY <1>0, <1>4, SameSchema DEF Promise!Call
<1> QED
  BY <1>0, <1>5, Calls, ReadyCalls

(* UPDATE by id finishes the row that has this id, if it is still there.   *)
LEMMA Finishes ==
    ASSUME TypeInv, NEW c \in Clients, Finish(c)
    PROVE  Promise!Next
<1>0. /\ table \in Tables /\ table \in Finished /\ Ready(c) /\ UNCHANGED <<fixed, boot, now, seq, call>>
      /\ answer' = Done /\ held[c] \in 1..seq
  <2>1. held[c] \in 0..seq /\ seq \in Nat
    BY NumberFacts
  <2> QED
    BY <2>1 DEF TypeInv, BootOK, Finish, Answer
<1>1. PICK v \in Ended(table) : rows' = {IF r.id = held[c] THEN [r EXCEPT !.val = v] ELSE r : r \in rows}
  BY DEF Finish, Rows
<1> DEFINE P == ParsedRows(rows)
           f == [r \in rows |-> IF r.id = held[c] THEN [r EXCEPT !.val = v] ELSE r]
           h == [p \in P |-> IF p.id = held[c] THEN [p EXCEPT !.val = v] ELSE p]
<1>2. ParsedRows({f[r] : r \in rows}) = {h[p] : p \in P}
  <2>1. ASSUME NEW r \in rows PROVE Parsed(f[r]) = h[Parsed(r)]
    <3>1. r \in RowOf(table) /\ Parsed(r).id = r.id /\ Parsed(r) \in P
      BY RowIds, ParsedRow DEF ParsedRows
    <3>2. Parsed([r EXCEPT !.val = v]) = [Parsed(r) EXCEPT !.val = v]
      BY <3>1 DEF RowOf, Parsed, ParseStoreTimestamp
    <3> HIDE DEF P
    <3> QED
      BY <3>1, <3>2
  <2> HIDE DEF f, h
  <2> QED
    BY <2>1, ParsedMapped
<1>3. ParsedRows(rows)' = {h[p] : p \in P}
  <2>1. rows' = {f[r] : r \in rows}
    BY <1>1
  <2> HIDE DEF f, h, P
  <2> QED
    BY <1>2, <2>1, RowsPrimed
<1>4. Promise!Frame /\ Earlies' = Earlies
  BY <1>0, Frames, EarlyStays, EarlyAll
<1>5. ParsedRows(rows)' = {IF p.id = held[c] THEN [p EXCEPT !.val = v] ELSE p : p \in P}
  BY <1>3
<1>6. Promise!Finish(held[c], v)
  BY <1>0, <1>4, <1>5, SameTables DEF Promise!Finish, Promise!Answer, Promise!Done, Done, Earlies
<1>7. Promise!Call(c)
  BY <1>0, <1>6, SameSchema DEF Promise!Call
<1> QED
  BY <1>0, <1>7, Calls, ReadyCalls

-----------------------------------------------------------------------------
(* The claims.                                                             *)

FirstOf(t) == CHOOSE v \in Begun(t) : TRUE

(* A claim that inserts.                                                   *)
LEMMA ClaimsFresh ==
    ASSUME TypeInv, NEW c \in Clients, c \in up, Early(c) = Null, table \in Claimed,
           NEW i \in Insts, NEW k \in Keys, At(i, k) = {}, rows' = Claims(i, k),
           UNCHANGED <<fixed, boot, now>>, NEW id,
           id = IF table = "webhook_seen" THEN 0 ELSE seq', seq' > seq \/ table # "inbound_event",
           seq' = seq \/ table = "inbound_event",
           LET result == [id |-> id, fresh |-> TRUE, status |-> FirstOf(table)] IN
             \/ answer' = result /\ Earlies' = Earlies
             \/ Earlies' = [Earlies EXCEPT ![c] = result] /\ answer' = answer,
           table = "inbound_event" => seq' = NextId
    PROVE  Promise!Next
<1>0. /\ table \in Tables /\ table \in {"inbound_event", "webhook_seen"}
      /\ k \in KeysOf(table) /\ FirstOf(table) \in Begun(table)
  <2>1. table \in Tables /\ table \in {"inbound_event", "webhook_seen"}
    BY DEF TypeInv, BootOK, Claimed
  <2>2. k \in KeysOf(table)
    BY <2>1, KeysFacts
  <2>3. FirstOf(table) \in Begun(table)
    BY <2>1, SeenFacts, InboundFacts DEF FirstOf
  <2> QED
    BY <2>1, <2>2, <2>3
<1> DEFINE row == NewRow(id, i, k, FirstOf(table), Null, now)
<1>1. Promise!At(i, k) = {}
  BY SameAt DEF ParsedRows
<1>2. ParsedRows(rows)' = ParsedRows(rows) \union {row}
  <2> DEFINE new == NewRow(id, i, k, FirstOf(table), Null, NowIso)
  <2>1. rows' = rows \union {new}
    BY <1>0 DEF Claims, FirstOf
  <2>2. Parsed(new) = row
    BY ParsedNew, NowIsNow
  <2> HIDE DEF new, row
  <2> QED
    BY <2>1, <2>2, ParsedUnion, RowsPrimed
<1>3. Promise!Frame
  BY Frames
<1>4. /\ row.id = id /\ row.val = FirstOf(table)
      /\ row = Promise!NewRow(IF table = "webhook_seen" THEN 0 ELSE seq', i, k, FirstOf(table), Null, now)
  BY SameNewRow DEF NewRow
<1>5. Promise!Claim(c, i, k, FirstOf(table))
  <2> HIDE DEF row
  <2> QED
    BY <1>0, <1>1, <1>2, <1>3, <1>4, SameTables DEF Promise!Claim, Promise!Answer, Earlies
<1>6. Promise!Call(c)
  BY <1>0, <1>5, SameSchema DEF Promise!Call
<1> QED
  BY <1>6, Calls

(* A claim that finds a row.                                               *)
LEMMA ClaimsOld ==
    ASSUME TypeInv, NEW c \in Clients, c \in up, Early(c) = Null, table \in Claimed,
           NEW i \in Insts, NEW k \in Keys, NEW r \in At(i, k), rows' = rows,
           UNCHANGED <<fixed, boot, now, seq>>, Earlies' = Earlies,
           answer' = [id |-> r.id, fresh |-> FALSE, status |-> r.val]
    PROVE  Promise!Next
<1>0. /\ table \in Tables /\ table \in {"inbound_event", "webhook_seen"} /\ table \in Unique
      /\ k \in KeysOf(table) /\ FirstOf(table) \in Begun(table)
  <2>1. table \in Tables /\ table \in {"inbound_event", "webhook_seen"} /\ table \in Unique
    BY DEF TypeInv, BootOK, Claimed, Unique
  <2>2. k \in KeysOf(table)
    BY <2>1, KeysFacts
  <2>3. FirstOf(table) \in Begun(table)
    BY <2>1, SeenFacts, InboundFacts DEF FirstOf
  <2> QED
    BY <2>1, <2>2, <2>3
<1>1. /\ Promise!At(i, k) = {Parsed(r)} /\ (CHOOSE q \in Promise!At(i, k) : TRUE) = Parsed(r)
      /\ r \in rows
  BY <1>0, OnlyRow
<1>2. Parsed(r).id = r.id /\ Parsed(r).val = r.val /\ Parsed(r) \in ParsedRows(rows)
  BY <1>1, RowIds, ParsedRow DEF ParsedRows
<1>3. ParsedRows(rows)' = ParsedRows(rows) \union {Parsed(r)}
  BY <1>2, RowsPrimed
<1>4. Promise!Frame
  BY Frames
<1>5. Promise!Claim(c, i, k, FirstOf(table))
  BY <1>0, <1>1, <1>2, <1>3, <1>4, SameTables DEF Promise!Claim, Promise!Answer, Earlies
<1>6. Promise!Call(c)
  BY <1>0, <1>5, SameSchema DEF Promise!Call
<1> QED
  BY <1>6, Calls

(* A conflict that burns an id is a step of the sequence, or none.         *)
LEMMA Skips ==
    ASSUME TypeInv, UNCHANGED <<fixed, boot, now, rows, answer>>, Earlies' = Earlies,
           seq' = Burnt
    PROVE  [Promise!Next]_(Promise!vars)
<1>1. seq' = seq \/ seq' > seq
  BY NumberFacts DEF Burnt
<1>2. ParsedRows(rows)' = ParsedRows(rows)
  BY RowsPrimed
<1>3. CASE seq' = seq
  BY <1>2, <1>3 DEF Promise!vars, fixed, boot, Earlies
<1>4. CASE seq' > seq
  <2>1. Promise!Skip
    BY <1>2, <1>4, Frames DEF Promise!Skip, Earlies
  <2> QED
    BY <2>1 DEF Promise!Next
<1> QED
  BY <1>1, <1>3, <1>4

(* The claim of a webhook is one statement.                                *)
LEMMA SeenClaims ==
    ASSUME TypeInv, NEW c \in Clients, WebhookSeenClaim(c)
    PROVE  Promise!Next
<1>0. /\ table = "webhook_seen" /\ table \in Claimed /\ Ready(c) /\ Quietly /\ UNCHANGED <<fixed, boot, now, seq>>
      /\ c \in up /\ Early(c) = Null /\ Earlies' = Earlies
  BY ReadyCalls, QuietFrame DEF WebhookSeenClaim, Claimed, Quietly
<1>1. PICK i \in Insts, k \in Keys :
          /\ rows' = IF At(i, k) = {} THEN Claims(i, k) ELSE rows
          /\ answer' = [id |-> 0, fresh |-> At(i, k) = {}, status |-> "written"]
  BY DEF WebhookSeenClaim, Rows, Answer
<1>2. CASE At(i, k) = {}
  <2>1. FirstOf(table) = "written"
    BY <1>0, SeenFacts DEF FirstOf
  <2>2. answer' = [id |-> 0, fresh |-> TRUE, status |-> FirstOf(table)]
    BY <1>1, <1>2, <2>1
  <2> QED
    BY <1>0, <1>1, <1>2, <2>2, ClaimsFresh
<1>3. CASE At(i, k) # {}
  <2>1. PICK r \in At(i, k) : TRUE
    BY <1>3
  <2>2. r.id = 0 /\ r.val = "written"
    <3>1. r \in rows /\ r \in RowOf(table) /\ (r.id = 0 <=> table \notin Numbered)
      BY RowIds DEF At, TypeInv, RowsOK
    <3> QED
      BY <1>0, <3>1, SeenFacts DEF RowOf, Values
  <2>3. answer' = [id |-> r.id, fresh |-> FALSE, status |-> r.val]
    BY <1>1, <1>3, <2>2
  <2> QED
    BY <1>0, <1>1, <1>3, <2>3, ClaimsOld
<1> QED
  BY <1>2, <1>3

(* The first statement of a claim: with SQLite all of it, with PostgreSQL  *)
(* an insertion that is answered at once, or a conflict.                   *)
LEMMA InboundClaims ==
    ASSUME TypeInv, NEW c \in Clients, InboundClaim(c)
    PROVE  [Promise!Next]_(Promise!vars)
<1>0. /\ table = "inbound_event" /\ table \in Claimed /\ Ready(c) /\ UNCHANGED <<fixed, boot, now>>
      /\ c \in up /\ Early(c) = Null /\ call[c].at = "idle" /\ NextId > seq
  BY ReadyCalls, NumberFacts DEF InboundClaim, Claimed, Ready, Idle
<1>1. PICK i \in Insts, k \in Keys :
           \/ /\ At(i, k) = {} /\ rows' = Claims(i, k) /\ seq' = NextId
              /\ answer' = [id |-> NextId, fresh |-> TRUE, status |-> "received"]
              /\ UNCHANGED call
           \/ /\ \E row \in At(i, k) : answer' = [id |-> row.id, fresh |-> FALSE, status |-> row.val]
              /\ UNCHANGED <<rows, seq, call>>
           \/ /\ seq' = Burnt
              /\ call' = [call EXCEPT ![c] = [at |-> "find", inst |-> i, key |-> k]]
              /\ UNCHANGED <<rows, answer>>
  BY DEF InboundClaim, Rows, Answer, Existing
<1>2. CASE /\ At(i, k) = {} /\ rows' = Claims(i, k) /\ seq' = NextId
           /\ answer' = [id |-> NextId, fresh |-> TRUE, status |-> "received"]
           /\ UNCHANGED call
  <2>1. FirstOf(table) = "received"
    BY <1>0, InboundFacts DEF FirstOf
  <2>2. Earlies' = Earlies
    BY <1>2, EarlyStays, EarlyAll
  <2>3. answer' = [id |-> NextId, fresh |-> TRUE, status |-> FirstOf(table)]
    BY <1>2, <2>1
  <2> QED
    BY <1>0, <1>2, <2>2, <2>3, ClaimsFresh
<1>3. CASE /\ \E row \in At(i, k) : answer' = [id |-> row.id, fresh |-> FALSE, status |-> row.val]
           /\ UNCHANGED <<rows, seq, call>>
  <2>1. PICK r \in At(i, k) : answer' = [id |-> r.id, fresh |-> FALSE, status |-> r.val]
    BY <1>3
  <2>2. Earlies' = Earlies
    BY <1>3, EarlyStays, EarlyAll
  <2> QED
    BY <1>0, <1>3, <2>1, <2>2, ClaimsOld
<1>4. CASE /\ seq' = Burnt
           /\ call' = [call EXCEPT ![c] = [at |-> "find", inst |-> i, key |-> k]]
           /\ UNCHANGED <<rows, answer>>
  <2>1. call'[c].at = "find" /\ \A d \in Clients \ {c} : call'[d] = call[d]
    BY <1>4, NumberFacts
  <2>2. Early(c)' = Null
    BY <2>1 DEF Early
  <2>3. Earlies' = Earlies
    BY <1>0, <2>1, <2>2, EarlyStays, EarlyAll
  <2> QED
    BY <1>0, <1>4, <2>3, Skips
<1> QED
  BY <1>1, <1>2, <1>3, <1>4

(* The SELECT after a conflict answers, or finds the row gone.             *)
LEMMA ClaimsFound ==
    ASSUME TypeInv, NEW c \in Clients, FindClaimed(c)
    PROVE  [Promise!Next]_(Promise!vars)
<1> DEFINE old == At(call[c].inst, call[c].key)
<1>0. /\ table = "inbound_event" /\ table \in Claimed /\ UNCHANGED <<fixed, boot, rows, seq, now>>
      /\ call[c].at = "find" /\ c \in up /\ Early(c) = Null
      /\ call[c].inst \in Insts /\ call[c].key \in Keys
  <2>1. call[c].at = "find"
    BY DEF FindClaimed
  <2>2. table = "inbound_event" /\ call[c].inst \in Insts /\ call[c].key \in Keys /\ c \in up
    BY <2>1, CallKinds
  <2> QED
    BY <2>1, <2>2, EarlyKinds DEF FindClaimed, Claimed
<1>1. \/ /\ \E row \in old : answer' = [id |-> row.id, fresh |-> FALSE, status |-> row.val]
         /\ call' = [call EXCEPT ![c] = Idle]
      \/ call' = [call EXCEPT ![c].at = "retry"] /\ UNCHANGED answer
  BY DEF FindClaimed, Existing, Answer
<1>2. Earlies' = Earlies
  <2>1. DOMAIN call = Clients /\ call[c] \in [at : {"find", "retry"}, inst : Insts, key : Keys]
    BY <1>0, NumberFacts, CallKinds
  <2>2. call'[c].at \in {"idle", "retry"} /\ \A d \in Clients \ {c} : call'[d] = call[d]
    BY <1>1, <2>1 DEF Idle
  <2>3. Early(c)' = Null
    BY <2>2 DEF Early
  <2> QED
    BY <1>0, <2>2, <2>3, EarlyStays, EarlyAll
<1>3. CASE \E row \in old : answer' = [id |-> row.id, fresh |-> FALSE, status |-> row.val]
  <2>1. PICK r \in old : answer' = [id |-> r.id, fresh |-> FALSE, status |-> r.val]
    BY <1>3
  <2> QED
    BY <1>0, <1>2, <2>1, ClaimsOld
<1>4. CASE UNCHANGED answer
  <2>1. ParsedRows(rows') = ParsedRows(rows)
    BY <1>0
  <2>2. UNCHANGED Promise!vars
    BY <1>0, <1>2, <1>4, RowsPrimed DEF Promise!vars, fixed, boot, Earlies
  <2> QED
    BY <2>2
<1> QED
  BY <1>1, <1>3, <1>4

(* The second insertion decides the claim, or meets a conflict again.      *)
LEMMA ClaimsRetried ==
    ASSUME TypeInv, NEW c \in Clients, RetryClaim(c)
    PROVE  [Promise!Next]_(Promise!vars)
<1> DEFINE fresh == At(call[c].inst, call[c].key) = {}
           id == IF fresh THEN NextId ELSE 0
           new == [at |-> "refind", inst |-> call[c].inst, key |-> call[c].key, id |-> id]
<1>0. /\ table = "inbound_event" /\ table \in Claimed /\ UNCHANGED <<fixed, boot, now, answer>>
      /\ call[c].at = "retry" /\ c \in up /\ Early(c) = Null
      /\ call[c].inst \in Insts /\ call[c].key \in Keys
      /\ NextId > seq /\ NextId \in Nat /\ seq \in Nat
  <2>1. call[c].at = "retry"
    BY DEF RetryClaim
  <2>2. table = "inbound_event" /\ call[c].inst \in Insts /\ call[c].key \in Keys /\ c \in up
    BY <2>1, CallKinds
  <2> QED
    BY <2>1, <2>2, EarlyKinds, NumberFacts DEF RetryClaim, Claimed
<1>1. /\ fresh => Room
      /\ rows' = IF fresh THEN Claims(call[c].inst, call[c].key) ELSE rows
      /\ seq' = Burnt /\ call' = [call EXCEPT ![c] = new]
  BY DEF RetryClaim, Rows
<1>2. call'[c] = new /\ \A d \in Clients \ {c} : call'[d] = call[d]
  BY <1>1, NumberFacts
<1>3. new.at = "refind" /\ new.id = id
  OBVIOUS
<1> HIDE DEF new
<1>4. CASE fresh
  <2>1. id = NextId /\ seq' = NextId /\ id # 0
    BY <1>0, <1>1, <1>4 DEF Burnt
  <2> HIDE DEF id
  <2>2. FirstOf(table) = "received"
    BY <1>0, InboundFacts DEF FirstOf
  <2> DEFINE result == [id |-> id, fresh |-> TRUE, status |-> FirstOf(table)]
  <2>3. Early(c)' = result
    <3>1. call'[c].at = "refind" /\ call'[c].id = id
      BY <1>2, <1>3
    <3> QED
      BY <2>1, <2>2, <3>1 DEF Early
  <2>4. Earlies' = [Earlies EXCEPT ![c] = result]
    <3> HIDE DEF result
    <3> QED
      BY <1>2, <2>3, EarlyMoves
  <2>5. id = IF table = "webhook_seen" THEN 0 ELSE seq'
    BY <1>0, <2>1
  <2> HIDE DEF result
  <2>6. Promise!Next
    BY <1>0, <1>1, <1>4, <2>1, <2>4, <2>5, ClaimsFresh DEF result
  <2> QED
    BY <2>6
<1>5. CASE ~fresh
  <2>1. call'[c].at = "refind" /\ call'[c].id = 0
    BY <1>2, <1>3, <1>5
  <2>2. Early(c)' = Null
    BY <2>1 DEF Early
  <2>3. Earlies' = Earlies
    BY <1>0, <1>2, <2>2, EarlyStays, EarlyAll
  <2>4. rows' = rows
    BY <1>1, <1>5
  <2> QED
    BY <1>0, <1>1, <2>3, <2>4, Skips
<1> QED
  BY <1>4, <1>5

(* The last SELECT answers what was decided: the row is there, with the id *)
(* and the status of the insertion.                                        *)
LEMMA ClaimsRefound ==
    ASSUME TypeInv, NEW c \in Clients, FindRetried(c), ClaimOK(c)
    PROVE  Promise!Next
<1> DEFINE old == At(call[c].inst, call[c].key)
<1>0. /\ table = "inbound_event" /\ table \in Claimed /\ table \in Unique
      /\ UNCHANGED <<fixed, boot, rows, seq, now>>
      /\ call[c].at = "refind" /\ c \in up
      /\ call[c].inst \in Insts /\ call[c].key \in Keys /\ call[c].id \in Nat
  <2>1. call[c].at = "refind"
    BY DEF FindRetried
  <2>2. table = "inbound_event" /\ call[c].inst \in Insts /\ call[c].key \in Keys /\ c \in up /\ call[c].id \in 0..seq
    BY <2>1, CallKinds
  <2> QED
    BY <2>1, <2>2, NumberFacts, InboundFacts DEF FindRetried, Claimed
<1>1. PICK r \in old : call[c].id # 0 => r.id = call[c].id /\ r.val = "received"
  BY <1>0 DEF ClaimOK
<1>2. old = {r} /\ (CHOOSE q \in old : TRUE) = r
  BY <1>0, <1>1, OnlyRow
<1>3. answer' = [id |-> r.id, fresh |-> call[c].id # 0, status |-> r.val] /\ call' = [call EXCEPT ![c] = Idle]
  BY <1>2 DEF FindRetried, Answer
<1>4. call'[c].at = "idle" /\ \A d \in Clients \ {c} : call'[d] = call[d]
  BY <1>3, NumberFacts DEF Idle
<1>5. Early(c)' = Null
  BY <1>4 DEF Early
<1>6. CASE call[c].id = 0
  <2>1. Early(c) = Null
    BY <1>0, <1>6, EarlyKinds
  <2>2. Earlies' = Earlies
    BY <1>4, <1>5, <2>1, EarlyStays, EarlyAll
  <2>3. answer' = [id |-> r.id, fresh |-> FALSE, status |-> r.val]
    BY <1>3, <1>6
  <2> HIDE DEF old
  <2>4. r \in At(call[c].inst, call[c].key)
    BY <1>1 DEF old
  <2> QED
    BY <1>0, <2>1, <2>2, <2>3, <2>4, ClaimsOld
<1>7. CASE call[c].id # 0
  <2>1. Early(c) = [id |-> call[c].id, fresh |-> TRUE, status |-> "received"]
    BY <1>0, <1>7, EarlyKinds
  <2>2. Early(c) # Null /\ "fresh" \in DOMAIN Early(c)
    <3>1. Early(c) \in [id : Nat, fresh : {TRUE}, status : {"received"}]
      BY <1>0, <2>1
    <3>2. Null \notin [id : Nat, fresh : {TRUE}, status : {"received"}]
      BY StoreAssumption
    <3> QED
      BY <2>1, <3>1, <3>2
  <2>3. Earlies' = [Earlies EXCEPT ![c] = Null]
    BY <1>4, <1>5, EarlyMoves
  <2>4. answer' = Early(c)
    BY <1>1, <1>3, <1>7, <2>1
  <2>5. ParsedRows(rows)' = ParsedRows(rows)
    BY <1>0, RowsPrimed
  <2>6. Promise!AnswerLater(c)
    BY <1>0, <2>2, <2>3, <2>4, <2>5, Frames DEF Promise!AnswerLater, Promise!Answer, Earlies
  <2> QED
    BY <2>6 DEF Promise!Next
<1> QED
  BY <1>6, <1>7

-----------------------------------------------------------------------------
(* The deletions.                                                          *)

(* DELETE by age deletes what is older than the retention.                 *)
LEMMA Purges ==
    ASSUME TypeInv, NEW c \in Clients, PurgeOldRecords(c)
    PROVE  Promise!Next
<1> DEFINE old == {r \in rows : r.at.t < now - Retention}
           gone == {p \in ParsedRows(rows) : p.at < now - Retention}
<1>0. /\ table \in Purged /\ table \in Tables /\ Ready(c) /\ Quietly /\ up # {}
      /\ rows' = rows \ old /\ answer' = [changes |-> Cardinality(old)]
  <2>1. Ready(c) /\ up # {} /\ Retention \in Int
    BY SchemaAssumption DEF PurgeOldRecords, Ready
  <2>2. Before(IsoTicksAgo(Retention)) = old
    BY <2>1, BeforeFacts
  <2> QED
    BY <2>1, <2>2 DEF PurgeOldRecords, TypeInv, BootOK, Rows, Answer
<1>1. \A r \in rows : Parsed(r).at = r.at.t
  BY RowIds, ParsedRow
<1>2. gone = ParsedRows(old)
  BY <1>1 DEF ParsedRows
<1>3. Cardinality(gone) = Cardinality(old)
  <2>1. old \in SUBSET rows
    OBVIOUS
  <2> QED
    BY <1>0, <1>2, <2>1, CardParsed
<1>4. ParsedRows(rows)' = ParsedRows(rows) \ gone
  <2>1. ParsedRows(rows \ old) = ParsedRows(rows) \ gone
    BY <1>1 DEF ParsedRows
  <2> QED
    BY <1>0, <2>1, RowsPrimed
<1>5. Promise!Frame /\ seq' = seq /\ Earlies' = Earlies
  BY <1>0, QuietFrame
<1>6. Promise!Purge
  <2>1. answer' = [changes |-> Cardinality(gone)]
    BY <1>0, <1>3
  <2> QED
    BY <1>0, <1>4, <1>5, <2>1, SameTables, SameCard DEF Promise!Purge, Promise!Answer, Earlies
<1>7. Promise!Call(c)
  BY <1>6 DEF Promise!Call
<1> QED
  BY <1>0, <1>7, Calls, ReadyCalls

(* cleanIds keeps no more than its cap of what was asked.                  *)
LEMMA CleanIds ==
    ASSUME NEW asked, IsFiniteSet(asked), NEW ids \in Clean(asked)
    PROVE  ids \subseteq asked /\ Cardinality(ids) <= IdCap
<1>1. CASE Cardinality(asked) <= IdCap
  BY <1>1 DEF Clean
<1>2. CASE ~(Cardinality(asked) <= IdCap)
  BY <1>2, SchemaAssumption DEF Clean, kSubset
<1> QED
  BY <1>1, <1>2

(* DELETE by ids deletes rows of the installation, among those asked for.  *)
LEMMA DeletesByIds ==
    ASSUME TypeInv, NEW c \in Clients, RejectedItemsDeleteByIds(c)
    PROVE  Promise!Next
<1>0. /\ table = "rejected_item" /\ Ready(c) /\ Quietly /\ up # {}
  BY DEF RejectedItemsDeleteByIds, Ready
<1>1. PICK i \in Insts, asked \in SUBSET (1..seq) : \E ids \in Clean(asked) :
           /\ rows' = rows \ {r \in rows : r.inst = i /\ r.id \in ids}
           /\ answer' = [changes |-> Cardinality({r \in rows : r.inst = i /\ r.id \in ids})]
  BY DEF RejectedItemsDeleteByIds, Answer
<1>2. PICK ids \in Clean(asked) :
           /\ rows' = rows \ {r \in rows : r.inst = i /\ r.id \in ids}
           /\ answer' = [changes |-> Cardinality({r \in rows : r.inst = i /\ r.id \in ids})]
  BY <1>1
<1>3. ids \in SUBSET (1..seq) /\ Cardinality(ids) <= IdCap
  <2>1. IsFiniteSet(1..seq)
    BY Types, FS_Interval DEF TypeInv
  <2>2. IsFiniteSet(asked)
    BY <2>1, FS_Subset
  <2> QED
    BY <2>2, CleanIds
<1> DEFINE old == {r \in rows : r.inst = i /\ r.id \in ids}
           mine == {p \in ParsedRows(rows) : p.inst = i /\ p.id \in ids}
<1>4. \A r \in rows : Parsed(r).inst = r.inst /\ Parsed(r).id = r.id
  BY RowIds, ParsedRow
<1>5. mine = ParsedRows(old)
  BY <1>4 DEF ParsedRows
<1>6. Cardinality(mine) = Cardinality(old)
  <2>1. old \in SUBSET rows
    OBVIOUS
  <2> QED
    BY <1>0, <1>5, <2>1, CardParsed
<1>7. ParsedRows(rows)' = ParsedRows(rows) \ mine
  <2>1. ParsedRows(rows \ old) = ParsedRows(rows) \ mine
    BY <1>4 DEF ParsedRows
  <2> QED
    BY <1>2, <2>1, RowsPrimed
<1>8. Promise!Frame /\ seq' = seq /\ Earlies' = Earlies
  BY <1>0, QuietFrame
<1>9. Promise!DeleteByIds(i, ids)
  <2>1. answer' = [changes |-> Cardinality(mine)]
    BY <1>2, <1>6
  <2> QED
    BY <1>0, <1>3, <1>7, <1>8, <2>1, SameCard DEF Promise!DeleteByIds, Promise!Answer, Earlies
<1>10. Promise!Call(c)
  BY <1>3, <1>9 DEF Promise!Call
<1> QED
  BY <1>0, <1>10, Calls, ReadyCalls

-----------------------------------------------------------------------------
(* The lists: what is between the rows of an offset and the rest, in       *)
(* order, is a page.                                                       *)

(* A sequence of numbers that descends step by step descends.              *)
LEMMA Descending ==
    ASSUME NEW n \in Nat, NEW f \in [1..n -> Int], \A i \in 1..(n - 1) : f[i + 1] <= f[i],
           NEW j \in 1..n, NEW k \in 1..n, j <= k
    PROVE  f[k] <= f[j]
<1> DEFINE Wrong == {i \in 1..n : j <= i /\ ~(f[i] <= f[j])}
<1>1. SUFFICES ASSUME Wrong # {} PROVE FALSE
  OBVIOUS
<1>2. PICK i \in Wrong : \A m \in Wrong : i <= m
  <2>1. Wrong \in SUBSET Nat
    OBVIOUS
  <2> HIDE DEF Wrong
  <2> QED
    BY <1>1, <2>1, LeastOf
<1>3. i \in 1..n /\ j <= i /\ ~(f[i] <= f[j]) /\ i \in Nat /\ f[i] \in Int /\ f[j] \in Int
  BY <1>2
<1>4. i # j
  BY <1>3
<1>5. i - 1 \in 1..(n - 1) /\ i - 1 \in 1..n /\ j <= i - 1 /\ (i - 1) + 1 = i
  BY <1>3, <1>4
<1>6. f[i] <= f[i - 1] /\ f[i - 1] \in Int
  BY <1>5
<1>7. f[i - 1] <= f[j]
  <2>1. ~(i <= i - 1)
    BY <1>3
  <2>2. i - 1 \notin Wrong
    BY <1>2, <2>1
  <2> QED
    BY <1>5, <2>2
<1> QED
  BY <1>3, <1>6, <1>7

Apart(f, n) == \A j, k \in 1..n : f[j] = f[k] => j = k
Slice(f, a, b) == {f[m] : m \in a..b}

(* How many values a slice of an injective function has.                   *)
LEMMA SliceCard ==
    ASSUME NEW n \in Nat, NEW f, Apart(f, n), NEW a \in Nat, NEW b \in Nat, 1 <= a, b <= n
    PROVE  Cardinality(Slice(f, a, b)) = IF a <= b THEN b - a + 1 ELSE 0
<1> DEFINE S == Slice(f, a, b)
           g == [m \in a..b |-> f[m]]
<1>1. \A m \in a..b : m \in 1..n
  OBVIOUS
<1>2. g \in Bijection(a..b, S)
  BY <1>1 DEF Bijection, Injection, Surjection, IsInjective, Apart, Slice
<1>3. IsFiniteSet(a..b) /\ Cardinality(a..b) = IF a > b THEN 0 ELSE b - a + 1
  BY FS_Interval
<1> HIDE DEF g, S
<1>4. Cardinality(S) = Cardinality(a..b)
  BY <1>2, <1>3, FS_Bijection DEF ExistsBijection
<1> QED
  BY <1>3, <1>4 DEF S

(* LIMIT and OFFSET over an order by rank make a page.                     *)
LEMMA SlicedPage ==
    ASSUME NEW n \in Nat, NEW o \in Nat, NEW f, Apart(f, n),
           \A j, k \in 1..n : j < k => /\ Promise!Rank(f[j]) >= Promise!Rank(f[k])
                                       /\ Promise!Rank(f[k]) <= Promise!Rank(f[j])
    PROVE  Promise!IsPage({f[m] : m \in (1..n) \intersect ((o + 1)..(o + Limit))},
                          Slice(f, 1, n), o)
<1> DEFINE lo == IF o <= n THEN o ELSE n
           hi == IF o + Limit <= n THEN o + Limit ELSE n
           listed == Slice(f, 1, n)
           newer == Slice(f, 1, lo)
           page == Slice(f, lo + 1, hi)
           older == listed \ (newer \union page)
<1>0. /\ Limit \in Nat \ {0} /\ lo \in Nat /\ hi \in Nat /\ lo <= hi /\ hi <= n /\ lo <= o /\ hi - lo <= Limit
      /\ (1..n) \intersect ((o + 1)..(o + Limit)) = (lo + 1)..hi
      /\ hi < n => lo = o /\ hi = o + Limit
      /\ lo < hi => lo = o
  BY SchemaAssumption
<1> HIDE DEF lo, hi
<1>1. /\ \A j, k \in 1..lo : j \in 1..n /\ k \in 1..n
      /\ \A m \in (lo + 1)..hi : m \in 1..n
      /\ newer \in SUBSET (listed \ page)
  <2>1. \A j \in 1..lo : j \in 1..n
    BY <1>0
  <2>2. \A m \in (lo + 1)..hi : m \in 1..n
    BY <1>0
  <2>3. \A j \in 1..lo, m \in (lo + 1)..hi : f[j] # f[m]
    BY <1>0, <2>1, <2>2 DEF Apart
  <2> QED
    BY <2>1, <2>2, <2>3 DEF Slice
<1>2. Cardinality(newer) = lo
  <2>1. Cardinality(newer) = IF 1 <= lo THEN lo - 1 + 1 ELSE 0
    <3>1. lo \in Nat /\ lo <= n /\ 1 \in Nat /\ 1 <= 1
      BY <1>0
    <3> QED
      BY <1>0, <3>1, SliceCard
  <2> QED
    BY <1>0, <2>1
<1>3. Cardinality(page) = hi - lo
  <2>1. Cardinality(page) = IF lo + 1 <= hi THEN hi - (lo + 1) + 1 ELSE 0
    <3>1. lo + 1 \in Nat /\ 1 <= lo + 1
      BY <1>0
    <3> QED
      BY <1>0, <3>1, SliceCard
  <2> QED
    BY <1>0, <2>1
<1>4. ASSUME NEW r \in older PROVE \E j \in 1..n : r = f[j] /\ hi < j
  <2>1. PICK j \in 1..n : r = f[j]
    BY DEF Slice
  <2>2. j \notin 1..lo /\ j \notin (lo + 1)..hi
    BY <2>1 DEF Slice
  <2>3. hi < j
    BY <1>0, <2>2
  <2> QED
    BY <2>1, <2>3
<1>5. older # {} => hi < n
  BY <1>0, <1>4
<1>6. page # {} => lo < hi
  BY <1>0 DEF Slice
<1>7. ASSUME NEW p \in page
      PROVE  /\ \A r \in newer : Promise!Rank(r) >= Promise!Rank(p)
             /\ \A r \in older : Promise!Rank(r) <= Promise!Rank(p)
  <2>1. PICK k \in (lo + 1)..hi : p = f[k]
    BY DEF Slice
  <2>2. k \in 1..n
    BY <1>1
  <2>3. ASSUME NEW r \in newer PROVE Promise!Rank(r) >= Promise!Rank(p)
    <3>1. PICK j \in 1..lo : r = f[j]
      BY DEF Slice
    <3>2. j \in 1..n /\ j < k
      BY <1>0, <1>1
    <3> QED
      BY <2>1, <2>2, <3>1, <3>2
  <2>4. ASSUME NEW r \in older PROVE Promise!Rank(r) <= Promise!Rank(p)
    <3>1. PICK j \in 1..n : r = f[j] /\ hi < j
      BY <1>4
    <3>2. k < j
      BY <1>0, <3>1
    <3> QED
      BY <2>1, <2>2, <3>1, <3>2
  <2> QED
    BY <2>3, <2>4
<1>8. page = {f[m] : m \in (1..n) \intersect ((o + 1)..(o + Limit))}
  BY <1>0 DEF Slice
<1>9. Promise!IsPage(page, listed, o)
  <2>1. Cardinality(newer) <= o /\ Cardinality(page) <= Limit
    BY <1>0, <1>2, <1>3
  <2>2. older # {} => Cardinality(newer) = o /\ Cardinality(page) = Limit
    BY <1>0, <1>2, <1>3, <1>5
  <2>3. page # {} => Cardinality(newer) = o
    BY <1>0, <1>2, <1>6
  <2> HIDE DEF newer, page, listed
  <2> QED
    BY <1>1, <1>7, <2>1, <2>2, <2>3, SameCard DEF Promise!IsPage
<1> HIDE DEF page, listed
<1> QED
  BY <1>8, <1>9 DEF listed

(* A list, parsed, has as many rows.                                       *)
LEMMA SameListed ==
    ASSUME TypeInv, NEW scope
    PROVE  /\ Promise!Listed(scope) = ParsedRows(Listed(scope))
           /\ up # {} => Promise!Cardinality(Promise!Listed(scope)) = Cardinality(Listed(scope))
<1>1. \A r \in rows : Parsed(r).inst = r.inst
  BY RowIds, ParsedRow
<1>2. Promise!Listed(scope) = ParsedRows(Listed(scope))
  BY <1>1 DEF Promise!Listed, Listed, ParsedRows
<1>3. Listed(scope) \in SUBSET rows
  BY DEF Listed
<1>4. up # {} => Cardinality(ParsedRows(Listed(scope))) = Cardinality(Listed(scope))
  BY <1>3, CardParsed
<1> QED
  BY <1>2, <1>4, SameCard

(* What is seen of rows, parsed or not.                                    *)
LEMMA SameNames ==
    ASSUME TypeInv, NEW s \in SUBSET rows
    PROVE  Promise!Names(ParsedRows(s)) = Names(s)
<1>1. \A r \in s : Parsed(r).inst = r.inst /\ Parsed(r).id = r.id
  BY RowIds, ParsedRow
<1> QED
  BY <1>1 DEF Promise!Names, Names, ParsedRows

(* Ranks descend along every order of a list.                              *)
LEMMA RanksDescend ==
    ASSUME TypeInv, up # {}, NEW scope, NEW s \in InOrder(scope),
           NEW j \in 1..Len(s), NEW k \in 1..Len(s), j <= k
    PROVE  /\ Promise!Rank(Parsed(s[j])) >= Promise!Rank(Parsed(s[k]))
           /\ Promise!Rank(Parsed(s[k])) <= Promise!Rank(Parsed(s[j]))
<1> DEFINE f == [m \in 1..Len(s) |-> Promise!Rank(Parsed(s[m]))]
<1>0. /\ Len(s) \in Nat /\ \A m \in 1..(Len(s) - 1) : ~Newer(s[m + 1], s[m])
      /\ \A m \in 1..Len(s) : s[m] \in rows
  <2>1. /\ Len(s) \in Nat /\ \A m \in 1..(Len(s) - 1) : ~Newer(s[m + 1], s[m])
        /\ \A m \in 1..Len(s) : s[m] \in Listed(scope)
    BY OrderTypes, SMTT(30)
  <2> QED
    BY <2>1 DEF Listed
<1>1. ASSUME NEW r \in rows
      PROVE  /\ Promise!Rank(Parsed(r)) = IF table = "installs" THEN r.at.t ELSE r.id
             /\ r.at.t \in Nat /\ r.id \in Nat
  BY RowIds, ParsedRow, ServingStamps DEF Promise!Rank, RowOf
<1>2. \A m \in 1..Len(s) : f[m] \in Int
  BY <1>0, <1>1
<1>3. ASSUME NEW m \in 1..(Len(s) - 1) PROVE f[m + 1] <= f[m]
  <2>0. m \in 1..Len(s) /\ m + 1 \in 1..Len(s)
    BY <1>0
  <2> DEFINE q == s[m + 1]
             r == s[m]
  <2>1. q \in rows /\ r \in rows /\ ~Newer(q, r)
    BY <1>0, <2>0
  <2> HIDE DEF q, r
  <2>2. CASE table = "installs"
    <3>1. ~TextBefore(r.at, q.at)
      BY <2>1, <2>2 DEF Newer
    <3>2. /\ r.at.t \in Int /\ q.at.t \in Int /\ r.at.legacy = FALSE /\ q.at.legacy = FALSE
      <4>1. r.at.t \in Nat /\ r.at.legacy = FALSE
        BY <2>1, ServingStamps
      <4>2. q.at.t \in Nat /\ q.at.legacy = FALSE
        BY <2>1, ServingStamps
      <4> QED
        BY <4>1, <4>2
    <3>3. ~(r.at.t < q.at.t)
      BY <3>1, <3>2, IsoBefore
    <3>4. f[m + 1] = q.at.t /\ f[m] = r.at.t
      BY <1>1, <2>0, <2>1, <2>2 DEF q, r
    <3> QED
      BY <3>2, <3>3, <3>4
  <2>3. CASE table # "installs"
    <3>1. ~(q.id > r.id)
      BY <2>1, <2>3 DEF Newer
    <3>2. f[m + 1] = q.id /\ f[m] = r.id /\ q.id \in Nat /\ r.id \in Nat
      BY <1>1, <2>0, <2>1, <2>3 DEF q, r
    <3> QED
      BY <3>1, <3>2
  <2> QED
    BY <2>2, <2>3
<1>4. f \in [1..Len(s) -> Int]
  BY <1>2
<1>5. f[j] = Promise!Rank(Parsed(s[j])) /\ f[k] = Promise!Rank(Parsed(s[k]))
  OBVIOUS
<1> HIDE DEF f
<1>6. f[k] <= f[j]
  BY <1>0, <1>3, <1>4, Descending
<1>7. f[k] \in Int /\ f[j] \in Int
  BY <1>4
<1> QED
  BY <1>5, <1>6, <1>7

(* A page over stamps as text is a page over instants.                     *)
LEMMA PagesArePages ==
    ASSUME TypeInv, up # {}, NEW scope, NEW offset \in Nat, NEW items \in PagesOf(scope, offset)
    PROVE  /\ Promise!IsPage(ParsedRows(items), Promise!Listed(scope), offset)
           /\ items \subseteq Listed(scope) /\ ParsedRows(items) \in SUBSET Promise!Listed(scope)
<1>1. PICK s \in InOrder(scope) :
          items = {s[m] : m \in DOMAIN s \intersect ((offset + 1)..(offset + Limit))}
  BY DEF PagesOf
<1> DEFINE n == Len(s)
           f == [m \in 1..n |-> Parsed(s[m])]
<1>2. /\ n \in Nat /\ DOMAIN s = 1..n
      /\ \A m \in 1..n : s[m] \in Listed(scope)
      /\ \A j, k \in 1..n : j # k => s[j] # s[k]
      /\ \A r \in Listed(scope) : \E m \in 1..n : s[m] = r
  BY OrderTypes
<1>3. \A m \in 1..n : s[m] \in rows
  BY <1>2 DEF Listed
<1>4. Apart(f, n)
  <2> SUFFICES ASSUME NEW j \in 1..n, NEW k \in 1..n, f[j] = f[k] PROVE j = k
    BY DEF Apart
  <2>1. Parsed(s[j]) = Parsed(s[k]) /\ s[j] \in rows /\ s[k] \in rows
    BY <1>3
  <2>2. /\ s[j] \in RowOf(table) /\ s[k] \in RowOf(table)
        /\ s[j].at.legacy = FALSE /\ s[k].at.legacy = FALSE
    BY <2>1, RowIds, ServingStamps
  <2>3. s[j] = s[k]
    BY <2>1, <2>2, ParsedInjective
  <2> QED
    BY <1>2, <2>3
<1>5. \A j, k \in 1..n : j < k => /\ Promise!Rank(f[j]) >= Promise!Rank(f[k])
                                  /\ Promise!Rank(f[k]) <= Promise!Rank(f[j])
  <2> SUFFICES ASSUME NEW j \in 1..n, NEW k \in 1..n, j < k
               PROVE  /\ Promise!Rank(f[j]) >= Promise!Rank(f[k])
                      /\ Promise!Rank(f[k]) <= Promise!Rank(f[j])
    OBVIOUS
  <2>1. j <= k /\ f[j] = Parsed(s[j]) /\ f[k] = Parsed(s[k])
    BY <1>2
  <2> HIDE DEF f
  <2> QED
    BY <2>1, RanksDescend
<1>6. Slice(f, 1, n) = Promise!Listed(scope)
  <2>1. Slice(f, 1, n) = ParsedRows(Listed(scope))
    BY <1>2 DEF Slice, ParsedRows
  <2> QED
    BY <2>1, SameListed
<1>7. {f[m] : m \in (1..n) \intersect ((offset + 1)..(offset + Limit))} = ParsedRows(items)
  BY <1>1, <1>2 DEF ParsedRows
<1>8. items \subseteq Listed(scope)
  BY <1>1, <1>2
<1>9. ParsedRows(items) \in SUBSET Promise!Listed(scope)
  BY <1>8, SameListed DEF ParsedRows
<1> HIDE DEF f, n
<1>10. Promise!IsPage({f[m] : m \in (1..n) \intersect ((offset + 1)..(offset + Limit))}, Slice(f, 1, n), offset)
  BY <1>2, <1>4, <1>5, SlicedPage
<1> QED
  BY <1>6, <1>7, <1>8, <1>9, <1>10

(* A list is no longer than the ids that have been drawn, or than the      *)
(* installations: so far an offset goes.                                   *)
Furthest == seq + Cardinality(Insts)

(* A list is no longer than ids were drawn, or installations exist.        *)
LEMMA ListedBound ==
    ASSUME TypeInv, table \in Numbered \union {"installs"}, NEW scope
    PROVE  /\ Cardinality(Listed(scope)) \in Nat /\ Cardinality(Listed(scope)) <= Furthest
           /\ Furthest \in Nat /\ Cardinality(Insts) \in Nat
<1>0. /\ IsFiniteSet(Listed(scope)) /\ Cardinality(Listed(scope)) \in Nat /\ Listed(scope) \subseteq rows
      /\ seq \in Nat /\ Cardinality(Insts) \in Nat /\ Furthest \in Nat
  <2>1. IsFiniteSet(Listed(scope)) /\ Cardinality(Listed(scope)) \in Nat
    BY ListedTypes
  <2>2. seq \in Nat
    BY Types DEF TypeInv
  <2>3. Cardinality(Insts) \in Nat
    BY SchemaAssumption, FS_CardinalityType
  <2> QED
    BY <2>1, <2>2, <2>3 DEF Furthest, Listed
<1>1. CASE table \in Numbered
  <2> DEFINE f == [r \in Listed(scope) |-> r.id]
  <2>1. \A r \in Listed(scope) : r.id \in 1..seq
    BY <1>0, <1>1, RowIds DEF TypeInv, RowsOK
  <2>2. f \in Injection(Listed(scope), 1..seq)
    BY <1>0, <2>1 DEF Injection, IsInjective, TypeInv, RowsOK
  <2>3. IsFiniteSet(1..seq) /\ Cardinality(1..seq) = seq
    <3>1. seq \in Int /\ 1 \in Int /\ seq \in Nat
      BY <1>0
    <3>2. IsFiniteSet(1..seq) /\ Cardinality(1..seq) = IF 1 > seq THEN 0 ELSE seq - 1 + 1
      BY <3>1, FS_Interval
    <3> QED
      BY <3>1, <3>2
  <2>4. Cardinality(Listed(scope)) <= seq
    BY <2>2, <2>3, FS_Injection
  <2> QED
    BY <1>0, <2>4 DEF Furthest
<1>2. CASE table = "installs"
  <2> DEFINE f == [r \in Listed(scope) |-> r.inst]
  <2>1. \A r \in Listed(scope) : r.inst \in Insts /\ r.key = Null
    BY <1>0, <1>2, RowIds, KeysFacts DEF TypeInv, BootOK
  <2>2. "installs" \in Unique
    BY DEF Unique, Upserted
  <2>3. f \in Injection(Listed(scope), Insts)
    BY <1>0, <1>2, <2>1, <2>2 DEF Injection, IsInjective, TypeInv, RowsOK
  <2>4. Cardinality(Listed(scope)) <= Cardinality(Insts)
    BY <2>3, SchemaAssumption, FS_Injection
  <2> QED
    BY <1>0, <2>4 DEF Furthest
<1> QED
  BY <1>0, <1>1, <1>2

Far ==
    /\ walk.offset <= Furthest
    /\ \A c \in Clients : call[c].at = "items" => call[c].offset <= Furthest /\ call[c].total <= Furthest

(* What is listed is numbered, or the installations.                       *)
LEMMA PagedTables ==
    ASSUME TypeInv, table \in Paged
    PROVE  table \in Numbered \union {"installs"} /\ table \in Tables
BY TableFacts DEF TypeInv, BootOK

(* A turn starts within the bound.                                         *)
LEMMA TurnFar ==
    ASSUME TypeInv, WalkTyped, Far, table \in Paged, NEW turn \in Turns
    PROVE  turn.offset \in Nat /\ turn.offset <= Furthest /\ turn.scope \in Scopes(table) /\ turn \in Walks
<1>1. turn \in Walks /\ turn.scope \in Scopes(table)
  BY TurnTypes
<1>2. turn = walk \/ turn.offset = 0
  BY DEF Turns
<1>3. Furthest \in Nat
  BY ListedBound, PagedTables
<1> QED
  BY <1>1, <1>2, <1>3 DEF Walks, Far

(* A walk goes on only if the total says so.                               *)
LEMMA TurnedFar ==
    ASSUME NEW turn \in Walks, NEW items, NEW total
    PROVE  LET w == Turned(turn, items, total) IN
           w.offset = 0 \/ (w.offset = turn.offset + Limit /\ turn.offset + Limit < total)
<1>1. CASE turn = NoWalk
  BY <1>1 DEF Turned, NoWalk
<1>2. CASE turn # NoWalk /\ turn.offset + Limit < total
  <2> DEFINE due == turn.due \ Ids(items)
             next == turn.offset + Limit
  <2>1. Turned(turn, items, total) = [turn EXCEPT !.due = due, !.offset = next]
    BY <1>2 DEF Turned
  <2> HIDE DEF due, next
  <2>2. Turned(turn, items, total).offset = next
    BY <2>1 DEF Walks
  <2> QED
    BY <1>2, <2>2 DEF next
<1>3. CASE turn # NoWalk /\ ~(turn.offset + Limit < total)
  <2> DEFINE due == turn.due \ Ids(items)
  <2>1. Turned(turn, items, total) = [NoWalk EXCEPT !.due = due]
    BY <1>3 DEF Turned
  <2> QED
    BY <2>1 DEF NoWalk
<1> QED
  BY <1>1, <1>2, <1>3

(* With SQLite, total and page are of one moment.                          *)
LEMMA ListsAtOnce ==
    ASSUME TypeInv, WalkTyped, Far, NEW c \in Clients, ListSqlite(c)
    PROVE  Promise!Next /\ Far'
<1>0. /\ table \in Paged /\ Ready(c) /\ Quietly /\ UNCHANGED rows /\ up # {}
      /\ table \in Numbered \union {"installs"} /\ table \in Tables
  BY PagedTables DEF ListSqlite, Ready
<1>1. PICK turn \in Turns : \E items \in PagesOf(turn.scope, turn.offset) :
           Page(turn, items, Cardinality(Listed(turn.scope)), turn.offset)
  BY DEF ListSqlite
<1>2. PICK items \in PagesOf(turn.scope, turn.offset) :
           Page(turn, items, Cardinality(Listed(turn.scope)), turn.offset)
  BY <1>1
<1> DEFINE total == Cardinality(Listed(turn.scope))
<1>3. turn.offset \in Nat /\ turn.offset <= Furthest /\ turn.scope \in Scopes(table) /\ turn \in Walks
  BY <1>0, TurnFar
<1>4. total \in Nat /\ total <= Furthest /\ Furthest \in Nat /\ Cardinality(Insts) \in Nat
  BY <1>0, ListedBound
<1>5. /\ Promise!IsPage(ParsedRows(items), Promise!Listed(turn.scope), turn.offset)
      /\ ParsedRows(items) \in SUBSET Promise!Listed(turn.scope) /\ items \in SUBSET rows
  BY <1>0, <1>3, PagesArePages DEF Listed
<1>6. answer' = [total |-> total, items |-> Promise!Names(ParsedRows(items)), offset |-> turn.offset]
  BY <1>2, <1>5, SameNames DEF Page, Answer
<1>7. total = Promise!Cardinality(Promise!Listed(turn.scope))
  BY <1>0, SameListed
<1>8. Promise!Page(turn.scope, total)
  <2>1. turn.offset \in 0..(seq + Promise!Cardinality(Insts))
    BY <1>3, <1>4, SameCard DEF Furthest
  <2> HIDE DEF total
  <2> QED
    BY <1>5, <1>6, <2>1 DEF Promise!Page, Promise!Answer
<1>9. Promise!Frame /\ seq' = seq /\ Earlies' = Earlies /\ ParsedRows(rows)' = ParsedRows(rows)
  BY <1>0, QuietFrame, RowsPrimed
<1>10. Promise!ListAtOnce(turn.scope)
  BY <1>0, <1>7, <1>8, <1>9 DEF Promise!ListAtOnce, Earlies
<1>11. Promise!Call(c)
  BY <1>0, <1>3, <1>10, SameScopes DEF Promise!Call
<1>12. Promise!Next
  BY <1>0, <1>11, Calls, ReadyCalls
<1>13. Far'
  <2>1. walk' = Turned(turn, items, total)
    BY <1>2 DEF Page
  <2> HIDE DEF total
  <2>2. walk'.offset = 0 \/ (walk'.offset = turn.offset + Limit /\ turn.offset + Limit < total)
    BY <1>3, <2>1, TurnedFar
  <2>3. Limit \in Nat
    BY SchemaAssumption
  <2>4. walk'.offset <= Furthest /\ Furthest' = Furthest /\ call' = call
    BY <1>0, <1>3, <1>4, <2>2, <2>3 DEF Furthest, Quietly
  <2> QED
    BY <2>4 DEF Far
<1> QED
  BY <1>12, <1>13

(* With PostgreSQL, the COUNT decides the total.                           *)
LEMMA CountsFirst ==
    ASSUME TypeInv, WalkTyped, Far, NEW c \in Clients, CountPg(c)
    PROVE  Promise!Next /\ Far'
<1>0. /\ table \in Paged /\ Ready(c) /\ up # {} /\ UNCHANGED <<fixed, boot, rows, seq, now, held, answer>>
      /\ table \in Numbered \union {"installs"} /\ table \in Tables
  BY PagedTables DEF CountPg, Ready
<1>1. PICK turn \in Turns :
           /\ call' = [call EXCEPT ![c] =
                          [at |-> "items", total |-> Cardinality(Listed(turn.scope)),
                           scope |-> turn.scope, offset |-> turn.offset]]
           /\ walk' = turn
  BY DEF CountPg
<1> DEFINE total == Cardinality(Listed(turn.scope))
           new == [at |-> "items", total |-> total, scope |-> turn.scope, offset |-> turn.offset]
<1>2. turn.offset \in Nat /\ turn.offset <= Furthest /\ turn.scope \in Scopes(table)
  BY <1>0, TurnFar
<1>3. total \in Nat /\ total <= Furthest
  BY <1>0, ListedBound
<1>4. new.at = "items" /\ new.total = total /\ new.offset = turn.offset
  OBVIOUS
<1>5. call' = [call EXCEPT ![c] = new]
  BY <1>1
<1>6. total = Promise!Cardinality(Promise!Listed(turn.scope))
  BY <1>0, SameListed
<1> HIDE DEF new, total
<1>7. call'[c] = new /\ \A d \in Clients \ {c} : call'[d] = call[d]
  BY <1>5, NumberFacts
<1>8. Early(c)' = [total |-> total]
  <2>1. call'[c].at = "items" /\ call'[c].total = total
    BY <1>4, <1>7
  <2> QED
    BY <2>1 DEF Early
<1>9. Earlies' = [Earlies EXCEPT ![c] = [total |-> total]]
  BY <1>7, <1>8, EarlyMoves
<1>10. Promise!Frame /\ ParsedRows(rows)' = ParsedRows(rows)
  BY <1>0, Frames, RowsPrimed
<1>11. Promise!CountFirst(c, turn.scope)
  BY <1>0, <1>6, <1>9, <1>10 DEF Promise!CountFirst, Earlies
<1>12. Promise!Call(c)
  BY <1>0, <1>2, <1>11, SameScopes DEF Promise!Call
<1>13. Promise!Next
  BY <1>0, <1>12, Calls, ReadyCalls
<1>14. Far'
  <2>1. Furthest' = Furthest /\ walk'.offset <= Furthest
    BY <1>0, <1>1, <1>2 DEF Furthest
  <2>2. call'[c].offset <= Furthest /\ call'[c].total <= Furthest
    BY <1>2, <1>3, <1>4, <1>7
  <2> QED
    BY <1>7, <2>1, <2>2 DEF Far
<1> QED
  BY <1>13, <1>14

(* The SELECT answers its page with the total that was decided.            *)
LEMMA ListsThen ==
    ASSUME TypeInv, WalkTyped, Far, NEW c \in Clients, ItemsPg(c)
    PROVE  Promise!Next /\ Far'
<1>0. /\ call[c].at = "items" /\ UNCHANGED <<fixed, boot, rows, seq, now, held>>
      /\ call' = [call EXCEPT ![c] = Idle]
  BY DEF ItemsPg
<1>1. /\ call[c].total \in Nat /\ call[c].scope \in Scopes(table) /\ call[c].offset \in Nat
      /\ table \in Paged /\ c \in up
  BY <1>0, CallKinds
<1>2. table \in Numbered \union {"installs"} /\ table \in Tables /\ up # {}
  BY <1>1, PagedTables
<1>3. PICK scope, total, offset : scope = call[c].scope /\ total = call[c].total /\ offset = call[c].offset
  OBVIOUS
<1>4. PICK items \in PagesOf(scope, offset) : Page(walk, items, total, offset)
  BY <1>3 DEF ItemsPg
<1>5. /\ offset \in Nat /\ offset <= Furthest /\ total \in Nat /\ total <= Furthest /\ scope \in Scopes(table)
      /\ Furthest \in Nat
  BY <1>0, <1>1, <1>2, <1>3, ListedBound DEF Far
<1>6. /\ Promise!IsPage(ParsedRows(items), Promise!Listed(scope), offset)
      /\ ParsedRows(items) \in SUBSET Promise!Listed(scope) /\ items \in SUBSET rows
  BY <1>2, <1>5, PagesArePages DEF Listed
<1>7. answer' = [total |-> total, items |-> Promise!Names(ParsedRows(items)), offset |-> offset]
  BY <1>4, <1>6, SameNames DEF Page, Answer
<1>8. Promise!Page(scope, total)
  <2>1. offset \in 0..(seq + Promise!Cardinality(Insts))
    BY <1>5, SameCard DEF Furthest
  <2> QED
    BY <1>6, <1>7, <2>1 DEF Promise!Page, Promise!Answer
<1>9. call'[c].at = "idle" /\ \A d \in Clients \ {c} : call'[d] = call[d]
  BY <1>0, NumberFacts DEF Idle
<1>10. Earlies' = [Earlies EXCEPT ![c] = Null]
  <2>1. Early(c)' = Null
    BY <1>9 DEF Early
  <2> QED
    BY <1>9, <2>1, EarlyMoves
<1>11. Early(c) = [total |-> total]
  BY <1>0, <1>3, EarlyKinds
<1>12. Early(c) # Null /\ "total" \in DOMAIN Early(c) /\ Early(c).total = total
  <2>1. Early(c) \in [total : Nat]
    BY <1>5, <1>11
  <2>2. Null \notin [total : Nat]
    BY StoreAssumption
  <2> QED
    BY <1>11, <2>1, <2>2
<1>13. Promise!Frame /\ ParsedRows(rows)' = ParsedRows(rows)
  BY <1>0, Frames, RowsPrimed
<1>14. Promise!ListThen(c)
  BY <1>0, <1>1, <1>2, <1>5, <1>8, <1>10, <1>12, <1>13, SameScopes DEF Promise!ListThen, Earlies
<1>15. Promise!Next
  BY <1>14 DEF Promise!Next
<1>16. Far'
  <2>1. walk' = Turned(walk, items, total)
    BY <1>4 DEF Page
  <2>2. walk \in Walks
    BY DEF WalkTyped, Walks
  <2>3. walk'.offset = 0 \/ (walk'.offset = walk.offset + Limit /\ walk.offset + Limit < total)
    BY <2>1, <2>2, TurnedFar
  <2>4. Limit \in Nat /\ walk.offset \in Nat
    BY <2>2, SchemaAssumption DEF Walks
  <2>5. walk'.offset <= Furthest /\ Furthest' = Furthest
    BY <1>0, <1>5, <2>3, <2>4 DEF Furthest
  <2> QED
    BY <1>9, <2>5 DEF Far
<1> QED
  BY <1>15, <1>16

(* Steps that turn no page keep the bound.                                 *)
LEMMA FarStays ==
    ASSUME TypeInv, TypeInv', WalkTyped, Far, seq <= seq', walk'.offset \in {0, walk.offset},
           \A c \in Clients : call'[c] = call[c] \/ call'[c].at # "items"
    PROVE  Far'
<1>1. /\ seq \in Nat /\ seq' \in Nat /\ Cardinality(Insts) \in Nat
      /\ \A c \in Clients : call[c].at = "items" => call[c].offset \in Nat /\ call[c].total \in Nat
  <2>1. seq \in Nat
    BY Types DEF TypeInv
  <2>2. seq' \in Nat
    BY StoreAssumption DEF TypeInv, BootOK
  <2>3. Cardinality(Insts) \in Nat
    BY SchemaAssumption, FS_CardinalityType
  <2>4. \A c \in Clients : call[c].at = "items" => call[c].offset \in Nat /\ call[c].total \in Nat
    BY CallKinds
  <2> QED
    BY <2>1, <2>2, <2>3, <2>4
<1>2. Furthest \in Nat /\ Furthest' \in Nat /\ Furthest <= Furthest'
  BY <1>1 DEF Furthest
<1>3. walk'.offset <= Furthest'
  <2>1. walk.offset \in Nat /\ walk.offset <= Furthest
    BY DEF WalkTyped, Far
  <2> QED
    BY <1>2, <2>1
<1>4. ASSUME NEW c \in Clients, call'[c].at = "items"
      PROVE  call'[c].offset <= Furthest' /\ call'[c].total <= Furthest'
  <2>1. call'[c] = call[c]
    BY <1>4
  <2>2. call[c].offset <= Furthest /\ call[c].total <= Furthest
    BY <1>4, <2>1 DEF Far
  <2>3. call[c].offset \in Nat /\ call[c].total \in Nat
    BY <1>1, <1>4, <2>1
  <2> QED
    BY <1>2, <2>1, <2>2, <2>3
<1> QED
  BY <1>3, <1>4 DEF Far

(* So do statements that write.                                            *)
LEMMA WriteFar ==
    ASSUME TypeInv, TypeInv', WalkTyped, Far, NEW new, Rows(new), seq <= seq',
           \A c \in Clients : call'[c] = call[c] \/ call'[c].at # "items"
    PROVE  Far'
<1>1. walk'.offset \in {0, walk.offset}
  BY DEF Rows, NoWalk, WalkTyped
<1> QED
  BY <1>1, FarStays

-----------------------------------------------------------------------------
(* Every step is a step of the port, or none.                              *)

RefInv == ClaimInv /\ WalkTyped /\ Far

(* The bound is inductive, given the rest.                                 *)
LEMMA StepsFar ==
    ASSUME RefInv, TypeInv', Next
    PROVE  Far'
<1>0. TypeInv /\ WalkTyped /\ Far /\ seq \in Nat /\ seq <= NextId /\ seq <= Burnt /\ DOMAIN call = Clients
  BY NumberFacts DEF RefInv, ClaimInv
<1>1. ASSUME \/ ApplyMigration \/ Serve \/ Tick
             \/ \E c \in Clients : TakeLock(c) \/ Commit(c) \/ Rollback(c) \/ Crash(c) PROVE Far'
  <2>1. seq' = seq /\ walk' = walk
    BY <1>1 DEF ApplyMigration, Serve, Tick, TakeLock, Commit, Rollback, Crash
  <2>2. \A c \in Clients : call'[c] = call[c] \/ call'[c].at # "items"
    BY <1>1 DEF ApplyMigration, Serve, Tick, TakeLock, Commit, Rollback, Crash, Idle
  <2> QED
    BY <1>0, <2>1, <2>2, FarStays
<1>2. ASSUME NEW c \in Clients,
             \/ InstallsUpsert(c) \/ InstallsSetStatus(c) \/ InstallsSetExternalAccount(c)
             \/ StateWrite(c) \/ StateDelete(c) \/ CursorsSet(c)
             \/ RunsStart(c) \/ Log(c) \/ Finish(c)
             \/ WebhookSeenClaim(c) \/ WebhookSeenRelease(c) \/ PurgeOldRecords(c)
      PROVE  Far'
  <2>1. (\E new : Rows(new)) /\ call' = call /\ seq' \in {seq, NextId}
    BY <1>2 DEF InstallsUpsert, InstallsSetStatus, InstallsSetExternalAccount, StateWrite, StateDelete,
                CursorsSet, RunsStart, Log, Finish, WebhookSeenClaim, WebhookSeenRelease, PurgeOldRecords,
                Quietly
  <2> QED
    BY <1>0, <2>1, WriteFar
<1>3. ASSUME NEW c \in Clients, InboundClaim(c) PROVE Far'
  <2>1. \/ (\E new : Rows(new)) /\ call' = call /\ seq' = NextId
        \/ UNCHANGED <<seq, call, walk>>
        \/ /\ seq' = Burnt /\ UNCHANGED walk
           /\ \E i \in Insts, k \in Keys : call' = [call EXCEPT ![c] = [at |-> "find", inst |-> i, key |-> k]]
    BY <1>3 DEF InboundClaim
  <2>2. CASE (\E new : Rows(new)) /\ call' = call /\ seq' = NextId
    BY <1>0, <2>2, WriteFar
  <2>3. CASE UNCHANGED <<seq, call, walk>>
    BY <1>0, <2>3, FarStays
  <2>4. CASE /\ seq' = Burnt /\ UNCHANGED walk
             /\ \E i \in Insts, k \in Keys : call' = [call EXCEPT ![c] = [at |-> "find", inst |-> i, key |-> k]]
    <3>1. \A d \in Clients : call'[d] = call[d] \/ call'[d].at # "items"
      BY <1>0, <2>4
    <3> QED
      BY <1>0, <2>4, <3>1, FarStays
  <2> QED
    BY <2>1, <2>2, <2>3, <2>4
<1>4. ASSUME NEW c \in Clients, FindClaimed(c) \/ FindRetried(c) PROVE Far'
  <2>1. seq' = seq /\ walk' = walk /\ call[c].at \in {"find", "refind"}
    BY <1>4 DEF FindClaimed, FindRetried
  <2>2. \A d \in Clients : call'[d] = call[d] \/ call'[d].at # "items"
    <3>1. call' = [call EXCEPT ![c] = Idle] \/ call' = [call EXCEPT ![c].at = "retry"]
      BY <1>4 DEF FindClaimed, FindRetried
    <3>2. CASE call' = [call EXCEPT ![c] = Idle]
      BY <1>0, <3>2 DEF Idle
    <3>3. CASE call' = [call EXCEPT ![c].at = "retry"]
      <4>1. call'[c].at # "items" /\ \A d \in Clients \ {c} : call'[d] = call[d]
        <5>1. CASE call[c].at = "find"
          <6>1. call[c] \in [at : {"find", "retry"}, inst : Insts, key : Keys]
            BY <1>0, <5>1, CallKinds
          <6> QED
            BY <1>0, <3>3, <6>1
        <5>2. CASE call[c].at = "refind"
          <6>1. call[c] \in [at : {"refind"}, inst : Insts, key : Keys, id : 0..seq]
            BY <1>0, <5>2, CallKinds
          <6> QED
            BY <1>0, <3>3, <6>1
        <5> QED
          BY <2>1, <5>1, <5>2
      <4> QED
        BY <4>1
    <3> QED
      BY <3>1, <3>2, <3>3
  <2> QED
    BY <1>0, <2>1, <2>2, FarStays
<1>5. ASSUME NEW c \in Clients, RetryClaim(c) PROVE Far'
  <2>1. (\E new : Rows(new)) /\ seq' = Burnt
    BY <1>5 DEF RetryClaim
  <2>2. \A d \in Clients : call'[d] = call[d] \/ call'[d].at # "items"
    BY <1>0, <1>5 DEF RetryClaim
  <2> QED
    BY <1>0, <2>1, <2>2, WriteFar
<1>6. ASSUME NEW c \in Clients, RejectedItemsDeleteByIds(c) PROVE Far'
  <2>1. call' = call /\ seq' = seq /\ walk' \in {walk, NoWalk}
    BY <1>6 DEF RejectedItemsDeleteByIds, Quietly
  <2>2. walk'.offset \in {0, walk.offset}
    BY <2>1 DEF NoWalk
  <2> QED
    BY <1>0, <2>1, <2>2, FarStays
<1>7. ASSUME NEW c \in Clients, ListSqlite(c) \/ CountPg(c) \/ ItemsPg(c) PROVE Far'
  BY <1>0, <1>7, ListsAtOnce, CountsFirst, ListsThen
<1> QED
  BY <1>1, <1>2, <1>3, <1>4, <1>5, <1>6, <1>7 DEF Next

(* Every step keeps the invariant, and is a step of the promise or a       *)
(* stutter.                                                                *)
LEMMA RefNext == RefInv /\ [Next]_vars => RefInv' /\ [Promise!Next]_(Promise!vars)
<1> SUFFICES ASSUME RefInv, [Next]_vars PROVE RefInv' /\ [Promise!Next]_(Promise!vars)
  OBVIOUS
<1>0. TypeInv /\ WalkTyped /\ ClaimInv /\ Far /\ TypeInv' /\ WalkTyped' /\ table \in Tables
  BY TypeNext DEF RefInv, ClaimInv, TypeInv, BootOK
<1>1. ClaimInv'
  BY <1>0, ClaimNext
<1>2. CASE UNCHANGED vars
  <2>1. UNCHANGED <<fixed, owner, up, seq, now, answer, rows, call, walk>>
    BY <1>2 DEF vars, boot
  <2>2. UNCHANGED Promise!vars
    BY <2>1, Stutters, EarlyStays
  <2>3. Far'
    BY <1>0, <2>1, FarStays, NumberFacts
  <2> QED
    BY <1>0, <1>1, <2>2, <2>3 DEF RefInv
<1>3. CASE Next
  <2>1. Far'
    BY <1>0, <1>3, StepsFar
  <2>2. [Promise!Next]_(Promise!vars)
    <3>1. CASE \/ ApplyMigration \/ Serve \/ Tick
               \/ \E c \in Clients : TakeLock(c) \/ Commit(c) \/ Rollback(c) \/ Crash(c)
      BY <1>0, <3>1, BootSteps
    <3>2. ASSUME NEW c \in Clients, InstallsUpsert(c) PROVE Promise!Next
      <4>1. PICK i \in Insts, v \in Begun(table), n \in Given(table) : rows' = InsertOrUpdate(i, Null, v, n)
        BY <3>2 DEF InstallsUpsert, Rows
      <4>2. table \in Upserted /\ Null \in KeysOf(table) /\ Ready(c) /\ Answer(Done) /\ Quietly
        BY <1>0, <3>2, KeysFacts DEF InstallsUpsert, Upserted
      <4> QED
        BY <1>0, <4>1, <4>2, Upserts
    <3>3. ASSUME NEW c \in Clients, StateWrite(c) PROVE Promise!Next
      <4>1. PICK i \in Insts, k \in Keys, v \in Begun(table) : rows' = InsertOrUpdate(i, k, v, Null)
        BY <3>3 DEF StateWrite, Rows
      <4>2. table \in Upserted /\ k \in KeysOf(table) /\ Ready(c) /\ Answer(Done) /\ Quietly
        BY <1>0, <3>3, KeysFacts DEF StateWrite, Upserted
      <4>3. Null \in Given(table)
        BY <1>0, TableFacts
      <4> QED
        BY <1>0, <4>1, <4>2, <4>3, Upserts
    <3>4. ASSUME NEW c \in Clients, CursorsSet(c) PROVE Promise!Next
      <4>1. PICK i \in Insts, k \in Keys, v \in Begun(table), n \in Given(table) : rows' = InsertOrUpdate(i, k, v, n)
        BY <3>4 DEF CursorsSet, Rows
      <4>2. table \in Upserted /\ k \in KeysOf(table) /\ Ready(c) /\ Answer(Done) /\ Quietly
        BY <1>0, <3>4, KeysFacts DEF CursorsSet, Upserted
      <4> QED
        BY <1>0, <4>1, <4>2, Upserts
    <3>5. ASSUME NEW c \in Clients,
                 \/ InstallsSetStatus(c) \/ InstallsSetExternalAccount(c)
                 \/ StateDelete(c) \/ WebhookSeenRelease(c) \/ RunsStart(c) \/ Log(c) \/ Finish(c)
          PROVE  Promise!Next
      BY <1>0, <3>5, SetsStatus, SetsAccount, Deletes, Adds, Finishes
    <3>6. ASSUME NEW c \in Clients,
                 WebhookSeenClaim(c) \/ InboundClaim(c) \/ FindClaimed(c) \/ RetryClaim(c) \/ FindRetried(c)
          PROVE  [Promise!Next]_(Promise!vars)
      <4>1. ClaimOK(c)
        BY <1>0 DEF ClaimInv
      <4> QED
        BY <1>0, <3>6, <4>1, SeenClaims, InboundClaims, ClaimsFound, ClaimsRetried, ClaimsRefound
    <3>7. ASSUME NEW c \in Clients, PurgeOldRecords(c) \/ RejectedItemsDeleteByIds(c) PROVE Promise!Next
      BY <1>0, <3>7, Purges, DeletesByIds
    <3>8. ASSUME NEW c \in Clients, ListSqlite(c) \/ CountPg(c) \/ ItemsPg(c) PROVE Promise!Next
      BY <1>0, <3>8, ListsAtOnce, CountsFirst, ListsThen
    <3> QED
      BY <1>3, <3>1, <3>2, <3>3, <3>4, <3>5, <3>6, <3>7, <3>8 DEF Next
  <2> QED
    BY <1>0, <1>1, <2>1, <2>2 DEF RefInv
<1> QED
  BY <1>2, <1>3

(* Initial states are initial states of the promise.                       *)
LEMMA RefInit == Init => RefInv /\ Promise!Init
<1> SUFFICES ASSUME Init PROVE RefInv /\ Promise!Init
  OBVIOUS
<1>1. TypeInv /\ WalkTyped
  BY TypeInit
<1>2. \A c \in Clients : call[c].at = "idle"
  BY DEF Init, Idle
<1>3. \A c \in Clients : ClaimOK(c)
  BY <1>2 DEF ClaimOK
<1>4. Far
  <2>1. seq \in Nat /\ Cardinality(Insts) \in Nat
    BY <1>1, SchemaAssumption, FS_CardinalityType, Types DEF TypeInv
  <2> QED
    BY <1>2, <2>1 DEF Far, Furthest, Init, NoWalk
<1>5. Earlies = [c \in Clients |-> Null]
  BY <1>2, EarlyKinds DEF Earlies
<1>6. /\ table \in Tables /\ slug \in [Clients -> Slugs] /\ up = {} /\ answer = Null
      /\ owner \in Slugs \union {Null}
  BY <1>1 DEF Init, TypeInv, BootOK
<1>7. Promise!Init
  BY <1>5, <1>6 DEF Promise!Init, Earlies
<1> QED
  BY <1>1, <1>3, <1>4, <1>7 DEF RefInv, ClaimInv

(* Both adapters keep the promise of the port: every statement they issue  *)
(* is the moment at which a call takes effect, decides what the call will  *)
(* answer, answers it, or changes nothing that the promise speaks of       *)
(* (store/sqlite/stores.ts and store/postgres/stores.ts, under             *)
(* store/port.ts).                                                         *)
THEOREM StoreKeepsPromise == Spec => Promise!Spec
<1>1. Spec => [][Promise!Next]_(Promise!vars) /\ Promise!Init
  BY RefInit, RefNext, PTL DEF Spec
<1> QED
  BY <1>1, PTL DEF Promise!Spec

-----------------------------------------------------------------------------
(* The reads of one statement.                                             *)

(* What is not older than a cutoff as a text is not as an instant.         *)
LEMMA SinceFacts ==
    ASSUME TypeInv, up # {}
    PROVE  Since(IsoTicksAgo(Retention)) = {r \in rows : r.at.t >= now - Retention}
<1>1. Retention \in Int /\ now \in Nat
  BY SchemaAssumption, Types DEF TypeInv
<1>2. Before(IsoTicksAgo(Retention)) = {r \in rows : r.at.t < now - Retention}
  BY <1>1, BeforeFacts
<1>3. \A r \in rows : r.at.t \in Nat
  BY ServingStamps
<1> QED
  BY <1>1, <1>2, <1>3 DEF Since, Before

(* How many rows have which value, parsed or not.                          *)
LEMMA SameTally ==
    ASSUME TypeInv, up # {}, NEW s \in SUBSET rows
    PROVE  Promise!Tally(ParsedRows(s)) = Tally(s)
<1>1. Promise!Values(table) = Values(table)
  BY SameSchema DEF TypeInv, BootOK
<1>2. ASSUME NEW v
      PROVE  Promise!Cardinality({p \in ParsedRows(s) : p.val = v}) = Cardinality({r \in s : r.val = v})
  <2> DEFINE mine == {r \in s : r.val = v}
             parsed == {p \in ParsedRows(s) : p.val = v}
  <2>1. \A r \in s : Parsed(r).val = r.val
    BY RowIds, ParsedRow
  <2>2. parsed = ParsedRows(mine)
    BY <2>1 DEF ParsedRows
  <2>3. mine \in SUBSET rows
    OBVIOUS
  <2> HIDE DEF mine, parsed
  <2>4. Promise!Cardinality(parsed) = Cardinality(mine)
    BY <2>2, <2>3, CardParsed, SameCard
  <2> QED
    BY <2>4 DEF mine, parsed
<1> QED
  BY <1>1, <1>2 DEF Promise!Tally, Tally

(* SELECT COUNT.                                                           *)
LEMMA CountsAgree ==
    ASSUME TypeInv, up # {}
    PROVE  /\ CountAll = Promise!CountAll /\ CountLate = Promise!CountLate
           /\ \A i \in Insts : CountOf(i) = Promise!CountOf(i) /\ CountLateOf(i) = Promise!CountLateOf(i)
<1> DEFINE late == {r \in rows : r.at.t >= now - Retention}
<1>1. \A r \in rows : Parsed(r).inst = r.inst /\ Parsed(r).at = r.at.t
  BY RowIds, ParsedRow
<1>2. Promise!Late = ParsedRows(late)
  BY <1>1 DEF Promise!Late, ParsedRows
<1>3. late \in SUBSET rows /\ Since(IsoTicksAgo(Retention)) = late
  BY SinceFacts
<1> HIDE DEF late
<1>4. CountAll = Promise!CountAll
  BY SameTally DEF CountAll, Promise!CountAll
<1>5. CountLate = Promise!CountLate
  BY <1>2, <1>3, SameTally DEF CountLate, Promise!CountLate
<1>6. ASSUME NEW i \in Insts PROVE CountOf(i) = Promise!CountOf(i)
  <2>1. {r \in ParsedRows(rows) : r.inst = i} = ParsedRows(Of(i)) /\ Of(i) \in SUBSET rows
    BY <1>1 DEF ParsedRows, Of
  <2> QED
    BY <2>1, SameTally DEF CountOf, Promise!CountOf
<1>7. ASSUME NEW i \in Insts PROVE CountLateOf(i) = Promise!CountLateOf(i)
  <2> DEFINE mine == late \intersect Of(i)
  <2>1. {r \in ParsedRows(late) : r.inst = i} = ParsedRows(mine) /\ mine \in SUBSET rows
    BY <1>1, <1>3 DEF ParsedRows, Of
  <2>2. CountLateOf(i) = Tally(mine)
    BY <1>3 DEF CountLateOf
  <2>3. Promise!CountLateOf(i) = Promise!Tally(ParsedRows(mine))
    BY <1>2, <2>1 DEF Promise!CountLateOf
  <2> HIDE DEF mine
  <2> QED
    BY <2>1, <2>2, <2>3, SameTally
<1> QED
  BY <1>4, <1>5, <1>6, <1>7

(* SELECT by key, by id, by installation.                                  *)
LEMMA FindsAgree ==
    ASSUME TypeInv
    PROVE  /\ \A i \in Insts : /\ \A k \in KeysOf(table) : Find(i, k) = Promise!Find(i, k)
                               /\ ListMeta(i) = Promise!ListMeta(i)
                               /\ ListCursors(i) = Promise!ListCursors(i)
           /\ \A id \in 1..seq : FindById(id) = Promise!FindById(id)
           /\ ListActive = Promise!ListActive
<1>1. \A r \in rows : /\ Parsed(r).inst = r.inst /\ Parsed(r).id = r.id
                      /\ Parsed(r).val = r.val /\ Parsed(r).key = r.key
  BY RowIds, ParsedRow
<1>2. ASSUME NEW i \in Insts, NEW k \in KeysOf(table) PROVE Find(i, k) = Promise!Find(i, k)
  BY SameAt DEF Find, Promise!Find
<1>3. ASSUME NEW i \in Insts PROVE ListMeta(i) = Promise!ListMeta(i)
  <2>1. \A r \in rows : Promise!Meta(Parsed(r)) = Meta(r)
    BY <1>1 DEF Promise!Meta, Meta
  <2>2. {q \in ParsedRows(rows) : q.inst = i} = ParsedRows(Of(i)) /\ Of(i) \subseteq rows
    BY <1>1 DEF ParsedRows, Of
  <2>3. {Promise!Meta(p) : p \in ParsedRows(Of(i))} = {Meta(r) : r \in Of(i)}
    BY <2>1, <2>2 DEF ParsedRows
  <2> QED
    BY <2>2, <2>3 DEF ListMeta, Promise!ListMeta
<1>4. ASSUME NEW i \in Insts PROVE ListCursors(i) = Promise!ListCursors(i)
  BY <1>1 DEF ListCursors, Promise!ListCursors, ParsedRows, Of
<1>5. ASSUME NEW id \in 1..seq PROVE FindById(id) = Promise!FindById(id)
  BY <1>1 DEF FindById, Promise!FindById, ParsedRows
<1>6. ListActive = Promise!ListActive
  BY <1>1 DEF ListActive, Promise!ListActive, ParsedRows
<1> QED
  BY <1>2, <1>3, <1>4, <1>5, <1>6

-----------------------------------------------------------------------------
(* The latest rows: every page that the port allows is in some order.      *)

(* Finitely many can be put in order by their weight.                      *)
Sorts(f, s, w) ==
    LET n == Cardinality(s) IN
    /\ f \in [1..n -> s] /\ \A i, j \in 1..n : i # j => f[i] # f[j]
    /\ \A r \in s : \E m \in 1..n : f[m] = r
    /\ \A i \in 1..(n - 1) : w[f[i + 1]] <= w[f[i]]

(* A set can be sorted when it can be without its least element, which     *)
(* comes last.                                                             *)
LEMMA SortOne ==
    ASSUME NEW s, IsFiniteSet(s), NEW w \in [s -> Nat], s # {},
           \A t \in SUBSET s : Cardinality(t) = Cardinality(s) - 1 => \E f : Sorts(f, t, w)
    PROVE  \E f : Sorts(f, s, w)
<1>1. PICK r \in s : \A q \in s : w[r] <= w[q]
  <2> DEFINE W == {w[q] : q \in s}
  <2>1. W \in SUBSET Nat /\ W # {}
    OBVIOUS
  <2>2. PICK i \in W : \A j \in W : i <= j
    <3> HIDE DEF W
    <3> QED
      BY <2>1, LeastOf
  <2> QED
    BY <2>2
<1> DEFINE t == s \ {r}
           n == Cardinality(s)
<1>2. Cardinality(t) = n - 1 /\ n \in Nat /\ n # 0
  BY FS_RemoveElement, FS_CardinalityType, FS_EmptySet
<1>3. PICK f : Sorts(f, t, w)
  BY <1>2
<1> DEFINE g == [m \in 1..n |-> IF m = n THEN r ELSE f[m]]
<1> HIDE DEF n
<1>4. /\ f \in [1..(n - 1) -> t] /\ \A i, j \in 1..(n - 1) : i # j => f[i] # f[j]
      /\ \A q \in t : \E m \in 1..(n - 1) : f[m] = q
      /\ \A i \in 1..(n - 1 - 1) : w[f[i + 1]] <= w[f[i]]
  BY <1>2, <1>3 DEF Sorts
<1>5. /\ g[n] = r /\ \A m \in 1..(n - 1) : g[m] = f[m] /\ f[m] \in t
      /\ 1..n = (1..(n - 1)) \union {n} /\ n \in 1..n
  BY <1>2, <1>4
<1>6. g \in [1..n -> s]
  BY <1>5
<1>7. \A i, j \in 1..n : i # j => g[i] # g[j]
  BY <1>4, <1>5
<1>8. \A q \in s : \E m \in 1..n : g[m] = q
  <2> SUFFICES ASSUME NEW q \in s PROVE \E m \in 1..n : g[m] = q
    OBVIOUS
  <2>1. CASE q = r
    BY <1>5, <2>1
  <2>2. CASE q # r
    <3>1. PICK m \in 1..(n - 1) : f[m] = q
      BY <1>4, <2>2
    <3> QED
      BY <1>5, <3>1
  <2> QED
    BY <2>1, <2>2
<1>9. ASSUME NEW i \in 1..(n - 1) PROVE w[g[i + 1]] <= w[g[i]]
  <2>1. i \in 1..n /\ i + 1 \in 1..n /\ g[i] = f[i] /\ g[i] \in s
    BY <1>2, <1>5, <1>6
  <2>2. CASE i + 1 = n
    BY <1>1, <1>5, <2>1, <2>2
  <2>3. CASE i + 1 # n
    <3>1. i \in 1..(n - 1 - 1) /\ i + 1 \in 1..(n - 1)
      BY <1>2, <2>1, <2>3
    <3>2. g[i + 1] = f[i + 1]
      BY <1>5, <3>1
    <3> QED
      BY <1>4, <2>1, <3>1, <3>2
  <2> QED
    BY <2>2, <2>3
<1> HIDE DEF g
<1>10. Sorts(g, s, w)
  BY <1>6, <1>7, <1>8, <1>9 DEF Sorts, n
<1> QED
  BY <1>10

(* A finite set can be sorted by any weight.                               *)
LEMMA Sortable ==
    ASSUME NEW all, IsFiniteSet(all), NEW w \in [all -> Nat], NEW s \in SUBSET all
    PROVE  \E f : Sorts(f, s, w)
<1> DEFINE Bad == {n \in Nat : \E u \in SUBSET all : Cardinality(u) = n /\ ~ \E f : Sorts(f, u, w)}
<1>0. \A u \in SUBSET all : IsFiniteSet(u) /\ Cardinality(u) \in Nat
  BY FS_Subset, FS_CardinalityType
<1>1. SUFFICES ASSUME Bad # {} PROVE FALSE
  BY <1>0
<1>2. PICK n \in Bad : \A m \in Bad : n <= m
  <2>1. Bad \in SUBSET Nat
    OBVIOUS
  <2> HIDE DEF Bad
  <2> QED
    BY <1>1, <2>1, LeastOf
<1>3. PICK u \in SUBSET all : Cardinality(u) = n /\ ~ \E f : Sorts(f, u, w)
  BY <1>2
<1>4. IsFiniteSet(u) /\ n \in Nat
  BY <1>0, <1>2
<1>5. CASE u = {}
  <2>1. n = 0
    BY <1>3, <1>5, FS_EmptySet
  <2> DEFINE f == [m \in 1..0 |-> 0]
  <2>2. Sorts(f, u, w)
    BY <1>3, <1>5, <2>1 DEF Sorts
  <2> QED
    BY <1>3, <2>2
<1>6. CASE u # {}
  <2>1. ASSUME NEW t \in SUBSET u, Cardinality(t) = n - 1 PROVE \E f : Sorts(f, t, w)
    <3>1. Cardinality(t) \in Nat /\ t \in SUBSET all
      BY <1>0
    <3>2. Cardinality(t) \notin Bad
      BY <1>2, <1>4, <2>1, <3>1
    <3> QED
      BY <3>1, <3>2
  <2> DEFINE v == [r \in u |-> w[r]]
  <2>2. v \in [u -> Nat]
    OBVIOUS
  <2>3. ASSUME NEW t \in SUBSET u, NEW f PROVE Sorts(f, t, w) <=> Sorts(f, t, v)
    <3> DEFINE k == Cardinality(t)
    <3>1. ASSUME f \in [1..k -> t] PROVE \A i \in 1..(k - 1) : f[i + 1] \in u /\ f[i] \in u
      <4>1. k \in Nat
        BY <1>0
      <4> QED
        BY <3>1, <4>1
    <3>2. ASSUME f \in [1..k -> t] PROVE \A i \in 1..(k - 1) : w[f[i + 1]] = v[f[i + 1]] /\ w[f[i]] = v[f[i]]
      BY <3>1, <3>2
    <3> HIDE DEF v
    <3> QED
      BY <3>2 DEF Sorts
  <2> HIDE DEF v
  <2>4. \A t \in SUBSET u : Cardinality(t) = Cardinality(u) - 1 => \E f : Sorts(f, t, v)
    BY <1>3, <2>1, <2>3
  <2>5. PICK f : Sorts(f, u, v)
    BY <1>4, <1>6, <2>2, <2>4, SortOne
  <2> QED
    BY <1>3, <2>3, <2>5
<1> QED
  BY <1>5, <1>6
(* A row of A comes before one of the others, and of two, the one of       *)
(* greater rank.                                                           *)
LEMMA FirstSlice ==
    ASSUME NEW n \in Nat, NEW f, Apart(f, n), NEW A, \A r \in A : \E m \in 1..n : f[m] = r,
           \A j, k \in 1..n : f[j] \notin A /\ f[k] \in A => ~(j < k)
    PROVE  /\ Cardinality(A) \in Nat /\ Cardinality(A) <= n /\ A = Slice(f, 1, Cardinality(A))
           /\ \A m \in 1..n : f[m] \in A <=> m <= Cardinality(A)
<1> DEFINE Rest == {m \in 1..(n + 1) : m = n + 1 \/ f[m] \notin A}
<1>1. PICK k \in Rest : \A m \in Rest : k <= m
  <2>1. Rest \in SUBSET Nat /\ n + 1 \in Rest
    OBVIOUS
  <2> HIDE DEF Rest
  <2> QED
    BY <2>1, LeastOf
<1>2. k \in 1..(n + 1) /\ k - 1 \in Nat /\ k - 1 <= n
  BY <1>1
<1>3. \A m \in 1..(k - 1) : m \in 1..n /\ f[m] \in A
  <2> SUFFICES ASSUME NEW m \in 1..(k - 1) PROVE m \in 1..n /\ f[m] \in A
    OBVIOUS
  <2>1. m \in 1..n /\ ~(k <= m) /\ m # n + 1 /\ m \in 1..(n + 1)
    BY <1>2
  <2>2. m \notin Rest
    BY <1>1, <2>1
  <2> QED
    BY <2>1, <2>2
<1>4. ASSUME NEW m \in 1..n, f[m] \in A PROVE m \in 1..(k - 1)
  <2>1. CASE k = n + 1
    BY <2>1
  <2>2. CASE k # n + 1
    <3>1. k \in 1..n /\ f[k] \notin A
      BY <1>1, <1>2, <2>2
    <3>2. ~(k < m) /\ k # m
      BY <1>4, <3>1
    <3> QED
      BY <1>2, <3>1, <3>2
  <2> QED
    BY <2>1, <2>2
<1>5. A = Slice(f, 1, k - 1)
  BY <1>3, <1>4 DEF Slice
<1>6. Cardinality(A) = k - 1
  <2>1. Cardinality(Slice(f, 1, k - 1)) = IF 1 <= k - 1 THEN (k - 1) - 1 + 1 ELSE 0
    <3>1. 1 \in Nat /\ 1 <= 1
      OBVIOUS
    <3> QED
      BY <1>2, <3>1, SliceCard
  <2> QED
    BY <1>2, <1>5, <2>1
<1>7. \A m \in 1..n : f[m] \in A <=> m <= k - 1
  BY <1>2, <1>3, <1>4
<1> QED
  BY <1>2, <1>5, <1>6, <1>7

(* A first page of the promise is the start of some order of the list by   *)
(* text.                                                                   *)
LEMMA FirstPages ==
    ASSUME TypeInv, up # {}, NEW scope, NEW page \in Promise!PagesOf(scope, 0)
    PROVE  page \in Recent(scope)
<1> DEFINE L == Listed(scope)
           A == {r \in L : Parsed(r) \in page}
           B == L \ A
           rank(r) == Promise!Rank(Parsed(r))
           w == [r \in L |-> 2 * rank(r) + IF r \in A THEN 1 ELSE 0]
           n == Cardinality(L)
<1>0. /\ page \in SUBSET ParsedRows(L) /\ Promise!IsPage(page, ParsedRows(L), 0)
  BY SameListed DEF Promise!PagesOf
<1>1. L \in SUBSET rows /\ IsFiniteSet(L) /\ n \in Nat /\ A \in SUBSET rows /\ A \subseteq L
  BY ListedTypes DEF Listed
<1>2. /\ \A r \in rows : /\ rank(r) = IF table = "installs" THEN r.at.t ELSE r.id
                         /\ r.at.t \in Nat /\ r.id \in Nat /\ r.at.legacy = FALSE
      /\ \A r \in rows : rank(r) \in Nat
  <2>1. ASSUME NEW r \in rows
        PROVE  /\ rank(r) = IF table = "installs" THEN r.at.t ELSE r.id
               /\ r.at.t \in Nat /\ r.id \in Nat /\ r.at.legacy = FALSE
    BY RowIds, ParsedRow, ServingStamps DEF Promise!Rank, RowOf
  <2> QED
    BY <2>1
<1>3. page = ParsedRows(A) /\ Cardinality(page) = Cardinality(A)
  <2>1. page = ParsedRows(A)
    BY <1>0 DEF ParsedRows
  <2> QED
    BY <1>1, <2>1, CardParsed
<1>4. PICK newer \in SUBSET (ParsedRows(L) \ page) :
        LET older == ParsedRows(L) \ (newer \union page) IN
        /\ Cardinality(newer) <= 0 /\ Cardinality(page) <= Limit
        /\ older # {} => Cardinality(page) = Limit
        /\ \A p \in page, r \in older : Promise!Rank(r) <= Promise!Rank(p)
  BY <1>0, SameCard DEF Promise!IsPage
<1>5. newer = {}
  <2> DEFINE mine == {r \in L : Parsed(r) \in newer}
  <2>1. mine \in SUBSET rows /\ newer = ParsedRows(mine)
    BY <1>1 DEF ParsedRows
  <2>2. IsFiniteSet(mine)
    BY <2>1, FS_Subset DEF TypeInv, RowsOK
  <2> HIDE DEF mine
  <2>3. Cardinality(newer) = Cardinality(mine)
    BY <2>1, CardParsed
  <2>4. Cardinality(mine) \in Nat /\ Cardinality(mine) <= 0
    BY <1>4, <2>2, <2>3, FS_CardinalityType
  <2>5. mine = {}
    BY <2>2, <2>4, FS_EmptySet
  <2> QED
    BY <2>1, <2>5 DEF ParsedRows
<1>6. \A r \in B : Parsed(r) \in ParsedRows(L) \ (newer \union page)
  BY <1>5 DEF ParsedRows
<1>7. Cardinality(A) <= Limit /\ (B # {} => Cardinality(A) = Limit)
  BY <1>3, <1>4, <1>6
<1>8. \A a \in A, b \in B : rank(b) <= rank(a)
  BY <1>4, <1>6
<1>9. w \in [L -> Nat]
  BY <1>1, <1>2
<1>10. PICK s : Sorts(s, L, w)
  BY <1>1, <1>9, Sortable
<1>11. /\ s \in [1..n -> L] /\ \A i, j \in 1..n : i # j => s[i] # s[j]
       /\ \A r \in L : \E m \in 1..n : s[m] = r
       /\ \A i \in 1..(n - 1) : w[s[i + 1]] <= w[s[i]]
  BY <1>10 DEF Sorts
<1> HIDE DEF n, w
<1>12. s \in InOrder(scope) /\ DOMAIN s = 1..n
  <2>1. s \in SetToSeqs(L)
    BY <1>11 DEF SetToSeqs, n
  <2>2. Len(s) = n
    <3>1. s \in Seq(L)
      BY <1>1, <1>11, SeqDef
    <3>2. Len(s) \in Nat /\ 1..Len(s) = 1..n
      BY <1>11, <3>1, LenProperties
    <3> QED
      BY <1>1, <3>2
  <2>3. ASSUME NEW m \in 1..(n - 1) PROVE ~Newer(s[m + 1], s[m])
    <3>0. m \in 1..n /\ m + 1 \in 1..n
      BY <1>1
    <3> DEFINE q == s[m + 1]
               r == s[m]
    <3>1. q \in L /\ r \in L /\ w[q] <= w[r]
      BY <1>11, <3>0
    <3> HIDE DEF q, r
    <3>2. q \in rows /\ r \in rows /\ rank(q) \in Nat /\ rank(r) \in Nat
      BY <1>1, <1>2, <3>1
    <3>3. rank(q) <= rank(r)
      <4>1. w[q] \in {2 * rank(q), 2 * rank(q) + 1} /\ w[r] \in {2 * rank(r), 2 * rank(r) + 1}
        BY <1>2, <3>1, <3>2 DEF w
      <4> HIDE DEF rank
      <4> QED
        BY <3>1, <3>2, <4>1
    <3>4. CASE table = "installs"
      <4>1. /\ r.at.t \in Nat /\ q.at.t \in Nat /\ r.at.legacy = FALSE /\ q.at.legacy = FALSE
            /\ q.at.t <= r.at.t
        BY <1>2, <3>2, <3>3, <3>4
      <4>2. r.at.t \in Int /\ q.at.t \in Int /\ ~(r.at.t < q.at.t)
        BY <4>1
      <4>3. ~TextBefore(r.at, q.at)
        BY <4>1, <4>2, IsoBefore
      <4> QED
        BY <3>4, <4>3 DEF Newer, q, r
    <3>5. CASE table # "installs"
      <4>1. q.id \in Nat /\ r.id \in Nat /\ q.id <= r.id
        BY <1>2, <3>2, <3>3, <3>5
      <4>2. ~(q.id > r.id)
        BY <4>1
      <4> QED
        BY <3>5, <4>2 DEF Newer, q, r
    <3> QED
      BY <3>4, <3>5
  <2> QED
    BY <1>11, <2>1, <2>2, <2>3 DEF InOrder
<1>13. ASSUME NEW j \in 1..n, NEW k \in 1..n, s[j] \notin A, s[k] \in A PROVE ~(j < k)
  <2> DEFINE v == [m \in 1..n |-> w[s[m]]]
  <2>1. v \in [1..n -> Int]
    BY <1>9, <1>11
  <2>2. \A i \in 1..(n - 1) : v[i + 1] <= v[i]
    <3> SUFFICES ASSUME NEW i \in 1..(n - 1) PROVE v[i + 1] <= v[i]
      OBVIOUS
    <3>1. i \in 1..n /\ i + 1 \in 1..n
      BY <1>1
    <3> QED
      BY <1>11, <3>1
  <2>3. /\ v[j] = w[s[j]] /\ v[k] = w[s[k]] /\ s[j] \in B /\ s[k] \in A /\ s[j] \in L /\ s[k] \in L
    BY <1>11, <1>13
  <2>4. w[s[j]] < w[s[k]]
    <3> DEFINE a == s[k]
               b == s[j]
    <3>1. a \in A /\ b \in B /\ a \in L /\ b \in L /\ a \in rows /\ b \in rows
      BY <1>1, <2>3
    <3> HIDE DEF a, b
    <3>2. rank(b) <= rank(a) /\ rank(a) \in Nat /\ rank(b) \in Nat
      BY <1>2, <1>8, <3>1
    <3>3. w[a] = 2 * rank(a) + 1 /\ w[b] = 2 * rank(b) + 0
      BY <3>1 DEF w
    <3> HIDE DEF rank
    <3>4. w[b] < w[a]
      BY <3>2, <3>3
    <3> QED
      BY <3>4 DEF a, b
  <2> HIDE DEF v
  <2>5. j <= k => v[k] <= v[j]
    BY <1>1, <2>1, <2>2, Descending
  <2>6. v[j] \in Int /\ v[k] \in Int /\ j \in Int /\ k \in Int
    BY <2>1
  <2> QED
    BY <2>3, <2>4, <2>5, <2>6
<1>14. Apart(s, n)
  BY <1>11 DEF Apart
<1>15. /\ Cardinality(A) \in Nat /\ Cardinality(A) <= n /\ A = Slice(s, 1, Cardinality(A))
       /\ \A m \in 1..n : s[m] \in A <=> m <= Cardinality(A)
  <2>1. \A r \in A : \E m \in 1..n : s[m] = r
    BY <1>1, <1>11
  <2>2. \A j, k \in 1..n : s[j] \notin A /\ s[k] \in A => ~(j < k)
    BY <1>13
  <2> HIDE DEF A
  <2> QED
    BY <1>1, <1>14, <2>1, <2>2, FirstSlice
<1> DEFINE items == {s[m] : m \in DOMAIN s \intersect ((0 + 1)..(0 + Limit))}
<1>16. items = A
  <2>0. Limit \in Nat
    BY SchemaAssumption
  <2>1. ASSUME NEW m \in 1..n, m <= Limit PROVE s[m] \in A
    <3>1. CASE B = {}
      BY <1>11, <3>1
    <3>2. CASE B # {}
      BY <1>7, <1>15, <2>1, <3>2
    <3> QED
      BY <3>1, <3>2
  <2>2. ASSUME NEW r \in A PROVE r \in items
    <3>1. PICK m \in 1..Cardinality(A) : s[m] = r
      BY <1>15 DEF Slice
    <3>2. m \in 1..n /\ m \in (0 + 1)..(0 + Limit)
      <4> HIDE DEF A
      <4> QED
        BY <1>1, <1>7, <1>15, <2>0
    <3> QED
      BY <1>12, <3>1, <3>2
  <2>3. ASSUME NEW r \in items PROVE r \in A
    <3>1. PICK m \in 1..n : m \in (0 + 1)..(0 + Limit) /\ r = s[m]
      BY <1>12
    <3>2. m <= Limit
      BY <2>0, <3>1
    <3> QED
      BY <2>1, <3>1, <3>2
  <2> HIDE DEF items, A
  <2> QED
    BY <2>2, <2>3
<1>17. items \in PagesOf(scope, 0)
  BY <1>12 DEF PagesOf
<1> QED
  BY <1>3, <1>16, <1>17 DEF Recent

(* The first pages of both are the same.                                   *)
LEMMA RecentsAgree ==
    ASSUME TypeInv, up # {}, NEW scope
    PROVE  Recent(scope) = Promise!PagesOf(scope, 0)
<1>1. ASSUME NEW page \in Recent(scope) PROVE page \in Promise!PagesOf(scope, 0)
  <2>1. PICK items \in PagesOf(scope, 0) : page = ParsedRows(items)
    BY DEF Recent
  <2>2. Promise!IsPage(page, Promise!Listed(scope), 0) /\ page \in SUBSET Promise!Listed(scope)
    BY <2>1, PagesArePages
  <2> QED
    BY <2>2 DEF Promise!PagesOf
<1> QED
  BY <1>1, FirstPages

(* All that is read by one statement, while the application serves.        *)
LEMMA ReadsAlwaysAgree == TypeInv => (up # {} => ReadsAgree)
<1> SUFFICES ASSUME TypeInv, up # {} PROVE ReadsAgree
  OBVIOUS
<1>1. \A scope \in Scopes(table) : Recent(scope) = Promise!PagesOf(scope, 0)
  BY RecentsAgree
<1> QED
  BY <1>1, FindsAgree, CountsAgree DEF ReadsAgree

(* The whole of the promise: besides its steps, what the reads of a single *)
(* statement answer (lookups, counts, first pages), whose code compares    *)
(* stamps as text, is what the port says of the instants they stand for.   *)
THEOREM StoreImplementsPort == Spec => ImplementsPort
<1>1. RefInv => (up # {} => ReadsAgree)
  BY ReadsAlwaysAgree DEF RefInv, ClaimInv
<1> QED
  BY <1>1, RefInit, RefNext, StoreKeepsPromise, PTL DEF Spec, ImplementsPort

=============================================================================

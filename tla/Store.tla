------------------------------- MODULE Store -------------------------------
(***************************************************************************)
(* The two adapters behind the port: src/store/sqlite and                  *)
(* src/store/postgres, with the facades of src/store/repositories.ts, and  *)
(* their migrations.  Both run the same statements.  A call to SQLite is   *)
(* one step, for it never awaits between its statements; a call to         *)
(* PostgreSQL is a step for each statement, with calls of others between.  *)
(*                                                                         *)
(* SQLite is the file of one process, and the clients are its flows;       *)
(* PostgreSQL may be shared, and each client is a process of its own.      *)
(***************************************************************************)
EXTENDS Schema, Sequences, SequencesExt

CONSTANTS
    Latest,    \* the last version of the schema
    Normalise, \* the version that rewrites the stamps of kit v1
    DayLength, \* ticks of the clock in a day
    Start,     \* the time at which a behaviour begins
    MaxNow,    \* bound on the clock
    MaxId      \* table -> bound on its ids

ASSUME StoreAssumption ==
    /\ Latest \in Nat \ {0} /\ Normalise \in 1..Latest /\ DayLength \in Nat \ {0}
    /\ MaxNow \in Nat /\ Start \in 0..MaxNow /\ MaxId \in [Tables -> Nat \ {0}]
    \* A call that is not answered yet has no answer.
    /\ Null \notin [total : Nat] \union [id : Nat, fresh : {TRUE}, status : {"received"}]

VARIABLES
    backend, \* "sqlite" or "postgres"
    table,   \* the table that the calls are about
    slug,    \* client -> the integration it runs
    version, \* the greatest version in schema_migrations
    owner,   \* kit_owner, in PostgreSQL
    lock,    \* the client that holds the advisory lock, or Null
    up,      \* the clients whose app serves
    rows,    \* the table
    seq,     \* its AUTOINCREMENT or IDENTITY
    now,
    call,    \* client -> its call between two statements
    held,    \* client -> the id that a start or a claim has given it, or 0
    answer,  \* the last answer given
    walk     \* the list that an operator pages through, if any, and the ids
             \* that have been there from its start and that he has not seen

fixed == <<backend, table, slug>>
boot == <<version, owner, lock, up>>
vars == <<fixed, boot, rows, seq, now, call, held, answer, walk>>

Idle == [at |-> "idle"]
NoWalk == [scope |-> {}, offset |-> 0, due |-> {}]

(* A stamp: an instant, and whether it has the format of kit v1.           *)
Legacy(t) == [t |-> t, legacy |-> TRUE]
Iso(t) == [t |-> t, legacy |-> FALSE]
NowIso == Iso(now)
IsoTicksAgo(n) == Iso(now - n)

(* Stamps compare as text: the date first, then ' ' before 'T'.            *)
TextBefore(a, b) ==
    LET day(s) == s.t \div DayLength IN
    \/ day(a) < day(b)
    \/ /\ day(a) = day(b)
       /\ \/ a.legacy /\ ~b.legacy
          \/ a.legacy = b.legacy /\ a.t < b.t

ParseStoreTimestamp(s) == s.t
Parsed(r) == [r EXCEPT !.at = ParseStoreTimestamp(@)]
ParsedRows(s) == {Parsed(r) : r \in s}

(* A row that is there from before: in a file of kit v1, or a database.    *)
OldRows(stamps) ==
    {NewRow(IF table \in Numbered THEN 1 ELSE 0, i, k, v, Initially(table), s) :
        i \in Insts, k \in KeysOf(table), v \in Values(table), s \in stamps}

Init ==
    /\ backend \in {"sqlite", "postgres"} /\ table \in Tables
    /\ slug \in [Clients -> Slugs]
    /\ backend = "sqlite" => \A c, d \in Clients : slug[c] = slug[d]
    /\ lock = Null /\ up = {}
    /\ now = Start
    /\ call = [c \in Clients |-> Idle] /\ held = [c \in Clients |-> 0]
    /\ answer = Null /\ walk = NoWalk
    /\ \/ version = 0 /\ owner = Null /\ rows = {} /\ seq = 0
       \/ /\ backend = "sqlite" /\ version = Normalise - 1 /\ owner = Null
          /\ \E r \in OldRows({Legacy(t) : t \in 0..Start}) : rows = {r} /\ seq = r.id
       \/ /\ backend = "postgres" /\ version = Latest /\ owner \in Slugs
          /\ \E r \in OldRows({Iso(t) : t \in 0..Start}) : rows = {r} /\ seq = r.id

-----------------------------------------------------------------------------
(* Migrations.                                                             *)

Mutant_Normalised_LeftLegacy(r) == r

Normalised(r) == [r EXCEPT !.at.legacy = FALSE]

(* runMigrations: a transaction for each version, before any call.         *)
ApplyMigration ==
    /\ backend = "sqlite" /\ up = {} /\ version < Latest
    /\ version' = version + 1
    /\ rows' = IF version' = Normalise THEN {Normalised(r) : r \in rows} ELSE rows
    /\ UNCHANGED <<fixed, owner, lock, up, seq, now, call, held, answer, walk>>

Serve ==
    /\ backend = "sqlite" /\ up = {} /\ version = Latest
    /\ up' = Clients
    /\ UNCHANGED <<fixed, version, owner, lock, rows, seq, now, call, held, answer, walk>>

(* runPgMigrations: one transaction, under an advisory lock.               *)
TakeLock(c) ==
    /\ backend = "postgres" /\ c \notin up /\ lock = Null
    /\ lock' = c
    /\ UNCHANGED <<fixed, version, owner, up, rows, seq, now, call, held, answer, walk>>

Commit(c) ==
    /\ lock = c /\ owner \in {Null, slug[c]}
    /\ owner' = slug[c] /\ version' = Latest
    /\ up' = up \union {c} /\ lock' = Null
    /\ UNCHANGED <<fixed, rows, seq, now, call, held, answer, walk>>

(* The schema is another integration's, or the process dies: a rollback.   *)
Rollback(c) ==
    /\ lock = c
    /\ lock' = Null
    /\ UNCHANGED <<fixed, version, owner, up, rows, seq, now, call, held, answer, walk>>

(* The process dies: the calls of its clients get no answer.               *)
Crash(c) ==
    LET dead == IF backend = "sqlite" THEN Clients ELSE {c} IN
    /\ c \in up
    /\ up' = up \ dead
    /\ call' = [d \in Clients |-> IF d \in dead THEN Idle ELSE call[d]]
    /\ held' = [d \in Clients |-> IF d \in dead THEN 0 ELSE held[d]]
    /\ UNCHANGED <<fixed, version, owner, lock, rows, seq, now, answer, walk>>

(* A call is short beside a tick of the clock.                             *)
Tick ==
    /\ now < MaxNow /\ \A c \in Clients : call[c] = Idle
    /\ now' = now + 1
    /\ UNCHANGED <<fixed, boot, rows, seq, call, held, answer, walk>>

-----------------------------------------------------------------------------
(* A statement that writes, and what it does to the operator's list: a row *)
(* that is gone is not due, and one that is added between the count and    *)
(* the rows of the last page pushes a row off it.                          *)

At(inst, key) == {r \in rows : r.inst = inst /\ r.key = key}
Ids(s) == {r.id : r \in s} \ {0}

Ready(c) == c \in up /\ call[c] = Idle
Answer(a) == answer' = a
Done == [done |-> TRUE]

OnLastPage ==
    \E c \in Clients : call[c].at = "items" /\ call[c].offset + Limit >= call[c].total

Rows(new) ==
    /\ rows' = new
    /\ walk' = IF OnLastPage /\ ~(Ids(new) \subseteq Ids(rows)) THEN NoWalk
               ELSE [walk EXCEPT !.due = @ \intersect Ids(new)]

Mutant_NextId_Reused == 1 + Cardinality(rows)

NextId == seq + 1
Room == seq < MaxId[table]
\* ON CONFLICT DO NOTHING comes after the next id has been drawn.
Burnt == IF Room THEN NextId ELSE seq

Holds(c, id) == held' = [held EXCEPT ![c] = id]
Quietly == UNCHANGED <<fixed, boot, seq, now, call, held>>

Coalesce(given, old) == IF given = Null THEN old ELSE given

(* INSERT ... ON CONFLICT DO UPDATE.                                       *)
InsertOrUpdate(inst, key, val, given) ==
    IF At(inst, key) = {}
    THEN rows \union {NewRow(0, inst, key, val, Coalesce(given, Initially(table)), NowIso)}
    ELSE {IF r \in At(inst, key)
          THEN [r EXCEPT !.val = val, !.kept = Coalesce(given, @), !.at = NowIso] ELSE r : r \in rows}

InstallsUpsert(c) ==
    /\ table = "installs" /\ Ready(c)
    /\ \E i \in Insts, v \in Begun(table), n \in Given(table) : Rows(InsertOrUpdate(i, Null, v, n))
    /\ Answer(Done) /\ Quietly

StateWrite(c) ==
    /\ table = "integration_state" /\ Ready(c)
    /\ \E i \in Insts, k \in Keys, v \in Begun(table) : Rows(InsertOrUpdate(i, k, v, Null))
    /\ Answer(Done) /\ Quietly

CursorsSet(c) ==
    /\ table = "sync_cursor" /\ Ready(c)
    /\ \E i \in Insts, k \in Keys, v \in Begun(table), n \in Given(table) :
           Rows(InsertOrUpdate(i, k, v, n))
    /\ Answer(Done) /\ Quietly

(* UPDATE installs.                                                        *)
InstallsSetStatus(c) ==
    /\ table = "installs" /\ Ready(c)
    /\ \E i \in Insts, v \in Begun(table), stamps \in {Null, "stamped"} :
           Rows({IF r.inst = i THEN [r EXCEPT !.val = v, !.stamps = stamps, !.at = NowIso]
                 ELSE r : r \in rows})
    /\ Answer(Done) /\ Quietly

InstallsSetExternalAccount(c) ==
    /\ table = "installs" /\ Ready(c)
    /\ \E i \in Insts, ref \in {Null, "account"} :
           Rows({IF r.inst = i THEN [r EXCEPT !.ref = ref, !.at = NowIso] ELSE r : r \in rows})
    /\ Answer(Done) /\ Quietly

(* DELETE by key.                                                          *)
StateDelete(c) ==
    /\ table = "integration_state" /\ Ready(c)
    /\ \E i \in Insts, k \in Keys : Rows(rows \ At(i, k))
    /\ Answer(Done) /\ Quietly

WebhookSeenRelease(c) ==
    /\ table = "webhook_seen" /\ Ready(c)
    /\ \E i \in Insts, k \in Keys : Rows(rows \ At(i, k))
    /\ Answer(Done) /\ Quietly

(* INSERT of a row with an id of its own.                                  *)
Insert(i, v) == rows \union {NewRow(NextId, i, Null, v, Null, NowIso)}

RunsStart(c) ==
    /\ table = "sync_run" /\ Ready(c) /\ Room
    /\ \E i \in Insts : Rows(Insert(i, "running"))
    /\ seq' = NextId /\ Holds(c, NextId)
    /\ Answer([id |-> NextId])
    /\ UNCHANGED <<fixed, boot, now, call>>

(* webhookLog.log, rejectedItems.add, audit.add                            *)
Log(c) ==
    /\ table \in Logged \ {"sync_run"} /\ Ready(c) /\ Room
    /\ \E i \in Insts, v \in Begun(table) : Rows(Insert(i, v))
    /\ seq' = NextId
    /\ Answer(Done)
    /\ UNCHANGED <<fixed, boot, now, call, held>>

(* runs.finish, inboundEvents.finish: of the id that the caller holds,     *)
(* whose row may be gone.                                                  *)
Finish(c) ==
    /\ table \in Finished /\ Ready(c) /\ held[c] # 0
    /\ \E v \in Ended(table) :
           Rows({IF r.id = held[c] THEN [r EXCEPT !.val = v] ELSE r : r \in rows})
    /\ Holds(c, 0)
    /\ Answer(Done)
    /\ UNCHANGED <<fixed, boot, seq, now, call>>

-----------------------------------------------------------------------------
(* The claims: INSERT ... ON CONFLICT DO NOTHING.                          *)

Claims(i, k) == rows \union {NewRow(IF table = "webhook_seen" THEN 0 ELSE NextId, i, k,
                                    CHOOSE v \in Begun(table) : TRUE, Null, NowIso)}

WebhookSeenClaim(c) ==
    /\ table = "webhook_seen" /\ Ready(c)
    /\ \E i \in Insts, k \in Keys :
           LET fresh == At(i, k) = {} IN
           /\ Rows(IF fresh THEN Claims(i, k) ELSE rows)
           /\ Answer([id |-> 0, fresh |-> fresh, status |-> "written"])
    /\ Quietly

Existing(c, row) ==
    /\ Answer([id |-> row.id, fresh |-> FALSE, status |-> row.val])
    /\ Holds(c, IF row.val = "failed" THEN row.id ELSE 0)

InboundClaim(c) ==
    /\ table = "inbound_event" /\ Ready(c) /\ Room
    /\ \E i \in Insts, k \in Keys :
           \/ /\ At(i, k) = {}
              /\ Rows(Claims(i, k))
              /\ seq' = NextId /\ Holds(c, NextId)
              /\ Answer([id |-> NextId, fresh |-> TRUE, status |-> "received"])
              /\ UNCHANGED call
           \/ /\ At(i, k) # {} /\ backend = "sqlite"
              /\ \E row \in At(i, k) : Existing(c, row)
              /\ UNCHANGED <<rows, seq, call, walk>>
           \/ /\ At(i, k) # {} /\ backend = "postgres"
              /\ seq' = Burnt
              /\ call' = [call EXCEPT ![c] = [at |-> "find", inst |-> i, key |-> k]]
              /\ UNCHANGED <<rows, held, answer, walk>>
    /\ UNCHANGED <<fixed, boot, now>>

(* PostgreSQL, after a conflict: find the row; if a purge has deleted it,  *)
(* insert once more, and find it again.                                    *)
FindClaimed(c) ==
    /\ call[c].at = "find"
    /\ LET old == At(call[c].inst, call[c].key) IN
       \/ /\ \E row \in old : Existing(c, row)
          /\ call' = [call EXCEPT ![c] = Idle]
       \/ /\ old = {}
          /\ call' = [call EXCEPT ![c].at = "retry"]
          /\ UNCHANGED <<held, answer>>
    /\ UNCHANGED <<fixed, boot, rows, seq, now, walk>>

RetryClaim(c) ==
    /\ call[c].at = "retry"
    /\ LET fresh == At(call[c].inst, call[c].key) = {} IN
       /\ fresh => Room
       /\ Rows(IF fresh THEN Claims(call[c].inst, call[c].key) ELSE rows)
       /\ seq' = Burnt
       /\ call' = [call EXCEPT ![c] = [at |-> "refind", inst |-> call[c].inst, key |-> call[c].key,
                                        id |-> IF fresh THEN NextId ELSE 0]]
    /\ UNCHANGED <<fixed, boot, now, held, answer>>

FindRetried(c) ==
    /\ call[c].at = "refind"
    /\ LET old == At(call[c].inst, call[c].key)
           fresh == call[c].id # 0
           row == IF old = {} THEN [id |-> call[c].id, val |-> "received"]
                  ELSE CHOOSE r \in old : TRUE IN
       /\ Answer([id |-> row.id, fresh |-> fresh, status |-> row.val])
       /\ Holds(c, IF fresh \/ row.val = "failed" THEN row.id ELSE 0)
    /\ call' = [call EXCEPT ![c] = Idle]
    /\ UNCHANGED <<fixed, boot, rows, seq, now, walk>>

-----------------------------------------------------------------------------
(* Deletions.                                                              *)

Before(cutoff) == {r \in rows : TextBefore(r.at, cutoff)}

(* purgeOldRecords, of one table.                                          *)
PurgeOldRecords(c) ==
    /\ table \in Purged /\ Ready(c)
    /\ LET old == Before(IsoTicksAgo(Retention)) IN
       /\ Rows(rows \ old)
       /\ Answer([changes |-> Cardinality(old)])
    /\ Quietly

(* The first of the ids, as many as one call takes.                        *)
Clean(ids) == IF Cardinality(ids) <= IdCap THEN {ids} ELSE kSubset(IdCap, ids)

(* An operator who deletes while he pages moves the rows under his list.   *)
RejectedItemsDeleteByIds(c) ==
    /\ table = "rejected_item" /\ Ready(c)
    /\ \E i \in Insts, asked \in SUBSET (1..seq) : \E ids \in Clean(asked) :
           LET mine == {r \in rows : r.inst = i /\ r.id \in ids} IN
           /\ rows' = rows \ mine
           /\ walk' = IF mine = {} THEN walk ELSE NoWalk
           /\ Answer([changes |-> Cardinality(mine)])
    /\ Quietly

-----------------------------------------------------------------------------
(* Reads.                                                                  *)

Of(i) == {r \in rows : r.inst = i}

(* At or after the start of a window.                                      *)
Since(from) == {r \in rows : ~TextBefore(r.at, from)}

Tally(s) == [v \in Values(table) |-> Cardinality({r \in s : r.val = v})]

(* installs.find, state.read, cursors.get, inboundEvents.find              *)
Find(i, k) == ParsedRows(At(i, k))

(* webhookLog.findById, rejectedItems.findById                             *)
FindById(id) == ParsedRows({r \in rows : r.id = id})

ListActive == ParsedRows({r \in rows : r.val = "active"})

ListMeta(i) == {Meta(r) : r \in Of(i)}

(* cursors.listByInstallation                                              *)
ListCursors(i) == ParsedRows(Of(i))

(* installs.countByStatus, cursors.countInError, rejectedItems.countByEntity *)
CountAll == Tally(rows)
CountOf(i) == Tally(Of(i))

(* webhookLog.countSince, webhookSeen.countByInstallationSince and         *)
(* rejectedItems.count                                                     *)
CountLate == Tally(Since(IsoTicksAgo(Retention)))
CountLateOf(i) == Tally(Since(IsoTicksAgo(Retention)) \intersect Of(i))

(* ORDER BY id DESC; installations by updated_at, in text.                 *)
Newer(r, q) == IF table = "installs" THEN TextBefore(q.at, r.at) ELSE r.id > q.id

Listed(scope) == {r \in rows : r.inst \in scope}

InOrder(scope) ==
    {s \in SetToSeqs(Listed(scope)) : \A m \in 1..(Len(s) - 1) : ~Newer(s[m + 1], s[m])}

(* LIMIT and OFFSET.                                                       *)
PagesOf(scope, offset) ==
    {{s[n] : n \in DOMAIN s \intersect ((offset + 1)..(offset + Limit))} : s \in InOrder(scope)}

(* recent, listByInstallation(limit), lastForInstallation                  *)
Recent(scope) == {ParsedRows(page) : page \in PagesOf(scope, 0)}

-----------------------------------------------------------------------------
(* The lists of the console: a total and a page of it.  The operator goes  *)
(* on to the next page while the total says there is one.                  *)

Turns ==
    IF walk.scope # {} THEN {walk}
    ELSE {[scope |-> s, offset |-> 0, due |-> Ids(Listed(s))] : s \in Scopes(table)}

Mutant_Turned_LastSkipped(turn, items, total) ==
    LET due == turn.due \ Ids(items)
        next == turn.offset + Limit IN
    CASE turn = NoWalk -> NoWalk
      [] turn # NoWalk /\ next + 1 < total -> [turn EXCEPT !.due = due, !.offset = next]
      [] OTHER -> [NoWalk EXCEPT !.due = due]

Turned(turn, items, total) ==
    LET due == turn.due \ Ids(items)
        next == turn.offset + Limit IN
    CASE turn = NoWalk -> NoWalk
      [] turn # NoWalk /\ next < total -> [turn EXCEPT !.due = due, !.offset = next]
      [] OTHER -> [NoWalk EXCEPT !.due = due]

Page(turn, items, total, offset) ==
    /\ Answer([total |-> total, items |-> Names(items), offset |-> offset])
    /\ walk' = Turned(turn, items, total)

ListSqlite(c) ==
    /\ backend = "sqlite" /\ table \in Paged /\ Ready(c)
    /\ \E turn \in Turns : \E items \in PagesOf(turn.scope, turn.offset) :
           Page(turn, items, Cardinality(Listed(turn.scope)), turn.offset)
    /\ UNCHANGED rows /\ Quietly

(* PostgreSQL: SELECT COUNT, then SELECT.                                  *)
CountPg(c) ==
    /\ backend = "postgres" /\ table \in Paged /\ Ready(c)
    /\ \A d \in Clients : call[d].at # "items"
    /\ \E turn \in Turns :
           /\ call' = [call EXCEPT ![c] =
                          [at |-> "items", total |-> Cardinality(Listed(turn.scope)),
                           scope |-> turn.scope, offset |-> turn.offset]]
           /\ walk' = turn
    /\ UNCHANGED <<fixed, boot, rows, seq, now, held, answer>>

ItemsPg(c) ==
    /\ call[c].at = "items"
    /\ \E items \in PagesOf(call[c].scope, call[c].offset) :
           Page(walk, items, call[c].total, call[c].offset)
    /\ call' = [call EXCEPT ![c] = Idle]
    /\ UNCHANGED <<fixed, boot, rows, seq, now, held>>

Next ==
    \/ ApplyMigration \/ Serve \/ Tick
    \/ \E c \in Clients :
           \/ TakeLock(c) \/ Commit(c) \/ Rollback(c) \/ Crash(c)
           \/ InstallsUpsert(c) \/ InstallsSetStatus(c) \/ InstallsSetExternalAccount(c)
           \/ StateWrite(c) \/ StateDelete(c) \/ CursorsSet(c)
           \/ RunsStart(c) \/ Log(c) \/ Finish(c)
           \/ WebhookSeenClaim(c) \/ WebhookSeenRelease(c)
           \/ InboundClaim(c) \/ FindClaimed(c) \/ RetryClaim(c) \/ FindRetried(c)
           \/ PurgeOldRecords(c) \/ RejectedItemsDeleteByIds(c)
           \/ ListSqlite(c) \/ CountPg(c) \/ ItemsPg(c)

Spec == Init /\ [][Next]_vars

-----------------------------------------------------------------------------
(* Every row has a key of its own, an id that has been drawn and a stamp   *)
(* that has passed, which is in the format of today once the app serves;   *)
(* whoever serves has a whole schema, and is of the owner's integration.   *)
TypeOK ==
    /\ backend \in {"sqlite", "postgres"} /\ table \in Tables
    /\ version \in 0..Latest /\ now \in Start..MaxNow /\ seq \in 0..MaxId[table]
    /\ up \subseteq Clients /\ lock \in (Clients \ up) \union {Null}
    /\ \A r \in rows :
           /\ r.inst \in Insts /\ r.key \in KeysOf(table) /\ r.val \in Values(table)
           /\ r.kept \in Given(table) /\ r.id \in 0..seq /\ r.at.t <= now
           /\ \A q \in rows : q = r \/ q.id # r.id \/ q.id = 0
           /\ table \in Unique => At(r.inst, r.key) = {r}
           /\ up # {} => ~r.at.legacy
    /\ up # {} => version = Latest
    /\ backend = "postgres" => \A c \in up : owner = slug[c]
    /\ \A c \in Clients : call[c].at \in {"idle", "find", "retry", "refind", "items"}
    /\ \A c \in Clients : held[c] \in 0..seq
    /\ walk.scope \subseteq Insts /\ walk.due \subseteq Ids(rows)

(* An operator who pages through a list to its end, at his own pace, has   *)
(* seen every row that was there all along, whatever was added, purged or  *)
(* restarted meanwhile: the order is newest first, additions push rows to  *)
(* later pages and a purge takes the oldest.  Where this fails, the walk   *)
(* is given up: rows deleted by id, and, in PostgreSQL, rows added between *)
(* the two statements of the last page.                                    *)
WalkSeesAll == walk.scope = {} => walk.due = {}

(* What has been decided of a call that has not been answered.             *)
Early(c) ==
    CASE call[c].at = "items" -> [total |-> call[c].total]
      [] call[c].at = "refind" /\ call[c].id # 0 ->
             [id |-> call[c].id, fresh |-> TRUE, status |-> "received"]
      [] OTHER -> Null

Promise == INSTANCE Port
    WITH private <- backend = "sqlite",
         rows <- ParsedRows(rows),
         high <- seq,
         early <- [c \in Clients |-> Early(c)]

(* A read of one statement says what the port says it should.              *)
ReadsAgree ==
    /\ \A i \in Insts :
           /\ \A k \in KeysOf(table) : Find(i, k) = Promise!Find(i, k)
           /\ table = "integration_state" => ListMeta(i) = Promise!ListMeta(i)
           /\ table = "sync_cursor" => ListCursors(i) = Promise!ListCursors(i)
           /\ CountOf(i) = Promise!CountOf(i) /\ CountLateOf(i) = Promise!CountLateOf(i)
    /\ \A id \in 1..seq : FindById(id) = Promise!FindById(id)
    /\ table = "installs" => ListActive = Promise!ListActive
    /\ CountAll = Promise!CountAll /\ CountLate = Promise!CountLate
    /\ \A scope \in Scopes(table) : Recent(scope) = Promise!PagesOf(scope, 0)

(* Either adapter does what the port says: a call, of whatever number of   *)
(* statements, takes effect at one moment; a claim is fresh for one caller *)
(* only; ids are not used twice, so that a late finish hits no other row;  *)
(* a purge and a window go by instants, whatever kit wrote the stamps; and *)
(* only the owner's integration is let in.                                 *)
ImplementsPort == Promise!Spec /\ [](up # {} => ReadsAgree)

=============================================================================

-------------------------------- MODULE Port --------------------------------
(***************************************************************************)
(* What src/store/port.ts promises of a store, whatever the backend: every *)
(* call takes effect at one moment, between the call and its answer, and   *)
(* stamps are instants.  Two calls may answer later than they take effect: *)
(* a claim, and a list, whose total is of an earlier moment than its page. *)
(***************************************************************************)
EXTENDS Schema

VARIABLES
    table,   \* the table that the calls are about
    private, \* whether the store is a private file
    slug,    \* client -> the integration it runs
    owner,   \* the integration that the store belongs to, or Null
    up,      \* the clients that migrate() has let in
    rows,
    high,    \* no row has had a greater id
    now,
    early,   \* client -> what is known of the answer of its call, or Null
    answer   \* the last answer given

vars == <<table, private, slug, owner, up, rows, high, now, early, answer>>

Init ==
    /\ table \in Tables
    /\ slug \in [Clients -> Slugs]
    /\ owner \in Slugs \union {Null} /\ up = {}
    /\ early = [c \in Clients |-> Null] /\ answer = Null

Answer(a) == answer' = a
Done == [done |-> TRUE]
Ready(c) == c \in up /\ early[c] = Null

At(inst, key) == {r \in rows : r.inst = inst /\ r.key = key}

Frame == UNCHANGED <<table, private, slug, owner, up, now>>

(* migrate(owner): a store that can be shared is one integration's.        *)
Migrate(cs) ==
    /\ private \/ \A c \in cs : owner \in {Null, slug[c]} /\ owner' = slug[c]
    /\ private => owner' = owner
    /\ up' = up \union cs
    /\ UNCHANGED <<table, private, slug, rows, high, now, early, answer>>

(* A crash may come between the effect of a call and its answer.           *)
Crash(cs) ==
    /\ up' = up \ cs
    /\ early' = [c \in Clients |-> IF c \in cs THEN Null ELSE early[c]]
    /\ UNCHANGED <<table, private, slug, owner, rows, high, now, answer>>

Tick == now' = now + 1 /\ UNCHANGED <<table, private, slug, owner, up, rows, high, early, answer>>

(* installs.upsert, state.write, cursors.set: "a null/omitted field never  *)
(* overwrites".                                                            *)
Upsert(inst, key, val, kept) ==
    LET old == At(inst, key)
        last == IF old = {} THEN NewRow(0, inst, key, val, Initially(table), now)
                ELSE CHOOSE r \in old : TRUE IN
    /\ table \in Upserted
    /\ rows' = (rows \ old)
                 \union {[last EXCEPT !.val = val, !.at = now,
                                      !.kept = IF kept = Null THEN @ ELSE kept]}
    /\ Answer(Done)
    /\ UNCHANGED <<high, early>> /\ Frame

(* installs.setStatus "REWRITES the three lifecycle stamps on every call"; *)
(* setExternalAccount.                                                     *)
Rewrite(inst, changed) ==
    /\ table = "installs"
    /\ rows' = {IF r.inst = inst THEN [changed[r] EXCEPT !.at = now] ELSE r : r \in rows}
    /\ Answer(Done)
    /\ UNCHANGED <<high, early>> /\ Frame

SetStatus(inst, status, stamps) ==
    Rewrite(inst, [r \in rows |-> [r EXCEPT !.val = status, !.stamps = stamps]])
SetExternalAccount(inst, ref) ==
    Rewrite(inst, [r \in rows |-> [r EXCEPT !.ref = ref]])

(* state.delete, webhookSeen.release.                                      *)
Delete(inst, key) ==
    /\ table \in {"integration_state", "webhook_seen"}
    /\ rows' = rows \ At(inst, key)
    /\ Answer(Done)
    /\ UNCHANGED <<high, early>> /\ Frame

(* runs.start, webhookLog.log, rejectedItems.add, audit.add: a row with an *)
(* id that no row has had.                                                 *)
Add(inst, val) ==
    /\ table \in Logged
    /\ high' > high
    /\ rows' = rows \union {NewRow(high', inst, Null, val, Null, now)}
    /\ Answer(IF table = "sync_run" THEN [id |-> high'] ELSE Done)
    /\ UNCHANGED early /\ Frame

Finish(id, val) ==
    /\ table \in Finished
    /\ rows' = {IF r.id = id THEN [r EXCEPT !.val = val] ELSE r : r \in rows}
    /\ Answer(Done)
    /\ UNCHANGED <<high, early>> /\ Frame

(* The claims: "two concurrent claims for the same key must resolve to     *)
(* exactly one fresh".  The answer is given at once, or later.             *)
Claim(c, inst, key, val) ==
    LET old == At(inst, key)
        row == IF old # {} THEN CHOOSE r \in old : TRUE
               ELSE NewRow(IF table = "webhook_seen" THEN 0 ELSE high', inst, key, val, Null, now)
        result == [id |-> row.id, fresh |-> old = {}, status |-> row.val] IN
    /\ table \in Claimed
    /\ IF old = {} /\ table = "inbound_event" THEN high' > high ELSE high' = high
    /\ rows' = rows \union {row}
    /\ \/ Answer(result) /\ UNCHANGED early
       \/ early' = [early EXCEPT ![c] = result] /\ UNCHANGED answer
    /\ Frame

AnswerLater(c) ==
    /\ c \in up /\ early[c] # Null
    /\ "fresh" \in DOMAIN early[c]
    /\ Answer(early[c])
    /\ early' = [early EXCEPT ![c] = Null]
    /\ UNCHANGED <<rows, high>> /\ Frame

(* An id may be skipped.                                                   *)
Skip == high' > high /\ UNCHANGED <<rows, early, answer>> /\ Frame

(* The purges: "deletes rows created before cutoffIso", and says how many. *)
Purge ==
    LET old == {r \in rows : r.at < now - Retention} IN
    /\ table \in Purged
    /\ rows' = rows \ old
    /\ Answer([changes |-> Cardinality(old)])
    /\ UNCHANGED <<high, early>> /\ Frame

(* "Deletes by id, SCOPED to the installation (never cross-tenant).  Ids   *)
(* are pre-capped by the kit."                                             *)
DeleteByIds(inst, ids) ==
    LET mine == {r \in rows : r.inst = inst /\ r.id \in ids} IN
    /\ table = "rejected_item" /\ Cardinality(ids) <= IdCap
    /\ rows' = rows \ mine
    /\ Answer([changes |-> Cardinality(mine)])
    /\ UNCHANGED <<high, early>> /\ Frame

(* The reads of one moment: rows, and how many there are of each value.    *)
Find(inst, key) == At(inst, key)
FindById(id) == {r \in rows : r.id = id}
ListActive == {r \in rows : r.val = "active"}
ListMeta(inst) == {Meta(r) : r \in {q \in rows : q.inst = inst}}
ListCursors(inst) == {r \in rows : r.inst = inst}

Tally(s) == [v \in Values(table) |-> Cardinality({r \in s : r.val = v})]
Late == {r \in rows : r.at >= now - Retention}
CountAll == Tally(rows)
CountLate == Tally(Late)
CountLateOf(inst) == Tally({r \in Late : r.inst = inst})
CountOf(inst) == Tally({r \in rows : r.inst = inst})

(* A page of a list, newest first: the rows after the offset newest ones.  *)
(* Installations are listed by the time they were touched, which does not  *)
(* order those of one instant.                                             *)
Rank(r) == IF table = "installs" THEN r.at ELSE r.id
Listed(scope) == {r \in rows : r.inst \in scope}

IsPage(page, listed, offset) ==
    \E newer \in SUBSET (listed \ page) :
        LET older == listed \ (newer \union page) IN
        /\ Cardinality(newer) <= offset /\ Cardinality(page) <= Limit
        /\ older # {} => Cardinality(newer) = offset /\ Cardinality(page) = Limit
        /\ page # {} => Cardinality(newer) = offset
        /\ \A p \in page : /\ \A r \in newer : Rank(r) >= Rank(p)
                           /\ \A r \in older : Rank(r) <= Rank(p)

PagesOf(scope, offset) ==
    {page \in SUBSET Listed(scope) : IsPage(page, Listed(scope), offset)}

Page(scope, total) ==
    \E offset \in 0..(high + Cardinality(Insts)), items \in SUBSET Listed(scope) :
        /\ Answer([total |-> total, items |-> Names(items), offset |-> offset])
        /\ IsPage(items, Listed(scope), offset)

ListAtOnce(scope) ==
    /\ table \in Paged
    /\ Page(scope, Cardinality(Listed(scope)))
    /\ UNCHANGED <<rows, high, early>> /\ Frame

CountFirst(c, scope) ==
    /\ table \in Paged
    /\ early' = [early EXCEPT ![c] = [total |-> Cardinality(Listed(scope))]]
    /\ UNCHANGED <<rows, high, answer>> /\ Frame

ListThen(c) ==
    /\ c \in up /\ early[c] # Null
    /\ "total" \in DOMAIN early[c]
    /\ \E scope \in Scopes(table) : Page(scope, early[c].total)
    /\ early' = [early EXCEPT ![c] = Null]
    /\ UNCHANGED <<rows, high>> /\ Frame

Call(c) ==
    \/ \E i \in Insts, k \in KeysOf(table) :
           \/ \E v \in Begun(table) :
                  \/ \E n \in Given(table) : Upsert(i, k, v, n)
                  \/ Claim(c, i, k, v)
           \/ Delete(i, k)
    \/ \E i \in Insts, v \in Begun(table) : Add(i, v)
    \/ \E i \in Insts, v \in Begun(table), s \in {Null, "stamped"} : SetStatus(i, v, s)
    \/ \E i \in Insts, ref \in {Null, "account"} : SetExternalAccount(i, ref)
    \/ \E id \in 1..high, v \in Ended(table) : Finish(id, v)
    \/ \E i \in Insts, ids \in SUBSET (1..high) : DeleteByIds(i, ids)
    \/ Purge
    \/ \E scope \in Scopes(table) : ListAtOnce(scope) \/ CountFirst(c, scope)

Next ==
    \/ \E c \in Clients : \/ Ready(c) /\ Call(c)
                          \/ AnswerLater(c) \/ ListThen(c)
    \/ \E cs \in SUBSET Clients : Migrate(cs) \/ Crash(cs)
    \/ Skip \/ Tick

Spec == Init /\ [][Next]_vars

=============================================================================

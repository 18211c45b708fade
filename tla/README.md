# A formal model of the integration kit

The kit (`src/src/`, TypeScript on Node) lets an integrator build a service that ShopiMind
installs, configures and activates over signed webhooks, that pulls data from a third-party
shop and pushes it to the ShopiMind API, and that takes calls from the integrator's own app.
One process serves many installations; its state is a SQLite or PostgreSQL database, a few
in-memory tables, and nothing else. The repository's README (lines 140-141) asks for one
replica.

This directory holds TLA+ modules of the parts in which order, failure and concurrency
matter, the TLC instances that check them, and TLAPS proofs of what matters most. Node runs one
callback at a time, so the unit of interleaving everywhere is *the code between two awaits*:
an action of a module is such a piece of code, and everything else (the clock, the shop, other
calls, the purge, a crash) may happen between two of them.

## 1. Inventory

| Part | Source | State | Operations | Modelled in |
|---|---|---|---|---|
| Sync engine | `sync/engine.ts`, `sync/cursor.ts` | `sync_cursor`, `sync_run`, `rejected_item` rows; locals of a run | `runIntegrationSync`, `runOneSource`, `recordRejects`, `computeWindow`, `backoffWindowMs`, `rejectsTolerated`, `shouldAdvanceCursor` | `SyncEngine` |
| Bulk steps | `integration/define-bulk-step.ts`, `sdk/send-bulk.ts` | the batch and the counters of one step | stream, map, flush, `sendBulk` | `SyncEngine` |
| Inbound calls | `lifecycle/inbound.ts` | `inbound_event` rows | `handleInbound`, `ensureInboundSecret` | `Inbound`, the secret in `Lifecycle` |
| Lifecycle | `lifecycle/dispatcher.ts`, `lifecycle/provisioning-state.ts` | `installs`, `integration_state`, `webhook_seen` rows | `handleWebhook`, five handlers, hooks, `persistProvisioningMap` | `Lifecycle` |
| Configuration | `config/config-store.ts` | the `cfg` and `cfgsec:` keys | `saveConfigs`, `loadConfigs` | `Lifecycle` (saves) |
| Runtime | `runtime/create-app.ts` | `running`, `sweeping`, `stopping` | `runSyncOnce`, `reprovision`, `afterActivate`, sweep, purge, `stop` | `Runtime`, the purge in `Inbound` |
| Health | `runtime/health.ts` | none | `buildHealthReport`, `buildOverview` | `Runtime` (staleness) |
| Stores | `store/port.ts`, `store/repositories.ts`, `store/sqlite/`, `store/postgres/`, `store/time.ts` | nine tables | one statement each, a few two or four; lists, counts, claims, purges | `Port` (the promise), `Store` (both adapters), and the modules that issue the statements |
| Migrations | `store/*/migrations.ts`, `store/sqlite/migrate.ts`, `store/postgres/index.ts` | schema version, `kit_owner`, the stamps of kit v1 | `migrate` | `Store` |
| Provisioning | `provisioning/runner.ts`, `provisioning/ensure.ts` | ids resolved so far | `runProvisioning`, `ensure*`, `topoSortCustomData` | `Provisioning`; one step of `Lifecycle` |
| Rate limiter | `runtime/rate-limiter.ts` | token buckets | allow, evict | `TokenBucket`, used by `Admin` and `Outbound` |
| Outbound HTTP | `runtime/outbound.ts` | none | `makeOutboundLimiter`, `fetchWithRetry` | `Outbound` |
| Admin sessions | `http/admin-session.ts`, `http/admin-auth.ts` | session table | create, check, destroy, evict | `Admin` |
| Admin surface | `http/admin-routes.ts`, `runtime/admin-*.ts` | audit rows | reads, sync, reprovision, purge, reveal, login | `Admin`; `Runtime` (the two that lock) |
| HTTP listeners | `http/server.ts`, `http/routes.ts` | none | wiring; a throw is answered 500 | used by `Inbound`, `Lifecycle` |
| Helpers for steps | `sync/paginate.ts`, `sync/concurrency.ts` | locals | `streamPages`, `mapWithConcurrency` | `Outbound` |
| Scopes, security, contracts, logging, test harness | `sdk/*-scope.ts`, `security/`, `contracts/`, `integration/`, `logging/`, `testing/` | none | tagging, HMAC, masking, types, validation | no: no state that lasts |

How the parts interact:

- A **webhook** is verified, claimed in `webhook_seen` and handled by the dispatcher, which
  writes the status, the token, the configuration, the provisioning map and the secret, calls the
  author's hooks, and releases the claim if the handling failed. It takes no lock.
- A successful **activation** defers a full backfill with `setImmediate`; a timer **sweeps** all
  active installations; the **admin surface** syncs and reprovisions on demand. All of these go
  through the in-memory lock `running`, one entry per installation.
- A **job** that holds the lock builds a context, reads the provisioning map once and calls
  `runIntegrationSync`, which opens a `sync_run` row, walks steps and sources, and moves each
  cursor by the *golden rule*. Rejected items go to `rejected_item` in the background.
- An **inbound call** is verified, looked up, claimed in `inbound_event` and executed; a timer
  purges old rows.
- **Provisioning** walks the declared plan against the ShopiMind API: parents before children, targets
  before the definitions that refer to them; each resource is looked up and created if it is missing.
- An **admin request** passes the rate limiter and the gate (token, or session and CSRF token), acts,
  is audited, and is answered.
- Everything that lasts goes through the **port**, a promise per call, behind which one of two
  adapters runs SQL.
- **stop()** refuses new syncs, stops the listeners and drains the jobs before the store closes.
  Webhook handlers and inbound calls that outlive the listeners are not drained.

What is hard here, and what must hold:

| Behaviour | Must hold |
|---|---|
| one of several pushes fails, the process dies before the cursor write, an item appears late | the cursor never passes an item the API does not have |
| several background dead-letter writers share a budget | the cap holds, nothing is lost below it |
| replays and retries overlap, the claimant dies, `finish` throws, the purge runs | a handler executes once; answers and rows agree |
| a webhook and its resend overlap, a handler fails half-way | one handling per success; the tables say what was answered |
| two writers of the provisioning map, a context older than the map | ids are not lost; hooks and syncs see the ids there are |
| three callers race for the lock while the process stops | one job per installation; no job on a closed store; no installation forgotten |
| two provisionings of one account, calls that fail although they took effect, a merchant who renames and deletes | no resource twice; the best homonym; no error means the plan is there |
| the limiter and the session table at their caps | an allowance is neither lost nor doubled; a session ends for a reason |
| an effect whose audit fails | nothing is answered success before it is in the trail |
| refusals, Retry-After, two workers behind one bucket | every row in its place, no request too soon, an end |
| a call that is several statements; a finish after a purge; two formats of stamps; two boots | every call takes effect at one moment; an id means one row |

The full list, at its lines, is `hazards` in `PROJECT.json`.

## 2. Modules

| Module | What it is |
|---|---|
| `SyncEngine` | one installation's runs: engine, bulk steps, dead letters, the shop, the clock, crashes |
| `SyncEngineProofs` | the golden rule, windows, statuses, the dead letter |
| `Inbound` | overlapping inbound calls over `inbound_event`, with the purge and crashes |
| `InboundProofs` | claims and executions of a key |
| `Lifecycle` | one installation's webhooks against its reprovisionings and syncs |
| `LifecycleProofs` | claims of webhooks, the map, the secret, webhooks one after the other |
| `Runtime` | the process: lock, sweep, backfill, admin calls, stop, crash, health verdict |
| `RuntimeProofs` | exclusion, drain and the health verdict |
| `Provisioning` | overlapping `runProvisioning` calls against the ShopiMind API and the merchant |
| `ProvisioningProofs` | no duplicates, the best homonym, convergence |
| `TokenBucket` | the rate limiter: operators over its table, without variables |
| `Admin` | the admin surface: limiter, sessions, effects, audit (on `TokenBucket`) |
| `AdminProofs` | allowances, sessions, audit |
| `Outbound` | a pull: pages, bounded concurrency, outbound limiter, retries (on `TokenBucket`) |
| `OutboundProofs` | completeness of a pull, the waits partners ask for |
| `Schema` | the nine tables, as `Port` and `Store` both see them |
| `Port` | abstract: what `store/port.ts` promises |
| `Store` | both adapters, statement by statement, which implement `Port` |
| `StoreProofs` | the walk of the console, and that `Store` implements `Port` |
| `MC*` | the functions and symmetry sets the TLC instances need |

What a `*Proofs` module proves holds for every value of the constants that satisfies the named
assumptions of the module it extends.

`Runtime` treats a sync as one step, which `SyncEngine` opens up; `SyncEngine` relies on what
`Runtime` shows, that runs of one installation never overlap. `Lifecycle` abstracts a sync to the
snapshot of the map it works with and adds the writers `Runtime` leaves out.

Definitions named `Mutant_*` are plausible slips in the code, each next to the definition it
would replace. Nothing uses them; substituting one breaks the property `PROJECT.json` names.

### SyncEngine

The world is `now` (a minute is the unit, that of the backoff), the timestamp each upstream item
bears (`stamp`), and what the API took (`delivered`) or rejected in a given run (`refused`). The
engine is `cursors` (the rows), `pc` (where `runIntegrationSync` awaits), `run` and `step` (its
stack frames), `runs` (status of the rows). The dead letter is `budget`, `writers` (calls of
`recordRejects` awaiting `repo.add`) and `deadLetters`. `covered`, `gaps`, `withheld`, `lossy` are history.

`StartRun`, `SkipDisabledStep`, `ResolveSources`, `SkipBackoff`, `BeginSource` are the loop;
`ReadItem`, `EndOfStream`, `Push`, `StepThrows`, `StepReturns` the bulk step; `AdvanceCursor`,
`HoldCursor`, `LeaveCursor` the three ways out of `runOneSource`; `FinishRun`, `StoreThrows`,
`FailRun` the end of a run. A step that throws may have reached the API with any part of its
batch. `stream(ctx)` is the author's: its contract is that, when it ends, it has yielded every
item of the window, both bounds included.

The rule checked is about *items*, not cursors: an item that exists and lies behind
`last_synced_at - Overlap` has been taken by the API, or was refused at a step that tolerates it,
or is older than every window there ever was (`covered` keeps the start of the oldest), or lies in a gap:
a backfill that succeeds moves the cursor past what earlier windows owed and it began too late for
(`gaps`; how that comes about is in section 5). An item may appear up to `Skew` after the time it bears;
`Skew <= Overlap` is the assumption under which `overlapSeconds` can do its work.

### Inbound

A call carries a key (`keyOf`): derived from its signature, which then is valid only in a window
of time, or chosen by the caller as `x-idempotency-key`. `pc`, `claimed` and `reply` are the
call's; `rows` is the table. The claim is the PostgreSQL one: an `INSERT ... ON CONFLICT DO
NOTHING`, a `SELECT`, and the second round if the row vanished in between; SQLite runs both in one
callback and so behaves like a part of it. A statement that throws may have been applied.
The purge deletes by age, whatever the status. The one timing assumption is `Tick`: a unit of the
signature window is longer than the queries between the verification and the claim.

### Lifecycle

A delivery carries a signature, and a signature binds a body: event, whether it brings a token,
whether it brings configs. Copies of one webhook share the signature, which is its claim in
`webhook_seen`. Handlers are followed to each store write and each external call;
`runProvisioning` resolves any subset of the plan in one step (it is best effort per resource).
`Throws` takes an actor to the catch that its place in the code has, `Catches` says which. A crash
ends everyone, and the claims stay. Status `"absent"` is an installation without a row: an
`UPDATE` then changes nothing.

### Runtime

`running` and `jobs` are kept apart, the lock and what it protects, so that the model can tell a
leaked or a stolen lock. `phase` is the life of the process, from `up` to `closed` (the store too)
and `down`. `immediate` holds the deferred backfills, `sweep` the pass in progress with what is left
of its listing. `newest` and `finished` are what `/health` reads of `sync_run`. A listener that
does not stop in time is not modelled: Hapi's own timeout closes its connections.

### Provisioning

`sources` and `defs` are the tables of the API in the order of their ids; `run` holds the locals of each
`runProvisioning`, and `at` names the API call it awaits. A call may fail before it takes effect, or
after. `label` is what the shop calls a source now, which the author's plan repeats; two sources may bear the
same one, and a source is then found by the label of another. A relation is
stored as the id it resolves to, or 0, which stands for the bare name that
`resolveCustomRelationTargets` ships when it has no id. What the API does (names are checked in
application code before the insert, a deletion is logical, an extension only appends) is what the
comments of `ensure.ts` say. `SubmitDef` and `InsertDef` are that check and that insert, with other calls
between them. `disturbed` and `overlapped` are history: the properties are about runs that the merchant,
or another run, did not get in the way of.

### Admin and TokenBucket

A request is its limiter call and gate (one step up to the first await), its effect, its audit, its
answer. The table of buckets and the table of sessions are the code's; `level` is a bucket that is
refilled all the time and never evicted, and `reset` the addresses whose bucket was evicted while it
was not full: `AllowanceKept` compares the two. `rows` are those that a purge or a reveal may be about.
`TokenBucket` counts in fractions of a token (`One` of them make one), so that a call can find half a
token. A request by token is a gate that touches no session.

### Outbound

The helpers put together as their comments say: `streamPages` yields pages, each is mapped by
`mapWithConcurrency`, each item is `fetchWithRetry` of a fetch behind the limiter. A worker is
`gating` (in the loop of the limiter, or asleep) or `fetching`. Waits count down, and the last use of
the bucket moves into the past, so there is no clock to bound. `notBefore` is history: what the
partner asked this worker to wait, cut to `maxDelayMs` as `backoffDelayMs` cuts it (`outbound.ts:100`): a
longer Retry-After is not waited out, and `RetryAfterHonoured` does not say that it is.

### Schema, Port and Store

`table` picks, once per behaviour, which table the calls are about: no statement touches two. Columns
that all statements treat alike are one (see `Schema`). `Port` is the promise: a call takes effect at
one moment between call and answer; a claim or the total of a list may be decided earlier than it is
answered; ids only grow; stamps are instants. `Store` is the code: a call to SQLite is one step, since
better-sqlite3 never yields; a call to PostgreSQL is a step for each statement. A stamp keeps its text
format, and is compared as text. `seq` is AUTOINCREMENT or IDENTITY, which `ON CONFLICT DO NOTHING`
burns. `held` is the id a start or a claim gave its caller, who finishes it whenever he gets to it.
The refinement maps rows to rows with parsed stamps, `seq` to `high`, and a call between two
statements to what is decided of its answer (`Early`). `ReadsAgree` is the part of the promise about
reads of one statement, which are operators of either module. `walk` is an operator in the console
(`paginator` of `admin-ui/ui.html`), who turns the pages while the total says there is another one.

## 3. Runs

`P` runs must pass, `V` runs must find the violation a finding describes.

| Run | | Properties | Question |
|---|---|---|---|
| `golden` | P | TypeOK, GoldenRule, WindowNotInverted | does a cursor ever pass an item, does a window ever invert, under every failure, early and late `advanceTo`, crash |
| `deadletter` | P | DeadLetterCap, DeadLettersComplete, OkRunsWithheldNothing, RunSettles | do overlapping writers keep to the cap and lose nothing; does `ok` mean ok; does everything end |
| `replays` | P | TypeOK, ExecutesOnce, ReplayedWasClaimed, DoneIsRecorded, DoneIsFinal | do three overlapping calls under one key, or under two, execute and answer consistently |
| `webhooks` | P | TypeOK, HandledOnce, ClaimIsOwned, SerialWebhooksTakeEffect, HookSeesFreshIds, HandedSecretHolds | a webhook, its copy and another webhook, of any event |
| `map` | P | MapKeepsIds, SnapshotStaysFresh | an activation, a reprovisioning and a sync over one map |
| `jobs` | P | TypeOK, OneJobPerInstallation, DrainedBeforeClose, NoFalseStall, ActiveIsServed | an admin call, an activation and the sweep over two installations, with syncs that throw, stops and crashes |
| `overlap` | P | TypeOK, NoDuplicates, ResolvesBest, CleanRunConverges | is anything created twice, is the right homonym found, does no error mean the plan is there |
| `sessions` | P | TypeOK, AllowanceKept, AnsweredIsAudited, SessionsLast | what do evictions take, why do sessions end, is success audited |
| `pull` | P | TypeOK, ReturnsEverything, RetryAfterHonoured, PullEnds | does a pull get every row, does it wait as told, does it end |
| `store` | P | TypeOK, WalkSeesAll, ImplementsPort | do both adapters keep the promise of the port; does an operator who pages see all |
| `concurrent` | V | ConcurrentCallsExclude | can two calls run the handler at once |
| `deactivation` | V | DeactivationHolds | does a deactivation answered success hold |

**Bounds.** `golden`: one strict per-source step, two items, batches of one, two runs, clock 0..3.
Two runs are needed (the second reads the cursor the first wrote), two items let one be delivered and
the other not, and with overlap 1, skew 1 and backfill 2 the clock passes every distance between a
stamp and a window. `deadletter`: three items, batches of two and a cap of two, so that the first
push can leave a writer with work when the second starts one, and the cap bites in the middle; one
run, since the budget is per run. `replays`: three calls, so that a third can act on what two others
left; each call carries either key; the clock ends at 5, past signature window (1 + 1) and retention
(2). `webhooks`: two copies and one more webhook; every event for either. `map`: one actor of each
kind and two resources. `jobs`: one admin call, one activation and the sweep, which is three
callers for one lock; either installation or both are active from the start, since a process starts over a
database that is there, so that the sync of one can throw while a pass has the other still to go. A second admin
call does what the first can do beside a backfill; the theorems hold for any number. `overlap`: two runs, two old definitions, two labels, four rows of each
table, over a plan with a parent and a child, one with a relation, one with a cycle and one with a
malformed target; overlapping and one after the other are both there, since a run starts when it likes.
`sessions`: one bucket for two addresses and half a token a tick, so that evictions happen and a bucket
is found half full; three logins for two sessions and a TTL of one tick over two ticks. `pull`: pages
of up to three rows by two workers with three attempts each, so that workers overtake one another, the last
page is short, empty or missing, and the waits of one meet the polls of the other. `store`: two flows or
two processes, pages of one row, two ids (three where a claim burns one or a list needs three pages),
one id per deletion, and four half days, so that the cutoff falls within a day.
`installs` and `inbound_event` are not paged in the run: the first has no tie-breaker
(see 5), the second is listed by the statement of `sync_run`. Symmetry is used for
items, calls, copies, runs, slots, addresses, sessions, installations and clients, never in a run with
a liveness property.

**Fairness.** `SyncEngine`: weak fairness of a run's progress and of a writer's: streams are finite,
HTTP and store calls come back or throw. `Runtime`: the interval timer fires, callbacks run, every
job ends, and the store does not fail *every* listing (strong fairness of `SweepLists`, since a
failing listing is retried only at the next tick). Nothing is assumed of the shop, the triggers, the
faults, stops or restarts. `Outbound`: timers fire, a fetch is answered or fails, a page comes or its fetch
throws, and `Promise.all` resolves; the bucket is refilled (`Refill > 0`), without which the limiter
waits for ever.

## 4. Proofs

Every invariant and action property that a passing run checks is also a theorem, and so is the refinement of
`Port` by `Store`. Only the three liveness properties are not (see the end of this section). Each proof is
an induction over an invariant stronger than the property; the strengthenings of the longer proofs were
checked by TLC on the run's instance before they were proved.

| Module | Theorems (property) | Inductive invariant |
|---|---|---|
| `SyncEngineProofs` | `TypeCorrect` (TypeOK), `GoldenRuleHolds` (GoldenRule), `WindowsHold` (WindowNotInverted), `OkMeansOk` (OkRunsWithheldNothing), `DeadLetterCapHolds` (DeadLetterCap), `DeadLettersAreComplete` (DeadLettersComplete) | `GoldenInv`, `StatusInv`, `LetterInv` |
| `InboundProofs` | `TypeCorrect` (TypeOK), `HandlerBeginsOnce` (ExecutesOnce), `ReplaysAreReplays` (ReplayedWasClaimed), `DoneStaysRecorded` (DoneIsRecorded), `DoneRowsAreFinal` (DoneIsFinal) | `InboundInv` |
| `LifecycleProofs` | `TypeCorrect` (TypeOK), `WebhookHandledOnce` (HandledOnce), `ClaimsAreOwned` (ClaimIsOwned), `NoIdIsLost` (MapKeepsIds), `HooksSeeFreshIds` (HookSeesFreshIds), `SnapshotsStayFresh` (SnapshotStaysFresh), `HandedSecretsHold` (HandedSecretHolds), `LastWebhookIsInEffect` (SerialWebhooksTakeEffect) | `ClaimInv`, `MapInv`, `SecretInv`, `SerialInv` |
| `RuntimeProofs` | `RuntimeTypeCorrect` (TypeOK), `LockExcludes` (OneJobPerInstallation), `StopDrains` (DrainedBeforeClose), `SyncUnderWayIsNotStalled` (NoFalseStall) | `LockInv`, `RowsMatchJobs` |
| `ProvisioningProofs` | `TypeCorrect` (TypeOK), `NothingIsDuplicated` (NoDuplicates), `BestIsResolved` (ResolvesBest), `CleanRunsConverge` (CleanRunConverges) | `TypeInv`, `DupInv`, `BestInv`, `ConvInv` |
| `AdminProofs` | `TypeCorrect` (TypeOK), `EvictionIsHarmless` (AllowanceKept), `EffectsAreAudited` (AnsweredIsAudited), `SessionsEndForAReason` (SessionsLast) | `AdminInv` |
| `OutboundProofs` | `TypeCorrect` (TypeOK), `PartnersAreHonoured` (RetryAfterHonoured), `NothingIsSkipped` (ReturnsEverything) | `PullInv` |
| `StoreProofs` | `TypeCorrect` (TypeOK), `WalksSeeEverything` (WalkSeesAll), `StoreKeepsPromise` (`Promise!Spec`), `StoreImplementsPort` (ImplementsPort) | `TypeInv`, `WalkInv`, `ClaimInv`, `RefInv` |

### Why the invariants need their strengthenings

**SyncEngine.** To know that a cursor may move to `until` one must know that the batch is empty, that what was read
went to the API or to the accumulator, that the stream left nothing of the window unread, and that the frame
still agrees with the row. `GoldenInv` adds `ReturnedIsFlushed`, `ReadIsAccounted`, `EndedIsComplete`
(up to items younger than `Skew`, which the overlap then covers), `WindowsOpened` (a cursor that stands
somewhere has had a window, and the oldest one began at least `Backfill` before the present), `FrameFresh` and `CursorsInThePast`. The
step that needs all conjuncts is `AdvanceCursor`, and `SkewAssumption` is used there only. For the dead
letter, `LetterInv` says that rows, writers in flight and what is left of the budget never exceed the cap
(`ChargedAhead`), and make it up exactly as long as nothing was lost (`NothingLost`); that no item is on its way
twice (`OwedOnce`); and that a run pushes an item once (`PushedOnce`). The last one needs the steps of an
integration to be distinct, which `define-integration.ts` checks and `StepsAssumption` says.

**Inbound.** A key is followed through its claims. The row of a signature is younger than the signature's window, so
the purge takes it only when no call under that signature is let in any more (`RetentionAssumption` is used there
only); the second round of `claim` is therefore for idempotency keys. What an execution finishes is the row it
claimed, or a row that was purged.

**Lifecycle.** `ClaimInv`: whoever has begun holds the claim, unless it has failed. `MapInv`: at most one job, and as
long as no read failed or was overtaken (`raced`), whoever is about to write has read what is stored. `SecretInv`: as
long as no two contexts found no secret (`doubled`), at most one actor is about to store one, and what the
others hold is what is stored; they may overlap in any other way. As long as nobody overlapped, one actor is at
work (`OneAtATime`). `SerialInv` adds where in its handler the delivery at work is, and
what the tables say at each such place; the properties are about a delivery's end, which is not inductive without
what was written on the way.

**Runtime.** `LockMatchesJobs`: the lock holds exactly the installations that have a job. Without it, a job could not be
known to hold the lock it releases, nor an empty lock to mean that nothing is in flight. On top of it,
`RowsMatchJobs` says that the newest row of an installation is that of its run in progress.

**Provisioning.** The layers rest on one another. What a run looked for in vain is still missing when it creates it
(`NoneThere`, for runs that do not overlap); what it found is still the best (`FoundBest`), which needs that no other
run is creating a rival (`NoRival`); and relations that were stored point at what was resolved (`RelsResolved`),
except for a definition's relation to itself (`SelfByName`).

**Admin.** `AllowanceKept` is inductive with the types of the bucket and `last <= now`: both passes of `evict` keep
it, and the cap holds because pass 2 removes at least one. For `SessionsLast`, that a session bears its last use and is
neither ended nor unknown.

**Outbound.** While a page is mapped, every index below the shared cursor is stored or at some worker, and a worker
stops only at the end (`PageInvariant`); the pages before the current one were full (`DeliveredInvariant`); a worker
sleeps at least what it was told (`WaitsEnough`).

**Store.** `TypeInv` is about ids and keys of their own, stamps of one format once the application serves, and greater
ids not being older, which the order of the lists and the purge both rest on. `WalkInv` counts: as many rows are
newer than one that is due as the operator has gone past; additions add to them, and a purge takes the
oldest. `ClaimInv` is what a claim of PostgreSQL may rely on between its statements: a call is short beside a tick
of the clock, so that the row it has met cannot be purged, and nobody else holds the id it was given. `RefInv` bounds
how far a listing has turned: a walk never gets further than `seq` plus the number of installations, which gives the
offset and the total that the promise decides on. The refinement has a lemma for each statement, saying which step of
`Port` it is: `Begin`, the decision, the answer, or none. What is read by one statement is shown to agree
separately (`ReadsAlwaysAgree`): sorting by text and sorting by instant agree where all stamps have the same format.

### Assumptions

They are those named in the modules, and TLC evaluates them in every run. Most say that a bound is a number, that a
set is finite, or that `Null` is none of the values. Those that say something about the code or its use:

- `StepsAssumption`: no entity has two steps (checked by `defineIntegration`);
- `SkewAssumption`: the overlap covers the skew of the source's clock, which is what `overlapSeconds` is for;
- `RetentionAssumption`: rows are kept longer than a signature is valid (90 days and 5 minutes by default);
- `PlansAssumption`: a plan lists each of its sources, and refers to its own definitions;
- `BucketAssumption`: a bucket can hold a token; `OutboundAssumption`: it is refilled;
- `CallersAssumption`, `ActorsAssumption`: calls of different kinds are different calls;
- `PlanAssumption`: what is mapped is among what is provisioned;
- `StoreAssumption`: the clock starts within its bound, and every table can hold an id.

The bounds (`MaxTime`, `MaxRows`, `MaxId`, ...) are guards of the models, and constants in the theorems: what is
proved holds for any bound.

### What the proofs turned up

In `Lifecycle` and in `Turned` of `Store`, two guards of one `CASE` overlapped, which leaves the value open;
TLC took the first one, a proof cannot. They are disjoint now, as the `if`s of the code are. A source whose
declared parent is not in the plan has an undefined parent (`runner.ts:37` reads the map of ids), and `ParentId` now says so.
`StepsAssumption` did not say that steps are distinct; with an entity twice, a run could push an item twice, and
charge the budget of the dead letter twice for one row.

### Only model-checked

The liveness properties `RunSettles`, `ActiveIsServed` and `PullEnds`: the installed provers do not reach liveness under
fairness, nor `ENABLED`. `ConcurrentCallsExclude` and `DeactivationHolds` are false. That the mutants are caught is
TLC's business too. Induction over data is out of reach, but not needed: there are no `RECURSIVE` operators
here, and sums and orders over finite sets are reasoned about by cardinalities and bijections.

## 5. What the code does otherwise than it says

Two disagreements have a run (`findings` in `PROJECT.json` quotes the lines):

1. `concurrent`: a row found `failed` is executed without being claimed again.
2. `deactivation`: while an activation is in progress the status is `inactive`, and a deactivation is
   taken for a repeated one.

Four follow from the models and have no run of their own:

- a first backfill that fails leaves the cursor null, and the next window starts `backfillDays` before
  *then*: the oldest items of the failed window are in no later one (`sync/engine.ts:384`, against 304-306).
  A *full* backfill does the same at any time: it begins `backfillDays` ago whatever the cursor says, so when
  failures have held the cursor for longer than that and the full run succeeds, the cursor moves past the windows
  it was held for ("a partial failure replays its window on the next run - no silent data loss",
  `sync/cursor.ts:5-6`). Both are `gaps` in `GoldenRule`, which excludes them and nothing else between the
  first window and the cursor;
- a bulk step's `items` counts the rejected ones, so `rejected / (items + rejected)` counts them twice
  below the line (`sync/engine.ts:86`, against `integration/types.ts:123-125`);
- a row left `received` by a crash answers every retry with success, and is never handled
  (`lifecycle/inbound.ts:135`, against `store/sqlite/migrations.ts:104-105`);
- a backfill that finds the lock held is dropped (`runtime/create-app.ts:227`, against line 80).

Five more were met while modelling. The properties that pass say exactly where they begin, by the
history variable that excludes them:

- a crash, or a release that throws, leaves the claim of a webhook that did not succeed
  (`ClaimIsOwned`; `store/sqlite/migrations.ts:125-126` says it is kept only on success);
- two overlapping writers of the map, or one read that fails, lose ids (`raced` in `MapKeepsIds`;
  `provisioning-state.ts:28-29`);
- a webhook rewrites the map under a running sync (`intruded` in `SnapshotStaysFresh`;
  `create-app.ts:238-239`);
- a context that finds no inbound secret while another has found none and not stored its own yet generates a
  second one (`doubled` in `HandedSecretHolds`; `lifecycle/inbound.ts:24-27`);
- `/health` looks at the newest run only: one that hangs, or was left `running` by a crash, hides
  the age of the last finished one (`NoFalseStall` is the half that holds; `health.ts:12`).

And of the parts modelled last:

- "the sibling is always created before this definition" (`provisioning/runner.ts:107-108`) fails when the
  sibling could not be ensured: the relation ships its bare name, later runs find it stored and neither
  replace nor report it (the `0` that `CleanRunConverges` allows);
- a child whose parent failed is created without it, and stays so (`runner.ts:37`);
- pass 1 of `evict` looks at token counts that are refilled only on use, so it finds only buckets that
  were full when last used, and a call always takes one: idle buckets are not "pruned first"
  (`rate-limiter.ts:8-10`, 36). Pass 2 may evict a throttled bucket, whose address then gets a fresh one
  (`reset` in `AllowanceKept`). A clock that steps back makes tokens negative; the model's does not;
- what a purge, a sync or a login has done stays done when its audit throws, and a reprovisioning that
  throws half-way is not audited at all ("expected to be audited", `admin-actions.ts:8`); a login
  whose audit throws leaves a session that nobody has the cookie of;
- `GET /admin/installations/{id}/rejected` answers unmasked payloads, without an audit
  (`admin-routes.ts:362-375`, where `admin-data.ts:19-21` says that only the audited reveal does):
  `AnsweredIsAudited` is about the reveal, and not about this listing;
- a list of the PostgreSQL adapter is two statements ("One call = one atomic statement",
  `store/port.ts:28`), so its total and its page may be of different moments; and deleting by id while paging
  makes the console skip rows. `WalkSeesAll` gives the walk up exactly there;
- installations are listed by `updated_at` with no tie-breaker: those touched in one millisecond may
  swap between pages;
- `store/time.ts:10-13` says that comparisons with stamps of kit v1 "stay correct because the date part sorts
  identically"; `sqlite/migrations.ts:217-222` says why they do not. The migration makes it moot,
  and without it `ImplementsPort` fails;
- `ON CONFLICT DO NOTHING` draws an id of the int4 sequence for each conflicting claim.

## 6. Not modelled

Cryptography, HTTP parsing and wording of answers; the patterns that mask a payload; the composition of
overview and dashboard answers; substring search and the optional filters of lists; validation of an
integration's declaration; widget and configuration schemas; the wizard's `handleTestConnection` and
`handleRemoteData`, which change no state; a webhook without an installation id. Of a custom definition, the fields
(they are extended like relations); of the API's listing, that it ends at 100 rows
(`MAX_LISTING_PAGE`: a definition beyond them would be created again, and refused). The pool of PostgreSQL
connections, its timeouts and `ping()`. What `map()` of a bulk step skips is not an item. Steps that are not bulk steps are the author's
code: the engine's side of them is that of any step. Two replicas over one database are outside of what the
repository supports.

## 7. Plan

Done: all modules above with their runs, and the proof of every invariant, of the two action properties and of the refinement
of `Port`. Next, in this order:

1. Abstract specifications proved as refinements: *execute at most once per key* by `Inbound`, *a mutual exclusion
   of jobs* by `Runtime`, so that the promise reads without the detail.
2. Shorter proofs: the lemmas about frames that `LifecycleProofs`, `ProvisioningProofs` and `StoreProofs` repeat for
   each action.
3. `Configuration`: torn reads and overlapping saves of `config-store.ts`; `Provisioning` in place of the one
   step that `Lifecycle` has for it.

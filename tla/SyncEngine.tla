----------------------------- MODULE SyncEngine -----------------------------
(***************************************************************************)
(* The sync engine of one installation: runIntegrationSync of              *)
(* src/sync/engine.ts with its cursors, its windows, its exponential       *)
(* backoff, its reject accumulator and its dead-letter writers, running    *)
(* the steps that defineBulkStep (src/integration/define-bulk-step.ts)     *)
(* builds and that push through sendBulk (src/sdk/send-bulk.ts).           *)
(*                                                                         *)
(* Node runs one callback at a time: an action is the code between two     *)
(* awaits, and the clock, the upstream shop, the dead-letter writers and a *)
(* crash interleave between the actions.  One time unit is one minute, the *)
(* unit of the backoff.  The per-installation lock of create-app.ts admits *)
(* one run at a time, so `run` is a single record.                         *)
(***************************************************************************)
EXTENDS Integers, Sequences, FiniteSets

CONSTANTS
    Steps,          \* integration.syncSteps, as the sequence of their entities
    Scope,          \* entity -> "global", "per-source", or "no-sources" (per-source without sources())
    Policy,         \* entity -> tolerateRejects: "hold" (false), "always" (true), "ratio" ({ maxRatio })
    RatioNum,       \* maxRatio = RatioNum / RatioDen
    RatioDen,
    Sources,        \* the source keys sources() may return
    Items,          \* upstream items
    KeyOf,          \* item -> the <<entity, source>> whose stream yields it
    BatchSize,      \* records per push
    Backfill,       \* backfillDays
    Overlap,        \* overlapSeconds
    Skew,           \* an item appears at most Skew after the time it bears
    AdvanceOffsets, \* what advanceTo returns, relative to window.until; Null for no advance
    MaxBackoff,     \* cap of the backoff window
    RejectedCap,    \* REJECTED_ITEMS_CAP_PER_RUN
    MaxTime,        \* bound on the clock
    MaxRuns,        \* bound on the number of runs
    Null            \* null and undefined

GlobalSource == ""
Entities == {Steps[n] : n \in DOMAIN Steps}
Keys == Entities \X (Sources \union {GlobalSource})
RunIds == 1..MaxRuns

ASSUME StepsAssumption ==
    /\ Steps \in Seq(STRING)
    \* "duplicate sync step for entity" (define-integration.ts).
    /\ \A m, n \in DOMAIN Steps : Steps[m] = Steps[n] => m = n
    /\ Scope \in [Entities -> {"global", "per-source", "no-sources"}]
    /\ Policy \in [Entities -> {"hold", "always", "ratio"}]
    /\ KeyOf \in [Items -> Keys]
    /\ IsFiniteSet(Items)

ASSUME BoundsAssumption ==
    /\ RatioNum \in Nat /\ RatioDen \in Nat
    /\ BatchSize \in Nat \ {0}
    /\ Backfill \in Nat /\ Overlap \in Nat /\ Skew \in Nat
    /\ AdvanceOffsets \subseteq Int \union {Null}
    /\ MaxBackoff \in Nat /\ RejectedCap \in Nat
    /\ MaxTime \in Nat /\ MaxRuns \in Nat

ASSUME NullAssumption == Null \notin Int /\ Null \notin Keys

(* overlapSeconds exists for "a source with slightly skewed clocks": what   *)
(* the engine promises, it promises when the overlap covers the skew.       *)
ASSUME SkewAssumption == Skew <= Overlap

VARIABLES
    now,         \* the clock
    stamp,       \* item -> the timestamp it bears upstream, Null while it does not exist yet
    delivered,   \* items the ShopiMind API acknowledged
    refused,     \* <<run, item>>: the API rejected the item in a push of that run
    cursors,     \* key -> its sync_cursor row
    pc,          \* where runIntegrationSync awaits
    run,         \* the run in progress: what its stack frame and closures hold
    step,        \* the step-source in progress: the frame of runOneSource and of the bulk step
    runs,        \* run -> status of its sync_run row, "none" before it is inserted
    budget,      \* run -> deadLetterBudget.remaining
    writers,     \* recordRejects calls in flight, each awaiting repo.add of one item
    deadLetters, \* <<run, item>>: rows of rejected_item
    covered,     \* history: key -> start of the oldest window ever opened, Null before the first
    gaps,        \* history: key -> timestamps a backfill left out, though earlier windows owed them
    withheld,    \* history: runs that recorded a failure or misconfiguration
    lossy        \* history: runs that lost a dead letter to a store error or a crash

engineVars == <<cursors, pc, run, step, runs>>
letterVars == <<budget, writers, deadLetters>>
historyVars == <<covered, gaps, withheld, lossy>>
worldVars == <<now, stamp, delivered, refused>>
vars == <<worldVars, engineVars, letterVars, historyVars>>

-----------------------------------------------------------------------------
(* Values.                                                                 *)

CursorRow == [last_synced_at: Int \union {Null}, last_status: {"none", "ok", "error"},
              consecutive_failures: Nat, updated_at: Int]

(* A missing row reads as this one: cursor?.last_synced_at ?? null,        *)
(* cursor?.consecutive_failures ?? 0.                                      *)
NoRow == [last_synced_at |-> Null, last_status |-> "none",
          consecutive_failures |-> 0, updated_at |-> 0]

RunFrame == [id: Nat, full: BOOLEAN, at: Nat, sources: SUBSET Keys,
             errors: BOOLEAN, batches: Nat]

StepFrame == [key: Keys \union {Null}, since: Int, until: Int, cursor: CursorRow,
              backfill: BOOLEAN, seen: SUBSET Items, ended: BOOLEAN,
              batch: SUBSET Items, items: Nat, rejects: Nat,
              errors: BOOLEAN, advanceTo: Int \union {Null}]

IdleStep == [key |-> Null, since |-> 0, until |-> 0, cursor |-> NoRow,
             backfill |-> FALSE, seen |-> {}, ended |-> FALSE,
             batch |-> {}, items |-> 0, rejects |-> 0,
             errors |-> FALSE, advanceTo |-> Null]

Writer == [run: RunIds, batch: Nat, item: Items, left: SUBSET Items]

PCs == {"idle", "loop", "stepping", "settling", "failing"}

Lesser(a, b) == IF a < b THEN a ELSE b

-----------------------------------------------------------------------------
(* Decisions of the engine.                                                *)

(* backoffWindowMs: 2^(n-1) minutes after n consecutive failures, capped.  *)
BackoffWindow(n) == IF n <= 0 THEN 0 ELSE Lesser(2 ^ (n - 1), MaxBackoff)

InBackoff(row, full) ==
    /\ ~full
    /\ row.consecutive_failures > 0
    /\ now < row.updated_at + BackoffWindow(row.consecutive_failures)

IsBackfill(row, full) == full \/ row.last_synced_at = Null

Mutant_WindowSince_NoOverlap(row, full) ==
    IF IsBackfill(row, full) THEN now - Backfill ELSE row.last_synced_at

(* computeWindow: since of a window whose until is the present.            *)
WindowSince(row, full) ==
    IF IsBackfill(row, full) THEN now - Backfill ELSE row.last_synced_at - Overlap

(* rejectsTolerated: the ratio is rejected / (items + rejected).           *)
Tolerated(entity, rejected, items) ==
    \/ Policy[entity] = "always"
    \/ /\ Policy[entity] = "ratio"
       /\ \/ items + rejected <= 0
          \/ rejected * RatioDen <= RatioNum * (items + rejected)

BlockedByRejects == step.rejects > 0 /\ ~Tolerated(step.key[1], step.rejects, step.items)

(* shouldAdvanceCursor and the reject hold.                                *)
Advances == ~step.errors /\ step.advanceTo # Null /\ ~BlockedByRejects

(* errors.length > 0 once the reject message has been pushed.              *)
Fails == step.errors \/ BlockedByRejects

Mutant_Clamped_NotAtAll(advanceTo, until) == advanceTo

(* Never past the upper bound of the window.                               *)
Clamped(advanceTo, until) == IF advanceTo > until THEN until ELSE advanceTo

(* History: the start of the oldest window opened so far.                  *)
Oldest(start, since) == IF start = Null THEN since ELSE Lesser(start, since)

(* History: where the window in progress ought to begin, to hold all that  *)
(* earlier windows began to sync and the cursor has not passed.            *)
OwedFrom ==
    IF step.cursor.last_synced_at = Null THEN covered[step.key]
    ELSE step.cursor.last_synced_at - Overlap

(* History: what a backfill leaves out of it, as it begins backfillDays    *)
(* before the present and not before the last success.                     *)
LeftOut == IF step.backfill THEN OwedFrom..(step.since - 1) ELSE {}

(* In the window of the step in progress.                                  *)
InWindow(i) == stamp[i] # Null /\ step.since <= stamp[i] /\ stamp[i] <= step.until

-----------------------------------------------------------------------------
Init ==
    /\ now = 0
    /\ stamp = [i \in Items |-> Null]
    /\ delivered = {} /\ refused = {}
    /\ cursors = [k \in Keys |-> NoRow]
    /\ pc = "idle"
    /\ run = [id |-> 0, full |-> FALSE, at |-> 1, sources |-> {}, errors |-> FALSE, batches |-> 0]
    /\ step = IdleStep
    /\ runs = [r \in RunIds |-> "none"]
    /\ budget = [r \in RunIds |-> RejectedCap]
    /\ writers = {} /\ deadLetters = {}
    /\ covered = [k \in Keys |-> Null]
    /\ gaps = [k \in Keys |-> {}]
    /\ withheld = {} /\ lossy = {}

(***************************************************************************)
(* The world outside: the clock, and the upstream shop.                    *)
(***************************************************************************)
Tick ==
    /\ now < MaxTime
    /\ now' = now + 1
    /\ UNCHANGED <<stamp, delivered, refused, engineVars, letterVars, historyVars>>

Appear(i) ==
    /\ stamp[i] = Null
    /\ \E t \in (now - Skew)..now : stamp' = [stamp EXCEPT ![i] = t]
    /\ UNCHANGED <<now, delivered, refused, engineVars, letterVars, historyVars>>

(***************************************************************************)
(* runIntegrationSync: the loop over steps and sources.                    *)
(***************************************************************************)
StartRun(full) ==
    /\ pc = "idle" /\ run.id < MaxRuns
    /\ pc' = "loop"
    /\ run' = [id |-> run.id + 1, full |-> full, at |-> 1, sources |-> {},
               errors |-> FALSE, batches |-> 0]
    /\ runs' = [runs EXCEPT ![run.id + 1] = "running"]
    /\ UNCHANGED <<worldVars, cursors, step, letterVars, historyVars>>

AtNextStep == pc = "loop" /\ run.sources = {} /\ run.at <= Len(Steps)

SkipDisabledStep ==
    /\ AtNextStep
    /\ run' = [run EXCEPT !.at = @ + 1]
    /\ UNCHANGED <<worldVars, cursors, pc, step, runs, letterVars, historyVars>>

(* One key for a global step; whatever sources() returns for a per-source  *)
(* one; without sources(), an error of the run and nothing to do.          *)
ResolveSources ==
    /\ AtNextStep
    /\ LET e == Steps[run.at] IN
       \/ /\ Scope[e] = "global"
          /\ run' = [run EXCEPT !.at = @ + 1, !.sources = {<<e, GlobalSource>>}]
          /\ UNCHANGED withheld
       \/ /\ Scope[e] = "per-source"
          /\ \E S \in SUBSET Sources : run' = [run EXCEPT !.at = @ + 1, !.sources = {e} \X S]
          /\ UNCHANGED withheld
       \/ /\ Scope[e] = "no-sources"
          /\ run' = [run EXCEPT !.at = @ + 1, !.errors = TRUE]
          /\ withheld' = withheld \union {run.id}
    /\ UNCHANGED <<worldVars, cursors, pc, step, runs, letterVars, covered, gaps, lossy>>

SourcesThrow ==
    /\ AtNextStep /\ Scope[Steps[run.at]] = "per-source"
    /\ pc' = "failing"
    /\ UNCHANGED <<worldVars, cursors, run, step, runs, letterVars, historyVars>>

(* The step-source is inside its backoff window: no error, no write.       *)
SkipBackoff(k) ==
    /\ pc = "loop" /\ k \in run.sources
    /\ InBackoff(cursors[k], run.full)
    /\ run' = [run EXCEPT !.sources = @ \ {k}]
    /\ UNCHANGED <<worldVars, cursors, pc, step, runs, letterVars, historyVars>>

(* The cursor is read, the window computed, step.run called.               *)
BeginSource(k) ==
    /\ pc = "loop" /\ k \in run.sources
    /\ ~InBackoff(cursors[k], run.full)
    /\ pc' = "stepping"
    /\ run' = [run EXCEPT !.sources = @ \ {k}]
    /\ step' = [IdleStep EXCEPT !.key = k, !.cursor = cursors[k], !.until = now,
                               !.since = WindowSince(cursors[k], run.full),
                               !.backfill = IsBackfill(cursors[k], run.full)]
    /\ covered' = [covered EXCEPT ![k] = Oldest(@, WindowSince(cursors[k], run.full))]
    /\ UNCHANGED <<worldVars, cursors, runs, letterVars, gaps, withheld, lossy>>

(***************************************************************************)
(* The bulk step: stream, map, push in batches.                            *)
(***************************************************************************)
BatchFull == Cardinality(step.batch) >= BatchSize

ReadItem(i) ==
    /\ pc = "stepping" /\ ~step.ended /\ ~BatchFull
    /\ KeyOf[i] = step.key /\ InWindow(i) /\ i \notin step.seen
    /\ step' = [step EXCEPT !.seen = @ \union {i}, !.batch = @ \union {i}]
    /\ UNCHANGED <<worldVars, cursors, pc, run, runs, letterVars, historyVars>>

(* The contract of stream(ctx): it yields every item the window holds when *)
(* it ends, both bounds included.                                          *)
EndOfStream ==
    /\ pc = "stepping" /\ ~step.ended /\ ~BatchFull
    /\ \A i \in Items : KeyOf[i] = step.key /\ InWindow(i) => i \in step.seen
    /\ step' = [step EXCEPT !.ended = TRUE]
    /\ UNCHANGED <<worldVars, cursors, pc, run, runs, letterVars, historyVars>>

Mutant_RecordRejects_Unbounded(r, n, left, others) ==
    IF left # {}
    THEN /\ \E i \in left :
               writers' = others \union {[run |-> r, batch |-> n, item |-> i, left |-> left \ {i}]}
         /\ budget' = [budget EXCEPT ![r] = @ - 1]
    ELSE writers' = others /\ UNCHANGED budget

(* recordRejects up to its first await: the budget is charged before       *)
(* repo.add.  left are the items the call has still to add.                *)
RecordRejects(r, n, left, others) ==
    IF left # {} /\ budget[r] > 0
    THEN /\ \E i \in left :
               writers' = others \union {[run |-> r, batch |-> n, item |-> i, left |-> left \ {i}]}
         /\ budget' = [budget EXCEPT ![r] = @ - 1]
    ELSE writers' = others /\ UNCHANGED budget

Mutant_FlushDue_FullOnly == BatchFull

(* A full batch, or what is left of the stream at its end.                 *)
FlushDue == step.batch # {} /\ (BatchFull \/ step.ended)

(* flush: the API took the batch and rejected the items of rejected.  The  *)
(* bulk step counts every record sent, the rejected ones included.         *)
Push(rejected) ==
    /\ pc = "stepping" /\ FlushDue
    /\ delivered' = delivered \union (step.batch \ rejected)
    /\ refused' = refused \union ({run.id} \X rejected)
    /\ step' = [step EXCEPT !.batch = {},
                           !.items = @ + Cardinality(step.batch),
                           !.rejects = @ + Cardinality(rejected)]
    /\ run' = [run EXCEPT !.batches = @ + 1]
    /\ RecordRejects(run.id, run.batches, rejected, writers)
    /\ UNCHANGED <<now, stamp, cursors, pc, runs, deadLetters, historyVars>>

(* stream, map or push throws; a push may have reached the API in part.    *)
StepThrows(sent) ==
    /\ pc = "stepping"
    /\ sent # {} => FlushDue
    /\ delivered' = delivered \union sent
    /\ step' = [step EXCEPT !.batch = {}, !.errors = TRUE]
    /\ pc' = "settling"
    /\ UNCHANGED <<now, stamp, refused, cursors, run, runs, letterVars, historyVars>>

StepReturns(offset) ==
    /\ pc = "stepping" /\ step.ended /\ step.batch = {}
    /\ step' = [step EXCEPT !.advanceTo = IF offset = Null THEN Null ELSE step.until + offset]
    /\ pc' = "settling"
    /\ UNCHANGED <<worldVars, cursors, run, runs, letterVars, historyVars>>

(***************************************************************************)
(* runOneSource after step.run: the golden rule.                           *)
(***************************************************************************)
AdvanceCursor ==
    /\ pc = "settling" /\ Advances
    /\ cursors' = [cursors EXCEPT ![step.key] =
                     [last_synced_at |-> Clamped(step.advanceTo, step.until), last_status |-> "ok",
                      consecutive_failures |-> 0, updated_at |-> now]]
    /\ gaps' = [gaps EXCEPT ![step.key] = {t \in @ : t < step.since} \union LeftOut]
    /\ pc' = "loop" /\ step' = IdleStep
    /\ UNCHANGED <<worldVars, run, runs, letterVars, covered, withheld, lossy>>

HoldCursor ==
    /\ pc = "settling" /\ ~Advances /\ Fails
    /\ cursors' = [cursors EXCEPT ![step.key] =
                     [last_synced_at |-> step.cursor.last_synced_at, last_status |-> "error",
                      consecutive_failures |-> step.cursor.consecutive_failures + 1,
                      updated_at |-> now]]
    /\ run' = [run EXCEPT !.errors = TRUE]
    /\ withheld' = withheld \union {run.id}
    /\ pc' = "loop" /\ step' = IdleStep
    /\ UNCHANGED <<worldVars, runs, letterVars, covered, gaps, lossy>>

(* Clean, but advanceTo returned null: nothing is written.                 *)
LeaveCursor ==
    /\ pc = "settling" /\ ~Advances /\ ~Fails
    /\ pc' = "loop" /\ step' = IdleStep
    /\ UNCHANGED <<worldVars, cursors, run, runs, letterVars, historyVars>>

(***************************************************************************)
(* The end of a run.                                                       *)
(***************************************************************************)
Mutant_FinalStatus_AlwaysOk == "ok"

FinalStatus == IF run.errors THEN "partial" ELSE "ok"

FinishRun ==
    /\ pc = "loop" /\ run.sources = {} /\ run.at > Len(Steps)
    /\ runs' = [runs EXCEPT ![run.id] = FinalStatus]
    /\ pc' = "idle"
    /\ UNCHANGED <<worldVars, cursors, run, step, letterVars, historyVars>>

(* A store call of the run throws: cursors.get, cursors.set or runs.finish.*)
StoreThrows ==
    /\ \/ pc = "loop" /\ (run.sources # {} \/ run.at > Len(Steps))
       \/ pc = "settling" /\ (Advances \/ Fails)
    /\ pc' = "failing" /\ step' = IdleStep
    /\ UNCHANGED <<worldVars, cursors, run, runs, letterVars, historyVars>>

(* The catch: the row is marked failed, unless the store fails again.      *)
FailRun ==
    /\ pc = "failing"
    /\ \E status \in {"failed", "running"} : runs' = [runs EXCEPT ![run.id] = status]
    /\ pc' = "idle"
    /\ UNCHANGED <<worldVars, cursors, run, step, letterVars, historyVars>>

(***************************************************************************)
(* recordRejects in the background, and a crash of the process.            *)
(***************************************************************************)
Mutant_DeadLetterAdded_NoBreak(w) ==
    /\ deadLetters' = deadLetters \union {<<w.run, w.item>>}
    /\ writers' = (writers \ {w}) \union
                  {[w EXCEPT !.item = i, !.left = @ \ {i}] : i \in w.left}
    /\ UNCHANGED <<worldVars, engineVars, budget, historyVars>>

Mutant_DeadLetterAdded_FirstOnly(w) ==
    /\ deadLetters' = deadLetters \union {<<w.run, w.item>>}
    /\ writers' = writers \ {w}
    /\ UNCHANGED <<worldVars, engineVars, budget, historyVars>>

DeadLetterAdded(w) ==
    /\ deadLetters' = deadLetters \union {<<w.run, w.item>>}
    /\ RecordRejects(w.run, w.batch, w.left, writers \ {w})
    /\ UNCHANGED <<worldVars, engineVars, historyVars>>

(* Any store error ends the call and is swallowed.                         *)
DeadLetterFails(w) ==
    /\ writers' = writers \ {w}
    /\ lossy' = lossy \union {w.run}
    /\ UNCHANGED <<worldVars, engineVars, budget, deadLetters, covered, gaps, withheld>>

Crash ==
    /\ pc # "idle" \/ writers # {}
    /\ pc' = "idle" /\ step' = IdleStep /\ writers' = {}
    /\ lossy' = lossy \union {w.run : w \in writers}
    /\ UNCHANGED <<worldVars, cursors, run, runs, budget, deadLetters, covered, gaps, withheld>>

(* The bounds of the model are exhausted.                                  *)
BoundsReached ==
    /\ pc = "idle" /\ run.id = MaxRuns /\ now = MaxTime /\ writers = {}
    /\ \A i \in Items : stamp[i] # Null
    /\ UNCHANGED vars

-----------------------------------------------------------------------------
RunProgress ==
    \/ SkipDisabledStep \/ ResolveSources
    \/ \E k \in Keys : SkipBackoff(k) \/ BeginSource(k)
    \/ \E i \in Items : ReadItem(i)
    \/ EndOfStream
    \/ \E rejected \in SUBSET step.batch : Push(rejected)
    \/ \E d \in AdvanceOffsets : StepReturns(d)
    \/ AdvanceCursor \/ HoldCursor \/ LeaveCursor
    \/ FinishRun \/ FailRun

RunFault ==
    \/ SourcesThrow \/ StoreThrows
    \/ \E sent \in SUBSET step.batch : StepThrows(sent)

Next ==
    \/ Tick
    \/ \E i \in Items : Appear(i)
    \/ \E full \in BOOLEAN : StartRun(full)
    \/ RunProgress
    \/ RunFault
    \/ \E w \in writers : DeadLetterAdded(w) \/ DeadLetterFails(w)
    \/ Crash
    \/ BoundsReached

Spec == Init /\ [][Next]_vars

(* Node keeps running its callbacks and every await of a run comes back:   *)
(* streams are finite, and an HTTP or store call answers or throws.        *)
(* Nothing is assumed of the clock, the shop, the triggers or the faults.  *)
Fairness == WF_vars(RunProgress) /\ WF_vars(\E w \in writers : DeadLetterAdded(w))

FairSpec == Spec /\ Fairness

-----------------------------------------------------------------------------
(* Properties.                                                             *)

(* Every variable keeps its type.                                          *)
TypeOK ==
    /\ now \in Nat
    /\ stamp \in [Items -> Int \union {Null}]
    /\ delivered \subseteq Items
    /\ refused \subseteq RunIds \X Items
    /\ cursors \in [Keys -> CursorRow]
    /\ pc \in PCs
    /\ run \in RunFrame
    /\ pc # "idle" => run.id \in RunIds
    /\ run.id <= MaxRuns /\ run.at >= 1
    /\ step \in StepFrame
    /\ pc \in {"stepping", "settling"} => step.key \in Keys
    /\ runs \in [RunIds -> {"none", "running", "ok", "partial", "failed"}]
    /\ budget \in [RunIds -> Nat]
    /\ writers \subseteq Writer
    /\ deadLetters \subseteq RunIds \X Items
    /\ covered \in [Keys -> Int \union {Null}]
    /\ gaps \in [Keys -> SUBSET Int]
    /\ withheld \subseteq RunIds /\ lossy \subseteq RunIds

(* An item nothing is owed for: the API has it, or its step tolerates that *)
(* the API refused it.                                                     *)
Accounted(i) ==
    \/ i \in delivered
    \/ Policy[KeyOf[i][1]] # "hold" /\ \E r \in RunIds : <<r, i>> \in refused

(* The golden rule of src/sync/engine.ts ("the cursor only advances if the *)
(* step had NO error"; "no silent data loss"): no item falls behind the    *)
(* next incremental window, last_synced_at - Overlap, before the API took  *)
(* it or its step tolerated that the API refused it, whatever throws, is   *)
(* rejected, appears late or crashes.  Two kinds of items are behind it    *)
(* all the same: those older than every window there ever was (covered),   *)
(* and those between the start an earlier window owed and the start of a   *)
(* later backfill that succeeded (gaps).                                   *)
GoldenRule ==
    \A i \in Items :
        LET k == KeyOf[i]
            last == cursors[k].last_synced_at
        IN  stamp[i] # Null /\ last # Null
                => \/ stamp[i] < covered[k]
                   \/ stamp[i] \in gaps[k]
                   \/ stamp[i] >= last - Overlap
                   \/ Accounted(i)

(* "A future cursor would make the next window empty/inverted and silently *)
(* skip data" (AdvanceCursor's clamp): a window never ends before it       *)
(* starts, whatever bound the step returned in an earlier run.             *)
WindowNotInverted == pc = "stepping" => step.since <= step.until

DeadLettersOf(r) == {d \in deadLetters : d[1] = r}
RefusedBy(r) == {d \in refused : d[1] = r}

(* REJECTED_ITEMS_CAP_PER_RUN bounds the rows a run adds, although         *)
(* several recordRejects calls of the run add rows concurrently.           *)
DeadLetterCap == \A r \in RunIds : Cardinality(DeadLettersOf(r)) <= RejectedCap

(* Short of a store error or a crash, once the background calls are over   *)
(* the dead letter holds everything the API refused, or is at its cap.     *)
DeadLettersComplete ==
    \A r \in RunIds :
        r \notin lossy /\ (\A w \in writers : w.run # r)
            => Cardinality(DeadLettersOf(r)) = Lesser(RejectedCap, Cardinality(RefusedBy(r)))

(* A run whose sync_run row says ok held no cursor and skipped no          *)
(* misconfigured step, at any of its step-sources.                         *)
OkRunsWithheldNothing == \A r \in RunIds : runs[r] = "ok" => r \notin withheld

(* Every run comes to its end, and every recordRejects call to its own.    *)
RunSettles == (pc # "idle" \/ writers # {}) ~> (pc = "idle" /\ writers = {})

-----------------------------------------------------------------------------
(* The inductive strengthening of GoldenRule.                              *)

CursorsInThePast ==
    \A k \in Keys : cursors[k].last_synced_at # Null => cursors[k].last_synced_at <= now

(* The frame of runOneSource agrees with the row it read: nobody else      *)
(* writes the row while the step is running.                               *)
FrameFresh ==
    pc \in {"stepping", "settling"} =>
        /\ step.cursor = cursors[step.key]
        /\ step.until <= now
        /\ ~step.backfill => /\ step.cursor.last_synced_at # Null
                            /\ step.since = step.cursor.last_synced_at - Overlap

(* A key has had a window before it has a cursor, and the oldest one began *)
(* at least backfillDays before the present.                               *)
WindowsOpened ==
    /\ \A k \in Keys :
          /\ cursors[k].last_synced_at # Null => covered[k] # Null
          /\ covered[k] # Null => covered[k] <= now - Backfill
    /\ pc \in {"stepping", "settling"} => covered[step.key] # Null

(* What has been read is in the batch, with the API, or on the reject      *)
(* accumulator, as long as nothing was thrown.                             *)
ReadIsAccounted ==
    pc \in {"stepping", "settling"} /\ ~step.errors =>
        \A i \in step.seen :
            \/ i \in step.batch
            \/ i \in delivered
            \/ step.rejects > 0 /\ <<run.id, i>> \in refused

(* Once the stream has ended, the window holds nothing unread but what     *)
(* appeared since, within Skew of its end.                                 *)
EndedIsComplete ==
    pc \in {"stepping", "settling"} /\ step.ended =>
        \A i \in Items :
            KeyOf[i] = step.key /\ InWindow(i)
                => i \in step.seen \/ stamp[i] >= step.until - Skew

ReturnedIsFlushed ==
    pc = "settling" /\ ~step.errors => step.ended /\ step.batch = {}

GoldenInv ==
    /\ TypeOK
    /\ GoldenRule
    /\ CursorsInThePast
    /\ FrameFresh
    /\ WindowsOpened
    /\ ReadIsAccounted
    /\ EndedIsComplete
    /\ ReturnedIsFlushed

=============================================================================

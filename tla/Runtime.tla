------------------------------ MODULE Runtime ------------------------------
(***************************************************************************)
(* The process of src/runtime/create-app.ts: the per-installation overlap  *)
(* lock `running`, the callers that compete for it (the scheduled sweep,   *)
(* the backfill after an activation, the admin surface), stop() with its   *)
(* bounded drain, crashes and restarts, and what src/runtime/health.ts     *)
(* tells of the sync_run rows that are left.                               *)
(*                                                                         *)
(* runIntegrationSync and runProvisioning are one step here; SyncEngine    *)
(* and Lifecycle open them up.  An action is the code between two awaits.  *)
(***************************************************************************)
EXTENDS FiniteSets

CONSTANTS
    Installs,
    AdminCalls,   \* requests to the admin surface: a bound, each is used once
    Activations,  \* activations that succeed: a bound, each is used once
    Sweep         \* the caller that is the sweep

Callers == AdminCalls \union Activations \union {Sweep}

ASSUME CallersAssumption ==
    AdminCalls \intersect Activations = {} /\ Sweep \notin AdminCalls \union Activations

VARIABLES
    active,    \* installations whose status is active
    phase,     \* of the process: "up", "halting" (stopping is set, the servers are closing),
               \* "draining", "closed" (so is the store), "down"
    running,   \* the overlap lock
    jobs,      \* runSyncOnce and reprovision calls that hold it
    immediate, \* setImmediate callbacks of afterActivate: <<activation, installation>>
    sweep,     \* the pass in progress, and what it still has of listActive()
    newest,    \* installation -> status of its newest sync_run row
    finished,  \* installation -> age of its last finished run: "none", "fresh", "old"
    used,      \* bound: admin calls and activations that have happened
    timedOut   \* history: the drain of this stop timed out

processVars == <<running, jobs, immediate, sweep>>
rowVars == <<newest, finished>>
vars == <<active, phase, processVars, rowVars, used, timedOut>>

Job == [caller: Callers, install: Installs, kind: {"sync", "reprovision"},
        full: BOOLEAN, at: {"context", "run"}]

Stopping == phase \in {"halting", "draining", "closed"}
Serving == phase \in {"up", "halting"}
Alive == phase # "down"

(* The process starts over the database there is: any installation may be  *)
(* active already.                                                         *)
Init ==
    /\ active \in SUBSET Installs /\ phase = "up"
    /\ running = {} /\ jobs = {} /\ immediate = {}
    /\ sweep = [at |-> "idle", left |-> {}]
    /\ newest = [i \in Installs |-> "none"]
    /\ finished = [i \in Installs |-> "none"]
    /\ used = {} /\ timedOut = FALSE

-----------------------------------------------------------------------------
(* The overlap lock.                                                       *)

Mutant_Take_LocksCaller(caller, i, kind, full) ==
    /\ running' = running \union {caller}
    /\ jobs' = jobs \union {[caller |-> caller, install |-> i, kind |-> kind,
                             full |-> full, at |-> "context"]}

Take(caller, i, kind, full) ==
    /\ running' = running \union {i}
    /\ jobs' = jobs \union {[caller |-> caller, install |-> i, kind |-> kind,
                             full |-> full, at |-> "context"]}

Refusal == UNCHANGED <<running, jobs>>

Mutant_RunSyncOnce_FinallyAlways(caller, i, full) ==
    IF ~Stopping /\ i \notin running THEN Take(caller, i, "sync", full)
    ELSE running' = running \ {i} /\ UNCHANGED jobs

Mutant_RunSyncOnce_NotStopping(caller, i, full) ==
    IF i \notin running THEN Take(caller, i, "sync", full) ELSE Refusal

(* runSyncOnce up to its first await: skipped while shutting down or when  *)
(* the installation is locked, else the lock is claimed at once.           *)
RunSyncOnce(caller, i, full) ==
    IF ~Stopping /\ i \notin running THEN Take(caller, i, "sync", full) ELSE Refusal

(* reprovision, which answers "busy" but does not look at `stopping`.      *)
Reprovision(caller, i) ==
    IF i \notin running THEN Take(caller, i, "reprovision", FALSE) ELSE Refusal

(* The finally: the lock is released, and the sweep goes on if it waited.  *)
Ends(j) ==
    /\ jobs' = jobs \ {j} /\ running' = running \ {j.install}
    /\ sweep' = IF j.caller = Sweep THEN [sweep EXCEPT !.at = "looping"] ELSE sweep
    /\ UNCHANGED <<active, phase, immediate, used, timedOut>>

(* No context, no plan, a throw before the run has its row, or the end of  *)
(* a reprovisioning.                                                       *)
EndsWithoutRun(j) ==
    /\ j.at = "context" /\ Ends(j)
    /\ UNCHANGED rowVars

(* runs.start inserts the row of the run.                                  *)
StartsRun(j) ==
    /\ j.at = "context" /\ j.kind = "sync" /\ phase # "closed"
    /\ jobs' = (jobs \ {j}) \union {[j EXCEPT !.at = "run"]}
    /\ newest' = [newest EXCEPT ![j.install] = "running"]
    /\ UNCHANGED <<active, phase, running, immediate, sweep, finished, used, timedOut>>

(* runs.finish writes ok, partial or failed.                               *)
FinishesRun(j) ==
    /\ j.at = "run" /\ phase # "closed"
    /\ newest' = [newest EXCEPT ![j.install] = "finished"]
    /\ finished' = [finished EXCEPT ![j.install] = "fresh"]
    /\ Ends(j)

(* What the inner catch of the sweep keeps from happening: a sync that     *)
(* throws ends the pass, and the rest of the listing is dropped.           *)
Mutant_LosesRun_EndsThePass(j) ==
    /\ j.at = "run"
    /\ jobs' = jobs \ {j} /\ running' = running \ {j.install}
    /\ sweep' = IF j.caller = Sweep THEN [at |-> "idle", left |-> {}] ELSE sweep
    /\ UNCHANGED <<active, phase, immediate, rowVars, used, timedOut>>

(* The store fails, or is closed: runs.finish throws, the row stays, and   *)
(* the sweep that awaited this sync catches the error and goes on.         *)
LosesRun(j) ==
    /\ j.at = "run" /\ Ends(j)
    /\ UNCHANGED rowVars

-----------------------------------------------------------------------------
(* The callers.                                                            *)

(* onActivate has set the status: afterActivate defers the full backfill.  *)
Activate(n, i) ==
    /\ Serving /\ n \in Activations \ used
    /\ active' = active \union {i}
    /\ used' = used \union {n}
    /\ immediate' = immediate \union {<<n, i>>}
    /\ UNCHANGED <<phase, running, jobs, sweep, rowVars, timedOut>>

Deactivate(i) ==
    /\ Serving /\ i \in active
    /\ active' = active \ {i}
    /\ UNCHANGED <<phase, processVars, rowVars, used, timedOut>>

Backfill(n, i) ==
    /\ Alive /\ <<n, i>> \in immediate
    /\ immediate' = immediate \ {<<n, i>>}
    /\ RunSyncOnce(n, i, TRUE)
    /\ UNCHANGED <<active, phase, sweep, rowVars, used, timedOut>>

AdminSync(c, i, full) ==
    /\ Serving /\ c \in AdminCalls \ used
    /\ used' = used \union {c}
    /\ RunSyncOnce(c, i, full)
    /\ UNCHANGED <<active, phase, immediate, sweep, rowVars, timedOut>>

AdminReprovision(c, i) ==
    /\ Serving /\ c \in AdminCalls \ used
    /\ used' = used \union {c}
    /\ Reprovision(c, i)
    /\ UNCHANGED <<active, phase, immediate, sweep, rowVars, timedOut>>

(* The timer; a tick during a pass returns at once.                        *)
SweepStarts ==
    /\ phase = "up" /\ sweep.at = "idle"
    /\ sweep' = [sweep EXCEPT !.at = "listing"]
    /\ UNCHANGED <<active, phase, running, jobs, immediate, rowVars, used, timedOut>>

SweepLists ==
    /\ Alive /\ phase # "closed" /\ sweep.at = "listing"
    /\ sweep' = [at |-> "looping", left |-> active]
    /\ UNCHANGED <<active, phase, running, jobs, immediate, rowVars, used, timedOut>>

SweepListFails ==
    /\ Alive /\ sweep.at = "listing"
    /\ sweep' = [sweep EXCEPT !.at = "idle"]
    /\ UNCHANGED <<active, phase, running, jobs, immediate, rowVars, used, timedOut>>

(* The loop awaits each sync before the next one; a skipped one is over.   *)
SweepNext(i) ==
    /\ Alive /\ sweep.at = "looping" /\ i \in sweep.left
    /\ RunSyncOnce(Sweep, i, FALSE)
    /\ sweep' = [at |-> IF jobs' = jobs THEN "looping" ELSE "waiting", left |-> sweep.left \ {i}]
    /\ UNCHANGED <<active, phase, immediate, rowVars, used, timedOut>>

SweepEnds ==
    /\ Alive /\ sweep.at = "looping" /\ sweep.left = {}
    /\ sweep' = [sweep EXCEPT !.at = "idle"]
    /\ UNCHANGED <<active, phase, running, jobs, immediate, rowVars, used, timedOut>>

-----------------------------------------------------------------------------
(* stop(), crashes, time.                                                  *)

Stop ==
    /\ phase = "up" /\ phase' = "halting"
    /\ UNCHANGED <<active, processVars, rowVars, used, timedOut>>

ServersStopped ==
    /\ phase = "halting" /\ phase' = "draining"
    /\ UNCHANGED <<active, processVars, rowVars, used, timedOut>>

(* Nothing is in flight, the store is closed.                              *)
Close ==
    /\ phase = "draining" /\ running = {} /\ phase' = "closed"
    /\ UNCHANGED <<active, processVars, rowVars, used, timedOut>>

DrainTimesOut ==
    /\ phase = "draining" /\ running # {} /\ phase' = "closed"
    /\ timedOut' = TRUE
    /\ UNCHANGED <<active, processVars, rowVars, used>>

(* The process exits after stop(), or is killed.                           *)
Dies ==
    /\ Alive /\ phase' = "down"
    /\ running' = {} /\ jobs' = {} /\ immediate' = {}
    /\ sweep' = [at |-> "idle", left |-> {}]
    /\ UNCHANGED <<active, rowVars, used, timedOut>>

Restart ==
    /\ phase = "down" /\ phase' = "up" /\ timedOut' = FALSE
    /\ UNCHANGED <<active, processVars, rowVars, used>>

(* staleRunThresholdMs go by without a finished run.                       *)
GrowsOld(i) ==
    /\ finished[i] = "fresh"
    /\ finished' = [finished EXCEPT ![i] = "old"]
    /\ UNCHANGED <<active, phase, processVars, newest, used, timedOut>>

-----------------------------------------------------------------------------
JobProgress(j) == EndsWithoutRun(j) \/ StartsRun(j) \/ FinishesRun(j) \/ LosesRun(j)

SweepProgress == (\E i \in Installs : SweepNext(i)) \/ SweepEnds

Next ==
    \/ \E n \in Activations, i \in Installs : Activate(n, i) \/ Backfill(n, i)
    \/ \E i \in Installs : Deactivate(i) \/ GrowsOld(i)
    \/ \E c \in AdminCalls, i \in Installs :
           AdminReprovision(c, i) \/ \E full \in BOOLEAN : AdminSync(c, i, full)
    \/ \E j \in jobs : JobProgress(j)
    \/ SweepStarts \/ SweepLists \/ SweepListFails \/ SweepProgress
    \/ Stop \/ ServersStopped \/ Close \/ DrainTimesOut \/ Dies \/ Restart

Spec == Init /\ [][Next]_vars

(* The timer fires and callbacks run; every job comes to its end (a step   *)
(* that hangs for ever holds its lock for ever); the store does not fail   *)
(* every listing there is.                                                 *)
Fairness ==
    /\ WF_vars(SweepStarts) /\ SF_vars(SweepLists) /\ WF_vars(SweepProgress)
    /\ \A i \in Installs : WF_vars(\E j \in jobs : j.install = i /\ JobProgress(j))
    /\ \A n \in Activations, i \in Installs : WF_vars(Backfill(n, i))

FairSpec == Spec /\ Fairness

-----------------------------------------------------------------------------
(* Properties.                                                             *)

(* Every variable keeps its type.                                          *)
TypeOK ==
    /\ active \subseteq Installs
    /\ phase \in {"up", "halting", "draining", "closed", "down"}
    /\ running \subseteq Installs /\ jobs \subseteq Job
    /\ immediate \subseteq Activations \X Installs
    /\ sweep \in [at: {"idle", "listing", "looping", "waiting"}, left: SUBSET Installs]
    /\ newest \in [Installs -> {"none", "running", "finished"}]
    /\ finished \in [Installs -> {"none", "fresh", "old"}]
    /\ used \subseteq Callers /\ timedOut \in BOOLEAN

(* The overlap lock "prevents a post-activation backfill, a scheduled      *)
(* sync, and an admin call from running at the same time on the same       *)
(* installation (race on the cursors)"; "reprovision and sync share the    *)
(* same per-installation lock (they never overlap)".                       *)
OneJobPerInstallation == \A j, k \in jobs : j.install = k.install => j = k

(* "DRAIN the in-flight syncs before closing the store": a store that is   *)
(* closed without a timeout has no job left to query it, and gets none,    *)
(* from a sweep, a backfill or an admin call that comes late.              *)
DrainedBeforeClose == phase = "closed" /\ ~timedOut => jobs = {}

(* "Periodic incremental sync" of every active installation: one that      *)
(* stays active in a process that stays up is synced again and again,      *)
(* whatever its own syncs and those of the installations listed before it  *)
(* throw: its lock and the sweeping flag are not left behind, and a sync   *)
(* that throws does not take the rest of the pass with it.                 *)
ActiveIsServed ==
    \A i \in Installs :
        <>[](i \in active /\ phase = "up")
            => []<>(\E j \in jobs : j.install = i /\ j.kind = "sync")

(* buildHealthReport: the age of the newest row, if it has finished.       *)
ReportedStale(i) == newest[i] = "finished" /\ finished[i] = "old"

(* "Is any active installation stalled?" (health.ts): only the newest row  *)
(* is looked at, so the lock is what keeps the report from calling stale   *)
(* an installation whose sync is under way.                                *)
NoFalseStall ==
    \A i \in Installs :
        ReportedStale(i) => \A j \in jobs : j.install = i => j.at # "run"

=============================================================================

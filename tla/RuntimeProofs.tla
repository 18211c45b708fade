--------------------------- MODULE RuntimeProofs ---------------------------
(***************************************************************************)
(* The overlap lock of Runtime for any number of installations, admin      *)
(* calls and activations: one job per installation, no job left when the   *)
(* store is closed after a drain, no sync under way reported stalled.      *)
(***************************************************************************)
EXTENDS Runtime, TLAPS

(* The lock is held exactly for the installations that have a job: neither *)
(* claimed without a job (it would never be released) nor released while   *)
(* the job goes on.                                                        *)
LockMatchesJobs == running = {j.install : j \in jobs}

LockInv == TypeOK /\ LockMatchesJobs /\ OneJobPerInstallation /\ DrainedBeforeClose

-----------------------------------------------------------------------------
(* What the helpers preserve.                                              *)

(* Whoever takes the lock starts a job in the same step, of an             *)
(* installation that had none.                                             *)
LEMMA TakeKeepsTheLock ==
    ASSUME LockInv, NEW caller \in Callers, NEW i \in Installs \ running,
           NEW kind \in {"sync", "reprovision"}, NEW full \in BOOLEAN,
           Take(caller, i, kind, full)
    PROVE  /\ running' \subseteq Installs /\ jobs' \subseteq Job
           /\ LockMatchesJobs' /\ OneJobPerInstallation'
<1> DEFINE job == [caller |-> caller, install |-> i, kind |-> kind,
                   full |-> full, at |-> "context"]
<1>1. running' = running \union {i} /\ jobs' = jobs \union {job}
  BY DEF Take
<1>2. job \in Job /\ job.install = i
  <2>1. i \in Installs
    OBVIOUS
  <2>2. job.install = i
    OBVIOUS
  <2> QED
    BY <2>1, <2>2 DEF Job
<1>3. running' \subseteq Installs /\ jobs' \subseteq Job
  BY <1>1, <1>2 DEF LockInv, TypeOK
<1>4. \A j \in jobs : j.install # i
  BY DEF LockInv, LockMatchesJobs
<1> HIDE DEF job
<1>5. LockMatchesJobs'
  BY <1>1, <1>2 DEF LockInv, LockMatchesJobs
<1>6. OneJobPerInstallation'
  BY <1>1, <1>2, <1>4 DEF LockInv, OneJobPerInstallation
<1> QED
  BY <1>3, <1>5, <1>6

(* runSyncOnce starts a job or refuses, and refuses while the process      *)
(* stops.                                                                  *)
LEMMA RunSyncOnceKeepsTheLock ==
    ASSUME LockInv, NEW caller \in Callers, NEW i \in Installs, NEW full \in BOOLEAN,
           RunSyncOnce(caller, i, full)
    PROVE  /\ running' \subseteq Installs /\ jobs' \subseteq Job
           /\ LockMatchesJobs' /\ OneJobPerInstallation'
           /\ Stopping => jobs' = jobs
<1>1. CASE ~Stopping /\ i \notin running
  <2>1. Take(caller, i, "sync", full)
    BY <1>1 DEF RunSyncOnce
  <2> QED
    BY <1>1, <2>1, TakeKeepsTheLock
<1>2. CASE ~(~Stopping /\ i \notin running)
  <2>1. running' = running /\ jobs' = jobs
    BY <1>2 DEF RunSyncOnce, Refusal
  <2> QED
    BY <2>1 DEF LockInv, TypeOK, LockMatchesJobs, OneJobPerInstallation
<1> QED
  BY <1>1, <1>2

(* A job that ends releases the lock it took.                              *)
LEMMA EndsKeepsTheLock ==
    ASSUME LockInv, NEW j \in jobs, Ends(j)
    PROVE  /\ running' \subseteq Installs /\ jobs' \subseteq Job
           /\ LockMatchesJobs' /\ OneJobPerInstallation' /\ DrainedBeforeClose'
           /\ sweep' \in [at: {"idle", "listing", "looping", "waiting"}, left: SUBSET Installs]
           /\ UNCHANGED <<active, phase, immediate, used, timedOut>>
<1>1. /\ jobs' = jobs \ {j} /\ running' = running \ {j.install}
      /\ UNCHANGED <<active, phase, immediate, used, timedOut>>
  BY DEF Ends
<1>2. running' \subseteq Installs /\ jobs' \subseteq Job
  BY <1>1 DEF LockInv, TypeOK
<1>3. \A k \in jobs \ {j} : k.install # j.install
  BY DEF LockInv, OneJobPerInstallation
<1>4. LockMatchesJobs'
  BY <1>1, <1>3 DEF LockInv, LockMatchesJobs
<1>5. OneJobPerInstallation' /\ DrainedBeforeClose'
  BY <1>1 DEF LockInv, OneJobPerInstallation, DrainedBeforeClose
<1>6. sweep' \in [at: {"idle", "listing", "looping", "waiting"}, left: SUBSET Installs]
  BY DEF LockInv, TypeOK, Ends
<1> QED
  BY <1>1, <1>2, <1>4, <1>5, <1>6

-----------------------------------------------------------------------------
(* The inductive step, action by action.                                   *)

(* The process starts without jobs.                                        *)
LEMMA InitEstablishesTheLock == Init => LockInv
<1> SUFFICES ASSUME Init PROVE LockInv
  OBVIOUS
<1>1. /\ newest \in [Installs -> {"none", "running", "finished"}]
      /\ finished \in [Installs -> {"none", "fresh", "old"}]
  BY DEF Init
<1>2. sweep \in [at: {"idle", "listing", "looping", "waiting"}, left: SUBSET Installs]
  BY DEF Init
<1>3. TypeOK
  BY <1>1, <1>2 DEF Init, TypeOK
<1>4. LockMatchesJobs /\ OneJobPerInstallation /\ DrainedBeforeClose
  BY DEF Init, LockMatchesJobs, OneJobPerInstallation, DrainedBeforeClose
<1> QED
  BY <1>3, <1>4 DEF LockInv

(* No step separates the lock from the jobs.                               *)
LEMMA StepsKeepTheLock == LockInv /\ [Next]_vars => LockInv'
<1> SUFFICES ASSUME LockInv, [Next]_vars PROVE LockInv'
  OBVIOUS
<1> USE DEF processVars, rowVars
<1>1. ASSUME NEW j \in jobs, EndsWithoutRun(j) PROVE LockInv'
  <2>1. Ends(j) /\ UNCHANGED <<newest, finished>>
    BY <1>1 DEF EndsWithoutRun
  <2> QED
    BY <2>1, EndsKeepsTheLock DEF LockInv, TypeOK
<1>2. ASSUME NEW j \in jobs, StartsRun(j) PROVE LockInv'
  <2> DEFINE running_j == [j EXCEPT !.at = "run"]
  <2>1. /\ jobs' = (jobs \ {j}) \union {running_j} /\ phase # "closed"
        /\ newest' = [newest EXCEPT ![j.install] = "running"]
        /\ UNCHANGED <<active, phase, running, immediate, sweep, finished, used, timedOut>>
    BY <1>2 DEF StartsRun
  <2>2. running_j \in Job /\ running_j.install = j.install
    BY DEF LockInv, TypeOK, Job
  <2> HIDE DEF running_j
  <2>3. TypeOK'
    BY <2>1, <2>2 DEF LockInv, TypeOK
  <2>4. LockMatchesJobs'
    BY <2>1, <2>2 DEF LockInv, LockMatchesJobs
  <2>5. OneJobPerInstallation' /\ DrainedBeforeClose'
    BY <2>1, <2>2 DEF LockInv, OneJobPerInstallation, DrainedBeforeClose
  <2> QED
    BY <2>3, <2>4, <2>5 DEF LockInv
<1>3. ASSUME NEW j \in jobs, FinishesRun(j) PROVE LockInv'
  <2>1. /\ Ends(j)
        /\ newest' = [newest EXCEPT ![j.install] = "finished"]
        /\ finished' = [finished EXCEPT ![j.install] = "fresh"]
    BY <1>3 DEF FinishesRun
  <2>2. newest' \in [Installs -> {"none", "running", "finished"}]
        /\ finished' \in [Installs -> {"none", "fresh", "old"}]
    <3>1. newest \in [Installs -> {"none", "running", "finished"}]
          /\ finished \in [Installs -> {"none", "fresh", "old"}]
      BY DEF LockInv, TypeOK
    <3> QED
      BY <2>1, <3>1
  <2> QED
    BY <2>1, <2>2, EndsKeepsTheLock DEF LockInv, TypeOK
<1>4. ASSUME NEW j \in jobs, LosesRun(j) PROVE LockInv'
  <2>1. Ends(j) /\ UNCHANGED <<newest, finished>>
    BY <1>4 DEF LosesRun
  <2> QED
    BY <2>1, EndsKeepsTheLock DEF LockInv, TypeOK
<1>5. ASSUME NEW n \in Activations, NEW i \in Installs, Activate(n, i) PROVE LockInv'
  BY <1>5 DEF Activate, LockInv, TypeOK, Callers, LockMatchesJobs, OneJobPerInstallation,
     DrainedBeforeClose
<1>6. ASSUME NEW n \in Activations, NEW i \in Installs, Backfill(n, i) PROVE LockInv'
  <2>1. /\ RunSyncOnce(n, i, TRUE) /\ immediate' = immediate \ {<<n, i>>}
        /\ UNCHANGED <<active, phase, sweep, newest, finished, used, timedOut>>
    BY <1>6 DEF Backfill
  <2>2. n \in Callers
    BY DEF Callers
  <2>3. /\ running' \subseteq Installs /\ jobs' \subseteq Job
        /\ LockMatchesJobs' /\ OneJobPerInstallation' /\ (Stopping => jobs' = jobs)
    BY <2>1, <2>2, RunSyncOnceKeepsTheLock
  <2> QED
    BY <2>1, <2>3 DEF LockInv, TypeOK, DrainedBeforeClose, Stopping
<1>7. ASSUME NEW i \in Installs, Deactivate(i) \/ GrowsOld(i) PROVE LockInv'
  BY <1>7 DEF Deactivate, GrowsOld, LockInv, TypeOK, LockMatchesJobs, OneJobPerInstallation,
     DrainedBeforeClose
<1>8. ASSUME NEW c \in AdminCalls, NEW i \in Installs, NEW full \in BOOLEAN,
             AdminSync(c, i, full)
      PROVE  LockInv'
  <2>1. /\ RunSyncOnce(c, i, full) /\ used' = used \union {c} /\ c \in Callers
        /\ UNCHANGED <<active, phase, immediate, sweep, newest, finished, timedOut>>
    BY <1>8 DEF AdminSync, Callers
  <2>2. /\ running' \subseteq Installs /\ jobs' \subseteq Job
        /\ LockMatchesJobs' /\ OneJobPerInstallation' /\ (Stopping => jobs' = jobs)
    BY <2>1, RunSyncOnceKeepsTheLock
  <2> QED
    BY <2>1, <2>2 DEF LockInv, TypeOK, DrainedBeforeClose, Stopping
<1>9. ASSUME NEW c \in AdminCalls, NEW i \in Installs, AdminReprovision(c, i) PROVE LockInv'
  <2>1. /\ Serving /\ Reprovision(c, i) /\ used' = used \union {c} /\ c \in Callers
        /\ UNCHANGED <<active, phase, immediate, sweep, newest, finished, timedOut>>
    BY <1>9 DEF AdminReprovision, Callers
  <2>2. phase' # "closed"
    BY <2>1 DEF Serving
  <2>3. CASE i \notin running
    <3>1. Take(c, i, "reprovision", FALSE)
      BY <2>1, <2>3 DEF Reprovision
    <3>2. /\ running' \subseteq Installs /\ jobs' \subseteq Job
          /\ LockMatchesJobs' /\ OneJobPerInstallation'
      BY <2>1, <2>3, <3>1, TakeKeepsTheLock
    <3> QED
      BY <2>1, <2>2, <3>2 DEF LockInv, TypeOK, DrainedBeforeClose
  <2>4. CASE i \in running
    BY <2>1, <2>4 DEF Reprovision, Refusal, LockInv, TypeOK, LockMatchesJobs,
       OneJobPerInstallation, DrainedBeforeClose
  <2> QED
    BY <2>3, <2>4
<1>10. ASSUME SweepStarts \/ SweepLists \/ SweepListFails \/ SweepEnds PROVE LockInv'
  BY <1>10 DEF SweepStarts, SweepLists, SweepListFails, SweepEnds, LockInv, TypeOK,
     LockMatchesJobs, OneJobPerInstallation, DrainedBeforeClose
<1>11. ASSUME NEW i \in Installs, SweepNext(i) PROVE LockInv'
  <2>1. /\ RunSyncOnce(Sweep, i, FALSE) /\ Sweep \in Callers
        /\ sweep' = [at |-> IF jobs' = jobs THEN "looping" ELSE "waiting",
                     left |-> sweep.left \ {i}]
        /\ UNCHANGED <<active, phase, immediate, newest, finished, used, timedOut>>
    BY <1>11 DEF SweepNext, Callers
  <2>2. /\ running' \subseteq Installs /\ jobs' \subseteq Job
        /\ LockMatchesJobs' /\ OneJobPerInstallation' /\ (Stopping => jobs' = jobs)
    BY <2>1, RunSyncOnceKeepsTheLock
  <2>3. sweep' \in [at: {"idle", "listing", "looping", "waiting"}, left: SUBSET Installs]
    BY <2>1 DEF LockInv, TypeOK
  <2> QED
    BY <2>1, <2>2, <2>3 DEF LockInv, TypeOK, DrainedBeforeClose, Stopping
<1>12. ASSUME Stop \/ ServersStopped \/ DrainTimesOut \/ Restart PROVE LockInv'
  BY <1>12 DEF Stop, ServersStopped, DrainTimesOut, Restart, LockInv, TypeOK,
     LockMatchesJobs, OneJobPerInstallation, DrainedBeforeClose
<1>13. ASSUME Close PROVE LockInv'
  <2>1. jobs = {}
    BY <1>13 DEF Close, LockInv, LockMatchesJobs
  <2> QED
    BY <1>13, <2>1 DEF Close, LockInv, TypeOK, LockMatchesJobs, OneJobPerInstallation,
       DrainedBeforeClose
<1>14. ASSUME Dies PROVE LockInv'
  BY <1>14 DEF Dies, LockInv, TypeOK, LockMatchesJobs, OneJobPerInstallation,
     DrainedBeforeClose
<1>15. ASSUME UNCHANGED vars PROVE LockInv'
  BY <1>15 DEF vars, LockInv, TypeOK, LockMatchesJobs, OneJobPerInstallation,
     DrainedBeforeClose
<1> QED
  BY <1>1, <1>2, <1>3, <1>4, <1>5, <1>6, <1>7, <1>8, <1>9, <1>10, <1>11, <1>12, <1>13,
     <1>14, <1>15 DEF Next, JobProgress, SweepProgress

-----------------------------------------------------------------------------
(* The rows of the runs in progress.                                       *)

(* The newest row of an installation is that of its run in progress.       *)
RowsMatchJobs == \A j \in jobs : j.at = "run" => newest[j.install] = "running"

(* A job that waits for its context has no row yet.                        *)
LEMMA TakeKeepsRows ==
    ASSUME RowsMatchJobs, NEW caller, NEW i, NEW kind, NEW full,
           Take(caller, i, kind, full) \/ Refusal, newest' = newest
    PROVE  RowsMatchJobs'
<1>1. \A j \in jobs' : j.at = "run" => j \in jobs
  BY DEF Take, Refusal
<1> QED
  BY <1>1 DEF RowsMatchJobs

(* The newest row of an installation is that of its run, as there is one   *)
(* job only.                                                               *)
LEMMA StepsKeepRows == LockInv /\ RowsMatchJobs /\ [Next]_vars => RowsMatchJobs'
<1> SUFFICES ASSUME LockInv, RowsMatchJobs, [Next]_vars PROVE RowsMatchJobs'
  OBVIOUS
<1> USE DEF processVars, rowVars
<1>1. ASSUME NEW j \in jobs, EndsWithoutRun(j) \/ LosesRun(j) PROVE RowsMatchJobs'
  BY <1>1 DEF EndsWithoutRun, LosesRun, Ends, RowsMatchJobs
<1>2. ASSUME NEW j \in jobs, StartsRun(j) PROVE RowsMatchJobs'
  <2>1. /\ jobs' = (jobs \ {j}) \union {[j EXCEPT !.at = "run"]}
        /\ newest' = [newest EXCEPT ![j.install] = "running"]
    BY <1>2 DEF StartsRun
  <2>2. newest \in [Installs -> {"none", "running", "finished"}] /\ jobs \subseteq Job
    BY DEF LockInv, TypeOK
  <2>3. [j EXCEPT !.at = "run"].install = j.install /\ j.install \in Installs
    BY <2>2 DEF Job
  <2>4. newest'[j.install] = "running"
    BY <2>1, <2>2, <2>3
  <2>5. ASSUME NEW k \in jobs, k.at = "run" PROVE newest'[k.install] = "running"
    <3>1. newest[k.install] = "running" /\ k.install \in Installs
      BY <2>2, <2>5 DEF RowsMatchJobs, Job
    <3> QED
      BY <2>1, <2>2, <3>1
  <2> QED
    BY <2>1, <2>3, <2>4, <2>5 DEF RowsMatchJobs
<1>3. ASSUME NEW j \in jobs, FinishesRun(j) PROVE RowsMatchJobs'
  <2>1. /\ jobs' = jobs \ {j}
        /\ newest' = [newest EXCEPT ![j.install] = "finished"]
    BY <1>3 DEF FinishesRun, Ends
  <2>2. \A k \in jobs \ {j} : k.install # j.install
    BY DEF LockInv, OneJobPerInstallation
  <2>3. newest \in [Installs -> {"none", "running", "finished"}]
    BY DEF LockInv, TypeOK
  <2> QED
    BY <2>1, <2>2, <2>3 DEF RowsMatchJobs, LockInv, TypeOK, Job
<1>4. ASSUME NEW n \in Activations, NEW i \in Installs, Activate(n, i) PROVE RowsMatchJobs'
  BY <1>4 DEF Activate, RowsMatchJobs
<1>5. ASSUME NEW n \in Activations, NEW i \in Installs, Backfill(n, i) PROVE RowsMatchJobs'
  BY <1>5, TakeKeepsRows DEF Backfill, RunSyncOnce
<1>6. ASSUME NEW i \in Installs, Deactivate(i) \/ GrowsOld(i) PROVE RowsMatchJobs'
  BY <1>6 DEF Deactivate, GrowsOld, RowsMatchJobs
<1>7. ASSUME NEW c \in AdminCalls, NEW i \in Installs, NEW full \in BOOLEAN,
             AdminSync(c, i, full)
      PROVE  RowsMatchJobs'
  BY <1>7, TakeKeepsRows DEF AdminSync, RunSyncOnce
<1>8. ASSUME NEW c \in AdminCalls, NEW i \in Installs, AdminReprovision(c, i)
      PROVE  RowsMatchJobs'
  BY <1>8, TakeKeepsRows DEF AdminReprovision, Reprovision
<1>9. ASSUME SweepStarts \/ SweepLists \/ SweepListFails \/ SweepEnds PROVE RowsMatchJobs'
  BY <1>9 DEF SweepStarts, SweepLists, SweepListFails, SweepEnds, RowsMatchJobs
<1>10. ASSUME NEW i \in Installs, SweepNext(i) PROVE RowsMatchJobs'
  BY <1>10, TakeKeepsRows DEF SweepNext, RunSyncOnce
<1>11. ASSUME Stop \/ ServersStopped \/ Close \/ DrainTimesOut \/ Restart PROVE RowsMatchJobs'
  BY <1>11 DEF Stop, ServersStopped, Close, DrainTimesOut, Restart, RowsMatchJobs
<1>12. ASSUME Dies PROVE RowsMatchJobs'
  BY <1>12 DEF Dies, RowsMatchJobs
<1>13. ASSUME UNCHANGED vars PROVE RowsMatchJobs'
  BY <1>13 DEF vars, RowsMatchJobs
<1> QED
  BY <1>1, <1>2, <1>3, <1>4, <1>5, <1>6, <1>7, <1>8, <1>9, <1>10, <1>11, <1>12, <1>13
  DEF Next, JobProgress, SweepProgress

-----------------------------------------------------------------------------
(* The results.                                                            *)

(* The invariant of the lock, as a theorem of the specification.           *)
LEMMA LockInvariant == Spec => []LockInv
<1> QED
  BY InitEstablishesTheLock, StepsKeepTheLock, PTL DEF Spec

(* The variables of the process keep their types.                          *)
THEOREM RuntimeTypeCorrect == Spec => []TypeOK
BY LockInvariant, PTL DEF LockInv

(* However many callers compete, a sync, a backfill and a reprovisioning   *)
(* of one installation never overlap: the lock claimed before the first    *)
(* await and released in the finally excludes.                             *)
THEOREM LockExcludes == Spec => []OneJobPerInstallation
BY LockInvariant, PTL DEF LockInv

(* A stop() that does not time out closes the store with no job in flight, *)
(* and none starts afterwards.                                             *)
THEOREM StopDrains == Spec => []DrainedBeforeClose
BY LockInvariant, PTL DEF LockInv

(* A sync in progress is never reported as a stall, although the report    *)
(* looks at one row only: the lock keeps that row its own.                 *)
THEOREM SyncUnderWayIsNotStalled == Spec => []NoFalseStall
<1>1. Init => RowsMatchJobs
  BY DEF Init, RowsMatchJobs
<1>2. RowsMatchJobs => NoFalseStall
  BY DEF RowsMatchJobs, NoFalseStall, ReportedStale
<1> QED
  BY <1>1, <1>2, LockInvariant, StepsKeepRows, PTL DEF Spec

=============================================================================

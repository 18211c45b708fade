-------------------------- MODULE SyncEngineProofs --------------------------
(***************************************************************************)
(* Theorems about SyncEngine, for every value of its constants: types, the *)
(* golden rule and what follows from it about windows (GoldenInv), that ok *)
(* means ok (StatusInv), and the dead letter: its cap, and that below the  *)
(* cap nothing is lost (LetterInv).                                        *)
(***************************************************************************)
EXTENDS SyncEngine, FiniteSetTheorems, TLAPS

USE DEF RunIds

-----------------------------------------------------------------------------
(* Type correctness.                                                       *)

(* The batch of a step is finite, so its size is a number.                 *)
LEMMA BatchSizes ==
    ASSUME TypeOK, NEW S \in SUBSET step.batch
    PROVE  Cardinality(S) \in Nat /\ Cardinality(step.batch) \in Nat
<1>1. step.batch \subseteq Items /\ S \subseteq Items
  BY DEF TypeOK, StepFrame
<1>2. IsFiniteSet(step.batch) /\ IsFiniteSet(S)
  BY <1>1, StepsAssumption, FS_Subset
<1> QED
  BY <1>2, FS_CardinalityType

(* The parts of the run in progress.                                       *)
LEMMA RunFrameTypes ==
    ASSUME TypeOK
    PROVE  /\ run \in RunFrame
           /\ run.id \in Nat /\ run.at \in Nat /\ run.at >= 1 /\ run.batches \in Nat
           /\ run.sources \subseteq Keys
<1>1. run \in RunFrame /\ run.at >= 1
  BY DEF TypeOK
<1> QED
  BY <1>1 DEF RunFrame

(* The cursors of the current step: the global one, or one for each        *)
(* source.                                                                 *)
LEMMA EntityKeys ==
    ASSUME TypeOK, run.at <= Len(Steps), NEW S \in SUBSET Sources
    PROVE  /\ Steps[run.at] \in Entities
           /\ {<<Steps[run.at], GlobalSource>>} \subseteq Keys
           /\ {Steps[run.at]} \X S \subseteq Keys
<1>1. run.at \in Nat /\ run.at >= 1
  BY RunFrameTypes
<1>2. Steps \in Seq(STRING)
  BY StepsAssumption
<1>3. run.at \in DOMAIN Steps
  BY <1>1, <1>2
<1>4. Steps[run.at] \in Entities
  BY <1>3 DEF Entities
<1> QED
  BY <1>4 DEF Keys

(* What stands for no row and no step.                                     *)
LEMMA IdleTypes == NoRow \in CursorRow /\ IdleStep \in StepFrame
<1>1. NoRow \in CursorRow
  BY NullAssumption DEF NoRow, CursorRow
<1> QED
  BY <1>1, NullAssumption DEF IdleStep, StepFrame

(* What is read from a cursor row: its timestamp, and the window computed  *)
(* from it.                                                                *)
LEMMA RowTypes ==
    ASSUME TypeOK, NEW k \in Keys
    PROVE  /\ cursors[k] \in CursorRow
           /\ cursors[k].last_synced_at \in Int \union {Null}
           /\ IsBackfill(cursors[k], run.full) \in BOOLEAN
           /\ WindowSince(cursors[k], run.full) \in Int
  BY BoundsAssumption, NullAssumption
  DEF TypeOK, CursorRow, RunFrame, IsBackfill, WindowSince

(* The oldest window of a key begins where this one does, or before.       *)
LEMMA OldestTypes ==
    ASSUME TypeOK, NEW k \in Keys
    PROVE  /\ WindowSince(cursors[k], run.full) \in Int
           /\ Oldest(covered[k], WindowSince(cursors[k], run.full)) \in Int
           /\ Oldest(covered[k], WindowSince(cursors[k], run.full)) <= WindowSince(cursors[k], run.full)
           /\ covered[k] # Null =>
                \/ Oldest(covered[k], WindowSince(cursors[k], run.full)) = covered[k]
                \/ WindowSince(cursors[k], run.full) < covered[k]
<1>1. WindowSince(cursors[k], run.full) \in Int
  BY RowTypes
<1>2. covered[k] \in Int \union {Null}
  BY DEF TypeOK
<1> QED
  BY <1>1, <1>2, NullAssumption DEF Oldest, Lesser

(* What a backfill leaves out are timestamps.                              *)
LEMMA LeftOutTypes == TypeOK => LeftOut \subseteq Int
  BY DEF LeftOut

(* A call of recordRejects charges the budget and becomes a writer.        *)
LEMMA RecordRejectsTypes ==
    ASSUME TypeOK, NEW r \in RunIds, NEW n \in Nat, NEW left \in SUBSET Items,
           NEW others \in SUBSET Writer, RecordRejects(r, n, left, others)
    PROVE  budget' \in [RunIds -> Nat] /\ writers' \in SUBSET Writer
<1>1. CASE left # {} /\ budget[r] > 0
  <2>1. PICK i \in left :
          writers' = others \union {[run |-> r, batch |-> n, item |-> i, left |-> left \ {i}]}
    BY <1>1 DEF RecordRejects
  <2>2. budget' = [budget EXCEPT ![r] = @ - 1]
    BY <1>1 DEF RecordRejects
  <2>3. budget[r] - 1 \in Nat
    BY <1>1 DEF TypeOK
  <2> QED
    BY <2>1, <2>2, <2>3 DEF TypeOK, Writer
<1>2. CASE ~(left # {} /\ budget[r] > 0)
  BY <1>2 DEF RecordRejects, TypeOK
<1> QED
  BY <1>1, <1>2

(* No cursor, no run, no item.                                             *)
LEMMA TypeInit == Init => TypeOK
  BY BoundsAssumption, StepsAssumption, NullAssumption
  DEF Init, TypeOK, IdleStep, NoRow, CursorRow, RunFrame, StepFrame, PCs

(* The types are inductive.                                                *)
LEMMA TypeNext == TypeOK /\ [Next]_vars => TypeOK'
<1> SUFFICES ASSUME TypeOK, [Next]_vars PROVE TypeOK'
  OBVIOUS
<1> USE BoundsAssumption, NullAssumption
<1>1. CASE Tick
  BY <1>1 DEF Tick, TypeOK, engineVars, letterVars, historyVars
<1>2. ASSUME NEW i \in Items, Appear(i) PROVE TypeOK'
  BY <1>2 DEF Appear, TypeOK, engineVars, letterVars, historyVars
<1>3. ASSUME NEW full \in BOOLEAN, StartRun(full) PROVE TypeOK'
  BY SMTT(30), <1>3 DEF StartRun, TypeOK, RunFrame, PCs, worldVars, letterVars, historyVars
<1>4. CASE SkipDisabledStep
  <2>1. run' \in RunFrame /\ run'.at >= 1 /\ run'.id = run.id
    <3>1. run' = [run EXCEPT !.at = @ + 1]
      BY <1>4 DEF SkipDisabledStep
    <3> QED
      BY <3>1, RunFrameTypes DEF RunFrame
  <2> QED
    BY <1>4, <2>1 DEF SkipDisabledStep, AtNextStep, TypeOK, worldVars, letterVars, historyVars
<1>5. CASE ResolveSources
  <2>1. run' \in RunFrame /\ run'.at >= 1 /\ run'.id = run.id /\ withheld' \subseteq RunIds
    <3> DEFINE e == Steps[run.at]
    <3>1. run \in RunFrame /\ run.at >= 1 /\ run.at + 1 >= 1 /\ run.at + 1 \in Nat
      BY RunFrameTypes
    <3>2. ASSUME run' = [run EXCEPT !.at = @ + 1, !.sources = {<<e, GlobalSource>>}]
          PROVE  run' \in RunFrame /\ run'.at >= 1 /\ run'.id = run.id
      <4>1. {<<e, GlobalSource>>} \subseteq Keys
        BY <1>5, EntityKeys DEF ResolveSources, AtNextStep
      <4> QED
        BY <3>1, <3>2, <4>1 DEF RunFrame
    <3>3. ASSUME NEW S \in SUBSET Sources,
                 run' = [run EXCEPT !.at = @ + 1, !.sources = {e} \X S]
          PROVE  run' \in RunFrame /\ run'.at >= 1 /\ run'.id = run.id
      <4>1. {e} \X S \subseteq Keys
        BY <1>5, EntityKeys DEF ResolveSources, AtNextStep
      <4> QED
        BY <3>1, <3>3, <4>1 DEF RunFrame
    <3>4. ASSUME run' = [run EXCEPT !.at = @ + 1, !.errors = TRUE]
          PROVE  run' \in RunFrame /\ run'.at >= 1 /\ run'.id = run.id
      BY <3>1, <3>4 DEF RunFrame
    <3>5. run.id \in RunIds /\ withheld \subseteq RunIds
      BY <1>5 DEF ResolveSources, AtNextStep, TypeOK
    <3> QED
      BY <1>5, <3>2, <3>3, <3>4, <3>5 DEF ResolveSources
  <2> QED
    BY <1>5, <2>1 DEF ResolveSources, AtNextStep, TypeOK, worldVars, letterVars
<1>6. CASE SourcesThrow
  BY <1>6 DEF SourcesThrow, AtNextStep, TypeOK, PCs, worldVars, letterVars, historyVars
<1>7. ASSUME NEW k \in Keys, SkipBackoff(k) PROVE TypeOK'
  <2>1. run' = [run EXCEPT !.sources = @ \ {k}]
    BY <1>7 DEF SkipBackoff
  <2>2. run' \in RunFrame /\ run'.at >= 1 /\ run'.id = run.id
    BY <2>1, RunFrameTypes DEF RunFrame
  <2> QED
    BY <1>7, <2>2 DEF SkipBackoff, TypeOK, worldVars, letterVars, historyVars
<1>8. ASSUME NEW k \in Keys, BeginSource(k) PROVE TypeOK'
  <2>1. step' \in StepFrame /\ step'.key \in Keys
    <3>1. /\ cursors[k] \in CursorRow /\ now \in Int
          /\ IsBackfill(cursors[k], run.full) \in BOOLEAN
          /\ WindowSince(cursors[k], run.full) \in Int
      BY SMTT(30), RowTypes DEF TypeOK
    <3>2. step' = [IdleStep EXCEPT !.key = k, !.cursor = cursors[k], !.until = now,
                                   !.since = WindowSince(cursors[k], run.full),
                                   !.backfill = IsBackfill(cursors[k], run.full)]
      BY <1>8 DEF BeginSource
    <3> QED
      BY <3>1, <3>2, IdleTypes DEF StepFrame
  <2>2. covered' \in [Keys -> Int \union {Null}]
    BY <1>8, OldestTypes DEF BeginSource, TypeOK
  <2>3. UNCHANGED <<worldVars, cursors, runs, letterVars, gaps, withheld, lossy>> /\ pc' = "stepping"
    BY <1>8 DEF BeginSource
  <2>4. run' \in RunFrame /\ run'.id = run.id /\ run'.at = run.at /\ run.id \in RunIds
    BY <1>8 DEF BeginSource, TypeOK, RunFrame
  <2> QED
    BY <2>1, <2>2, <2>3, <2>4 DEF TypeOK, PCs, worldVars, letterVars
<1>9. ASSUME NEW i \in Items, ReadItem(i) PROVE TypeOK'
  BY <1>9 DEF ReadItem, TypeOK, StepFrame, worldVars, letterVars, historyVars
<1>10. CASE EndOfStream
  BY <1>10 DEF EndOfStream, TypeOK, StepFrame, worldVars, letterVars, historyVars
<1>11. ASSUME NEW rejected \in SUBSET step.batch, Push(rejected) PROVE TypeOK'
  <2>1. step' \in StepFrame /\ step'.key = step.key
    <3>1. step \in StepFrame
      BY DEF TypeOK
    <3>2. Cardinality(rejected) \in Nat /\ Cardinality(step.batch) \in Nat
      BY BatchSizes
    <3>3. step' = [step EXCEPT !.batch = {}, !.items = @ + Cardinality(step.batch),
                               !.rejects = @ + Cardinality(rejected)]
      BY <1>11 DEF Push
    <3> QED
      <4>1. /\ step.items \in Nat /\ step.rejects \in Nat
            /\ step.items + Cardinality(step.batch) \in Nat
            /\ step.rejects + Cardinality(rejected) \in Nat
        BY <3>1, <3>2 DEF StepFrame
      <4>2. step' = [step EXCEPT !.batch = {}, !.items = step.items + Cardinality(step.batch),
                                 !.rejects = step.rejects + Cardinality(rejected)]
        BY <3>3
      <4> QED
        BY <3>1, <4>1, <4>2 DEF StepFrame
  <2>2. rejected \in SUBSET Items /\ step.batch \subseteq Items /\ run.batches \in Nat /\ run.id \in RunIds
    BY <1>11 DEF Push, TypeOK, StepFrame, RunFrame
  <2>3. budget' \in [RunIds -> Nat] /\ writers' \subseteq Writer
    <3>1. writers \in SUBSET Writer
      BY DEF TypeOK
    <3> QED
      BY <1>11, <2>2, <3>1, RecordRejectsTypes DEF Push
  <2> QED
    <3>1. run' \in RunFrame /\ run'.id = run.id /\ run'.at = run.at
      <4>1. run' = [run EXCEPT !.batches = @ + 1]
        BY <1>11 DEF Push
      <4> QED
        BY <4>1, RunFrameTypes DEF RunFrame
    <3>2. delivered' \subseteq Items /\ refused' \subseteq RunIds \X Items
      BY <1>11, <2>2 DEF Push, TypeOK
    <3> QED
      BY <1>11, <2>1, <2>2, <2>3, <3>1, <3>2 DEF Push, TypeOK, historyVars
<1>12. ASSUME NEW sent \in SUBSET step.batch, StepThrows(sent) PROVE TypeOK'
  BY <1>12 DEF StepThrows, TypeOK, StepFrame, PCs, letterVars, historyVars
<1>13. ASSUME NEW d \in AdvanceOffsets, StepReturns(d) PROVE TypeOK'
  <2>1. step \in StepFrame /\ step.until \in Int /\ d \in Int \union {Null}
    BY DEF TypeOK, StepFrame
  <2>2. (IF d = Null THEN Null ELSE step.until + d) \in Int \union {Null}
    BY <2>1
  <2>3. step' \in StepFrame /\ step'.key = step.key
    BY <1>13, <2>1, <2>2 DEF StepReturns, StepFrame
  <2> QED
    BY <1>13, <2>3 DEF StepReturns, TypeOK, PCs, worldVars, letterVars, historyVars
<1>14. CASE AdvanceCursor
  <2>1. Clamped(step.advanceTo, step.until) \in Int
    BY <1>14 DEF AdvanceCursor, Advances, Clamped, TypeOK, StepFrame
  <2>2. cursors' \in [Keys -> CursorRow]
    BY <1>14, <2>1 DEF AdvanceCursor, TypeOK, CursorRow
  <2>3. gaps' \in [Keys -> SUBSET Int]
    BY <1>14, LeftOutTypes DEF AdvanceCursor, TypeOK, StepFrame
  <2> QED
    BY <1>14, <2>2, <2>3, IdleTypes DEF AdvanceCursor, TypeOK, PCs, worldVars, letterVars
<1>15. CASE HoldCursor
  <2>1. cursors' \in [Keys -> CursorRow]
    <3>1. step.cursor \in CursorRow
      BY DEF TypeOK, StepFrame
    <3> QED
      <4>1. cursors' = [cursors EXCEPT ![step.key] =
                          [last_synced_at |-> step.cursor.last_synced_at, last_status |-> "error",
                           consecutive_failures |-> step.cursor.consecutive_failures + 1,
                           updated_at |-> now]]
        BY <1>15 DEF HoldCursor
      <4>2. /\ step.cursor.last_synced_at \in Int \union {Null}
            /\ step.cursor.consecutive_failures + 1 \in Nat
        BY <3>1 DEF CursorRow
      <4>3. cursors \in [Keys -> CursorRow] /\ now \in Int
        BY DEF TypeOK
      <4> QED
        BY <4>1, <4>2, <4>3 DEF CursorRow
  <2>2. run' \in RunFrame /\ run'.id = run.id /\ run'.at = run.at
    <3>1. run' = [run EXCEPT !.errors = TRUE]
      BY <1>15 DEF HoldCursor
    <3> QED
      BY <3>1, RunFrameTypes DEF RunFrame
  <2> QED
    BY <1>15, <2>1, <2>2, IdleTypes DEF HoldCursor, TypeOK, PCs, worldVars, letterVars
<1>16. CASE LeaveCursor
  BY <1>16, IdleTypes DEF LeaveCursor, TypeOK, PCs, worldVars, letterVars, historyVars
<1>17. CASE FinishRun
  BY <1>17 DEF FinishRun, FinalStatus, TypeOK, PCs, worldVars, letterVars, historyVars
<1>18. CASE FailRun
  BY <1>18 DEF FailRun, TypeOK, PCs, worldVars, letterVars, historyVars
<1>19. CASE StoreThrows
  BY <1>19, IdleTypes DEF StoreThrows, TypeOK, PCs, worldVars, letterVars, historyVars
<1>20. ASSUME NEW w \in writers, DeadLetterAdded(w) PROVE TypeOK'
  <2>1. w \in Writer /\ writers \ {w} \in SUBSET Writer
    BY DEF TypeOK
  <2>2. w.run \in RunIds /\ w.batch \in Nat /\ w.left \in SUBSET Items /\ w.item \in Items
    BY <2>1 DEF Writer
  <2>3. budget' \in [RunIds -> Nat] /\ writers' \subseteq Writer
    BY <1>20, <2>1, <2>2, RecordRejectsTypes DEF DeadLetterAdded
  <2>4. deadLetters' \subseteq RunIds \X Items
    <3>1. deadLetters' = deadLetters \union {<<w.run, w.item>>}
      BY <1>20 DEF DeadLetterAdded
    <3> QED
      BY <2>2, <3>1 DEF TypeOK
  <2>5. UNCHANGED <<worldVars, engineVars, historyVars>>
    BY <1>20 DEF DeadLetterAdded
  <2> QED
    BY <2>3, <2>4, <2>5 DEF TypeOK, worldVars, engineVars, historyVars
<1>21. ASSUME NEW w \in writers, DeadLetterFails(w) PROVE TypeOK'
  <2>1. w.run \in RunIds
    BY DEF TypeOK, Writer
  <2> QED
    BY <1>21, <2>1 DEF DeadLetterFails, TypeOK, worldVars, engineVars
<1>22. CASE Crash
  <2>1. {w.run : w \in writers} \subseteq RunIds
    BY DEF TypeOK, Writer
  <2> QED
    BY <1>22, <2>1, IdleTypes DEF Crash, TypeOK, PCs, worldVars
<1>23. CASE UNCHANGED vars
  BY <1>23 DEF vars, TypeOK, worldVars, engineVars, letterVars, historyVars
<1> QED
  BY <1>1, <1>2, <1>3, <1>4, <1>5, <1>6, <1>7, <1>8, <1>9, <1>10, <1>11, <1>12, <1>13, <1>14,
     <1>15, <1>16, <1>17, <1>18, <1>19, <1>20, <1>21, <1>22, <1>23
  DEF Next, RunProgress, RunFault, BoundsReached

(* Every variable keeps its type in every behaviour of the engine.         *)
THEOREM TypeCorrect == Spec => []TypeOK
  BY TypeInit, TypeNext, PTL DEF Spec

-----------------------------------------------------------------------------
(* The golden rule.                                                        *)

(* Nothing is behind a cursor, as there is none.                           *)
LEMMA GoldenInit == Init => GoldenInv
  BY TypeInit
  DEF Init, GoldenInv, GoldenRule, CursorsInThePast, FrameFresh, ReadIsAccounted,
      WindowsOpened, EndedIsComplete, ReturnedIsFlushed, NoRow

(* A step that leaves the clock, the items, the cursors and the frame of   *)
(* the step-source alone, and neither enters nor leaves runOneSource,      *)
(* keeps the invariant.                                                    *)
LEMMA GoldenFrame ==
    ASSUME GoldenInv, TypeOK',
           UNCHANGED <<now, stamp, delivered, refused, cursors, step, covered, gaps>>,
           pc' \notin {"stepping", "settling"} \/ (pc' = pc /\ run'.id = run.id)
    PROVE  GoldenInv'
<1> USE DEF GoldenInv
<1>1. GoldenRule'
  BY DEF GoldenRule, Accounted
<1>2. CursorsInThePast'
  BY DEF CursorsInThePast
<1>3. FrameFresh'
  BY DEF FrameFresh
<1>4. ReadIsAccounted'
  BY DEF ReadIsAccounted
<1>5. EndedIsComplete'
  BY DEF EndedIsComplete, InWindow
<1>6. ReturnedIsFlushed' /\ WindowsOpened'
  BY DEF ReturnedIsFlushed, WindowsOpened
<1> QED
  BY <1>1, <1>2, <1>3, <1>4, <1>5, <1>6

(* Leaving runOneSource drops its frame: only the cursors matter.          *)
LEMMA GoldenLeave ==
    ASSUME GoldenInv, TypeOK', UNCHANGED <<now, stamp, delivered, refused>>,
           pc' \notin {"stepping", "settling"}, GoldenRule', CursorsInThePast', WindowsOpened'
    PROVE  GoldenInv'
  BY DEF GoldenInv, FrameFresh, ReadIsAccounted, EndedIsComplete, ReturnedIsFlushed

(* An item that appears bears a time no older than now - Skew, which the   *)
(* overlap keeps inside every window to come.                              *)
LEMMA GoldenAppear ==
    ASSUME GoldenInv, TypeOK', NEW j \in Items, Appear(j)
    PROVE  GoldenInv'
<1> USE DEF GoldenInv
<1>1. PICK t \in (now - Skew)..now : stamp' = [stamp EXCEPT ![j] = t]
  BY DEF Appear
<1>2. /\ UNCHANGED <<now, delivered, refused, cursors, pc, run, step, covered, gaps>>
      /\ stamp[j] = Null
  BY DEF Appear, engineVars, historyVars
<1>3. now \in Nat /\ t \in Int /\ t >= now - Skew /\ t # Null
  BY BoundsAssumption, NullAssumption DEF TypeOK
<1>4. stamp'[j] = t /\ \A i \in Items : i # j => stamp'[i] = stamp[i]
  BY <1>1 DEF TypeOK
<1>5. GoldenRule'
  <2> SUFFICES ASSUME NEW i \in Items,
                      stamp'[i] # Null, cursors[KeyOf[i]].last_synced_at # Null
               PROVE  \/ stamp'[i] < covered[KeyOf[i]]
                      \/ stamp'[i] \in gaps[KeyOf[i]]
                      \/ stamp'[i] >= cursors[KeyOf[i]].last_synced_at - Overlap
                      \/ Accounted(i)
    BY <1>2 DEF GoldenRule, Accounted
  <2>1. CASE i = j
    <3>1. KeyOf[i] \in Keys
      BY StepsAssumption
    <3>2. cursors[KeyOf[i]].last_synced_at \in Int
      BY <3>1, RowTypes
    <3>3. cursors[KeyOf[i]].last_synced_at <= now
      BY <3>1 DEF CursorsInThePast
    <3> QED
      BY <1>3, <1>4, <2>1, <3>2, <3>3, BoundsAssumption, SkewAssumption
  <2>2. CASE i # j
    BY <1>4, <2>2 DEF GoldenRule
  <2> QED
    BY <2>1, <2>2
<1>6. CursorsInThePast' /\ FrameFresh' /\ WindowsOpened' /\ ReadIsAccounted' /\ ReturnedIsFlushed'
  BY <1>2 DEF CursorsInThePast, FrameFresh, WindowsOpened, ReadIsAccounted, ReturnedIsFlushed
<1>7. EndedIsComplete'
  <2> SUFFICES ASSUME pc \in {"stepping", "settling"}, step.ended,
                      NEW i \in Items, KeyOf[i] = step.key, InWindow(i)'
               PROVE  i \in step.seen \/ stamp'[i] >= step.until - Skew
    BY <1>2 DEF EndedIsComplete
  <2>1. CASE i = j
    <3>1. step.until \in Int /\ step.until <= now
      BY DEF FrameFresh, TypeOK, StepFrame
    <3> QED
      BY <1>3, <1>4, <2>1, <3>1, BoundsAssumption
  <2>2. CASE i # j
    BY <1>2, <1>4, <2>2 DEF EndedIsComplete, InWindow
  <2> QED
    BY <2>1, <2>2
<1> QED
  BY <1>5, <1>6, <1>7

(* The advance itself: what the window held has been read and taken, or    *)
(* appeared within Skew of its end; what lies before the window was        *)
(* already accounted for, or is what a backfill leaves out.                *)
LEMMA GoldenAdvance ==
    ASSUME GoldenInv, TypeOK', AdvanceCursor
    PROVE  GoldenInv'
<1> USE DEF GoldenInv
<1> DEFINE k == step.key
           c == Clamped(step.advanceTo, step.until)
<1>1. /\ pc = "settling" /\ Advances /\ pc' = "loop"
      /\ UNCHANGED <<now, stamp, delivered, refused, covered>>
      /\ gaps' = [gaps EXCEPT ![k] = {t \in @ : t < step.since} \union LeftOut]
      /\ cursors' = [cursors EXCEPT ![k] =
                       [last_synced_at |-> c, last_status |-> "ok",
                        consecutive_failures |-> 0, updated_at |-> now]]
  BY DEF AdvanceCursor, worldVars
<1>2. /\ k \in Keys /\ now \in Nat /\ cursors \in [Keys -> CursorRow]
      /\ covered \in [Keys -> Int \union {Null}] /\ gaps \in [Keys -> SUBSET Int]
      /\ step.until \in Int /\ step.since \in Int /\ step.advanceTo \in Int
      /\ ~step.errors /\ ~BlockedByRejects /\ step.rejects \in Nat
  BY <1>1 DEF TypeOK, StepFrame, Advances
<1>3. c \in Int /\ c <= step.until /\ c <= now
  BY <1>1, <1>2 DEF Clamped, FrameFresh
<1>4. /\ cursors'[k].last_synced_at = c
      /\ \A h \in Keys : h # k => cursors'[h] = cursors[h] /\ gaps'[h] = gaps[h]
      /\ gaps'[k] = {t \in gaps[k] : t < step.since} \union LeftOut
  BY <1>1, <1>2
<1>5. CursorsInThePast'
  BY <1>1, <1>3, <1>4 DEF CursorsInThePast
<1>6. ASSUME NEW i \in Items, KeyOf[i] = k, i \in step.seen
      PROVE  Accounted(i)
  <2>1. i \in delivered \/ (step.rejects > 0 /\ <<run.id, i>> \in refused)
    BY <1>1, <1>2, <1>6 DEF ReadIsAccounted, ReturnedIsFlushed
  <2>2. run.id \in RunIds
    BY <1>1 DEF TypeOK
  <2>3. step.rejects > 0 => Policy[KeyOf[i][1]] # "hold"
    BY <1>2, <1>6 DEF BlockedByRejects, Tolerated
  <2> QED
    BY <2>1, <2>2, <2>3 DEF Accounted
<1>7. ASSUME NEW i \in Items, KeyOf[i] = k, stamp[i] # Null, stamp[i] >= step.since
      PROVE  stamp[i] >= c - Overlap \/ Accounted(i)
  <2>1. stamp[i] \in Int
    BY <1>7 DEF TypeOK
  <2>2. CASE stamp[i] > step.until
    BY <1>2, <1>3, <2>1, <2>2, BoundsAssumption
  <2>3. CASE stamp[i] <= step.until
    <3>1. InWindow(i) /\ step.ended
      BY <1>1, <1>2, <1>7, <2>1, <2>3 DEF InWindow, ReturnedIsFlushed
    <3>2. i \in step.seen \/ stamp[i] >= step.until - Skew
      BY <1>1, <1>7, <3>1 DEF EndedIsComplete
    <3> QED
      BY <1>2, <1>3, <1>6, <1>7, <2>1, <3>2, BoundsAssumption, SkewAssumption
  <2> QED
    BY <1>2, <2>1, <2>2, <2>3
<1>8. GoldenRule'
  <2> SUFFICES ASSUME NEW i \in Items,
                      stamp[i] # Null, cursors'[KeyOf[i]].last_synced_at # Null
               PROVE  \/ stamp[i] < covered[KeyOf[i]]
                      \/ stamp[i] \in gaps'[KeyOf[i]]
                      \/ stamp[i] >= cursors'[KeyOf[i]].last_synced_at - Overlap
                      \/ Accounted(i)
    BY <1>1 DEF GoldenRule, Accounted
  <2>1. KeyOf[i] \in Keys /\ stamp[i] \in Int
    BY StepsAssumption DEF TypeOK
  <2>2. CASE KeyOf[i] # k
    BY <1>4, <2>1, <2>2 DEF GoldenRule
  <2>3. CASE KeyOf[i] = k /\ stamp[i] >= step.since
    BY <1>4, <1>7, <2>3
  <2>4. CASE KeyOf[i] = k /\ stamp[i] < step.since
    <3>1. OwedFrom \in Int
      BY <1>1, <1>2, RowTypes, BoundsAssumption DEF OwedFrom, FrameFresh, WindowsOpened
    <3>2. step.backfill /\ stamp[i] >= OwedFrom => stamp[i] \in gaps'[k]
      <4>1. step.backfill /\ stamp[i] >= OwedFrom => stamp[i] \in OwedFrom..(step.since - 1)
        BY <1>2, <2>1, <2>4, <3>1
      <4> QED
        BY <1>4, <4>1 DEF LeftOut
    <3>3. CASE cursors[k].last_synced_at = Null
      <4>1. step.backfill /\ OwedFrom = covered[k]
        BY <1>1, <3>3 DEF FrameFresh, OwedFrom
      <4> QED
        BY <2>1, <2>4, <3>1, <3>2, <4>1
    <3>4. CASE cursors[k].last_synced_at # Null
      <4>1. OwedFrom = cursors[k].last_synced_at - Overlap
        BY <1>1, <3>4 DEF FrameFresh, OwedFrom
      <4>2. ~step.backfill => step.since = OwedFrom
        BY <1>1, <4>1 DEF FrameFresh
      <4>3. \/ stamp[i] < covered[k] \/ stamp[i] \in gaps[k]
            \/ stamp[i] >= OwedFrom \/ Accounted(i)
        BY <2>4, <3>4, <4>1 DEF GoldenRule
      <4>4. stamp[i] \in gaps[k] => stamp[i] \in gaps'[k]
        BY <1>4, <2>4
      <4> QED
        BY <1>2, <2>1, <2>4, <3>1, <3>2, <4>2, <4>3, <4>4
    <3> QED
      BY <3>3, <3>4
  <2> QED
    BY <1>2, <2>1, <2>2, <2>3, <2>4
<1>9. WindowsOpened'
  BY <1>1, <1>2, <1>4 DEF WindowsOpened
<1> QED
  BY <1>1, <1>5, <1>8, <1>9, GoldenLeave

(* A failed step rewrites its row with the last_synced_at it had read.     *)
LEMMA GoldenHold ==
    ASSUME GoldenInv, TypeOK', HoldCursor
    PROVE  GoldenInv'
<1> USE DEF GoldenInv
<1>1. /\ pc = "settling" /\ pc' = "loop"
      /\ UNCHANGED <<now, stamp, delivered, refused, covered, gaps>>
  BY DEF HoldCursor, worldVars
<1>2. \A h \in Keys : cursors'[h].last_synced_at = cursors[h].last_synced_at
  <2>1. step.key \in Keys /\ step.cursor = cursors[step.key]
    BY <1>1 DEF TypeOK, FrameFresh
  <2> QED
    BY <2>1 DEF HoldCursor, TypeOK
<1>3. GoldenRule'
  BY <1>1, <1>2, StepsAssumption DEF GoldenRule, Accounted
<1>4. CursorsInThePast' /\ WindowsOpened'
  BY <1>1, <1>2 DEF CursorsInThePast, WindowsOpened
<1> QED
  BY <1>1, <1>3, <1>4, GoldenLeave

(* While the step runs, the cursors stand still and the API only takes     *)
(* more: what remains to show is about the frame.                          *)
LEMMA GoldenStep ==
    ASSUME GoldenInv, TypeOK', UNCHANGED <<now, stamp, cursors, covered, gaps>>,
           pc \in {"stepping", "settling"}, step'.key = step.key,
           delivered \subseteq delivered', refused \subseteq refused',
           FrameFresh', ReadIsAccounted', EndedIsComplete', ReturnedIsFlushed'
    PROVE  GoldenInv'
<1> USE DEF GoldenInv
<1>1. GoldenRule'
  BY DEF GoldenRule, Accounted
<1>2. CursorsInThePast' /\ WindowsOpened'
  BY DEF CursorsInThePast, WindowsOpened
<1> QED
  BY <1>1, <1>2

(* Time passes, and with it the age that a late item may bear.             *)
LEMMA GoldenTick ==
    ASSUME GoldenInv, TypeOK', Tick
    PROVE  GoldenInv'
<1> USE DEF GoldenInv
<1>1. /\ now' = now + 1 /\ now \in Nat
      /\ UNCHANGED <<stamp, delivered, refused, cursors, pc, run, step, covered, gaps>>
  BY DEF Tick, TypeOK, engineVars, historyVars
<1>2. GoldenRule' /\ ReadIsAccounted' /\ EndedIsComplete' /\ ReturnedIsFlushed'
  BY <1>1 DEF GoldenRule, Accounted, ReadIsAccounted, EndedIsComplete, InWindow, ReturnedIsFlushed
<1>3. CursorsInThePast'
  BY <1>1, RowTypes DEF CursorsInThePast
<1>4. FrameFresh'
  <2>1. step.until \in Int
    BY DEF TypeOK, StepFrame
  <2> QED
    BY <1>1, <2>1 DEF FrameFresh
<1>5. WindowsOpened'
  <2>1. \A k \in Keys : covered[k] \in Int \union {Null}
    BY DEF TypeOK
  <2> QED
    BY <1>1, <2>1, BoundsAssumption DEF WindowsOpened
<1> QED
  BY <1>2, <1>3, <1>4, <1>5

(* A source begins with an empty frame, and the window of its row.         *)
LEMMA GoldenBegin ==
    ASSUME GoldenInv, TypeOK', NEW k \in Keys, BeginSource(k)
    PROVE  GoldenInv'
<1> USE DEF GoldenInv
<1>1. /\ pc' = "stepping"
      /\ UNCHANGED <<now, stamp, delivered, refused, cursors, gaps>>
      /\ covered' = [covered EXCEPT ![k] = Oldest(@, WindowSince(cursors[k], run.full))]
  BY DEF BeginSource, worldVars
<1>2. /\ step'.key = k /\ step'.cursor = cursors[k] /\ step'.until = now
      /\ step'.since = WindowSince(cursors[k], run.full)
      /\ step'.backfill = IsBackfill(cursors[k], run.full)
      /\ step'.seen = {} /\ step'.ended = FALSE
  BY DEF BeginSource, IdleStep
<1>3. FrameFresh'
  <2>1. now \in Nat
    BY DEF TypeOK
  <2>2. ~IsBackfill(cursors[k], run.full) => /\ cursors[k].last_synced_at # Null
                                            /\ step'.since = cursors[k].last_synced_at - Overlap
    BY <1>2 DEF WindowSince, IsBackfill
  <2>3. ~step'.backfill => ~IsBackfill(cursors[k], run.full)
    BY <1>2
  <2> QED
    BY <1>1, <1>2, <2>1, <2>2, <2>3 DEF FrameFresh
<1>4. ReadIsAccounted' /\ EndedIsComplete' /\ ReturnedIsFlushed'
  BY <1>1, <1>2 DEF ReadIsAccounted, EndedIsComplete, ReturnedIsFlushed
<1>5. /\ covered'[k] = Oldest(covered[k], WindowSince(cursors[k], run.full))
      /\ \A h \in Keys : h # k => covered'[h] = covered[h]
  BY <1>1 DEF TypeOK
<1>6. /\ covered'[k] \in Int /\ now \in Nat /\ WindowSince(cursors[k], run.full) \in Int
      /\ covered[k] \in Int \union {Null} /\ cursors[k].last_synced_at \in Int \union {Null}
  BY <1>5, OldestTypes, RowTypes DEF TypeOK
<1>7. IsBackfill(cursors[k], run.full) => WindowSince(cursors[k], run.full) = now - Backfill
  BY DEF WindowSince
<1>8. covered[k] = Null => IsBackfill(cursors[k], run.full)
  BY DEF WindowsOpened, IsBackfill
<1>9. WindowsOpened'
  <2>1. covered'[k] <= now - Backfill
    <3>1. CASE covered[k] = Null
      BY <1>5, <1>6, <1>7, <1>8, <3>1, OldestTypes
    <3>2. CASE covered[k] # Null
      <4>1. covered[k] <= now - Backfill
        BY <3>2 DEF WindowsOpened
      <4> QED
        BY <1>5, <1>6, <3>2, <4>1, BoundsAssumption DEF Oldest, Lesser
    <3> QED
      BY <3>1, <3>2
  <2> QED
    BY <1>1, <1>2, <1>5, <1>6, <2>1, NullAssumption DEF WindowsOpened
<1>10. GoldenRule'
  <2> SUFFICES ASSUME NEW i \in Items,
                      stamp[i] # Null, cursors[KeyOf[i]].last_synced_at # Null
               PROVE  \/ stamp[i] < covered'[KeyOf[i]]
                      \/ stamp[i] \in gaps[KeyOf[i]]
                      \/ stamp[i] >= cursors[KeyOf[i]].last_synced_at - Overlap
                      \/ Accounted(i)
    BY <1>1 DEF GoldenRule, Accounted
  <2>1. KeyOf[i] \in Keys /\ stamp[i] \in Int
    BY StepsAssumption DEF TypeOK
  <2>2. CASE KeyOf[i] # k \/ covered'[k] = covered[k]
    BY <1>5, <2>1, <2>2 DEF GoldenRule
  <2>3. CASE KeyOf[i] = k /\ covered'[k] # covered[k]
    <3>1. covered[k] # Null /\ covered[k] <= now - Backfill
      BY <2>3 DEF WindowsOpened
    <3>2. WindowSince(cursors[k], run.full) < covered[k]
      BY <1>5, <2>3, <3>1, OldestTypes
    <3>3. ~IsBackfill(cursors[k], run.full)
      BY <1>6, <1>7, <3>1, <3>2, BoundsAssumption
    <3>4. covered'[k] = cursors[k].last_synced_at - Overlap
      BY <1>5, <1>6, <3>1, <3>2, <3>3 DEF Oldest, Lesser, WindowSince
    <3> QED
      BY <1>6, <2>1, <2>3, <3>4
  <2> QED
    BY <2>2, <2>3
<1>11. CursorsInThePast'
  BY <1>1 DEF CursorsInThePast
<1> QED
  BY <1>3, <1>4, <1>9, <1>10, <1>11

(* An item that is read is in the batch until it is flushed.               *)
LEMMA GoldenRead ==
    ASSUME GoldenInv, TypeOK', NEW j \in Items, ReadItem(j)
    PROVE  GoldenInv'
<1> USE DEF GoldenInv
<1>1. /\ pc = "stepping" /\ ~step.ended
      /\ UNCHANGED <<now, stamp, delivered, refused, cursors, covered, gaps, pc, run>>
  BY DEF ReadItem, worldVars, historyVars
<1>2. step' = [step EXCEPT !.seen = @ \union {j}, !.batch = @ \union {j}]
  BY DEF ReadItem
<1>3. step \in StepFrame
  BY DEF TypeOK
<1>4. /\ UNCHANGED <<step.key, step.cursor, step.until, step.since, step.backfill, step.ended,
                     step.rejects, step.errors>>
      /\ step'.seen = step.seen \union {j} /\ step'.batch = step.batch \union {j}
  BY <1>2, <1>3 DEF StepFrame
<1>5. FrameFresh' /\ EndedIsComplete' /\ ReturnedIsFlushed'
  BY <1>1, <1>4 DEF FrameFresh, EndedIsComplete, ReturnedIsFlushed
<1>6. ReadIsAccounted'
  BY <1>1, <1>4 DEF ReadIsAccounted
<1>7. step'.key = step.key /\ delivered \subseteq delivered' /\ refused \subseteq refused'
  BY <1>1, <1>4
<1> QED
  BY <1>1, <1>5, <1>6, <1>7, GoldenStep

(* A stream that ends has yielded its window, up to items that are to      *)
(* appear with an older timestamp.                                         *)
LEMMA GoldenEnd ==
    ASSUME GoldenInv, TypeOK', EndOfStream
    PROVE  GoldenInv'
<1> USE DEF GoldenInv
<1>1. /\ pc = "stepping"
      /\ UNCHANGED <<now, stamp, delivered, refused, cursors, covered, gaps, pc, run>>
      /\ \A i \in Items : KeyOf[i] = step.key /\ InWindow(i) => i \in step.seen
      /\ step' = [step EXCEPT !.ended = TRUE]
  BY DEF EndOfStream, worldVars, historyVars
<1>2. step \in StepFrame
  BY DEF TypeOK
<1>3. UNCHANGED <<step.key, step.cursor, step.until, step.since, step.backfill, step.seen,
                  step.batch, step.rejects, step.errors>>
  BY <1>1, <1>2 DEF StepFrame
<1>4. FrameFresh' /\ ReadIsAccounted' /\ ReturnedIsFlushed'
  BY <1>1, <1>3 DEF FrameFresh, ReadIsAccounted, ReturnedIsFlushed
<1>5. EndedIsComplete'
  BY <1>1, <1>3 DEF EndedIsComplete, InWindow
<1> QED
  BY <1>1, <1>4, <1>5, GoldenStep

(* A push moves its batch to the API or to the rejects of this run.        *)
LEMMA GoldenPush ==
    ASSUME GoldenInv, TypeOK', NEW rejected \in SUBSET step.batch, Push(rejected)
    PROVE  GoldenInv'
<1> USE DEF GoldenInv
<1>1. /\ pc = "stepping"
      /\ UNCHANGED <<now, stamp, cursors, covered, gaps, pc>>
      /\ delivered' = delivered \union (step.batch \ rejected)
      /\ refused' = refused \union ({run.id} \X rejected)
      /\ run' = [run EXCEPT !.batches = @ + 1]
      /\ step' = [step EXCEPT !.batch = {}, !.items = @ + Cardinality(step.batch),
                             !.rejects = @ + Cardinality(rejected)]
  BY DEF Push, historyVars
<1>2. step \in StepFrame /\ step.rejects \in Nat /\ step.batch \subseteq Items
  BY DEF TypeOK, StepFrame
<1>3. run'.id = run.id
  BY <1>1, RunFrameTypes DEF RunFrame
<1>4. /\ UNCHANGED <<step.key, step.cursor, step.until, step.since, step.backfill, step.seen,
                     step.ended, step.errors>>
      /\ step'.rejects = step.rejects + Cardinality(rejected)
  BY <1>1, <1>2 DEF StepFrame
<1>5. Cardinality(rejected) \in Nat /\ (rejected # {} => Cardinality(rejected) > 0)
  <2>1. IsFiniteSet(rejected)
    BY <1>2, StepsAssumption, FS_Subset
  <2> QED
    BY <2>1, FS_CardinalityType, FS_EmptySet
<1>6. FrameFresh' /\ ReturnedIsFlushed'
  BY <1>1, <1>4 DEF FrameFresh, ReturnedIsFlushed
<1>7. EndedIsComplete'
  BY <1>1, <1>4 DEF EndedIsComplete, InWindow
<1>8. ReadIsAccounted'
  <2> SUFFICES ASSUME ~step.errors, NEW i \in step.seen
               PROVE  i \in delivered' \/ (step'.rejects > 0 /\ <<run.id, i>> \in refused')
    BY <1>1, <1>3, <1>4 DEF ReadIsAccounted
  <2>1. CASE i \in step.batch /\ i \notin rejected
    BY <1>1, <2>1
  <2>2. CASE i \in rejected
    BY <1>1, <1>2, <1>4, <1>5, <2>2
  <2>3. CASE i \notin step.batch
    <3>1. i \in delivered \/ (step.rejects > 0 /\ <<run.id, i>> \in refused)
      BY <1>1, <2>3 DEF ReadIsAccounted
    <3> QED
      BY <1>1, <1>2, <1>4, <1>5, <3>1
  <2> QED
    BY <2>1, <2>2, <2>3
<1> QED
  BY <1>1, <1>6, <1>7, <1>8, GoldenStep

(* A step that throws may have reached the API with any part of its batch: *)
(* its cursor will be held.                                                *)
LEMMA GoldenThrows ==
    ASSUME GoldenInv, TypeOK', NEW sent \in SUBSET step.batch, StepThrows(sent)
    PROVE  GoldenInv'
<1> USE DEF GoldenInv
<1>1. /\ pc = "stepping" /\ delivered \subseteq delivered'
      /\ UNCHANGED <<now, stamp, refused, cursors, covered, gaps, run>>
      /\ step' = [step EXCEPT !.batch = {}, !.errors = TRUE]
  BY DEF StepThrows, historyVars
<1>2. step \in StepFrame
  BY DEF TypeOK
<1>3. /\ UNCHANGED <<step.key, step.cursor, step.until, step.since, step.backfill, step.seen,
                     step.ended>>
      /\ step'.errors = TRUE
  BY <1>1, <1>2 DEF StepFrame
<1>4. FrameFresh' /\ ReadIsAccounted' /\ ReturnedIsFlushed'
  BY <1>1, <1>3 DEF FrameFresh, ReadIsAccounted, ReturnedIsFlushed
<1>5. EndedIsComplete'
  BY <1>1, <1>3 DEF EndedIsComplete, InWindow
<1> QED
  BY <1>1, <1>4, <1>5, GoldenStep

(* A step returns with its batch flushed, and with what was rejected in    *)
(* its counters.                                                           *)
LEMMA GoldenReturns ==
    ASSUME GoldenInv, TypeOK', NEW d \in AdvanceOffsets, StepReturns(d)
    PROVE  GoldenInv'
<1> USE DEF GoldenInv
<1>1. /\ pc = "stepping" /\ step.ended /\ step.batch = {}
      /\ UNCHANGED <<now, stamp, delivered, refused, cursors, covered, gaps, run>>
      /\ step' = [step EXCEPT !.advanceTo = IF d = Null THEN Null ELSE step.until + d]
  BY DEF StepReturns, worldVars, historyVars
<1>2. step \in StepFrame
  BY DEF TypeOK
<1>3. UNCHANGED <<step.key, step.cursor, step.until, step.since, step.backfill, step.seen,
                  step.batch, step.ended, step.rejects, step.errors>>
  BY <1>1, <1>2 DEF StepFrame
<1>4. FrameFresh' /\ ReadIsAccounted' /\ ReturnedIsFlushed'
  BY <1>1, <1>3 DEF FrameFresh, ReadIsAccounted, ReturnedIsFlushed
<1>5. EndedIsComplete'
  BY <1>1, <1>3 DEF EndedIsComplete, InWindow
<1> QED
  BY <1>1, <1>4, <1>5, GoldenStep

(* The invariant is inductive; moving the cursor needs all of it.          *)
LEMMA GoldenNext == GoldenInv /\ [Next]_vars => GoldenInv'
<1> SUFFICES ASSUME GoldenInv, [Next]_vars PROVE GoldenInv'
  OBVIOUS
<1>0. TypeOK /\ TypeOK'
  BY TypeNext DEF GoldenInv
<1>1. CASE Tick
  BY <1>0, <1>1, GoldenTick
<1>2. ASSUME NEW i \in Items, Appear(i) PROVE GoldenInv'
  BY <1>0, <1>2, GoldenAppear
<1>3. ASSUME NEW full \in BOOLEAN, StartRun(full) PROVE GoldenInv'
  BY <1>0, <1>3, GoldenFrame DEF StartRun, worldVars, historyVars
<1>4. CASE SkipDisabledStep
  BY <1>0, <1>4, GoldenFrame DEF SkipDisabledStep, AtNextStep, worldVars, historyVars
<1>5. CASE ResolveSources
  BY <1>0, <1>5, GoldenFrame DEF ResolveSources, AtNextStep, worldVars
<1>6. CASE SourcesThrow
  BY <1>0, <1>6, GoldenFrame DEF SourcesThrow, worldVars, historyVars
<1>7. ASSUME NEW k \in Keys, SkipBackoff(k) PROVE GoldenInv'
  BY <1>0, <1>7, GoldenFrame DEF SkipBackoff, worldVars, historyVars
<1>8. ASSUME NEW k \in Keys, BeginSource(k) PROVE GoldenInv'
  BY <1>0, <1>8, GoldenBegin
<1>9. ASSUME NEW i \in Items, ReadItem(i) PROVE GoldenInv'
  BY <1>0, <1>9, GoldenRead
<1>10. CASE EndOfStream
  BY <1>0, <1>10, GoldenEnd
<1>11. ASSUME NEW rejected \in SUBSET step.batch, Push(rejected) PROVE GoldenInv'
  BY <1>0, <1>11, GoldenPush
<1>12. ASSUME NEW sent \in SUBSET step.batch, StepThrows(sent) PROVE GoldenInv'
  BY <1>0, <1>12, GoldenThrows
<1>13. ASSUME NEW d \in AdvanceOffsets, StepReturns(d) PROVE GoldenInv'
  BY <1>0, <1>13, GoldenReturns
<1>14. CASE AdvanceCursor
  BY <1>0, <1>14, GoldenAdvance
<1>15. CASE HoldCursor
  BY <1>0, <1>15, GoldenHold
<1>16. ASSUME LeaveCursor \/ StoreThrows \/ Crash PROVE GoldenInv'
  <2>1. /\ pc' \notin {"stepping", "settling"}
        /\ UNCHANGED <<now, stamp, delivered, refused, cursors, covered, gaps>>
    BY <1>16 DEF LeaveCursor, StoreThrows, Crash, worldVars, historyVars
  <2>2. GoldenRule' /\ CursorsInThePast' /\ WindowsOpened'
    BY <2>1 DEF GoldenInv, GoldenRule, Accounted, CursorsInThePast, WindowsOpened
  <2> QED
    BY <1>0, <2>1, <2>2, GoldenLeave
<1>17. CASE FinishRun \/ FailRun
  BY <1>0, <1>17, GoldenFrame DEF FinishRun, FailRun, worldVars, historyVars
<1>18. ASSUME NEW w \in writers, DeadLetterAdded(w) \/ DeadLetterFails(w) PROVE GoldenInv'
  BY <1>0, <1>18, GoldenFrame DEF DeadLetterAdded, DeadLetterFails, worldVars, engineVars, historyVars
<1>19. CASE UNCHANGED vars
  BY <1>0, <1>19, GoldenFrame DEF vars, worldVars, engineVars, letterVars, historyVars
<1> QED
  BY <1>1, <1>2, <1>3, <1>4, <1>5, <1>6, <1>7, <1>8, <1>9, <1>10, <1>11, <1>12, <1>13, <1>14,
     <1>15, <1>16, <1>17, <1>18, <1>19
  DEF Next, RunProgress, RunFault, BoundsReached

(* No item falls behind the next incremental window of its cursor before   *)
(* the API took it or its step tolerated that the API refused it, whatever *)
(* throws, is rejected, appears late or crashes, for any steps, any        *)
(* windows and any overlap that covers the skew of the shop's clock; but   *)
(* for an item older than every window ever opened, and one in a stretch   *)
(* that a successful backfill left out although earlier windows owed it.   *)
THEOREM GoldenRuleHolds == Spec => []GoldenRule
<1>1. GoldenInv => GoldenRule
  BY DEF GoldenInv
<1> QED
  BY <1>1, GoldenInit, GoldenNext, PTL DEF Spec

-----------------------------------------------------------------------------
(* The window.                                                             *)

(* The frame is filled with a row whose date is not in the future, and is  *)
(* not touched again.                                                      *)
LEMMA WindowNext ==
    ASSUME GoldenInv, WindowNotInverted, [Next]_vars PROVE WindowNotInverted'
<1> USE DEF WindowNotInverted
<1>1. ASSUME NEW k \in Keys, BeginSource(k) PROVE WindowNotInverted'
  <2>1. step'.until = now /\ step'.since = WindowSince(cursors[k], run.full)
    BY <1>1 DEF BeginSource, IdleStep
  <2>2. /\ now \in Int /\ cursors[k].last_synced_at \in Int \union {Null}
        /\ cursors[k].last_synced_at # Null => cursors[k].last_synced_at <= now
    BY RowTypes DEF GoldenInv, TypeOK, CursorsInThePast
  <2>3. WindowSince(cursors[k], run.full) <= now
    BY <2>2, BoundsAssumption DEF WindowSince, IsBackfill
  <2> QED
    BY <2>1, <2>3
<1>2. CASE pc' # "stepping" \/ (pc = "stepping" /\ step'.since = step.since /\ step'.until = step.until)
  BY <1>2
<1> QED
  <2>1. ASSUME NEW i \in Items, ReadItem(i) PROVE WindowNotInverted'
    BY <1>2, <2>1 DEF ReadItem, GoldenInv, TypeOK, StepFrame
  <2>2. CASE EndOfStream
    BY <1>2, <2>2 DEF EndOfStream, GoldenInv, TypeOK, StepFrame
  <2>3. ASSUME NEW rejected \in SUBSET step.batch, Push(rejected) PROVE WindowNotInverted'
    BY <1>2, <2>3 DEF Push, GoldenInv, TypeOK, StepFrame
  <2>4. CASE UNCHANGED <<pc, step>>
    BY <1>2, <2>4
  <2> QED
    BY <1>1, <1>2, <2>1, <2>2, <2>3, <2>4
    DEF Next, RunProgress, RunFault, BoundsReached, Tick, Appear, StartRun, SkipDisabledStep,
        ResolveSources, SourcesThrow, SkipBackoff, StepThrows, StepReturns, AdvanceCursor,
        HoldCursor, LeaveCursor, FinishRun, FailRun, StoreThrows, DeadLetterAdded,
        DeadLetterFails, Crash, vars, engineVars

(* A window never ends before it starts, whatever bound advanceTo returned *)
(* in an earlier run: "a future cursor would make the next window          *)
(* empty/inverted and silently skip data".                                 *)
THEOREM WindowsHold == Spec => []WindowNotInverted
<1>1. Init => WindowNotInverted
  BY DEF Init, WindowNotInverted
<1> QED
  BY <1>1, GoldenInit, GoldenNext, WindowNext, PTL DEF Spec

-----------------------------------------------------------------------------
(* The status of a run.                                                    *)

(* Whoever withholds something marks the run first, and the row of a run   *)
(* says ok only when the run is over.                                      *)
RunIsMarked ==
    pc # "idle" => /\ runs[run.id] # "ok"
                   /\ run.id \in withheld => run.errors

LaterRunsUntouched == \A r \in RunIds : r > run.id => r \notin withheld

StatusInv == TypeOK /\ OkRunsWithheldNothing /\ RunIsMarked /\ LaterRunsUntouched

(* Steps that mark no row and withhold nothing.                            *)
LEMMA StatusFrame ==
    ASSUME StatusInv, TypeOK', UNCHANGED <<runs, withheld>>, run'.id = run.id,
           run.errors => run'.errors, pc' = "idle" \/ pc # "idle"
    PROVE  StatusInv'
  BY DEF StatusInv, OkRunsWithheldNothing, RunIsMarked, LaterRunsUntouched

(* The status of a run is decided at its end, from the marks it bears.     *)
LEMMA StatusNext == StatusInv /\ [Next]_vars => StatusInv'
<1> SUFFICES ASSUME StatusInv, [Next]_vars PROVE StatusInv'
  OBVIOUS
<1>0. /\ TypeOK /\ TypeOK' /\ run \in RunFrame /\ run.id \in Nat
      /\ pc # "idle" => run.id \in RunIds
  BY TypeNext, RunFrameTypes DEF StatusInv, TypeOK
<1> USE DEF StatusInv, OkRunsWithheldNothing, RunIsMarked, LaterRunsUntouched
<1>1. ASSUME NEW full \in BOOLEAN, StartRun(full) PROVE StatusInv'
  <2>1. run'.id = run.id + 1 /\ run'.id \in RunIds /\ run'.id \notin withheld
    BY <1>0, <1>1, BoundsAssumption DEF StartRun
  <2>2. runs' = [runs EXCEPT ![run'.id] = "running"] /\ withheld' = withheld
    BY <1>1, <2>1 DEF StartRun, historyVars
  <2> QED
    BY SMTT(30), <1>0, <2>1, <2>2 DEF TypeOK
<1>2. CASE ResolveSources
  <2>1. pc = "loop" /\ pc' = pc /\ runs' = runs /\ run'.id = run.id
    BY <1>0, <1>2 DEF ResolveSources, AtNextStep, RunFrame
  <2>2. CASE withheld' = withheld /\ run'.errors = run.errors
    BY <1>0, <2>1, <2>2, StatusFrame
  <2>3. CASE withheld' = withheld \union {run.id} /\ run'.errors
    BY <1>0, <2>1, <2>3
  <2> QED
    BY <1>0, <1>2, <2>2, <2>3 DEF ResolveSources, RunFrame
<1>3. CASE HoldCursor
  <2>1. run'.id = run.id /\ run'.errors
    BY <1>0, <1>3 DEF HoldCursor, RunFrame
  <2> QED
    BY <1>0, <1>3, <2>1 DEF HoldCursor
<1>4. CASE FinishRun
  BY <1>0, <1>4 DEF FinishRun, FinalStatus, historyVars, TypeOK
<1>5. CASE FailRun
  BY <1>0, <1>5 DEF FailRun, historyVars, TypeOK
<1>6. CASE /\ UNCHANGED <<runs, withheld>> /\ run'.id = run.id
           /\ run'.errors = run.errors /\ (pc' = "idle" \/ pc # "idle")
  BY <1>0, <1>6, StatusFrame
<1> QED
  <2>1. CASE SkipDisabledStep
    BY <1>0, <1>6, <2>1 DEF SkipDisabledStep, AtNextStep, RunFrame, historyVars
  <2>2. ASSUME NEW k \in Keys, SkipBackoff(k) \/ BeginSource(k) PROVE StatusInv'
    BY <1>0, <1>6, <2>2 DEF SkipBackoff, BeginSource, RunFrame, historyVars
  <2>3. ASSUME NEW rejected \in SUBSET step.batch, Push(rejected) PROVE StatusInv'
    BY <1>0, <1>6, <2>3 DEF Push, RunFrame, historyVars
  <2> QED
    BY <1>1, <1>2, <1>3, <1>4, <1>5, <1>6, <2>1, <2>2, <2>3
    DEF Next, RunProgress, RunFault, BoundsReached, Tick, Appear, SourcesThrow, ReadItem,
        EndOfStream, StepThrows, StepReturns, AdvanceCursor, LeaveCursor, StoreThrows,
        DeadLetterAdded, DeadLetterFails, Crash, AtNextStep, vars, engineVars, historyVars

(* A run reported ok held no cursor and skipped no misconfigured step, at  *)
(* any of its step-sources.                                                *)
THEOREM OkMeansOk == Spec => []OkRunsWithheldNothing
<1>1. Init => StatusInv
  BY TypeInit DEF Init, StatusInv, OkRunsWithheldNothing, RunIsMarked, LaterRunsUntouched
<1>2. StatusInv => OkRunsWithheldNothing
  BY DEF StatusInv
<1> QED
  BY <1>1, <1>2, StatusNext, PTL DEF Spec

-----------------------------------------------------------------------------
(* The dead letter.                                                        *)

WritersOf(r) == {w \in writers : w.run = r}
Owed(w) == {w.item} \union w.left

(* The budget is charged before the row is added, so that rows, calls in   *)
(* flight and what is left of the budget never exceed the cap.             *)
ChargedAhead ==
    \A r \in RunIds :
        Cardinality(DeadLettersOf(r)) + Cardinality(WritersOf(r)) + budget[r] <= RejectedCap

(* Short of an error or a crash, the three make up the cap exactly.        *)
NothingLost ==
    \A r \in RunIds \ lossy :
        Cardinality(DeadLettersOf(r)) + Cardinality(WritersOf(r)) + budget[r] = RejectedCap

(* Each item is on its way once, in one call, and is not there yet.        *)
OwedOnce ==
    /\ \A w \in writers : w.item \notin w.left
    /\ \A v, w \in writers : v # w /\ v.run = w.run => Owed(v) \intersect Owed(w) = {}
    /\ \A w \in writers : \A i \in Owed(w) : <<w.run, i>> \in refused \ deadLetters

(* A refused item is in the dead letter, on its way, or beyond the budget. *)
RefusedIsOwed ==
    \A r \in RunIds \ lossy, i \in Items :
        <<r, i>> \in refused \ deadLetters
            => budget[r] = 0 \/ \E w \in writers : w.run = r /\ i \in Owed(w)

LettersFinite ==
    /\ IsFiniteSet(writers) /\ deadLetters \subseteq refused
    /\ \A d \in refused : d[1] <= run.id

(* A run goes through a key once, and reads an item of it once: what it    *)
(* pushes has not been refused in this run yet.                            *)
Upcoming == {Steps[n] : n \in {m \in DOMAIN Steps : m >= run.at}}

PushedOnce ==
    /\ pc # "idle" =>
           /\ \A k \in run.sources : k[1] \notin Upcoming
           /\ \A i \in Items : <<run.id, i>> \in refused =>
                  KeyOf[i] \notin run.sources /\ KeyOf[i][1] \notin Upcoming
    /\ pc \in {"stepping", "settling"} =>
           step.key[1] \notin Upcoming /\ step.key \notin run.sources
    /\ pc = "stepping" =>
           /\ step.batch \subseteq step.seen
           /\ \A i \in step.batch : KeyOf[i] = step.key /\ <<run.id, i>> \notin refused
           /\ \A i \in Items : KeyOf[i] = step.key /\ <<run.id, i>> \in refused => i \in step.seen

LettersKept == LettersFinite /\ ChargedAhead /\ NothingLost /\ OwedOnce /\ RefusedIsOwed

LetterInv == TypeOK /\ LettersKept /\ PushedOnce

(* The sets that the dead letter counts are finite.                        *)
LEMMA LetterTypes ==
    ASSUME LetterInv
    PROVE  /\ IsFiniteSet(deadLetters) /\ IsFiniteSet(refused) /\ IsFiniteSet(writers)
           /\ \A r \in RunIds :
                  /\ IsFiniteSet(DeadLettersOf(r)) /\ Cardinality(DeadLettersOf(r)) \in Nat
                  /\ IsFiniteSet(RefusedBy(r)) /\ Cardinality(RefusedBy(r)) \in Nat
                  /\ IsFiniteSet(WritersOf(r)) /\ Cardinality(WritersOf(r)) \in Nat
                  /\ budget[r] \in Nat
           /\ RejectedCap \in Nat
<1>1. IsFiniteSet(RunIds \X Items)
  <2>1. IsFiniteSet(RunIds)
    BY BoundsAssumption, FS_Interval
  <2> QED
    BY <2>1, StepsAssumption, FS_Product
<1>2. /\ deadLetters \in SUBSET (RunIds \X Items) /\ refused \in SUBSET (RunIds \X Items)
      /\ IsFiniteSet(writers) /\ budget \in [RunIds -> Nat]
  BY DEF LetterInv, TypeOK, LettersKept, LettersFinite
<1>3. IsFiniteSet(deadLetters) /\ IsFiniteSet(refused)
  BY <1>1, <1>2, FS_Subset
<1>4. ASSUME NEW r \in RunIds
      PROVE  /\ IsFiniteSet(DeadLettersOf(r)) /\ Cardinality(DeadLettersOf(r)) \in Nat
             /\ IsFiniteSet(RefusedBy(r)) /\ Cardinality(RefusedBy(r)) \in Nat
             /\ IsFiniteSet(WritersOf(r)) /\ Cardinality(WritersOf(r)) \in Nat
  <2>1. /\ DeadLettersOf(r) \in SUBSET deadLetters /\ RefusedBy(r) \in SUBSET refused
        /\ WritersOf(r) \in SUBSET writers
    BY DEF DeadLettersOf, RefusedBy, WritersOf
  <2>2. IsFiniteSet(DeadLettersOf(r)) /\ IsFiniteSet(RefusedBy(r)) /\ IsFiniteSet(WritersOf(r))
    BY <1>2, <1>3, <2>1, FS_Subset
  <2> QED
    BY <2>2, FS_CardinalityType
<1> QED
  BY <1>2, <1>3, <1>4, BoundsAssumption

(* recordRejects spends one unit of the budget on the call it starts.      *)
LEMMA RecordRejectsCharges ==
    ASSUME TypeOK, NEW r \in RunIds, NEW n \in Nat, NEW left \in SUBSET Items,
           NEW others \in SUBSET writers, IsFiniteSet(writers), RecordRejects(r, n, left, others),
           NEW q \in RunIds, NEW before, before = {w \in others : w.run = q}
    PROVE  /\ IsFiniteSet(writers')
           /\ Cardinality(before) \in Nat /\ Cardinality(WritersOf(q)') \in Nat /\ budget'[q] \in Nat
           /\ Cardinality(WritersOf(q)') + budget'[q] <= Cardinality(before) + budget[q]
           /\ (\A w \in others : w.run = r => w.item \notin left)
                 => Cardinality(WritersOf(q)') + budget'[q] = Cardinality(before) + budget[q]
<1>1. /\ IsFiniteSet(others) /\ IsFiniteSet(before) /\ Cardinality(before) \in Nat
      /\ budget \in [RunIds -> Nat] /\ budget[q] \in Nat
  <2>1. before \in SUBSET others /\ IsFiniteSet(others)
    BY FS_Subset
  <2> QED
    BY <2>1, FS_Subset, FS_CardinalityType DEF TypeOK
<1>2. CASE left # {} /\ budget[r] > 0
  <2>1. PICK i \in left :
          writers' = others \union {[run |-> r, batch |-> n, item |-> i, left |-> left \ {i}]}
    BY <1>2 DEF RecordRejects
  <2> DEFINE new == [run |-> r, batch |-> n, item |-> i, left |-> left \ {i}]
  <2>2. budget' = [budget EXCEPT ![r] = @ - 1]
    BY <1>2 DEF RecordRejects
  <2>3. IsFiniteSet(writers')
    BY <1>1, <2>1, FS_AddElement
  <2>4. CASE q = r
    <3>1. WritersOf(q)' = before \union {new}
      BY <2>1, <2>4 DEF WritersOf
    <3>2. (\A w \in others : w.run = r => w.item \notin left) => new \notin before
      BY <2>4
    <3> HIDE DEF new
    <3>3. Cardinality(WritersOf(q)') = IF new \in before THEN Cardinality(before)
                                       ELSE Cardinality(before) + 1
      BY <1>1, <3>1, FS_AddElement
    <3>4. budget'[q] = budget[q] - 1 /\ budget'[q] \in Nat
      BY <1>1, <1>2, <2>2, <2>4
    <3> QED
      BY SMTT(30), <1>1, <2>3, <3>2, <3>3, <3>4
  <2>5. CASE q # r
    <3>1. WritersOf(q)' = before
      BY <2>1, <2>5 DEF WritersOf
    <3>2. budget'[q] = budget[q]
      BY <1>1, <2>2, <2>5
    <3> QED
      BY <1>1, <2>3, <3>1, <3>2
  <2> QED
    BY <2>4, <2>5
<1>3. CASE ~(left # {} /\ budget[r] > 0)
  <2>1. writers' = others /\ budget' = budget
    BY <1>3 DEF RecordRejects
  <2>2. WritersOf(q)' = before
    BY <2>1 DEF WritersOf
  <2> QED
    BY <1>1, <2>1, <2>2
<1> QED
  BY <1>2, <1>3

(* It owes what it was given, and nothing twice.                           *)
LEMMA RecordRejectsOwes ==
    ASSUME TypeOK, NEW r \in RunIds, NEW n \in Nat, NEW left \in SUBSET Items,
           NEW others \in SUBSET writers, RecordRejects(r, n, left, others), OwedOnce,
           UNCHANGED lossy,
           \A w \in others : w.run = r => Owed(w) \intersect left = {},
           \A i \in left : <<r, i>> \in refused' \ deadLetters',
           \A w \in others : \A i \in Owed(w) : <<w.run, i>> \in refused' \ deadLetters',
           \A q \in RunIds \ lossy, i \in Items :
               <<q, i>> \in refused' \ deadLetters'
                   => \/ budget[q] = 0
                      \/ \E w \in others : w.run = q /\ i \in Owed(w)
                      \/ q = r /\ i \in left
    PROVE  OwedOnce' /\ RefusedIsOwed'
<1>1. CASE left # {} /\ budget[r] > 0
  <2>1. PICK i \in left :
          writers' = others \union {[run |-> r, batch |-> n, item |-> i, left |-> left \ {i}]}
    BY <1>1 DEF RecordRejects
  <2> DEFINE new == [run |-> r, batch |-> n, item |-> i, left |-> left \ {i}]
  <2>2. new.run = r /\ new.item = i /\ new.left = left \ {i} /\ Owed(new) = left
    BY DEF Owed
  <2>3. budget' = [budget EXCEPT ![r] = @ - 1] /\ budget \in [RunIds -> Nat]
    BY <1>1 DEF RecordRejects, TypeOK
  <2>4. writers' = others \union {new}
    BY <2>1
  <2> HIDE DEF new
  <2>5. OwedOnce'
    <3>1. \A w \in writers' : w.item \notin w.left
      BY <2>2, <2>4 DEF OwedOnce
    <3>2. ASSUME NEW v \in writers', NEW w \in writers', v # w, v.run = w.run
          PROVE  Owed(v) \intersect Owed(w) = {}
      BY <2>2, <2>4, <3>2 DEF OwedOnce
    <3>3. \A w \in writers' : \A j \in Owed(w) : <<w.run, j>> \in refused' \ deadLetters'
      BY <2>2, <2>4
    <3> QED
      BY <3>1, <3>2, <3>3 DEF OwedOnce, Owed
  <2>6. RefusedIsOwed'
    <3> SUFFICES ASSUME NEW q \in RunIds \ lossy, NEW j \in Items,
                        <<q, j>> \in refused' \ deadLetters'
                 PROVE  budget'[q] = 0 \/ \E w \in writers' : w.run = q /\ j \in Owed(w)
      BY DEF RefusedIsOwed, Owed
    <3>1. CASE budget[q] = 0
      BY <1>1, <2>3, <3>1
    <3>2. CASE \E w \in others : w.run = q /\ j \in Owed(w)
      BY <2>4, <3>2
    <3>3. CASE q = r /\ j \in left
      BY <2>2, <2>4, <3>3
    <3> QED
      BY <3>1, <3>2, <3>3
  <2> QED
    BY <2>5, <2>6
<1>2. CASE ~(left # {} /\ budget[r] > 0)
  <2>1. writers' = others /\ budget' = budget /\ (left = {} \/ budget[r] = 0)
    BY SMTT(30), <1>2 DEF RecordRejects, TypeOK
  <2>2. OwedOnce'
    BY <2>1 DEF OwedOnce, Owed
  <2>3. RefusedIsOwed'
    BY <2>1 DEF RefusedIsOwed, Owed
  <2> QED
    BY <2>2, <2>3
<1> QED
  BY <1>1, <1>2

(* Steps that do not touch the dead letter.                                *)
LEMMA LettersFrame ==
    ASSUME LetterInv, TypeOK',
           UNCHANGED <<writers, deadLetters, refused, budget, lossy>>, run.id <= run'.id
    PROVE  LettersKept'
<1>1. run.id \in Nat /\ run'.id \in Nat /\ refused \subseteq RunIds \X Items
  BY RunFrameTypes DEF LetterInv, TypeOK, RunFrame
<1>2. LettersFinite'
  <2>1. \A d \in refused : d[1] \in Nat /\ d[1] <= run.id
    BY <1>1, BoundsAssumption DEF LetterInv, LettersKept, LettersFinite
  <2> QED
    BY <1>1, <2>1 DEF LetterInv, LettersKept, LettersFinite
<1> QED
  BY <1>2 DEF LetterInv, LettersKept, ChargedAhead, NothingLost, DeadLettersOf, WritersOf,
     OwedOnce, Owed, RefusedIsOwed

(* The items of a push go to a call of recordRejects, up to the budget.    *)
LEMMA LettersPush ==
    ASSUME LetterInv, TypeOK', NEW rejected \in SUBSET step.batch, Push(rejected)
    PROVE  LettersKept'
<1>1. /\ pc = "stepping" /\ run.id \in RunIds /\ run'.id = run.id /\ run.batches \in Nat
      /\ rejected \in SUBSET Items /\ refused \subseteq RunIds \X Items
      /\ refused' = refused \union ({run.id} \X rejected)
      /\ UNCHANGED <<deadLetters, lossy>>
      /\ RecordRejects(run.id, run.batches, rejected, writers)
  BY RunFrameTypes DEF Push, LetterInv, TypeOK, StepFrame, RunFrame, historyVars
<1>2. \A i \in rejected : <<run.id, i>> \notin refused
  BY <1>1 DEF LetterInv, PushedOnce
<1>3. \A w \in writers : w.run = run.id => Owed(w) \intersect rejected = {} /\ w.item \notin rejected
  BY <1>1, <1>2 DEF LetterInv, LettersKept, OwedOnce, Owed
<1>4. OwedOnce' /\ RefusedIsOwed'
  <2>1. \A i \in rejected : <<run.id, i>> \in refused' \ deadLetters'
    BY <1>1, <1>2 DEF LetterInv, LettersKept, LettersFinite
  <2>2. \A w \in writers : \A i \in Owed(w) : <<w.run, i>> \in refused' \ deadLetters'
    BY <1>1 DEF LetterInv, LettersKept, OwedOnce
  <2>3. \A q \in RunIds \ lossy, i \in Items :
            <<q, i>> \in refused' \ deadLetters'
                => \/ budget[q] = 0
                   \/ \E w \in writers : w.run = q /\ i \in Owed(w)
                   \/ q = run.id /\ i \in rejected
    BY <1>1 DEF LetterInv, LettersKept, RefusedIsOwed
  <2> QED
    BY <1>1, <1>3, <2>1, <2>2, <2>3, RecordRejectsOwes DEF LetterInv, LettersKept
<1>5. ASSUME NEW q \in RunIds, NEW before, before = {w \in writers : w.run = q}
      PROVE  /\ IsFiniteSet(writers')
             /\ Cardinality(WritersOf(q)') \in Nat /\ budget'[q] \in Nat
             /\ Cardinality(WritersOf(q)') + budget'[q] = Cardinality(before) + budget[q]
  <2> DEFINE others == writers
  <2>1. /\ others \in SUBSET writers /\ before = {w \in others : w.run = q}
        /\ RecordRejects(run.id, run.batches, rejected, others)
        /\ \A w \in others : w.run = run.id => w.item \notin rejected
    BY <1>1, <1>3, <1>5
  <2> HIDE DEF others
  <2>2. PICK r \in RunIds : r = run.id
    BY <1>1
  <2>3. PICK n \in Nat : n = run.batches
    BY <1>1
  <2>4. TypeOK /\ IsFiniteSet(writers)
    BY LetterTypes DEF LetterInv
  <2>5. RecordRejects(r, n, rejected, others)
    BY <2>1, <2>2, <2>3
  <2>6. \A w \in others : w.run = r => w.item \notin rejected
    BY <2>1, <2>2, <2>3
  <2>7. rejected \in SUBSET Items
    BY <1>1
  <2> QED
    BY <2>1, <2>4, <2>5, <2>6, <2>7, RecordRejectsCharges
<1>6. ASSUME NEW q \in RunIds
      PROVE  Cardinality(DeadLettersOf(q)') + Cardinality(WritersOf(q)') + budget'[q]
                = Cardinality(DeadLettersOf(q)) + Cardinality(WritersOf(q)) + budget[q]
  <2> DEFINE before == WritersOf(q)
  <2>1. before = {w \in writers : w.run = q} /\ DeadLettersOf(q)' = DeadLettersOf(q)
    BY <1>1 DEF WritersOf, DeadLettersOf
  <2>2. Cardinality(WritersOf(q)') + budget'[q] = Cardinality(before) + budget[q]
    <3> HIDE DEF before
    <3> QED
      BY <1>5, <2>1
  <2>3. Cardinality(WritersOf(q)') \in Nat /\ budget'[q] \in Nat
    <3> HIDE DEF before
    <3> QED
      BY <1>5, <2>1
  <2>4. /\ Cardinality(before) = Cardinality(WritersOf(q)) /\ Cardinality(WritersOf(q)) \in Nat
        /\ Cardinality(DeadLettersOf(q)) \in Nat /\ budget[q] \in Nat
        /\ Cardinality(DeadLettersOf(q)') = Cardinality(DeadLettersOf(q))
    BY <2>1, LetterTypes
  <2> HIDE DEF before
  <2> QED
    BY <2>2, <2>3, <2>4
<1>7. ChargedAhead' /\ NothingLost'
  BY <1>1, <1>6 DEF LetterInv, LettersKept, ChargedAhead, NothingLost
<1>8. LettersFinite'
  <2>1. \A d \in refused' : d[1] <= run'.id
    BY <1>1, BoundsAssumption DEF LetterInv, LettersKept, LettersFinite
  <2>2. IsFiniteSet(writers')
    BY <1>1, <1>5
  <2> QED
    BY <1>1, <2>1, <2>2 DEF LetterInv, LettersKept, LettersFinite
<1> QED
  BY <1>4, <1>7, <1>8 DEF LettersKept

(* A row is added, and the call goes on with what it still owes.           *)
LEMMA LettersAdded ==
    ASSUME LetterInv, TypeOK', NEW w \in writers, DeadLetterAdded(w)
    PROVE  LettersKept'
<1> DEFINE others == writers \ {w}
           d == <<w.run, w.item>>
<1>1. /\ w.run \in RunIds /\ w.batch \in Nat /\ w.left \in SUBSET Items /\ w.item \in Items
      /\ deadLetters' = deadLetters \union {d}
      /\ RecordRejects(w.run, w.batch, w.left, others)
      /\ UNCHANGED <<refused, lossy, run>>
  BY DEF DeadLetterAdded, LetterInv, TypeOK, Writer, worldVars, engineVars, historyVars
<1>2. /\ w.item \notin w.left /\ d \in refused \ deadLetters
      /\ \A v \in others : v.run = w.run => Owed(v) \intersect Owed(w) = {}
      /\ \A v \in writers : \A i \in Owed(v) : <<v.run, i>> \in refused \ deadLetters
  BY DEF LetterInv, LettersKept, OwedOnce, Owed
<1>3. \A v \in others : v.run = w.run => /\ Owed(v) \intersect w.left = {}
                                        /\ v.item \notin w.left /\ w.item \notin Owed(v)
  BY <1>2 DEF Owed
<1>4. OwedOnce' /\ RefusedIsOwed'
  <2>1. \A i \in w.left : <<w.run, i>> \in refused' \ deadLetters'
    BY <1>1, <1>2 DEF Owed
  <2>2. \A v \in others : \A i \in Owed(v) : <<v.run, i>> \in refused' \ deadLetters'
    BY <1>1, <1>2, <1>3
  <2>3. ASSUME NEW q \in RunIds \ lossy, NEW i \in Items, <<q, i>> \in refused' \ deadLetters'
        PROVE  \/ budget[q] = 0
               \/ \E v \in others : v.run = q /\ i \in Owed(v)
               \/ q = w.run /\ i \in w.left
    <3>1. budget[q] = 0 \/ \E v \in writers : v.run = q /\ i \in Owed(v)
      BY <1>1, <2>3 DEF LetterInv, LettersKept, RefusedIsOwed
    <3>2. i \in Owed(w) /\ q = w.run => i \in w.left
      BY <1>1, <2>3 DEF Owed
    <3> QED
      BY <3>1, <3>2
  <2>4. others \in SUBSET writers
    OBVIOUS
  <2> HIDE DEF others
  <2> QED
    BY <1>1, <1>3, <2>1, <2>2, <2>3, <2>4, RecordRejectsOwes DEF LetterInv, LettersKept
<1>5. ASSUME NEW q \in RunIds, NEW before, before = {v \in others : v.run = q}
      PROVE  /\ IsFiniteSet(writers')
             /\ Cardinality(WritersOf(q)') \in Nat /\ budget'[q] \in Nat /\ Cardinality(before) \in Nat
             /\ Cardinality(WritersOf(q)') + budget'[q] = Cardinality(before) + budget[q]
  <2>1. others \in SUBSET writers /\ \A v \in others : v.run = w.run => v.item \notin w.left
    BY <1>3
  <2> HIDE DEF others
  <2> QED
    BY <1>1, <1>5, <2>1, LetterTypes, RecordRejectsCharges DEF LetterInv
<1>6. ASSUME NEW q \in RunIds
      PROVE  Cardinality(DeadLettersOf(q)') + Cardinality(WritersOf(q)') + budget'[q]
                = Cardinality(DeadLettersOf(q)) + Cardinality(WritersOf(q)) + budget[q]
  <2> DEFINE before == {v \in others : v.run = q}
  <2>0. /\ IsFiniteSet(DeadLettersOf(q)) /\ Cardinality(DeadLettersOf(q)) \in Nat
        /\ IsFiniteSet(WritersOf(q)) /\ Cardinality(WritersOf(q)) \in Nat /\ budget[q] \in Nat
    BY LetterTypes
  <2>1. /\ Cardinality(WritersOf(q)') \in Nat /\ budget'[q] \in Nat /\ Cardinality(before) \in Nat
        /\ Cardinality(WritersOf(q)') + budget'[q] = Cardinality(before) + budget[q]
    BY <1>5
  <2>2. /\ Cardinality(DeadLettersOf(q)') \in Nat
        /\ Cardinality(DeadLettersOf(q)') + Cardinality(before)
              = Cardinality(DeadLettersOf(q)) + Cardinality(WritersOf(q))
    <3>1. CASE q = w.run
      <4>1. DeadLettersOf(q)' = DeadLettersOf(q) \union {d} /\ d \notin DeadLettersOf(q)
        BY <1>1, <1>2, <3>1 DEF DeadLettersOf
      <4>2. before = WritersOf(q) \ {w} /\ w \in WritersOf(q)
        BY <3>1 DEF WritersOf
      <4>3. Cardinality(DeadLettersOf(q)') = Cardinality(DeadLettersOf(q)) + 1
        BY <2>0, <4>1, FS_AddElement
      <4>4. Cardinality(before) = Cardinality(WritersOf(q)) - 1
        BY <2>0, <4>2, FS_RemoveElement
      <4> HIDE DEF before
      <4> QED
        BY <2>0, <4>3, <4>4
    <3>2. CASE q # w.run
      <4>1. DeadLettersOf(q)' = DeadLettersOf(q) /\ before = WritersOf(q)
        BY <1>1, <3>2 DEF DeadLettersOf, WritersOf
      <4> QED
        BY <2>0, <4>1
    <3> QED
      BY <3>1, <3>2
  <2> HIDE DEF before
  <2> QED
    BY <2>0, <2>1, <2>2
<1>7. ChargedAhead' /\ NothingLost'
  BY <1>1, <1>6 DEF LetterInv, LettersKept, ChargedAhead, NothingLost
<1>8. LettersFinite'
  <2>1. IsFiniteSet(writers')
    BY <1>1, <1>5
  <2> QED
    BY <1>1, <1>2, <2>1 DEF LetterInv, LettersKept, LettersFinite
<1> QED
  BY <1>4, <1>7, <1>8 DEF LettersKept

(* Calls that die: their runs are marked, and what they took of the budget *)
(* is gone.                                                                *)
LEMMA LettersDropped ==
    ASSUME LetterInv, TypeOK', NEW gone \in SUBSET writers,
           writers' = writers \ gone, lossy' = lossy \union {w.run : w \in gone},
           UNCHANGED <<deadLetters, refused, budget, run>>
    PROVE  LettersKept'
<1>1. IsFiniteSet(writers')
  BY LetterTypes, FS_Subset
<1>2. ASSUME NEW q \in RunIds
      PROVE  /\ DeadLettersOf(q)' = DeadLettersOf(q)
             /\ Cardinality(WritersOf(q)') \in Nat
             /\ Cardinality(WritersOf(q)') <= Cardinality(WritersOf(q))
             /\ q \notin lossy' => WritersOf(q)' = WritersOf(q)
  <2>1. WritersOf(q)' \in SUBSET WritersOf(q) /\ IsFiniteSet(WritersOf(q))
    BY LetterTypes DEF WritersOf
  <2>2. DeadLettersOf(q)' = DeadLettersOf(q)
    BY DEF DeadLettersOf
  <2>3. q \notin lossy' => WritersOf(q)' = WritersOf(q)
    BY DEF WritersOf
  <2> QED
    BY <2>1, <2>2, <2>3, FS_Subset, FS_CardinalityType
<1>3. ChargedAhead'
  BY <1>2, LetterTypes DEF LetterInv, LettersKept, ChargedAhead
<1>4. NothingLost'
  <2>1. \A q \in RunIds \ lossy' : /\ q \in RunIds \ lossy
                                  /\ WritersOf(q)' = WritersOf(q) /\ DeadLettersOf(q)' = DeadLettersOf(q)
    BY <1>2
  <2> QED
    BY <2>1 DEF LetterInv, LettersKept, NothingLost
<1>5. OwedOnce'
  BY DEF LetterInv, LettersKept, OwedOnce, Owed
<1>6. RefusedIsOwed'
  BY DEF LetterInv, LettersKept, RefusedIsOwed, Owed
<1>7. LettersFinite'
  BY <1>1 DEF LetterInv, LettersKept, LettersFinite
<1> QED
  BY <1>3, <1>4, <1>5, <1>6, <1>7 DEF LettersKept

-----------------------------------------------------------------------------
(* A run pushes an item once.                                              *)

(* The loop is inside runOneSource, or goes on after it.                   *)
LEMMA PushedFrame ==
    ASSUME LetterInv, TypeOK', UNCHANGED refused, run'.id = run.id, run'.at = run.at,
           run'.sources \subseteq run.sources,
           \/ pc' = "idle"
           \/ pc # "idle" /\ pc' \notin {"stepping", "settling"}
           \/ pc' = pc /\ step' = step
           \/ pc' = "settling" /\ pc = "stepping" /\ step'.key = step.key
    PROVE  PushedOnce'
<1>1. Upcoming' = Upcoming
  BY DEF Upcoming
<1> QED
  BY <1>1 DEF LetterInv, PushedOnce

(* A new run has pushed nothing.                                           *)
LEMMA PushedStart ==
    ASSUME LetterInv, TypeOK', NEW full \in BOOLEAN, StartRun(full) PROVE PushedOnce'
<1>1. run'.id = run.id + 1 /\ run'.sources = {} /\ pc' = "loop" /\ refused' = refused
  BY DEF StartRun, worldVars
<1>2. run.id \in Nat /\ run'.id > run.id /\ refused \subseteq RunIds \X Items
  BY <1>1, RunFrameTypes DEF LetterInv, TypeOK
<1>3. \A i \in Items : <<run'.id, i>> \notin refused'
  <2> SUFFICES ASSUME NEW i \in Items, <<run'.id, i>> \in refused PROVE FALSE
    BY <1>1
  <2>1. <<run'.id, i>>[1] <= run.id
    BY DEF LetterInv, LettersKept, LettersFinite
  <2> QED
    BY <1>1, <1>2, <2>1
<1> QED
  BY <1>1, <1>3 DEF PushedOnce

(* The step in question is behind the loop: its entity occurs once.        *)
LEMMA UpcomingShrinks ==
    ASSUME LetterInv, AtNextStep, run'.at = run.at + 1
    PROVE  /\ Upcoming' \subseteq Upcoming
           /\ Steps[run.at] \in Upcoming /\ Steps[run.at] \notin Upcoming'
<1>1. run.at \in Nat /\ run.at >= 1 /\ run.at <= Len(Steps) /\ Steps \in Seq(STRING)
  BY RunFrameTypes, StepsAssumption DEF AtNextStep, LetterInv
<1>2. DOMAIN Steps = 1..Len(Steps) /\ Len(Steps) \in Nat
  BY <1>1
<1>3. run.at \in DOMAIN Steps
  BY <1>1, <1>2
<1>4. \A m \in DOMAIN Steps : m >= run.at + 1 => m >= run.at /\ m # run.at
  BY <1>1, <1>2
<1> QED
  BY <1>1, <1>3, <1>4, StepsAssumption DEF Upcoming

(* The loop goes on to the next step, whose entity is a new one.           *)
LEMMA PushedLoop ==
    ASSUME LetterInv, TypeOK', SkipDisabledStep \/ ResolveSources PROVE PushedOnce'
<1>1. /\ AtNextStep /\ pc = "loop" /\ pc' = pc /\ refused' = refused
      /\ run \in RunFrame /\ run.sources = {}
  BY RunFrameTypes DEF LetterInv, SkipDisabledStep, ResolveSources, AtNextStep, worldVars
<1>2. run'.id = run.id /\ run'.at = run.at + 1
  BY <1>1 DEF SkipDisabledStep, ResolveSources, RunFrame
<1>3. \A k \in run'.sources : k[1] = Steps[run.at]
  <2>1. run'.sources = {} \/ run'.sources = {<<Steps[run.at], GlobalSource>>}
           \/ \E S \in SUBSET Sources : run'.sources = {Steps[run.at]} \X S
    BY <1>1 DEF SkipDisabledStep, ResolveSources, RunFrame
  <2> QED
    BY <2>1
<1>4. \A i \in Items : <<run.id, i>> \in refused => KeyOf[i][1] \notin Upcoming
  BY <1>1 DEF LetterInv, PushedOnce
<1> QED
  BY <1>1, <1>2, <1>3, <1>4, UpcomingShrinks DEF PushedOnce

(* A source that begins leaves the list.                                   *)
LEMMA PushedBegin ==
    ASSUME LetterInv, TypeOK', NEW k \in Keys, BeginSource(k) PROVE PushedOnce'
<1>1. /\ pc = "loop" /\ k \in run.sources /\ pc' = "stepping" /\ refused' = refused
      /\ run'.id = run.id /\ run'.at = run.at /\ run'.sources = run.sources \ {k}
      /\ step'.key = k /\ step'.batch = {} /\ step'.seen = {}
  BY RunFrameTypes DEF LetterInv, BeginSource, RunFrame, IdleStep, worldVars
<1>2. Upcoming' = Upcoming
  BY <1>1 DEF Upcoming
<1> QED
  BY <1>1, <1>2 DEF LetterInv, PushedOnce

(* An item that is read was not read before by this step.                  *)
LEMMA PushedReads ==
    ASSUME LetterInv, TypeOK', (\E i \in Items : ReadItem(i)) \/ EndOfStream PROVE PushedOnce'
<1>1. /\ pc = "stepping" /\ pc' = pc /\ run' = run /\ refused' = refused
      /\ step'.key = step.key /\ step \in StepFrame
  BY DEF LetterInv, TypeOK, ReadItem, EndOfStream, StepFrame, worldVars
<1>2. Upcoming' = Upcoming
  BY <1>1 DEF Upcoming
<1>3. CASE EndOfStream
  <2>1. step'.batch = step.batch /\ step'.seen = step.seen
    BY <1>1, <1>3 DEF EndOfStream, StepFrame
  <2> QED
    BY <1>1, <1>2, <2>1 DEF LetterInv, PushedOnce
<1>4. ASSUME NEW i \in Items, ReadItem(i) PROVE PushedOnce'
  <2>1. /\ step'.batch = step.batch \union {i} /\ step'.seen = step.seen \union {i}
        /\ KeyOf[i] = step.key /\ i \notin step.seen
    BY <1>1, <1>4 DEF ReadItem, StepFrame
  <2> QED
    BY <1>1, <1>2, <2>1 DEF LetterInv, PushedOnce
<1> QED
  BY <1>3, <1>4

(* What is pushed leaves the batch, and is not read again.                 *)
LEMMA PushedPush ==
    ASSUME LetterInv, TypeOK', NEW rejected \in SUBSET step.batch, Push(rejected)
    PROVE  PushedOnce'
<1>1. /\ pc = "stepping" /\ pc' = pc /\ step \in StepFrame /\ run \in RunFrame
      /\ run'.id = run.id /\ run'.at = run.at /\ run'.sources = run.sources
      /\ step'.key = step.key /\ step'.batch = {} /\ step'.seen = step.seen
      /\ refused' = refused \union ({run.id} \X rejected)
  BY RunFrameTypes DEF LetterInv, TypeOK, Push, StepFrame, RunFrame
<1>2. Upcoming' = Upcoming
  BY <1>1 DEF Upcoming
<1>3. \A i \in rejected : KeyOf[i] = step.key /\ i \in step.seen
  BY <1>1 DEF LetterInv, PushedOnce
<1> QED
  BY <1>1, <1>2, <1>3 DEF LetterInv, PushedOnce

-----------------------------------------------------------------------------
(* The budget is whole, and nothing is in the dead letter.                 *)
LEMMA LetterInit == Init => LetterInv
<1> SUFFICES ASSUME Init PROVE LetterInv
  OBVIOUS
<1>1. \A r \in RunIds : DeadLettersOf(r) = {} /\ WritersOf(r) = {} /\ budget[r] = RejectedCap
  BY DEF Init, DeadLettersOf, WritersOf
<1>2. Cardinality({}) = 0 /\ RejectedCap \in Nat
  BY FS_EmptySet, BoundsAssumption
<1>3. ASSUME NEW r \in RunIds
      PROVE  Cardinality(DeadLettersOf(r)) + Cardinality(WritersOf(r)) + budget[r] = RejectedCap
  <2>1. DeadLettersOf(r) = {} /\ WritersOf(r) = {} /\ budget[r] = RejectedCap
    BY <1>1
  <2>2. Cardinality(DeadLettersOf(r)) = 0 /\ Cardinality(WritersOf(r)) = 0
    BY <1>2, <2>1
  <2> QED
    BY <1>2, <2>1, <2>2
<1>4. ChargedAhead /\ NothingLost
  BY <1>2, <1>3 DEF ChargedAhead, NothingLost
<1> QED
  BY <1>4, TypeInit, FS_EmptySet
  DEF Init, LetterInv, LettersKept, LettersFinite, OwedOnce, RefusedIsOwed, PushedOnce

(* The invariant is inductive.                                             *)
LEMMA LetterNext == LetterInv /\ [Next]_vars => LetterInv'
<1> SUFFICES ASSUME LetterInv, [Next]_vars PROVE LetterInv'
  OBVIOUS
<1>0. /\ TypeOK /\ TypeOK' /\ run \in RunFrame /\ run.id \in Nat /\ step \in StepFrame
  BY TypeNext, RunFrameTypes DEF LetterInv, TypeOK
<1>1. ASSUME UNCHANGED <<letterVars, refused, lossy>>, run.id <= run'.id, PushedOnce'
      PROVE  LetterInv'
  BY <1>0, <1>1, LettersFrame DEF LetterInv, letterVars
<1>2. ASSUME NEW full \in BOOLEAN, StartRun(full) PROVE LetterInv'
  BY <1>0, <1>1, <1>2, PushedStart DEF StartRun, worldVars, historyVars
<1>3. CASE SkipDisabledStep \/ ResolveSources
  <2>1. run'.id = run.id
    BY <1>0, <1>3 DEF SkipDisabledStep, ResolveSources, RunFrame
  <2>2. UNCHANGED <<letterVars, refused, lossy>>
    BY <1>3 DEF SkipDisabledStep, ResolveSources, worldVars, historyVars
  <2>3. PushedOnce'
    BY <1>0, <1>3, PushedLoop
  <2> QED
    BY <1>0, <1>1, <2>1, <2>2, <2>3
<1>4. ASSUME NEW k \in Keys, BeginSource(k) PROVE LetterInv'
  <2>1. run'.id = run.id /\ UNCHANGED <<letterVars, refused, lossy>>
    BY <1>0, <1>4 DEF BeginSource, RunFrame, worldVars, historyVars
  <2>2. PushedOnce'
    BY <1>0, <1>4, PushedBegin
  <2> QED
    BY <1>0, <1>1, <2>1, <2>2
<1>5. ASSUME NEW k \in Keys, SkipBackoff(k) PROVE LetterInv'
  <2>1. /\ run'.id = run.id /\ run'.at = run.at /\ run'.sources \subseteq run.sources
        /\ pc' = pc /\ step' = step
        /\ UNCHANGED <<letterVars, refused, lossy>>
    BY <1>0, <1>5 DEF SkipBackoff, RunFrame, worldVars, historyVars
  <2> QED
    BY <1>0, <1>1, <2>1, PushedFrame
<1>6. CASE (\E i \in Items : ReadItem(i)) \/ EndOfStream
  <2>1. run'.id = run.id /\ UNCHANGED <<letterVars, refused, lossy>>
    BY <1>6 DEF ReadItem, EndOfStream, worldVars, historyVars
  <2>2. PushedOnce'
    BY <1>0, <1>6, PushedReads
  <2> QED
    BY <1>0, <1>1, <2>1, <2>2
<1>7. ASSUME NEW rejected \in SUBSET step.batch, Push(rejected) PROVE LetterInv'
  BY <1>0, <1>7, LettersPush, PushedPush DEF LetterInv
<1>8. ASSUME NEW w \in writers, DeadLetterAdded(w) PROVE LetterInv'
  <2>1. PushedOnce'
    BY <1>0, <1>8, PushedFrame DEF DeadLetterAdded, worldVars, engineVars
  <2> QED
    BY <1>0, <1>8, <2>1, LettersAdded DEF LetterInv
<1>9. ASSUME NEW w \in writers, DeadLetterFails(w) PROVE LetterInv'
  <2>1. PushedOnce'
    BY <1>0, <1>9, PushedFrame DEF DeadLetterFails, worldVars, engineVars
  <2>2. lossy' = lossy \union {v.run : v \in {w}}
    BY <1>9 DEF DeadLetterFails
  <2>3. LettersKept'
    BY <1>0, <1>9, <2>2, LettersDropped DEF DeadLetterFails, worldVars, engineVars
  <2> QED
    BY <1>0, <2>1, <2>3 DEF LetterInv
<1>10. CASE Crash
  <2>1. PushedOnce'
    BY <1>0, <1>10, PushedFrame DEF Crash, worldVars
  <2>2. writers' = writers \ writers
    BY <1>10 DEF Crash
  <2>3. LettersKept'
    BY <1>0, <1>10, <2>2, LettersDropped DEF Crash, worldVars
  <2> QED
    BY <1>0, <2>1, <2>3 DEF LetterInv
<1>11. ASSUME UNCHANGED <<letterVars, refused, lossy>>, run'.id = run.id, run'.at = run.at,
              run'.sources = run.sources,
              \/ pc' = "idle"
              \/ pc # "idle" /\ pc' \notin {"stepping", "settling"}
              \/ pc' = pc /\ step' = step
              \/ pc' = "settling" /\ pc = "stepping" /\ step'.key = step.key
       PROVE  LetterInv'
  BY <1>0, <1>1, <1>11, PushedFrame
<1>12. CASE HoldCursor
  BY <1>0, <1>11, <1>12 DEF HoldCursor, RunFrame, worldVars
<1>13. ASSUME (\E sent \in SUBSET step.batch : StepThrows(sent)) \/ \E d \in AdvanceOffsets : StepReturns(d)
       PROVE  LetterInv'
  <2>1. step'.key = step.key
    BY <1>0, <1>13 DEF StepThrows, StepReturns, StepFrame
  <2> QED
    BY <1>0, <1>11, <1>13, <2>1 DEF StepThrows, StepReturns, worldVars, historyVars
<1> QED
  BY <1>2, <1>3, <1>4, <1>5, <1>6, <1>7, <1>8, <1>9, <1>10, <1>11, <1>12, <1>13
  DEF Next, RunProgress, RunFault, BoundsReached, Tick, Appear, SourcesThrow, AdvanceCursor,
      LeaveCursor, FinishRun, FailRun, StoreThrows, AtNextStep, vars, worldVars, engineVars, historyVars

(* REJECTED_ITEMS_CAP_PER_RUN bounds the rows a run adds, however many     *)
(* recordRejects calls of the run add rows concurrently.                   *)
THEOREM DeadLetterCapHolds == Spec => []DeadLetterCap
<1>1. LetterInv => DeadLetterCap
  <2> SUFFICES ASSUME LetterInv, NEW r \in RunIds
               PROVE  Cardinality(DeadLettersOf(r)) <= RejectedCap
    BY DEF DeadLetterCap
  <2>1. Cardinality(DeadLettersOf(r)) + Cardinality(WritersOf(r)) + budget[r] <= RejectedCap
    BY DEF LetterInv, LettersKept, ChargedAhead
  <2> QED
    BY <2>1, LetterTypes
<1> QED
  BY <1>1, LetterInit, LetterNext, PTL DEF Spec

(* Short of a store error or a crash, the dead letter of a run whose calls *)
(* are over holds everything the API refused, or is at its cap.            *)
THEOREM DeadLettersAreComplete == Spec => []DeadLettersComplete
<1>1. LetterInv => DeadLettersComplete
  <2> SUFFICES ASSUME LetterInv, NEW r \in RunIds, r \notin lossy, \A w \in writers : w.run # r
               PROVE  Cardinality(DeadLettersOf(r)) = Lesser(RejectedCap, Cardinality(RefusedBy(r)))
    BY DEF DeadLettersComplete
  <2>1. WritersOf(r) = {} /\ Cardinality({}) = 0
    BY FS_EmptySet DEF WritersOf
  <2>2. Cardinality(DeadLettersOf(r)) + 0 + budget[r] = RejectedCap
    BY <2>1 DEF LetterInv, LettersKept, NothingLost
  <2>3. /\ IsFiniteSet(RefusedBy(r)) /\ Cardinality(RefusedBy(r)) \in Nat
        /\ Cardinality(DeadLettersOf(r)) \in Nat /\ budget[r] \in Nat
    BY LetterTypes
  <2>4. DeadLettersOf(r) \in SUBSET RefusedBy(r)
    BY DEF LetterInv, LettersKept, LettersFinite, DeadLettersOf, RefusedBy
  <2>5. Cardinality(DeadLettersOf(r)) <= Cardinality(RefusedBy(r))
    BY <2>3, <2>4, FS_Subset
  <2>6. CASE budget[r] = 0
    BY <2>2, <2>3, <2>5, <2>6, BoundsAssumption DEF Lesser
  <2>7. CASE budget[r] # 0
    <3>1. \A d \in RefusedBy(r) : d \in deadLetters
      <4> SUFFICES ASSUME NEW d \in refused, d[1] = r, d \notin deadLetters PROVE FALSE
        BY DEF RefusedBy
      <4>1. d = <<r, d[2]>> /\ d[2] \in Items
        BY DEF LetterInv, TypeOK
      <4> QED
        BY <2>7, <4>1 DEF LetterInv, LettersKept, RefusedIsOwed
    <3>2. DeadLettersOf(r) = RefusedBy(r)
      BY <2>4, <3>1 DEF DeadLettersOf, RefusedBy
    <3> QED
      BY <2>2, <2>3, <2>7, <3>2, BoundsAssumption DEF Lesser
  <2> QED
    BY <2>6, <2>7
<1> QED
  BY <1>1, LetterInit, LetterNext, PTL DEF Spec

=============================================================================

------------------------- MODULE ProvisioningProofs -------------------------
(***************************************************************************)
(* That provisioning keeps its types, duplicates nothing unless two runs   *)
(* overlap, resolves the best definition of a name, and converges: for any *)
(* plans, runs and bounds that satisfy the assumptions of Provisioning.    *)
(*                                                                         *)
(* The invariants are layered: TypeInv, with what the locals of a run owe  *)
(* to where it is; DupInv, with what a run has looked for in vain; BestInv,*)
(* with what it has found; ConvInv, with the relations of what it has      *)
(* resolved.  Each rests on the one before it.                             *)
(***************************************************************************)
EXTENDS Provisioning, SequenceTheorems, WellFoundedInduction, TLAPS

Ats == {"idle", "source", "relabel", "create", "sort", "defs", "get", "extend", "submit",
        "insert", "activate", "over", "threw", "dead"}

SourceSteps == {"source", "relabel", "create"}
DefSteps == {"get", "extend", "submit", "insert", "activate"}
Found == {"get", "extend", "activate"}

Relations == UNION {[S -> Nat] : S \in SUBSET Names}
SourceRows == [key: Keys, label: Nat, parent: Nat, raced: BOOLEAN]
DefRows == [name: Names, status: Statuses, rels: Relations, raced: BOOLEAN]
Locals == [at: Ats, label: [Keys -> Nat], next: Nat, todo: SUBSET Names, name: Names \union {Null},
           id: Nat, sourceIds: [Keys -> Nat], defIds: [Names -> Nat],
           events: SUBSET plan.events, errors: BOOLEAN]

(* The definitions that a run has not dealt with: those it has not come to *)
(* and the one it is at.                                                   *)
Open(l) == l.todo \union (IF l.at \in DefSteps THEN {l.name} ELSE {})

(* The locals of a run agree with the code it is at: as long as it has met *)
(* no error, what it has dealt with is resolved; a definition is dealt     *)
(* with after those it refers to.                                          *)
LocalsOK(l) ==
    /\ l \in Locals
    /\ l.at = "idle" => l = Idle
    /\ l.at \in SourceSteps => l.next \in 1..Len(plan.sources)
    /\ l.at \notin SourceSteps \union {"idle", "dead"} => l.next = Len(plan.sources) + 1
    /\ l.at \notin {"idle", "dead"} /\ ~l.errors
           => \A n \in 1..(l.next - 1) : l.sourceIds[plan.sources[n]] # 0
    /\ l.at \in DefSteps => l.name \in Names /\ l.name \notin l.todo /\ Siblings(l.name) \intersect l.todo = {}
    /\ \A d \in Names : l.defIds[d] # 0 => d \notin Open(l)
    /\ l.at \notin {"idle", "dead"} /\ ~l.errors => \A d \in Names \ Open(l) : l.defIds[d] # 0
    /\ \A d \in Names \ Open(l) : Siblings(d) \intersect Open(l) = {}
    /\ l.at = "over" => l.todo = {}

(* The ids of a run are those of rows, of m sources and n definitions.     *)
IdsOK(l, m, n) ==
    /\ \A s \in Keys : l.sourceIds[s] <= m
    /\ \A d \in Names : l.defIds[d] <= n
    /\ l.at = "relabel" => l.id \in 1..m
    /\ l.at \in Found => l.id \in 1..n

SourcesOK ==
    /\ sources \in Seq(SourceRows)
    /\ \A i \in 1..Len(sources) : sources[i].parent <= Len(sources)

DefsOK ==
    /\ defs \in Seq(DefRows)
    /\ \A i \in 1..Len(defs) :
           /\ DOMAIN defs[i].rels \subseteq plan.refs[defs[i].name]
           /\ \A t \in DOMAIN defs[i].rels : defs[i].rels[t] <= Len(defs)

TypeInv ==
    /\ plan \in Plans /\ label \in [Keys -> Nat]
    /\ SourcesOK /\ DefsOK
    /\ DOMAIN run = Runs
    /\ \A r \in Runs : LocalsOK(run[r]) /\ IdsOK(run[r], Len(sources), Len(defs))
    /\ \A r \in Runs : run[r].at \in Found => defs[run[r].id].name = run[r].name
    /\ disturbed \subseteq Runs /\ overlapped \subseteq Runs

-----------------------------------------------------------------------------
(* The parts of a plan.                                                    *)
LEMMA PlanTypes ==
    ASSUME plan \in Plans
    PROVE  /\ plan.sources \in Seq(Keys) /\ plan.stable \subseteq Keys
           /\ \A n \in 1..Len(plan.sources) : plan.sources[n] \in Keys
           /\ Len(plan.sources) \in Nat
           /\ plan.sources = <<>> <=> Len(plan.sources) = 0
           /\ \A d \in Names : plan.refs[d] \subseteq Names
BY PlansAssumption, EmptySeq DEF Keys, Names

(* Relations are the functions from some names to ids.                     *)
LEMMA RelationsFacts ==
    /\ \A f \in Relations : /\ DOMAIN f \subseteq Names
                            /\ f \in [DOMAIN f -> Nat]
    /\ \A S \in SUBSET Names : \A f : f \in [S -> Nat] => f \in Relations
BY DEF Relations

(* The locals of a run.                                                    *)
LEMMA LocalsTypes ==
    ASSUME TypeInv, NEW r \in Runs
    PROVE  /\ run[r] \in Locals
           /\ run[r].at \in Ats /\ run[r].label \in [Keys -> Nat] /\ run[r].next \in Nat
           /\ run[r].todo \in SUBSET Names /\ run[r].name \in Names \union {Null} /\ run[r].id \in Nat
           /\ run[r].sourceIds \in [Keys -> Nat] /\ run[r].defIds \in [Names -> Nat]
           /\ run[r].events \in SUBSET plan.events /\ run[r].errors \in BOOLEAN
           /\ run[r].at \in SourceSteps => Source(r) \in Keys
BY PlanTypes DEF TypeInv, LocalsOK, Locals, Source

(* findDefinition finds the best of the usable rows of a name.             *)
Best(d, i) == i \in Usable(d) /\ \A j \in Usable(d) \ {i} : Better(i, j)

(* A set of numbers has a least one.                                       *)
LEMMA LeastOf ==
    ASSUME NEW S \in SUBSET Nat, S # {}
    PROVE  \E i \in S : \A j \in S : i <= j
<1>0. S \subseteq Nat
  OBVIOUS
<1>1. \E R : IsWellFoundedOn(R, Nat) /\ \A j, k \in Nat : j < k => <<j, k>> \in R
  <2>1. \A j, k \in Nat : j < k => <<j, k>> \in OpToRel(<, Nat)
    BY DEF OpToRel
  <2>2. IsWellFoundedOn(OpToRel(<, Nat), Nat)
    BY NatLessThanWellFounded
  <2> QED
    BY <2>1, <2>2
<1>2. PICK R : IsWellFoundedOn(R, Nat) /\ \A j, k \in Nat : j < k => <<j, k>> \in R
  BY <1>1
<1>3. \E i \in S : \A j \in S : ~(<<j, i>> \in R)
  <2>1. IsWellFoundedOn(R, Nat)
    BY <1>2
  <2>2. \A T : T \subseteq Nat /\ T # {} => \E x \in T : \A y \in T : ~(<<y, x>> \in R)
    <3> SUFFICES ASSUME NEW T, T \subseteq Nat, T # {} PROVE \E x \in T : \A y \in T : ~(<<y, x>> \in R)
      OBVIOUS
    <3> QED
      BY <2>1, WFMin, ZenonT(30)
  <2> QED
    BY <1>0, <2>2
<1>4. PICK i \in S : \A j \in S : ~(<<j, i>> \in R)
  BY <1>3
<1>5. \A j \in S : i \in Nat /\ j \in Nat /\ ~(j < i)
  BY <1>0, <1>2, <1>4
<1>6. \A j \in S : i <= j
  BY <1>5
<1> QED
  BY <1>6

(* Among usable homonyms there is a best one, and findDefinition returns   *)
(* it (ensure.ts).                                                         *)
LEMMA BestExists ==
    ASSUME TypeInv, NEW d, Usable(d) # {}
    PROVE  Best(d, FindDefinition(d)) /\ FindDefinition(d) \in 1..Len(defs)
<1> DEFINE Ranked(n) == {i \in Usable(d) : Rank(defs[i].status) = n}
<1>1. Usable(d) \subseteq 1..Len(defs) /\ Usable(d) \subseteq Nat
  BY DEF Usable, TypeInv
<1>2. \A i \in Usable(d) : Rank(defs[i].status) \in 1..3
  BY DEF Rank
<1>3. PICK n \in 1..3 : Ranked(n) # {} /\ \A m \in 1..3 : m > n => Ranked(m) = {}
  <2>1. Ranked(1) \union Ranked(2) \union Ranked(3) # {}
    BY <1>2
  <2> HIDE DEF Ranked
  <2> QED
    BY <2>1
<1>4. PICK i \in Ranked(n) : \A j \in Ranked(n) : i <= j
  BY <1>1, <1>3, LeastOf
<1>5. \A j \in Usable(d) \ {i} : Better(i, j)
  <2> SUFFICES ASSUME NEW j \in Usable(d) \ {i} PROVE Better(i, j)
    OBVIOUS
  <2>1. Rank(defs[j].status) <= n
    BY <1>2, <1>3
  <2>2. CASE Rank(defs[j].status) = n
    BY <2>2, <1>4, <1>1 DEF Better
  <2>3. CASE Rank(defs[j].status) < n
    BY <2>3, <1>4 DEF Better
  <2> QED
    BY <2>1, <2>2, <2>3, <1>2
<1>6. \E k \in Usable(d) : \A j \in Usable(d) \ {k} : Better(k, j)
  BY <1>4, <1>5
<1>7. FindDefinition(d) = CHOOSE k \in Usable(d) : \A j \in Usable(d) \ {k} : Better(k, j)
  BY DEF FindDefinition
<1> QED
  BY <1>1, <1>6, <1>7 DEF Best

-----------------------------------------------------------------------------
(* The moves that a run makes in the loop over the sources, between two    *)
(* definitions, at one of them, and after them.                            *)

SourceDone(l, ids, errors, n, at) ==
    [l EXCEPT !.sourceIds = ids, !.errors = errors, !.next = n, !.id = 0, !.at = at]
DefDone(l, todo, errors, ids) ==
    [l EXCEPT !.todo = todo, !.errors = errors, !.defIds = ids, !.at = "defs", !.name = Null, !.id = 0]
DefTaken(l, todo, d, id, at) ==
    [l EXCEPT !.todo = todo, !.name = d, !.id = id, !.at = at]
Moved(l, errors, id, at) ==
    [l EXCEPT !.errors = errors, !.id = id, !.at = at]
Ending(l, events, errors, at) ==
    [l EXCEPT !.events = events, !.errors = errors, !.at = at]
Started(l, labels, todo, events, at) ==
    [l EXCEPT !.label = labels, !.todo = todo, !.events = events, !.at = at]

SameDefs(l, m) == l.todo = m.todo /\ l.name = m.name /\ l.defIds = m.defIds
SameSources(l, m) == l.next = m.next /\ l.sourceIds = m.sourceIds /\ l.label = m.label

(* What the end of a source changes in the locals.                         *)
LEMMA SourceDoneFields ==
    ASSUME NEW l \in Locals, NEW ids \in [Keys -> Nat], NEW errors \in BOOLEAN, NEW n \in Nat, NEW at \in Ats
    PROVE  LET m == SourceDone(l, ids, errors, n, at) IN
           /\ m \in Locals /\ m.at = at /\ m.next = n /\ m.errors = errors /\ m.sourceIds = ids
           /\ SameDefs(m, l) /\ m.label = l.label /\ m.events = l.events
BY DEF SourceDone, Locals, SameDefs

(* What the end of a definition changes in the locals.                     *)
LEMMA DefDoneFields ==
    ASSUME NEW l \in Locals, NEW todo \in SUBSET Names, NEW errors \in BOOLEAN, NEW ids \in [Names -> Nat]
    PROVE  LET m == DefDone(l, todo, errors, ids) IN
           /\ m \in Locals /\ m.at = "defs" /\ m.errors = errors /\ m.defIds = ids /\ m.todo = todo
           /\ SameSources(m, l) /\ m.events = l.events
BY DEF DefDone, Locals, SameSources, Ats

(* What taking the next definition changes in the locals.                  *)
LEMMA DefTakenFields ==
    ASSUME NEW l \in Locals, NEW todo \in SUBSET Names, NEW d \in Names, NEW id \in Nat, NEW at \in Ats
    PROVE  LET m == DefTaken(l, todo, d, id, at) IN
           /\ m \in Locals /\ m.at = at /\ m.errors = l.errors /\ m.defIds = l.defIds /\ m.todo = todo
           /\ m.name = d /\ m.id = id /\ SameSources(m, l) /\ m.events = l.events
BY DEF DefTaken, Locals, SameSources

(* What going on to the next API call changes in the locals.               *)
LEMMA MovedFields ==
    ASSUME NEW l \in Locals, NEW errors \in BOOLEAN, NEW id \in Nat, NEW at \in Ats
    PROVE  LET m == Moved(l, errors, id, at) IN
           /\ m \in Locals /\ m.at = at /\ m.errors = errors /\ m.id = id
           /\ SameSources(m, l) /\ SameDefs(m, l) /\ m.events = l.events
BY DEF Moved, Locals, SameSources, SameDefs

(* What events and order statuses change in the locals.                    *)
LEMMA EndingFields ==
    ASSUME NEW l \in Locals, NEW events \in SUBSET plan.events, NEW errors \in BOOLEAN, NEW at \in Ats
    PROVE  LET m == Ending(l, events, errors, at) IN
           /\ m \in Locals /\ m.at = at /\ m.errors = errors /\ m.events = events
           /\ SameSources(m, l) /\ SameDefs(m, l)
BY DEF Ending, Locals, SameSources, SameDefs

(* What a run starts with.                                                 *)
LEMMA StartedFields ==
    ASSUME NEW l \in Locals, NEW labels \in [Keys -> Nat], NEW todo \in SUBSET Names,
           NEW events \in SUBSET plan.events, NEW at \in Ats
    PROVE  LET m == Started(l, labels, todo, events, at) IN
           /\ m \in Locals /\ m.at = at /\ m.todo = todo /\ m.errors = l.errors /\ m.next = l.next
           /\ m.sourceIds = l.sourceIds /\ m.defIds = l.defIds
BY DEF Started, Locals

-----------------------------------------------------------------------------
(* Each step of a run is one of these moves.                               *)

Next1(r) == run[r].next + 1
Past(r) == IF run[r].next = Len(plan.sources) THEN "sort" ELSE "source"

(* A source that is resolved is entered in the ids, and the run goes on to *)
(* the next one.                                                           *)
LEMMA SourceResolvedShape ==
    ASSUME TypeInv, NEW r \in Runs, NEW id, SourceResolved(r, id)
    PROVE  run' = [run EXCEPT ![r] =
               SourceDone(run[r], [run[r].sourceIds EXCEPT ![Source(r)] = id], run[r].errors, Next1(r), Past(r))]
<1>1. run[r] \in Locals
  BY LocalsTypes
<1> QED
  BY <1>1 DEF SourceResolved, AfterSource, Becomes, SourceDone, Locals, Next1, Past

(* After a source comes a source, or the sort.                             *)
LEMMA SourceStepOver ==
    ASSUME TypeInv, NEW r \in Runs, run[r].at \in SourceSteps, NEW ids \in [Keys -> Nat], NEW errors \in BOOLEAN
    PROVE  SourceDone(run[r], ids, errors, Next1(r), Past(r)).at \notin Found
<1>1. run[r] \in Locals /\ Next1(r) \in Nat /\ Past(r) \in Ats /\ Past(r) \notin Found
  BY LocalsTypes DEF Next1, Past, Ats, Found
<1> QED
  BY <1>1, SourceDoneFields

(* A source that fails is an error, and the run goes on to the next one.   *)
LEMMA SourceFailedShape ==
    ASSUME TypeInv, NEW r \in Runs, SourceFailed(r)
    PROVE  run' = [run EXCEPT ![r] =
               SourceDone(run[r], run[r].sourceIds, TRUE, Next1(r), Past(r))]
<1>1. run[r] \in Locals
  BY LocalsTypes
<1> QED
  BY <1>1 DEF SourceFailed, AfterSource, Becomes, SourceDone, Locals, Next1, Past

(* For the locals that DefResolved and DefFailed are given.                *)
LEMMA DefResolvedShape ==
    ASSUME TypeInv, NEW r \in Runs, NEW id, NEW l, NEW errors,
           l = [run[r] EXCEPT !.errors = errors], DefResolved(r, id, l)
    PROVE  run' = [run EXCEPT ![r] =
               DefDone(run[r], run[r].todo, errors, [run[r].defIds EXCEPT ![run[r].name] = id])]
<1>1. run[r] \in Locals
  BY LocalsTypes
<1> QED
  BY <1>1 DEF DefResolved, AfterDef, Becomes, DefDone, Locals

(* A definition that fails is an error, and the run goes on to the next    *)
(* one.                                                                    *)
LEMMA DefFailedShape ==
    ASSUME TypeInv, NEW r \in Runs, DefFailed(r, run[r])
    PROVE  run' = [run EXCEPT ![r] = DefDone(run[r], run[r].todo, TRUE, run[r].defIds)]
<1>1. run[r] \in Locals
  BY LocalsTypes
<1> QED
  BY <1>1 DEF DefFailed, AfterDef, Becomes, DefDone, Locals

-----------------------------------------------------------------------------
(* The moves keep the locals right.                                        *)

(* The end of a source leaves locals as they should be.                    *)
LEMMA SourceDoneKeeps ==
    ASSUME TypeInv, NEW r \in Runs, run[r].at \in SourceSteps,
           NEW m \in Nat, NEW n \in Nat, IdsOK(run[r], m, n),
           NEW ids, NEW errors \in BOOLEAN,
           \/ errors = TRUE /\ ids = run[r].sourceIds
           \/ \E id \in 1..m : errors = run[r].errors /\ ids = [run[r].sourceIds EXCEPT ![Source(r)] = id]
    PROVE  LET l == SourceDone(run[r], ids, errors, Next1(r), Past(r)) IN LocalsOK(l) /\ IdsOK(l, m, n)
<1> DEFINE l == SourceDone(run[r], ids, errors, Next1(r), Past(r))
<1>1. /\ LocalsOK(run[r]) /\ run[r] \in Locals /\ Source(r) \in Keys
      /\ run[r].sourceIds \in [Keys -> Nat] /\ run[r].next \in 1..Len(plan.sources) /\ Len(plan.sources) \in Nat
      /\ \A k \in 1..Len(plan.sources) : plan.sources[k] \in Keys
  BY LocalsTypes, PlanTypes DEF TypeInv, LocalsOK
<1>2. /\ ids \in [Keys -> Nat] /\ \A s \in Keys : ids[s] <= m
      /\ \A s \in Keys : run[r].sourceIds[s] # 0 => ids[s] # 0
      /\ errors \/ (errors = run[r].errors /\ ids[Source(r)] # 0)
  <2>0. \A s \in Keys : run[r].sourceIds[s] <= m
    BY DEF IdsOK, Found
  <2>1. CASE errors = TRUE /\ ids = run[r].sourceIds
    BY <1>1, <2>0, <2>1
  <2>2. CASE \E id \in 1..m : errors = run[r].errors /\ ids = [run[r].sourceIds EXCEPT ![Source(r)] = id]
    <3>1. PICK id \in 1..m : errors = run[r].errors /\ ids = [run[r].sourceIds EXCEPT ![Source(r)] = id]
      BY <2>2
    <3>2. ids \in [Keys -> Nat] /\ ids[Source(r)] = id /\ \A s \in Keys : s # Source(r) => ids[s] = run[r].sourceIds[s]
      BY <1>1, <3>1
    <3>3. errors = run[r].errors
      BY <3>1
    <3> QED
      BY <2>0, <3>2, <3>3
  <2> QED
    BY <2>1, <2>2
<1>3. Next1(r) \in Nat /\ Past(r) \in Ats /\ Past(r) \in {"source", "sort"}
  BY <1>1 DEF Next1, Past, Ats
<1>4. /\ l \in Locals /\ l.at = Past(r) /\ l.next = Next1(r) /\ l.errors = errors /\ l.sourceIds = ids
      /\ SameDefs(l, run[r])
  BY <1>1, <1>2, <1>3 DEF SourceDone, Locals, SameDefs
<1> HIDE DEF l
<1>5. Open(l) = Open(run[r])
  BY <1>3, <1>4 DEF Open, SameDefs, DefSteps, SourceSteps
<1>6. ~l.errors => \A k \in 1..(l.next - 1) : l.sourceIds[plan.sources[k]] # 0
  <2> SUFFICES ASSUME ~l.errors, NEW k \in 1..(l.next - 1) PROVE l.sourceIds[plan.sources[k]] # 0
    OBVIOUS
  <2>1. ~run[r].errors /\ ids[Source(r)] # 0 /\ run[r].at \notin {"idle", "dead"}
    BY <1>2, <1>4 DEF SourceSteps
  <2>2. CASE k = run[r].next
    BY <2>1, <2>2, <1>4 DEF Source
  <2>3. CASE k # run[r].next
    <3>1. k \in 1..(run[r].next - 1) /\ plan.sources[k] \in Keys
      BY <2>3, <1>1, <1>4 DEF Next1
    <3> QED
      BY <2>1, <3>1, <1>1, <1>2, <1>4 DEF LocalsOK
  <2> QED
    BY <2>2, <2>3
<1>7. /\ l.at \in SourceSteps => l.next \in 1..Len(plan.sources)
      /\ l.at \notin SourceSteps => l.next = Len(plan.sources) + 1
  BY <1>1, <1>3, <1>4 DEF Past, Next1, SourceSteps
<1>8. l.at \notin DefSteps /\ l.at \notin {"idle", "dead", "over"}
  BY <1>3, <1>4 DEF DefSteps
<1>9. ~l.errors => ~run[r].errors /\ run[r].at \notin {"idle", "dead"}
  BY <1>2, <1>4 DEF SourceSteps
<1>10. LocalsOK(l)
  BY <1>1, <1>4, <1>5, <1>6, <1>7, <1>8, <1>9 DEF LocalsOK, SameDefs
<1>11. IdsOK(l, m, n)
  BY <1>2, <1>3, <1>4 DEF IdsOK, Found, SameDefs
<1> QED
  BY <1>10, <1>11 DEF l

(* Going on to the next call leaves locals as they should be.              *)
LEMMA MovedKeeps ==
    ASSUME TypeInv, NEW r \in Runs, NEW m \in Nat, NEW n \in Nat, IdsOK(run[r], m, n),
           NEW errors \in BOOLEAN, run[r].errors => errors, NEW id \in Nat, NEW at,
           \/ run[r].at \in SourceSteps /\ at \in {"relabel", "create"}
           \/ run[r].at = "sort" /\ at \in {"defs", "threw"}
           \/ run[r].at \in DefSteps /\ at \in DefSteps,
           at = "relabel" => id \in 1..m,
           at \in Found => id \in 1..n
    PROVE  LET l == Moved(run[r], errors, id, at) IN LocalsOK(l) /\ IdsOK(l, m, n)
<1> DEFINE l == Moved(run[r], errors, id, at)
<1>1. LocalsOK(run[r]) /\ run[r] \in Locals /\ at \in Ats
  BY LocalsTypes DEF TypeInv, Ats, DefSteps
<1>2. /\ l \in Locals /\ l.at = at /\ l.errors = errors /\ l.id = id
      /\ SameSources(l, run[r]) /\ SameDefs(l, run[r])
  BY <1>1, MovedFields
<1> HIDE DEF l
<1>3. /\ Open(l) = Open(run[r])
      /\ at \notin {"idle", "dead", "over"} /\ run[r].at \notin {"idle", "dead", "over"}
      /\ at \in SourceSteps <=> run[r].at \in SourceSteps
      /\ at \in DefSteps <=> run[r].at \in DefSteps
  BY <1>2 DEF Open, SameDefs, DefSteps, SourceSteps
<1>4. LocalsOK(l)
  BY <1>1, <1>2, <1>3 DEF LocalsOK, SameDefs, SameSources
<1>5. IdsOK(l, m, n)
  BY <1>2 DEF IdsOK, Found, SameDefs, SameSources
<1> QED
  BY <1>4, <1>5 DEF l

(* Only a definition whose targets have all been dealt with is taken.      *)
LEMMA DefTakenKeeps ==
    ASSUME TypeInv, NEW r \in Runs, run[r].at = "defs", NEW d \in Names, Sorted(r, d),
           NEW m \in Nat, NEW n \in Nat, IdsOK(run[r], m, n),
           NEW id \in Nat, NEW at, at \in {"get", "submit"}, at = "get" => id \in 1..n
    PROVE  LET l == DefTaken(run[r], run[r].todo \ {d}, d, id, at) IN LocalsOK(l) /\ IdsOK(l, m, n)
<1> DEFINE l == DefTaken(run[r], run[r].todo \ {d}, d, id, at)
<1>1. /\ LocalsOK(run[r]) /\ run[r] \in Locals /\ at \in Ats /\ at \in DefSteps
      /\ run[r].todo \ {d} \in SUBSET Names
  BY LocalsTypes DEF TypeInv, Ats, DefSteps
<1>2. /\ l \in Locals /\ l.at = at /\ l.errors = run[r].errors /\ l.defIds = run[r].defIds
      /\ l.todo = run[r].todo \ {d} /\ l.name = d /\ l.id = id /\ SameSources(l, run[r])
  BY <1>1, DefTakenFields
<1> HIDE DEF l
<1>3. d \in run[r].todo /\ Siblings(d) \intersect run[r].todo = {}
  BY DEF Sorted
<1>4. /\ Open(l) = Open(run[r])
      /\ at \notin {"idle", "dead", "over"} /\ at \notin SourceSteps
      /\ run[r].at \notin {"idle", "dead", "over"} /\ run[r].at \notin SourceSteps
  BY <1>1, <1>2, <1>3 DEF Open, DefSteps, SourceSteps
<1>5. LocalsOK(l)
  BY <1>1, <1>2, <1>3, <1>4 DEF LocalsOK, SameSources
<1>6. IdsOK(l, m, n)
  BY <1>2 DEF IdsOK, Found, SameSources
<1> QED
  BY <1>5, <1>6 DEF l

(* A definition that a run is at is resolved, or leaves an error.          *)
LEMMA DefDoneKeeps ==
    ASSUME TypeInv, NEW r \in Runs, run[r].at \in DefSteps,
           NEW m \in Nat, NEW n \in Nat, IdsOK(run[r], m, n), NEW ids, NEW errors \in BOOLEAN,
           \/ errors = TRUE /\ ids = run[r].defIds
           \/ /\ run[r].errors => errors
              /\ \E id \in 1..n : ids = [run[r].defIds EXCEPT ![run[r].name] = id]
    PROVE  LET l == DefDone(run[r], run[r].todo, errors, ids) IN LocalsOK(l) /\ IdsOK(l, m, n)
<1> DEFINE l == DefDone(run[r], run[r].todo, errors, ids)
<1>1. /\ LocalsOK(run[r]) /\ run[r] \in Locals /\ run[r].name \in Names /\ run[r].todo \in SUBSET Names
      /\ run[r].defIds \in [Names -> Nat] /\ run[r].name \notin run[r].todo
      /\ Siblings(run[r].name) \intersect run[r].todo = {}
  BY LocalsTypes DEF TypeInv, LocalsOK
<1>2. /\ ids \in [Names -> Nat] /\ \A d \in Names : ids[d] <= n
      /\ \A d \in Names \ {run[r].name} : ids[d] = run[r].defIds[d]
      /\ ~errors => ~run[r].errors /\ ids[run[r].name] # 0
  <2>0. \A d \in Names : run[r].defIds[d] <= n
    BY DEF IdsOK, Found
  <2>1. CASE errors = TRUE /\ ids = run[r].defIds
    BY <1>1, <2>0, <2>1
  <2>2. CASE /\ run[r].errors => errors
             /\ \E id \in 1..n : ids = [run[r].defIds EXCEPT ![run[r].name] = id]
    <3>1. PICK id \in 1..n : ids = [run[r].defIds EXCEPT ![run[r].name] = id]
      BY <2>2
    <3>2. /\ ids \in [Names -> Nat] /\ ids[run[r].name] = id
          /\ \A d \in Names : d # run[r].name => ids[d] = run[r].defIds[d]
      BY <1>1, <3>1
    <3>3. run[r].errors => errors
      BY <2>2
    <3> QED
      BY <2>0, <3>2, <3>3
  <2> QED
    BY <2>1, <2>2
<1>3. /\ l \in Locals /\ l.at = "defs" /\ l.errors = errors /\ l.defIds = ids
      /\ l.todo = run[r].todo /\ SameSources(l, run[r])
  BY <1>1, <1>2, DefDoneFields
<1> HIDE DEF l
<1>4. /\ Open(run[r]) = run[r].todo \union {run[r].name} /\ Open(l) = run[r].todo
      /\ l.at \notin {"idle", "dead", "over"} /\ l.at \notin SourceSteps /\ l.at \notin DefSteps
      /\ run[r].at \notin {"idle", "dead", "over"} /\ run[r].at \notin SourceSteps
  BY <1>1, <1>3 DEF Open, DefSteps, SourceSteps
<1>5. /\ \A d \in Names : l.defIds[d] # 0 => d \notin Open(l)
      /\ ~l.errors => \A d \in Names \ Open(l) : l.defIds[d] # 0
  <2>1. \A d \in Names : l.defIds[d] # 0 => d \notin Open(l)
    BY <1>1, <1>2, <1>3, <1>4 DEF LocalsOK
  <2>2. ASSUME ~l.errors, NEW d \in Names \ Open(l) PROVE l.defIds[d] # 0
    BY <2>2, <1>1, <1>2, <1>3, <1>4 DEF LocalsOK
  <2> QED
    BY <2>1, <2>2
<1>6. \A d \in Names \ Open(l) : Siblings(d) \intersect Open(l) = {}
  BY <1>1, <1>4 DEF LocalsOK
<1>7. ~l.errors => \A k \in 1..(l.next - 1) : l.sourceIds[plan.sources[k]] # 0
  BY <1>1, <1>2, <1>3, <1>4 DEF LocalsOK, SameSources
<1>8. l.next = Len(plan.sources) + 1
  BY <1>1, <1>3, <1>4 DEF LocalsOK, SameSources
<1>9. LocalsOK(l)
  BY <1>3, <1>4, <1>5, <1>6, <1>7, <1>8 DEF LocalsOK
<1>10. IdsOK(l, m, n)
  BY <1>2, <1>3 DEF IdsOK, Found, SameSources
<1> QED
  BY <1>9, <1>10 DEF l

(* A definition that is refused, or not looked up, leaves an error too.    *)
LEMMA DefSkippedKeeps ==
    ASSUME TypeInv, NEW r \in Runs, run[r].at = "defs", NEW d \in Names, Sorted(r, d),
           NEW m \in Nat, NEW n \in Nat, IdsOK(run[r], m, n), NEW l \in Locals,
           l.at = "defs", l.errors, l.todo = run[r].todo \ {d}, l.defIds = run[r].defIds,
           SameSources(l, run[r])
    PROVE  LocalsOK(l) /\ IdsOK(l, m, n)
<1>1. LocalsOK(run[r]) /\ d \in run[r].todo /\ Siblings(d) \intersect run[r].todo = {}
  BY DEF TypeInv, Sorted
<1>2. /\ Open(run[r]) = run[r].todo /\ Open(l) = run[r].todo \ {d}
      /\ l.at \notin {"idle", "dead", "over"} /\ l.at \notin SourceSteps /\ l.at \notin DefSteps
      /\ run[r].at \notin {"idle", "dead", "over"} /\ run[r].at \notin SourceSteps
  BY DEF Open, DefSteps, SourceSteps
<1>3. LocalsOK(l)
  BY <1>1, <1>2 DEF LocalsOK, SameSources
<1>4. IdsOK(l, m, n)
  BY DEF IdsOK, Found, SameSources
<1> QED
  BY <1>3, <1>4

(* Events and order statuses leave locals as they should be.               *)
LEMMA EndingKeeps ==
    ASSUME TypeInv, NEW r \in Runs, run[r].at = "defs", run[r].todo = {},
           NEW m \in Nat, NEW n \in Nat, IdsOK(run[r], m, n),
           NEW events \in SUBSET plan.events, NEW errors \in BOOLEAN, run[r].errors => errors,
           NEW at \in {"defs", "over"}
    PROVE  LET l == Ending(run[r], events, errors, at) IN LocalsOK(l) /\ IdsOK(l, m, n)
<1> DEFINE l == Ending(run[r], events, errors, at)
<1>1. LocalsOK(run[r]) /\ run[r] \in Locals /\ at \in Ats
  BY LocalsTypes DEF TypeInv, Ats
<1>2. /\ l \in Locals /\ l.at = at /\ l.errors = errors
      /\ SameSources(l, run[r]) /\ SameDefs(l, run[r])
  BY <1>1, EndingFields
<1> HIDE DEF l
<1>3. /\ Open(l) = {} /\ Open(run[r]) = {}
      /\ at \notin {"idle", "dead"} /\ at \notin SourceSteps /\ at \notin DefSteps
      /\ run[r].at \notin {"idle", "dead"} /\ run[r].at \notin SourceSteps
  BY <1>2 DEF Open, SameDefs, DefSteps, SourceSteps
<1>4. LocalsOK(l)
  BY <1>1, <1>2, <1>3 DEF LocalsOK, SameDefs, SameSources
<1>5. IdsOK(l, m, n)
  BY <1>2, <1>3 DEF IdsOK, Found, SameDefs, SameSources
<1> QED
  BY <1>4, <1>5 DEF l

(* A run starts with locals as they should be.                             *)
LEMMA StartedKeeps ==
    ASSUME TypeInv, NEW r \in Runs, run[r].at = "idle", NEW m \in Nat, NEW n \in Nat
    PROVE  LET l == Started(run[r], label, Names, plan.events,
                            IF plan.sources = <<>> THEN "sort" ELSE "source")
           IN  LocalsOK(l) /\ IdsOK(l, m, n)
<1> DEFINE at == IF plan.sources = <<>> THEN "sort" ELSE "source"
           l == Started(run[r], label, Names, plan.events, at)
<1>1. /\ run[r] = Idle /\ run[r] \in Locals /\ at \in Ats /\ label \in [Keys -> Nat]
      /\ Len(plan.sources) \in Nat /\ plan.sources = <<>> <=> Len(plan.sources) = 0
  BY LocalsTypes, PlanTypes DEF TypeInv, Ats, LocalsOK
<1>2. /\ l \in Locals /\ l.at = at /\ l.todo = Names /\ l.errors = run[r].errors /\ l.next = run[r].next
      /\ l.sourceIds = run[r].sourceIds /\ l.defIds = run[r].defIds
  BY <1>1, StartedFields
<1> HIDE DEF l
<1>3. /\ l.next = 1 /\ \A s \in Keys : l.sourceIds[s] = 0
      /\ \A d \in Names : l.defIds[d] = 0
  BY <1>1, <1>2 DEF Idle
<1>4. Open(l) = Names /\ l.at \in {"sort", "source"} /\ l.at \notin DefSteps
  BY <1>2 DEF Open, DefSteps
<1>5. LocalsOK(l)
  BY <1>1, <1>2, <1>3, <1>4 DEF LocalsOK, SourceSteps
<1>6. IdsOK(l, m, n)
  BY <1>3, <1>4 DEF IdsOK, Found
<1> QED
  BY <1>5, <1>6 DEF l

-----------------------------------------------------------------------------
(* Type correctness.                                                       *)

(* A step leaves the rows there are, and their names.                      *)
RowsStay ==
    /\ UNCHANGED worldVars /\ SourcesOK' /\ DefsOK'
    /\ Len(sources) <= Len(sources') /\ Len(defs) <= Len(defs')
    /\ \A i \in 1..Len(defs) : defs'[i].name = defs[i].name
    /\ disturbed' \subseteq Runs /\ overlapped' \subseteq Runs

(* The ids that a run has are those of rows, which bear the name it looks  *)
(* for.                                                                    *)
LEMMA IdsNow ==
    ASSUME TypeInv, NEW r \in Runs
    PROVE  /\ IdsOK(run[r], Len(sources), Len(defs)) /\ Len(sources) \in Nat /\ Len(defs) \in Nat
           /\ LocalsOK(run[r])
           /\ DOMAIN sources = 1..Len(sources) /\ DOMAIN defs = 1..Len(defs)
           /\ run[r].at \in Found => run[r].id \in 1..Len(defs) /\ defs[run[r].id].name = run[r].name
BY DEF TypeInv, SourcesOK, DefsOK, IdsOK

(* They stay so while rows are added and keep their names.                 *)
LEMMA IdsGrow ==
    ASSUME TypeInv, NEW r \in Runs, RowsStay
    PROVE  /\ IdsOK(run[r], Len(sources'), Len(defs'))
           /\ Len(sources') \in Nat /\ Len(defs') \in Nat
           /\ run[r].at \in Found => defs'[run[r].id].name = run[r].name
<1>1. /\ Len(sources) \in Nat /\ Len(defs) \in Nat /\ Len(sources') \in Nat /\ Len(defs') \in Nat
      /\ IdsOK(run[r], Len(sources), Len(defs)) /\ run[r].id \in Nat
      /\ run[r].sourceIds \in [Keys -> Nat] /\ run[r].defIds \in [Names -> Nat]
  BY IdsNow, LocalsTypes DEF SourcesOK, DefsOK, RowsStay
<1>2. run[r].at \in Found => defs'[run[r].id].name = run[r].name
  BY IdsNow DEF RowsStay
<1> QED
  BY <1>1, <1>2 DEF IdsOK, RowsStay

(* The tables have lengths.                                                *)
LEMMA RowsStayFacts ==
    ASSUME RowsStay
    PROVE  Len(sources') \in Nat /\ Len(defs') \in Nat
BY DEF RowsStay, SourcesOK, DefsOK

(* The types, when any run may have moved.                                 *)
LEMMA RunsKeepTypes ==
    ASSUME TypeInv, RowsStay, DOMAIN run' = Runs,
           \A q \in Runs : /\ LocalsOK(run'[q]) /\ IdsOK(run'[q], Len(sources'), Len(defs'))
                           /\ run'[q].at \in Found => defs'[run'[q].id].name = run'[q].name
    PROVE  TypeInv'
<1>1. \A q \in Runs : LocalsOK(run[q])' /\ IdsOK(run[q], Len(sources), Len(defs))'
  <2>1. plan' = plan /\ Keys' = Keys /\ Names' = Names
    BY DEF RowsStay, worldVars, Keys, Names
  <2>2. Locals' = Locals /\ Idle' = Idle
    BY <2>1 DEF Locals, Idle
  <2>3. ASSUME NEW q \in Runs PROVE LocalsOK(run[q])'
    BY <2>1, <2>2, <2>3 DEF LocalsOK, Open, Siblings
  <2>4. ASSUME NEW q \in Runs PROVE IdsOK(run[q], Len(sources), Len(defs))'
    BY <2>1, <2>4 DEF IdsOK
  <2> QED
    BY <2>3, <2>4
<1> QED
  BY <1>1 DEF RowsStay, TypeInv, worldVars, Keys

(* The types, when one run has moved.                                      *)
LEMMA RunKeepsTypes ==
    ASSUME TypeInv, NEW r \in Runs, NEW l, run' = [run EXCEPT ![r] = l],
           LocalsOK(l), IdsOK(l, Len(sources'), Len(defs')), RowsStay,
           l.at \in Found => defs'[l.id].name = l.name
    PROVE  TypeInv'
<1>1. DOMAIN run' = Runs /\ run'[r] = l /\ \A q \in Runs \ {r} : run'[q] = run[q]
  BY DEF TypeInv
<1>2. ASSUME NEW q \in Runs
      PROVE  /\ LocalsOK(run'[q]) /\ IdsOK(run'[q], Len(sources'), Len(defs'))
             /\ run'[q].at \in Found => defs'[run'[q].id].name = run'[q].name
  <2>1. CASE q = r
    BY <2>1, <1>1
  <2>2. CASE q # r
    BY <2>2, <1>1, IdsGrow, IdsNow
  <2> QED
    BY <2>1, <2>2
<1> QED
  BY <1>1, <1>2, RunsKeepTypes

(* Tables that do not change keep their rows.                              *)
LEMMA TablesStay ==
    ASSUME TypeInv, UNCHANGED <<worldVars, sources, defs>>,
           disturbed' \subseteq Runs, overlapped' \subseteq Runs
    PROVE  RowsStay /\ Len(sources') = Len(sources) /\ Len(defs') = Len(defs)
BY DEF TypeInv, RowsStay, worldVars, SourcesOK, DefsOK, SourceRows, DefRows, Relations, Keys, Names

(* Nothing but locals changes.                                             *)
LEMMA QuietTypes ==
    ASSUME TypeInv, UNCHANGED <<worldVars, sources, defs, disturbed, overlapped>>
    PROVE  RowsStay /\ Len(sources') = Len(sources) /\ Len(defs') = Len(defs)
<1>1. disturbed' \subseteq Runs /\ overlapped' \subseteq Runs
  BY DEF TypeInv
<1> QED
  BY <1>1, TablesStay

(* A source that fails keeps the types.                                    *)
LEMMA SourceFailedTypes ==
    ASSUME TypeInv, NEW r \in Runs, run[r].at \in SourceSteps, SourceFailed(r), RowsStay
    PROVE  TypeInv'
<1> DEFINE l == SourceDone(run[r], run[r].sourceIds, TRUE, Next1(r), Past(r))
<1>1. run' = [run EXCEPT ![r] = l]
  BY SourceFailedShape
<1>2. IdsOK(run[r], Len(sources'), Len(defs')) /\ Len(sources') \in Nat /\ Len(defs') \in Nat
  BY IdsGrow
<1>3. LocalsOK(l) /\ IdsOK(l, Len(sources'), Len(defs')) /\ l.at \notin Found
  BY <1>2, SourceDoneKeeps, SourceStepOver, LocalsTypes
<1> HIDE DEF l
<1> QED
  BY <1>1, <1>3, RunKeepsTypes

(* A source that is resolved to a row keeps the types.                     *)
LEMMA SourceResolvedTypes ==
    ASSUME TypeInv, NEW r \in Runs, run[r].at \in SourceSteps, NEW id \in 1..Len(sources'), SourceResolved(r, id),
           RowsStay
    PROVE  TypeInv'
<1> DEFINE ids == [run[r].sourceIds EXCEPT ![Source(r)] = id]
           l == SourceDone(run[r], ids, run[r].errors, Next1(r), Past(r))
<1>1. run' = [run EXCEPT ![r] = l]
  BY SourceResolvedShape
<1>2. /\ IdsOK(run[r], Len(sources'), Len(defs')) /\ Len(sources') \in Nat /\ Len(defs') \in Nat
      /\ run[r].errors \in BOOLEAN
  BY IdsGrow, LocalsTypes
<1>3. LocalsOK(l) /\ IdsOK(l, Len(sources'), Len(defs'))
  BY <1>2, SourceDoneKeeps
<1>4. ids \in [Keys -> Nat]
  BY LocalsTypes
<1>5. l.at \notin Found
  BY <1>2, <1>4, SourceStepOver
<1> HIDE DEF l
<1> QED
  BY <1>1, <1>3, <1>5, RunKeepsTypes

(* Going on to the next call keeps the types.                              *)
LEMMA MovedTypes ==
    ASSUME TypeInv, NEW r \in Runs, NEW errors \in BOOLEAN, run[r].errors => errors, NEW id \in Nat, NEW at,
           \/ run[r].at \in SourceSteps /\ at \in {"relabel", "create"}
           \/ run[r].at = "sort" /\ at \in {"defs", "threw"}
           \/ run[r].at \in DefSteps /\ at \in DefSteps,
           at = "relabel" => id \in 1..Len(sources'),
           at \in Found => id \in 1..Len(defs') /\ defs'[id].name = run[r].name,
           run' = [run EXCEPT ![r] = Moved(run[r], errors, id, at)], RowsStay
    PROVE  TypeInv'
<1> DEFINE l == Moved(run[r], errors, id, at)
<1>1. IdsOK(run[r], Len(sources'), Len(defs')) /\ Len(sources') \in Nat /\ Len(defs') \in Nat
  BY IdsGrow
<1>2. LocalsOK(l) /\ IdsOK(l, Len(sources'), Len(defs'))
  BY <1>1, MovedKeeps
<1>3. run' = [run EXCEPT ![r] = l]
  OBVIOUS
<1>4. at \in Ats /\ run[r] \in Locals
  BY LocalsTypes DEF Ats, DefSteps
<1>5. l.at = at /\ l.id = id /\ l.name = run[r].name
  BY <1>4, MovedFields DEF SameDefs
<1> HIDE DEF l
<1> QED
  BY <1>2, <1>3, <1>5, RunKeepsTypes

(* The end of a definition keeps the types.                                *)
LEMMA DefDoneTypes ==
    ASSUME TypeInv, NEW r \in Runs, run[r].at \in DefSteps, NEW ids, NEW errors \in BOOLEAN,
           \/ errors = TRUE /\ ids = run[r].defIds
           \/ /\ run[r].errors => errors
              /\ \E id \in 1..Len(defs') : ids = [run[r].defIds EXCEPT ![run[r].name] = id],
           run' = [run EXCEPT ![r] = DefDone(run[r], run[r].todo, errors, ids)], RowsStay
    PROVE  TypeInv'
<1> DEFINE l == DefDone(run[r], run[r].todo, errors, ids)
<1>1. IdsOK(run[r], Len(sources'), Len(defs')) /\ Len(sources') \in Nat /\ Len(defs') \in Nat
  BY IdsGrow
<1>2. LocalsOK(l) /\ IdsOK(l, Len(sources'), Len(defs'))
  BY <1>1, DefDoneKeeps
<1>3. run' = [run EXCEPT ![r] = l]
  OBVIOUS
<1>4. /\ run[r] \in Locals /\ run[r].todo \in SUBSET Names /\ run[r].defIds \in [Names -> Nat]
      /\ run[r].name \in Names
  BY LocalsTypes, IdsNow DEF LocalsOK
<1>5. ids \in [Names -> Nat]
  BY <1>1, <1>4
<1>6. l.at = "defs" /\ "defs" \notin Found
  BY <1>4, <1>5, DefDoneFields DEF Found
<1> HIDE DEF l
<1> QED
  BY <1>2, <1>3, <1>6, RunKeepsTypes

(* Taking a definition keeps the types.                                    *)
LEMMA DefTakenTypes ==
    ASSUME TypeInv, NEW r \in Runs, run[r].at = "defs", NEW d \in Names, Sorted(r, d), NEW id \in Nat, NEW at,
           \/ at = "get" /\ id \in 1..Len(defs') /\ defs'[id].name = d
           \/ at = "submit",
           run' = [run EXCEPT ![r] = DefTaken(run[r], run[r].todo \ {d}, d, id, at)], RowsStay
    PROVE  TypeInv'
<1> DEFINE l == DefTaken(run[r], run[r].todo \ {d}, d, id, at)
<1>1. IdsOK(run[r], Len(sources'), Len(defs')) /\ Len(sources') \in Nat /\ Len(defs') \in Nat
  BY IdsGrow
<1>2. LocalsOK(l) /\ IdsOK(l, Len(sources'), Len(defs'))
  BY <1>1, DefTakenKeeps
<1>3. run' = [run EXCEPT ![r] = l]
  OBVIOUS
<1>4. at \in Ats /\ run[r] \in Locals /\ run[r].todo \ {d} \in SUBSET Names
  BY LocalsTypes DEF Ats
<1>5. l.at = at /\ l.id = id /\ l.name = d /\ "submit" \notin Found
  BY <1>4, DefTakenFields DEF Found
<1> HIDE DEF l
<1> QED
  BY ZenonT(60), <1>2, <1>3, <1>5, RunKeepsTypes

(* Skipping a definition that cannot be made keeps the types.              *)
LEMMA DefSkippedTypes ==
    ASSUME TypeInv, NEW r \in Runs, run[r].at = "defs", NEW d \in Names, Sorted(r, d), NEW l \in Locals,
           l.at = "defs", l.errors, l.todo = run[r].todo \ {d}, l.defIds = run[r].defIds,
           SameSources(l, run[r]), run' = [run EXCEPT ![r] = l], RowsStay
    PROVE  TypeInv'
<1>1. IdsOK(run[r], Len(sources'), Len(defs')) /\ Len(sources') \in Nat /\ Len(defs') \in Nat
  BY IdsGrow
<1>2. LocalsOK(l) /\ IdsOK(l, Len(sources'), Len(defs'))
  BY <1>1, DefSkippedKeeps
<1>3. l.at \notin Found
  BY DEF Found
<1> QED
  BY <1>2, <1>3, RunKeepsTypes

(* Events and order statuses keep the types.                               *)
LEMMA EndingTypes ==
    ASSUME TypeInv, NEW r \in Runs, run[r].at = "defs", run[r].todo = {},
           NEW events \in SUBSET plan.events, NEW errors \in BOOLEAN, run[r].errors => errors,
           NEW at \in {"defs", "over"},
           run' = [run EXCEPT ![r] = Ending(run[r], events, errors, at)], RowsStay
    PROVE  TypeInv'
<1> DEFINE l == Ending(run[r], events, errors, at)
<1>1. IdsOK(run[r], Len(sources'), Len(defs')) /\ Len(sources') \in Nat /\ Len(defs') \in Nat
  BY IdsGrow
<1>2. LocalsOK(l) /\ IdsOK(l, Len(sources'), Len(defs'))
  BY <1>1, EndingKeeps
<1>3. run' = [run EXCEPT ![r] = l]
  OBVIOUS
<1>4. at \in Ats /\ run[r] \in Locals /\ at \notin Found
  BY LocalsTypes DEF Ats, Found
<1>5. l.at = at
  BY <1>4, EndingFields
<1> HIDE DEF l
<1> QED
  BY <1>2, <1>3, <1>4, <1>5, RunKeepsTypes

(* The start of a run.                                                     *)
LEMMA StartTypes ==
    ASSUME TypeInv, NEW r \in Runs, Start(r)
    PROVE  /\ TypeInv'
           /\ run' = [run EXCEPT ![r] = Started(run[r], label, Names, plan.events,
                                IF plan.sources = <<>> THEN "sort" ELSE "source")]
<1> DEFINE at == IF plan.sources = <<>> THEN "sort" ELSE "source"
           l == Started(run[r], label, Names, plan.events, at)
<1>1. run' = [run EXCEPT ![r] = l]
  BY DEF Start, Becomes, Started
<1>2. overlapped' \subseteq Runs /\ disturbed' \subseteq Runs /\ UNCHANGED <<worldVars, sources, defs>>
  BY DEF Start, TypeInv
<1>3. RowsStay /\ run[r].at = "idle"
  BY <1>2, TablesStay DEF Start
<1>4. LocalsOK(l) /\ IdsOK(l, Len(sources'), Len(defs'))
  BY <1>3, IdsGrow, StartedKeeps
<1>5. at \in Ats /\ run[r] \in Locals /\ label \in [Keys -> Nat] /\ at \notin Found
  BY LocalsTypes DEF Ats, TypeInv, Found
<1>6. l.at \notin Found
  BY <1>5, StartedFields
<1> HIDE DEF l
<1>7. TypeInv'
  BY <1>1, <1>3, <1>4, <1>6, RunKeepsTypes
<1> QED
  BY <1>1, <1>7 DEF l

(* What a listing of the sources leads to.                                 *)
LEMMA ListSourcesTypes ==
    ASSUME TypeInv, NEW r \in Runs, ListSources(r)
    PROVE  /\ TypeInv'
           /\ \/ SourceFailed(r)
              \/ \E i \in 1..Len(sources) : SourceResolved(r, i)
              \/ \E i \in 1..Len(sources) : run' = [run EXCEPT ![r] = Moved(run[r], run[r].errors, i, "relabel")]
              \/ /\ ByStableKey(r, Source(r)) = {}
                 /\ run' = [run EXCEPT ![r] = Moved(run[r], run[r].errors, run[r].id, "create")]
<1>1. /\ UNCHANGED <<worldVars, sources, defs, disturbed, overlapped>> /\ run[r].at = "source"
      /\ run[r].at \in SourceSteps /\ run[r] \in Locals /\ run[r].errors \in BOOLEAN /\ run[r].id \in Nat
  BY LocalsTypes DEF ListSources, SourceSteps
<1>0. RowsStay /\ Len(sources') = Len(sources) /\ Len(sources) \in Nat
      /\ "relabel" \notin Found /\ "create" \notin Found
  BY <1>1, QuietTypes, IdsNow DEF Found
<1>2. /\ ByStableKey(r, Source(r)) \subseteq 1..Len(sources)
      /\ ByLabel(r, Source(r)) \subseteq 1..Len(sources)
  BY IdsNow DEF ByStableKey, ByLabel
<1>3. ASSUME SourceFailed(r) PROVE TypeInv'
  BY <1>0, <1>1, <1>3, SourceFailedTypes
<1>4. ASSUME NEW i \in 1..Len(sources), SourceResolved(r, i) PROVE TypeInv'
  BY <1>0, <1>1, <1>4, SourceResolvedTypes
<1>5. ASSUME NEW i \in 1..Len(sources), Becomes(r, [run[r] EXCEPT !.at = "relabel", !.id = i])
      PROVE  /\ TypeInv' /\ run' = [run EXCEPT ![r] = Moved(run[r], run[r].errors, i, "relabel")]
  <2>0. i \in Nat /\ i \in 1..Len(sources')
    BY <1>0
  <2>1. run' = [run EXCEPT ![r] = Moved(run[r], run[r].errors, i, "relabel")]
    BY <1>5, <1>1 DEF Becomes, Moved, Locals
  <2>2. TypeInv'
    BY <1>0, <1>1, <2>0, <2>1, MovedTypes
  <2> QED
    BY <2>1, <2>2
<1>6. ASSUME Becomes(r, [run[r] EXCEPT !.at = "create"])
      PROVE  /\ TypeInv' /\ run' = [run EXCEPT ![r] = Moved(run[r], run[r].errors, run[r].id, "create")]
  <2>1. run' = [run EXCEPT ![r] = Moved(run[r], run[r].errors, run[r].id, "create")]
    BY <1>6, <1>1 DEF Becomes, Moved, Locals
  <2>2. TypeInv'
    BY <1>0, <1>1, <2>1, MovedTypes
  <2> QED
    BY <2>1, <2>2
<1>7. \/ SourceFailed(r)
      \/ \E i \in 1..Len(sources) : SourceResolved(r, i)
      \/ \E i \in 1..Len(sources) : Becomes(r, [run[r] EXCEPT !.at = "relabel", !.id = i])
      \/ ByStableKey(r, Source(r)) = {} /\ Becomes(r, [run[r] EXCEPT !.at = "create"])
  BY <1>2 DEF ListSources
<1> QED
  BY <1>3, <1>4, <1>5, <1>6, <1>7

(* A source that was renamed is relabelled.                                *)
LEMMA UpdateLabelTypes ==
    ASSUME TypeInv, NEW r \in Runs, UpdateLabel(r)
    PROVE  TypeInv'
<1>1. /\ UNCHANGED <<worldVars, defs, disturbed, overlapped>>
      /\ run[r].at = "relabel" /\ run[r].at \in SourceSteps /\ run[r].errors \in BOOLEAN
      /\ run[r].id \in 1..Len(sources) /\ SourceResolved(r, run[r].id)
      /\ Source(r) \in Keys /\ run[r].label \in [Keys -> Nat]
  BY LocalsTypes, IdsNow DEF UpdateLabel, SourceSteps, IdsOK
<1>2. Len(sources') = Len(sources) /\ SourcesOK'
  <2>1. CASE UNCHANGED sources
    BY <2>1, <1>1 DEF TypeInv, SourcesOK, SourceRows, worldVars, Keys
  <2>2. CASE sources' = [sources EXCEPT ![run[r].id].label = run[r].label[Source(r)]]
    <3> DEFINE row == [sources[run[r].id] EXCEPT !.label = run[r].label[Source(r)]]
    <3>1. sources \in Seq(SourceRows) /\ \A i \in 1..Len(sources) : sources[i] \in SourceRows
      BY DEF TypeInv, SourcesOK
    <3>2. row \in SourceRows /\ row.parent = sources[run[r].id].parent
      BY <1>1, <3>1 DEF SourceRows
    <3>3. sources' = [sources EXCEPT ![run[r].id] = row]
      BY <2>2
    <3> HIDE DEF row
    <3>4. sources' \in Seq(SourceRows) /\ Len(sources') = Len(sources)
      BY <1>1, <3>1, <3>2, <3>3
    <3>5. \A i \in 1..Len(sources) : sources'[i].parent = sources[i].parent
      BY <1>1, <3>1, <3>2, <3>3
    <3>6. SourceRows' = SourceRows
      BY <1>1 DEF SourceRows, worldVars, Keys
    <3> QED
      BY <3>4, <3>5, <3>6 DEF TypeInv, SourcesOK
  <2> QED
    BY <2>1, <2>2 DEF UpdateLabel
<1>3. DefsOK' /\ Len(defs') = Len(defs) /\ disturbed' \subseteq Runs /\ overlapped' \subseteq Runs
  BY <1>1 DEF TypeInv, DefsOK, DefRows, Relations, worldVars, Names
<1>4. RowsStay /\ run[r].id \in 1..Len(sources')
  BY <1>1, <1>2, <1>3, IdsNow DEF RowsStay
<1> QED
  BY <1>1, <1>4, SourceResolvedTypes

(* A source is created, with or without an answer.                         *)
LEMMA CreateSourceTypes ==
    ASSUME TypeInv, NEW r \in Runs, CreateSource(r)
    PROVE  TypeInv'
<1> DEFINE row == [key |-> Source(r), label |-> run[r].label[Source(r)],
                   parent |-> ParentId(r, Source(r)), raced |-> r \in overlapped]
<1>1. /\ UNCHANGED <<worldVars, defs, disturbed, overlapped>> /\ run[r].at \in SourceSteps
      /\ Source(r) \in Keys /\ run[r].label \in [Keys -> Nat] /\ run[r].sourceIds \in [Keys -> Nat]
      /\ \A s \in Keys : run[r].sourceIds[s] <= Len(sources)
      /\ sources \in Seq(SourceRows) /\ Len(sources) \in Nat
      /\ \A i \in 1..Len(sources) : sources[i] \in SourceRows /\ sources[i].parent <= Len(sources)
  BY LocalsTypes, IdsNow DEF CreateSource, SourceSteps, IdsOK, TypeInv, SourcesOK
<1>2. CASE UNCHANGED sources /\ SourceFailed(r)
  BY <1>1, <1>2, QuietTypes, SourceFailedTypes
<1>3. CASE /\ sources' = Append(sources, row)
           /\ SourceResolved(r, Len(sources')) \/ SourceFailed(r)
  <2>1. ParentId(r, Source(r)) \in Nat /\ ParentId(r, Source(r)) <= Len(sources)
    BY <1>1 DEF ParentId
  <2>2. row \in SourceRows /\ row.parent <= Len(sources)
    BY <1>1, <2>1 DEF SourceRows
  <2> HIDE DEF row
  <2>3. /\ sources' \in Seq(SourceRows) /\ Len(sources') = Len(sources) + 1
        /\ \A i \in 1..Len(sources') : sources'[i] = IF i <= Len(sources) THEN sources[i] ELSE row
    BY <1>1, <1>3, <2>2
  <2>4. \A i \in 1..Len(sources') : sources'[i].parent <= Len(sources')
    <3> SUFFICES ASSUME NEW i \in 1..Len(sources') PROVE sources'[i].parent <= Len(sources')
      OBVIOUS
    <3>1. sources'[i] \in SourceRows /\ sources'[i].parent <= Len(sources)
      <4>1. CASE i <= Len(sources)
        <5>1. i \in 1..Len(sources) /\ sources'[i] = sources[i]
          BY <1>1, <2>3, <4>1
        <5> QED
          BY <1>1, <5>1
      <4>2. CASE ~(i <= Len(sources))
        <5>1. sources'[i] = row
          BY <1>1, <2>3, <4>2
        <5> QED
          BY <2>2, <5>1
      <4> QED
        BY <4>1, <4>2
    <3>2. sources'[i].parent \in Nat
      BY <3>1 DEF SourceRows
    <3> QED
      BY <1>1, <2>3, <3>1, <3>2
  <2>5. SourcesOK'
    BY <1>1, <2>3, <2>4 DEF SourcesOK, SourceRows, worldVars, Keys
  <2>6. DefsOK' /\ disturbed' \subseteq Runs /\ overlapped' \subseteq Runs
    BY <1>1 DEF TypeInv, DefsOK, DefRows, Relations, worldVars, Names
  <2>7. RowsStay
    BY <1>1, <2>3, <2>5, <2>6, IdsNow DEF RowsStay
  <2>8. Len(sources') \in 1..Len(sources')
    BY <1>1, <2>3
  <2> QED
    BY <1>1, <1>3, <2>7, <2>8, SourceFailedTypes, SourceResolvedTypes
<1> QED
  BY <1>2, <1>3 DEF CreateSource

(* topoSortCustomData returns an order, or throws.                         *)
LEMMA SortDefsTypes ==
    ASSUME TypeInv, NEW r \in Runs, SortDefs(r)
    PROVE  /\ TypeInv'
           /\ \E at \in {"threw", "defs"} : run' = [run EXCEPT ![r] = Moved(run[r], run[r].errors, run[r].id, at)]
<1>1. /\ UNCHANGED <<worldVars, sources, defs, disturbed, overlapped>> /\ run[r].at = "sort"
      /\ run[r] \in Locals /\ run[r].errors \in BOOLEAN /\ run[r].id \in Nat
  BY LocalsTypes DEF SortDefs
<1>2. PICK at \in {"threw", "defs"} : run' = [run EXCEPT ![r] = Moved(run[r], run[r].errors, run[r].id, at)]
  BY <1>1 DEF SortDefs, Becomes, Moved, Locals
<1>3. RowsStay /\ at \notin Found /\ at # "relabel"
  BY <1>1, QuietTypes DEF Found
<1>4. TypeInv'
  BY <1>1, <1>2, <1>3, MovedTypes
<1> QED
  BY <1>2, <1>4

(* A definition with a malformed target is an error.                       *)
LEMMA RefuseDefTypes ==
    ASSUME TypeInv, NEW r \in Runs, NEW d \in Names, RefuseDef(r, d)
    PROVE  /\ TypeInv'
           /\ \E l \in Locals :
                  /\ run' = [run EXCEPT ![r] = l] /\ l.at = "defs" /\ l.errors
                  /\ l.todo = run[r].todo \ {d} /\ l.defIds = run[r].defIds
<1>1. /\ UNCHANGED <<worldVars, sources, defs, disturbed, overlapped>> /\ run[r].at = "defs"
      /\ Sorted(r, d) /\ run[r] \in Locals /\ run[r].todo \ {d} \in SUBSET Names
  BY LocalsTypes DEF RefuseDef
<1> DEFINE l == [run[r] EXCEPT !.todo = run[r].todo \ {d}, !.errors = TRUE]
<1>2. run' = [run EXCEPT ![r] = l]
  BY DEF RefuseDef, Becomes
<1>3. /\ l \in Locals /\ l.at = "defs" /\ l.errors /\ l.todo = run[r].todo \ {d}
      /\ l.defIds = run[r].defIds /\ SameSources(l, run[r])
  BY <1>1 DEF Locals, SameSources
<1> HIDE DEF l
<1>4. TypeInv'
  BY <1>1, <1>2, <1>3, QuietTypes, DefSkippedTypes
<1> QED
  BY <1>2, <1>3, <1>4

(* A listing fails, finds no homonym, or finds the best one.               *)
LEMMA ListDefsTypes ==
    ASSUME TypeInv, NEW r \in Runs, NEW d \in Names, ListDefs(r, d)
    PROVE  /\ TypeInv'
           /\ \/ run' = [run EXCEPT ![r] = DefDone(run[r], run[r].todo \ {d}, TRUE, run[r].defIds)]
              \/ /\ Usable(d) = {}
                 /\ \E id \in Nat :
                       run' = [run EXCEPT ![r] = DefTaken(run[r], run[r].todo \ {d}, d, id, "submit")]
              \/ \E id \in 1..Len(defs) :
                    /\ Best(d, id)
                    /\ run' = [run EXCEPT ![r] = DefTaken(run[r], run[r].todo \ {d}, d, id, "get")]
<1>1. /\ UNCHANGED <<worldVars, sources, defs, disturbed, overlapped>> /\ run[r].at = "defs"
      /\ Sorted(r, d) /\ run[r] \in Locals /\ run[r].todo \ {d} \in SUBSET Names
      /\ run[r].defIds \in [Names -> Nat] /\ RowsStay
      /\ Len(defs') = Len(defs) /\ defs' = defs
  BY LocalsTypes, QuietTypes DEF ListDefs
<1> DEFINE taken == [run[r] EXCEPT !.todo = @ \ {d}, !.name = d]
           id == FindDefinition(d)
<1>2. CASE DefFailed(r, taken)
  <2> DEFINE l == DefDone(run[r], run[r].todo \ {d}, TRUE, run[r].defIds)
  <2>1. run' = [run EXCEPT ![r] = l]
    BY <1>1, <1>2 DEF DefFailed, AfterDef, Becomes, DefDone, Locals
  <2>2. /\ l \in Locals /\ l.at = "defs" /\ l.errors /\ l.todo = run[r].todo \ {d}
        /\ l.defIds = run[r].defIds /\ SameSources(l, run[r])
    <3>1. TRUE \in BOOLEAN
      OBVIOUS
    <3>2. LET m == DefDone(run[r], run[r].todo \ {d}, TRUE, run[r].defIds) IN
          /\ m \in Locals /\ m.at = "defs" /\ m.errors = TRUE /\ m.defIds = run[r].defIds
          /\ m.todo = run[r].todo \ {d} /\ SameSources(m, run[r])
      BY <1>1 DEF DefDone, Locals, SameSources, Ats
    <3> QED
      BY <3>2
  <2> HIDE DEF l
  <2>3. TypeInv'
    BY <1>1, <2>1, <2>2, DefSkippedTypes
  <2> QED
    BY <2>1, <2>3 DEF l
<1>3. CASE Becomes(r, [taken EXCEPT !.id = id, !.at = IF id = 0 THEN "submit" ELSE "get"])
  <2>1. run' = [run EXCEPT ![r] = DefTaken(run[r], run[r].todo \ {d}, d, id, IF id = 0 THEN "submit" ELSE "get")]
    BY <1>1, <1>3 DEF Becomes, DefTaken, Locals
  <2>2. CASE Usable(d) = {}
    <3>1. id = 0
      BY <2>2 DEF FindDefinition
    <3>2. run' = [run EXCEPT ![r] = DefTaken(run[r], run[r].todo \ {d}, d, 0, "submit")]
      BY <2>1, <3>1
    <3>3. TypeInv'
      BY <1>1, <3>2, DefTakenTypes
    <3> QED
      BY <2>2, <3>2, <3>3
  <2>3. CASE Usable(d) # {}
    <3>1. Best(d, id) /\ id \in 1..Len(defs) /\ Len(defs) \in Nat
      BY <2>3, BestExists, IdsNow
    <3>2. id # 0 /\ id \in Nat /\ defs'[id].name = d /\ id \in 1..Len(defs')
      BY <1>1, <3>1 DEF Best, Usable
    <3>3. run' = [run EXCEPT ![r] = DefTaken(run[r], run[r].todo \ {d}, d, id, "get")]
      BY <2>1, <3>2
    <3> HIDE DEF id
    <3>4. TypeInv'
      BY <1>1, <3>2, <3>3, DefTakenTypes
    <3> QED
      BY <3>1, <3>3, <3>4
  <2> QED
    BY <2>2, <2>3
<1> QED
  BY <1>2, <1>3 DEF ListDefs

-----------------------------------------------------------------------------
(* The definitions, as a step changes them.                                *)

(* The parts of a stored definition.                                       *)
LEMMA RowsFacts ==
    ASSUME TypeInv
    PROVE  /\ defs \in Seq(DefRows) /\ Len(defs) \in Nat
           /\ \A i \in 1..Len(defs) :
                  /\ defs[i] \in DefRows /\ defs[i].name \in Names /\ defs[i].status \in Statuses
                  /\ defs[i].rels \in Relations /\ defs[i].rels \in [DOMAIN defs[i].rels -> Nat]
                  /\ DOMAIN defs[i].rels \subseteq plan.refs[defs[i].name]
                  /\ DOMAIN defs[i].rels \subseteq Names
                  /\ \A t \in DOMAIN defs[i].rels : defs[i].rels[t] <= Len(defs)
<1>1. defs \in Seq(DefRows) /\ Len(defs) \in Nat
  BY DEF TypeInv, DefsOK
<1>2. ASSUME NEW i \in 1..Len(defs)
      PROVE  /\ defs[i] \in DefRows /\ defs[i].name \in Names /\ defs[i].status \in Statuses
             /\ defs[i].rels \in Relations
  <2>1. defs[i] \in DefRows
    BY <1>1
  <2> QED
    BY <2>1 DEF DefRows
<1>3. \A i \in 1..Len(defs) :
          /\ DOMAIN defs[i].rels \subseteq plan.refs[defs[i].name]
          /\ \A t \in DOMAIN defs[i].rels : defs[i].rels[t] <= Len(defs)
  BY DEF TypeInv, DefsOK
<1> QED
  BY <1>1, <1>2, <1>3, RelationsFacts

(* The plan fixes what rows there can be.                                  *)
LEMMA SameRows ==
    ASSUME UNCHANGED worldVars
    PROVE  DefRows' = DefRows /\ plan' = plan /\ Keys' = Keys /\ Names' = Names
BY DEF DefRows, Relations, worldVars, Names, Keys

(* A row that changes keeps its name.                                      *)
LEMMA RowChanged ==
    ASSUME TypeInv, NEW i \in 1..Len(defs), NEW row \in DefRows, row.name = defs[i].name,
           DOMAIN row.rels \subseteq plan.refs[row.name], \A t \in DOMAIN row.rels : row.rels[t] <= Len(defs),
           defs' = [defs EXCEPT ![i] = row], UNCHANGED <<worldVars, sources>>,
           disturbed' \subseteq Runs, overlapped' \subseteq Runs
    PROVE  /\ RowsStay /\ Len(defs') = Len(defs) /\ defs'[i] = row
           /\ \A j \in 1..Len(defs) : j # i => defs'[j] = defs[j]
<1>1. /\ defs \in Seq(DefRows) /\ Len(defs) \in Nat
      /\ \A j \in 1..Len(defs) :
             /\ DOMAIN defs[j].rels \subseteq plan.refs[defs[j].name]
             /\ \A t \in DOMAIN defs[j].rels : defs[j].rels[t] <= Len(defs)
  BY RowsFacts
<1>2. UNCHANGED worldVars /\ sources' = sources
  OBVIOUS
<1>3. DefRows' = DefRows /\ plan' = plan
  BY <1>2, SameRows
<1>4. /\ defs' \in Seq(DefRows) /\ Len(defs') = Len(defs) /\ defs'[i] = row
      /\ \A j \in 1..Len(defs) : j # i => defs'[j] = defs[j]
  BY <1>1
<1>5. \A j \in 1..Len(defs) :
          /\ DOMAIN defs'[j].rels \subseteq plan.refs[defs'[j].name]
          /\ \A t \in DOMAIN defs'[j].rels : defs'[j].rels[t] <= Len(defs)
          /\ defs'[j].name = defs[j].name
  BY <1>1, <1>4
<1>6. DefsOK'
  BY <1>3, <1>4, <1>5 DEF DefsOK
<1>7. SourcesOK' /\ Len(sources) <= Len(sources')
  BY <1>2 DEF TypeInv, SourcesOK, SourceRows, worldVars, Keys
<1> QED
  BY <1>1, <1>2, <1>4, <1>5, <1>6, <1>7 DEF RowsStay

(* A row that is added gets the next id.                                   *)
LEMMA RowAdded ==
    ASSUME TypeInv, NEW row \in DefRows,
           DOMAIN row.rels \subseteq plan.refs[row.name], \A t \in DOMAIN row.rels : row.rels[t] <= Len(defs),
           defs' = Append(defs, row), UNCHANGED <<worldVars, sources>>,
           disturbed' \subseteq Runs, overlapped' \subseteq Runs
    PROVE  /\ RowsStay /\ Len(defs') = Len(defs) + 1 /\ defs'[Len(defs')] = row
           /\ \A j \in 1..Len(defs) : defs'[j] = defs[j]
<1>1. /\ defs \in Seq(DefRows) /\ Len(defs) \in Nat
      /\ \A j \in 1..Len(defs) :
             /\ defs[j].rels \in [DOMAIN defs[j].rels -> Nat]
             /\ DOMAIN defs[j].rels \subseteq plan.refs[defs[j].name]
             /\ \A t \in DOMAIN defs[j].rels : defs[j].rels[t] <= Len(defs)
  BY RowsFacts
<1>2. UNCHANGED worldVars /\ sources' = sources
  OBVIOUS
<1>3. DefRows' = DefRows /\ plan' = plan
  BY <1>2, SameRows
<1>4. /\ defs' \in Seq(DefRows) /\ Len(defs') = Len(defs) + 1 /\ defs'[Len(defs')] = row
      /\ \A j \in 1..Len(defs) : defs'[j] = defs[j]
  BY <1>1
<1>5. row.rels \in [DOMAIN row.rels -> Nat]
  BY RelationsFacts DEF DefRows
<1>6. ASSUME NEW j \in 1..Len(defs')
      PROVE  /\ DOMAIN defs'[j].rels \subseteq plan.refs[defs'[j].name]
             /\ \A t \in DOMAIN defs'[j].rels : defs'[j].rels[t] <= Len(defs')
  <2>1. CASE j \in 1..Len(defs)
    BY <2>1, <1>1, <1>4
  <2>2. CASE j = Len(defs')
    BY <2>2, <1>1, <1>4, <1>5
  <2> QED
    BY <1>1, <1>4, <2>1, <2>2
<1>7. DefsOK'
  BY <1>3, <1>4, <1>6 DEF DefsOK
<1>8. SourcesOK' /\ Len(sources) <= Len(sources')
  BY <1>2 DEF TypeInv, SourcesOK, SourceRows, worldVars, Keys
<1> QED
  BY <1>1, <1>2, <1>4, <1>7, <1>8 DEF RowsStay

-----------------------------------------------------------------------------
(* The steps at a definition, and what they lead to.                       *)

DefResolvedTo(r, id, errors) ==
    run' = [run EXCEPT ![r] = DefDone(run[r], run[r].todo, errors, [run[r].defIds EXCEPT ![run[r].name] = id])]
DefFailedAt(r) == run' = [run EXCEPT ![r] = DefDone(run[r], run[r].todo, TRUE, run[r].defIds)]

(* Resolving without a new error.                                          *)
LEMMA DefResolvedSame ==
    ASSUME TypeInv, NEW r \in Runs, NEW id, DefResolved(r, id, run[r])
    PROVE  DefResolvedTo(r, id, run[r].errors)
<1>1. run[r] \in Locals
  BY LocalsTypes
<1> QED
  BY <1>1 DEF DefResolved, AfterDef, Becomes, DefDone, Locals, DefResolvedTo

(* A definition that fails keeps the types.                                *)
LEMMA DefFailedTypes ==
    ASSUME TypeInv, NEW r \in Runs, run[r].at \in DefSteps, DefFailed(r, run[r]), RowsStay
    PROVE  TypeInv' /\ DefFailedAt(r)
<1>1. DefFailedAt(r)
  BY DefFailedShape DEF DefFailedAt
<1>2. TRUE \in BOOLEAN
  OBVIOUS
<1> QED
  BY <1>1, <1>2, DefDoneTypes DEF DefFailedAt

(* A definition that is resolved to a row keeps the types.                 *)
LEMMA DefResolvedTypes ==
    ASSUME TypeInv, NEW r \in Runs, run[r].at \in DefSteps, NEW errors \in BOOLEAN, run[r].errors => errors,
           NEW id \in 1..Len(defs'), DefResolvedTo(r, id, errors), RowsStay
    PROVE  TypeInv'
BY DefDoneTypes DEF DefResolvedTo

(* What is found is complete, or is to be extended.                        *)
LEMMA GetDefTypes ==
    ASSUME TypeInv, NEW r \in Runs, GetDef(r)
    PROVE  /\ TypeInv'
           /\ \/ DefFailedAt(r)
              \/ \E errors \in BOOLEAN :
                    /\ errors = (run[r].errors \/ Stale(r))
                    /\ \/ Missing(r) = {} /\ DefResolvedTo(r, run[r].id, errors)
                       \/ run' = [run EXCEPT ![r] = Moved(run[r], errors, run[r].id, "extend")]
<1>1. /\ UNCHANGED <<worldVars, sources, defs, disturbed, overlapped>> /\ run[r].at = "get"
      /\ run[r].at \in DefSteps /\ "extend" \in DefSteps /\ "extend" # "relabel"
      /\ run[r] \in Locals /\ run[r].errors \in BOOLEAN /\ RowsStay
      /\ Len(defs') = Len(defs) /\ defs' = defs /\ run[r].id \in Nat
  BY LocalsTypes, QuietTypes DEF GetDef, DefSteps
<1>2. run[r].id \in 1..Len(defs) /\ defs'[run[r].id].name = run[r].name
  BY <1>1, IdsNow DEF Found
<1>3. CASE DefFailed(r, run[r])
  BY <1>1, <1>3, DefFailedTypes
<1> DEFINE errors == run[r].errors \/ Stale(r)
           seen == [run[r] EXCEPT !.errors = errors]
<1>4. errors \in BOOLEAN /\ (run[r].errors => errors)
  BY <1>1
<1>5. CASE Missing(r) = {} /\ DefResolved(r, run[r].id, seen)
  <2>1. DefResolvedTo(r, run[r].id, errors)
    BY <1>5, DefResolvedShape DEF DefResolvedTo
  <2> HIDE DEF errors
  <2>2. TypeInv'
    BY <1>1, <1>2, <1>4, <2>1, DefResolvedTypes
  <2> QED
    BY <1>4, <1>5, <2>1, <2>2 DEF errors
<1>6. CASE Becomes(r, [seen EXCEPT !.at = "extend"])
  <2>1. run' = [run EXCEPT ![r] = Moved(run[r], errors, run[r].id, "extend")]
    BY <1>1, <1>6 DEF Becomes, Moved, Locals
  <2> HIDE DEF errors
  <2>2. TypeInv'
    BY <1>1, <1>2, <1>4, <2>1, MovedTypes
  <2> QED
    BY <1>4, <2>1, <2>2 DEF errors
<1>7. \/ DefFailed(r, run[r])
      \/ Missing(r) = {} /\ DefResolved(r, run[r].id, seen)
      \/ Becomes(r, [seen EXCEPT !.at = "extend"])
  BY DEF GetDef
<1> QED
  BY <1>3, <1>5, <1>6, <1>7

(* The API refuses a name that is taken, or goes on to insert.             *)
LEMMA SubmitDefTypes ==
    ASSUME TypeInv, NEW r \in Runs, SubmitDef(r)
    PROVE  /\ TypeInv'
           /\ \/ DefFailedAt(r)
              \/ /\ Usable(run[r].name) = {}
                 /\ run' = [run EXCEPT ![r] = Moved(run[r], run[r].errors, run[r].id, "insert")]
<1>1. /\ UNCHANGED <<worldVars, sources, defs, disturbed, overlapped>> /\ run[r].at = "submit"
      /\ run[r].at \in DefSteps /\ "insert" \in DefSteps /\ "insert" # "relabel" /\ "insert" \notin Found
      /\ run[r] \in Locals /\ run[r].errors \in BOOLEAN /\ RowsStay /\ run[r].id \in Nat
  BY LocalsTypes, QuietTypes DEF SubmitDef, DefSteps, Found
<1>2. CASE DefFailed(r, run[r])
  BY <1>1, <1>2, DefFailedTypes
<1>3. CASE Usable(run[r].name) = {} /\ Becomes(r, [run[r] EXCEPT !.at = "insert"])
  <2>1. run' = [run EXCEPT ![r] = Moved(run[r], run[r].errors, run[r].id, "insert")]
    BY <1>1, <1>3 DEF Becomes, Moved, Locals
  <2>2. TypeInv'
    BY <1>1, <2>1, MovedTypes
  <2> QED
    BY <1>3, <2>1, <2>2
<1> QED
  BY <1>2, <1>3 DEF SubmitDef

(* The relations that are added to a definition are those of the plan.     *)
LEMMA ExtendDefTypes ==
    ASSUME TypeInv, NEW r \in Runs, ExtendDef(r)
    PROVE  /\ TypeInv'
           /\ \/ UNCHANGED defs /\ DefFailedAt(r)
              \/ /\ Len(defs') = Len(defs)
                 /\ \A j \in 1..Len(defs) : j # run[r].id => defs'[j] = defs[j]
                 /\ defs'[run[r].id] = [defs[run[r].id] EXCEPT !.rels =
                                            Appended(run[r].id, Shipped(r, Missing(r)))]
                 /\ DefFailedAt(r) \/ DefResolvedTo(r, run[r].id, run[r].errors)
<1>1. /\ UNCHANGED <<worldVars, sources, disturbed, overlapped>> /\ run[r].at = "extend"
      /\ run[r].at \in DefSteps /\ run[r] \in Locals /\ run[r].errors \in BOOLEAN
      /\ run[r].defIds \in [Names -> Nat] /\ run[r].id \in Nat
      /\ disturbed' \subseteq Runs /\ overlapped' \subseteq Runs
  BY LocalsTypes DEF ExtendDef, DefSteps, TypeInv
<1>2. /\ run[r].id \in 1..Len(defs) /\ Len(defs) \in Nat /\ defs[run[r].id].name = run[r].name
      /\ \A d \in Names : run[r].defIds[d] <= Len(defs)
  BY <1>1, IdsNow DEF Found, IdsOK
<1>3. CASE DefFailed(r, run[r]) /\ UNCHANGED defs
  BY <1>1, <1>3, QuietTypes, DefFailedTypes
<1>4. CASE /\ defs' = [defs EXCEPT ![run[r].id].rels = Appended(run[r].id, Shipped(r, Missing(r)))]
           /\ DefResolved(r, run[r].id, run[r]) \/ DefFailed(r, run[r])
  <2> DEFINE i == run[r].id
             rels == Appended(i, Shipped(r, Missing(r)))
             row == [defs[i] EXCEPT !.rels = rels]
  <2>1. /\ defs[i] \in DefRows /\ defs[i].name \in Names
        /\ defs[i].rels \in [DOMAIN defs[i].rels -> Nat]
        /\ DOMAIN defs[i].rels \subseteq plan.refs[run[r].name]
        /\ \A t \in DOMAIN defs[i].rels : defs[i].rels[t] <= Len(defs)
        /\ plan.refs[run[r].name] \subseteq Names
    BY <1>2, RowsFacts, PlanTypes DEF TypeInv
  <2>2. DOMAIN rels = plan.refs[run[r].name]
    BY <2>1 DEF Appended, Shipped, Missing
  <2>3. \A t \in DOMAIN rels : rels[t] \in Nat /\ rels[t] <= Len(defs)
    BY <1>1, <1>2, <2>1 DEF Appended, Shipped, Missing, Wanted
  <2>4. rels \in Relations
    <3>1. rels = [t \in DOMAIN rels |-> rels[t]]
      BY DEF Appended
    <3> HIDE DEF rels
    <3>2. rels \in [DOMAIN rels -> Nat]
      BY <2>3, <3>1
    <3> QED
      BY <2>1, <2>2, <3>2, RelationsFacts
  <2> HIDE DEF rels
  <2>5. row \in DefRows /\ row.name = defs[i].name /\ row.rels = rels
    BY <2>1, <2>4 DEF DefRows
  <2>6. defs' = [defs EXCEPT ![i] = row]
    BY <1>4 DEF rels
  <2> HIDE DEF row
  <2>7. /\ RowsStay /\ Len(defs') = Len(defs) /\ defs'[i] = row
        /\ \A j \in 1..Len(defs) : j # i => defs'[j] = defs[j]
    BY <1>1, <1>2, <2>2, <2>3, <2>5, <2>6, RowChanged
  <2>8. CASE DefFailed(r, run[r])
    <3>1. TypeInv' /\ DefFailedAt(r)
      BY <1>1, <2>7, <2>8, DefFailedTypes
    <3> QED
      BY <2>7, <3>1 DEF row, rels
  <2>9. CASE DefResolved(r, run[r].id, run[r])
    <3>1. DefResolvedTo(r, run[r].id, run[r].errors)
      BY <2>9, DefResolvedSame
    <3>2. TypeInv'
      BY <1>1, <1>2, <2>7, <3>1, DefResolvedTypes
    <3> QED
      BY <2>7, <3>1, <3>2 DEF row, rels
  <2> QED
    BY <1>4, <2>8, <2>9
<1> QED
  BY <1>3, <1>4 DEF ExtendDef

(* The row is inserted, with or without an answer.                         *)
LEMMA InsertDefTypes ==
    ASSUME TypeInv, NEW r \in Runs, InsertDef(r)
    PROVE  /\ TypeInv'
           /\ Len(defs') = Len(defs) + 1
           /\ \A j \in 1..Len(defs) : defs'[j] = defs[j]
           /\ defs'[Len(defs')] = [name |-> run[r].name, status |-> "creating",
                                   rels |-> Shipped(r, plan.refs[run[r].name]), raced |-> r \in overlapped]
           /\ \/ run' = [run EXCEPT ![r] = Moved(run[r], run[r].errors, Len(defs'), "activate")]
              \/ DefFailedAt(r)
<1>1. /\ UNCHANGED <<worldVars, sources, disturbed, overlapped>> /\ run[r].at = "insert"
      /\ run[r].at \in DefSteps /\ "activate" \in DefSteps /\ "activate" # "relabel"
      /\ run[r] \in Locals /\ run[r].errors \in BOOLEAN
      /\ run[r].defIds \in [Names -> Nat] /\ LocalsOK(run[r])
      /\ disturbed' \subseteq Runs /\ overlapped' \subseteq Runs
  BY LocalsTypes, IdsNow DEF InsertDef, DefSteps, TypeInv
<1>2. /\ run[r].name \in Names /\ Len(defs) \in Nat /\ plan.refs[run[r].name] \subseteq Names
      /\ \A d \in Names : run[r].defIds[d] <= Len(defs)
  BY <1>1, IdsNow, PlanTypes DEF IdsOK, LocalsOK, TypeInv
<1> DEFINE rels == Shipped(r, plan.refs[run[r].name])
           row == [name |-> run[r].name, status |-> "creating", rels |-> rels, raced |-> r \in overlapped]
<1>3. /\ DOMAIN rels = plan.refs[run[r].name] /\ rels = [t \in DOMAIN rels |-> rels[t]]
      /\ \A t \in DOMAIN rels : rels[t] \in Nat /\ rels[t] <= Len(defs)
  BY <1>1, <1>2 DEF Shipped, Wanted
<1> HIDE DEF rels
<1>4. rels \in Relations
  <2>1. rels \in [DOMAIN rels -> Nat]
    BY <1>3
  <2> QED
    BY <1>2, <1>3, <2>1, RelationsFacts
<1>5. row \in DefRows /\ row.name = run[r].name /\ row.rels = rels
  BY <1>2, <1>4 DEF DefRows, Statuses
<1>6. defs' = Append(defs, row)
  BY DEF InsertDef, rels
<1>7. run' = [run EXCEPT ![r] = [run[r] EXCEPT !.at = "activate", !.id = Len(defs')]] \/ DefFailed(r, run[r])
  BY DEF InsertDef, Becomes
<1> HIDE DEF row
<1>8. /\ RowsStay /\ Len(defs') = Len(defs) + 1 /\ defs'[Len(defs')] = row
      /\ \A j \in 1..Len(defs) : defs'[j] = defs[j]
  BY <1>1, <1>2, <1>3, <1>5, <1>6, RowAdded
<1>9. ASSUME DefFailed(r, run[r]) PROVE TypeInv' /\ DefFailedAt(r)
  BY <1>1, <1>8, <1>9, DefFailedTypes
<1>10. ASSUME run' = [run EXCEPT ![r] = [run[r] EXCEPT !.at = "activate", !.id = Len(defs')]]
       PROVE  TypeInv' /\ run' = [run EXCEPT ![r] = Moved(run[r], run[r].errors, Len(defs'), "activate")]
  <2>1. run' = [run EXCEPT ![r] = Moved(run[r], run[r].errors, Len(defs'), "activate")]
    BY <1>1, <1>10 DEF Moved, Locals
  <2>2. Len(defs') \in Nat /\ Len(defs') \in 1..Len(defs') /\ defs'[Len(defs')].name = run[r].name
    BY <1>2, <1>5, <1>8
  <2>3. TypeInv'
    BY <1>1, <1>8, <2>1, <2>2, MovedTypes
  <2> QED
    BY <2>1, <2>3
<1> QED
  BY <1>7, <1>8, <1>9, <1>10 DEF row, rels

(* What is inserted.                                                       *)
LEMMA InsertedRow ==
    ASSUME TypeInv, NEW r \in Runs, InsertDef(r)
    PROVE  /\ Len(defs') = Len(defs) + 1 /\ \A j \in 1..Len(defs) : defs'[j] = defs[j]
           /\ defs'[Len(defs')].name = run[r].name /\ defs'[Len(defs')].status = "creating"
           /\ defs'[Len(defs')].rels = Shipped(r, plan.refs[run[r].name])
<1>1. /\ Len(defs') = Len(defs) + 1 /\ \A j \in 1..Len(defs) : defs'[j] = defs[j]
      /\ defs'[Len(defs')] = [name |-> run[r].name, status |-> "creating",
                              rels |-> Shipped(r, plan.refs[run[r].name]), raced |-> r \in overlapped]
  BY InsertDefTypes
<1> QED
  BY <1>1

(* The row is activated, with or without an answer, unless the merchant    *)
(* has changed it.                                                         *)
LEMMA ActivateDefTypes ==
    ASSUME TypeInv, NEW r \in Runs, ActivateDef(r)
    PROVE  /\ TypeInv'
           /\ Len(defs') = Len(defs)
           /\ \A j \in 1..Len(defs) : j # run[r].id => defs'[j] = defs[j]
           /\ \/ defs'[run[r].id] = defs[run[r].id]
              \/ /\ defs[run[r].id].status = "creating"
                 /\ defs'[run[r].id] = [defs[run[r].id] EXCEPT !.status = "active"]
           /\ DefResolvedTo(r, run[r].id, run[r].errors)
<1>1. /\ UNCHANGED <<worldVars, sources, disturbed, overlapped>> /\ run[r].at = "activate"
      /\ run[r].at \in DefSteps /\ run[r] \in Locals /\ run[r].errors \in BOOLEAN
      /\ disturbed' \subseteq Runs /\ overlapped' \subseteq Runs
  BY LocalsTypes DEF ActivateDef, DefSteps, TypeInv
<1>2. run[r].id \in 1..Len(defs) /\ Len(defs) \in Nat
  BY <1>1, IdsNow DEF Found
<1>3. DefResolvedTo(r, run[r].id, run[r].errors)
  BY DefResolvedSame DEF ActivateDef
<1>4. CASE UNCHANGED defs
  <2>1. RowsStay /\ Len(defs') = Len(defs)
    BY <1>1, <1>4, QuietTypes
  <2>2. TypeInv'
    BY <1>1, <1>2, <1>3, <2>1, DefResolvedTypes
  <2> QED
    BY <1>3, <1>4, <2>2
<1>5. CASE /\ defs[run[r].id].status = "creating"
           /\ defs' = [defs EXCEPT ![run[r].id].status = "active"]
  <2> DEFINE row == [defs[run[r].id] EXCEPT !.status = "active"]
  <2>1. /\ defs[run[r].id] \in DefRows
        /\ DOMAIN defs[run[r].id].rels \subseteq plan.refs[defs[run[r].id].name]
        /\ \A t \in DOMAIN defs[run[r].id].rels : defs[run[r].id].rels[t] <= Len(defs)
    BY <1>2, RowsFacts
  <2>2. row \in DefRows /\ row.name = defs[run[r].id].name /\ row.rels = defs[run[r].id].rels
    BY <2>1 DEF DefRows, Statuses
  <2>3. defs' = [defs EXCEPT ![run[r].id] = row]
    BY <1>5
  <2> HIDE DEF row
  <2>4. /\ RowsStay /\ Len(defs') = Len(defs) /\ defs'[run[r].id] = row
        /\ \A j \in 1..Len(defs) : j # run[r].id => defs'[j] = defs[j]
    BY <1>1, <1>2, <2>1, <2>2, <2>3, RowChanged
  <2>5. TypeInv'
    BY <1>1, <1>2, <1>3, <2>4, DefResolvedTypes
  <2> QED
    BY <1>3, <1>5, <2>4, <2>5 DEF row
<1> QED
  BY <1>4, <1>5 DEF ActivateDef

-----------------------------------------------------------------------------
(* The other steps.                                                        *)

(* A step of a run at no definition afterwards, that resolves none.        *)
Quiet(r) ==
    /\ UNCHANGED defs
    /\ \E l \in Locals :
           /\ run' = [run EXCEPT ![r] = l] /\ l.at \notin DefSteps /\ l.defIds = run[r].defIds
           /\ run[r].errors => l.errors

(* The end of a run.                                                       *)
LEMMA EndTypes ==
    ASSUME TypeInv, NEW r \in Runs, EnsureEvent(r) \/ SaveOrderStatuses(r)
    PROVE  /\ TypeInv'
           /\ \E events \in SUBSET plan.events, errors \in BOOLEAN, at \in {"defs", "over"} :
                 /\ run[r].errors => errors
                 /\ run' = [run EXCEPT ![r] = Ending(run[r], events, errors, at)]
<1>1. /\ UNCHANGED <<worldVars, sources, defs, disturbed, overlapped>> /\ run[r].at = "defs"
      /\ run[r].todo = {} /\ run[r] \in Locals /\ run[r].errors \in BOOLEAN /\ RowsStay
      /\ run[r].events \in SUBSET plan.events
  BY LocalsTypes, QuietTypes DEF EnsureEvent, SaveOrderStatuses
<1>2. CASE EnsureEvent(r)
  <2>1. PICK e \in run[r].events, failed \in BOOLEAN :
            run' = [run EXCEPT ![r] = [run[r] EXCEPT !.events = @ \ {e}, !.errors = @ \/ failed]]
    BY <1>2 DEF EnsureEvent, Becomes
  <2> DEFINE events == run[r].events \ {e}
             errors == run[r].errors \/ failed
  <2>2. run' = [run EXCEPT ![r] = Ending(run[r], events, errors, "defs")]
    BY <1>1, <2>1 DEF Ending, Locals
  <2>3. events \in SUBSET plan.events /\ errors \in BOOLEAN /\ (run[r].errors => errors)
    BY <1>1
  <2> HIDE DEF events, errors
  <2>4. TypeInv'
    BY <1>1, <2>2, <2>3, EndingTypes
  <2> QED
    BY <2>2, <2>3, <2>4
<1>3. CASE SaveOrderStatuses(r)
  <2>1. PICK failed \in BOOLEAN : run' = [run EXCEPT ![r] = [run[r] EXCEPT !.at = "over", !.errors = @ \/ failed]]
    BY <1>3 DEF SaveOrderStatuses, Becomes
  <2> DEFINE errors == run[r].errors \/ failed
  <2>2. run' = [run EXCEPT ![r] = Ending(run[r], run[r].events, errors, "over")]
    BY <1>1, <2>1 DEF Ending, Locals
  <2>3. errors \in BOOLEAN /\ (run[r].errors => errors)
    BY <1>1
  <2> HIDE DEF errors
  <2>4. TypeInv'
    BY <1>1, <2>2, <2>3, EndingTypes
  <2> QED
    BY <1>1, <2>2, <2>3, <2>4
<1> QED
  BY <1>2, <1>3

(* A run that has not started.                                             *)
LEMMA IdleTypes ==
    /\ LocalsOK(Idle) /\ \A m, n \in Nat : IdsOK(Idle, m, n)
    /\ Idle.at = "idle" /\ \A d \in Names : Idle.defIds[d] = 0
<1>1. /\ Idle \in Locals /\ Idle.at = "idle" /\ Open(Idle) = {}
      /\ \A s \in Keys : Idle.sourceIds[s] = 0
      /\ \A d \in Names : Idle.defIds[d] = 0
  BY DEF Idle, Locals, Ats, Open, DefSteps
<1>2. LocalsOK(Idle)
  BY <1>1 DEF LocalsOK, SourceSteps, DefSteps
<1>3. \A m, n \in Nat : IdsOK(Idle, m, n)
  BY <1>1 DEF IdsOK, Found
<1> QED
  BY <1>1, <1>2, <1>3

(* A run that died.                                                        *)
LEMMA DeadTypes ==
    LET l == [Idle EXCEPT !.at = "dead"] IN
    /\ LocalsOK(l) /\ l \in Locals /\ l.at = "dead" /\ \A d \in Names : l.defIds[d] = 0
    /\ \A m, n \in Nat : IdsOK(l, m, n)
<1> DEFINE l == [Idle EXCEPT !.at = "dead"]
<1>1. /\ l \in Locals /\ l.at = "dead" /\ Open(l) = {}
      /\ \A s \in Keys : l.sourceIds[s] = 0
      /\ \A d \in Names : l.defIds[d] = 0
  BY DEF Idle, Locals, Ats, Open, DefSteps
<1> HIDE DEF l
<1>2. LocalsOK(l)
  BY <1>1 DEF LocalsOK, SourceSteps, DefSteps
<1>3. \A m, n \in Nat : IdsOK(l, m, n)
  BY <1>1 DEF IdsOK, Found
<1> QED
  BY <1>1, <1>2, <1>3 DEF l

(* A crash ends the runs in progress.                                      *)
LEMMA CrashTypes ==
    ASSUME TypeInv, Crash
    PROVE  /\ TypeInv' /\ UNCHANGED <<worldVars, sources, defs, disturbed, overlapped>>
           /\ \A r \in Runs :
                 \/ ~Active(r) /\ run'[r] = run[r]
                 \/ run'[r].at = "dead" /\ \A d \in Names : run'[r].defIds[d] = 0
<1>1. UNCHANGED <<worldVars, sources, defs, disturbed, overlapped>> /\ RowsStay /\ DOMAIN run' = Runs
  BY QuietTypes DEF Crash
<1>2. Len(sources') \in Nat /\ Len(defs') \in Nat
  BY <1>1, RowsStayFacts
<1>3. ASSUME NEW r \in Runs
      PROVE  /\ LocalsOK(run'[r]) /\ IdsOK(run'[r], Len(sources'), Len(defs'))
             /\ run'[r].at \in Found => defs'[run'[r].id].name = run'[r].name
             /\ \/ ~Active(r) /\ run'[r] = run[r]
                \/ run'[r].at = "dead" /\ \A d \in Names : run'[r].defIds[d] = 0
  <2>1. CASE Active(r)
    <3>1. run'[r] = [Idle EXCEPT !.at = "dead"]
      BY <2>1 DEF Crash
    <3> QED
      BY <1>2, <3>1, DeadTypes DEF Found
  <2>2. CASE ~Active(r)
    <3>1. run'[r] = run[r]
      BY <2>2 DEF Crash
    <3>2. LocalsOK(run[r]) /\ IdsOK(run[r], Len(sources'), Len(defs'))
          /\ (run[r].at \in Found => defs'[run[r].id].name = run[r].name)
      BY <1>1, IdsGrow, IdsNow
    <3> QED
      BY <2>2, <3>1, <3>2
  <2> QED
    BY <2>1, <2>2
<1>4. TypeInv'
  BY <1>1, <1>3, RunsKeepTypes
<1> QED
  BY <1>1, <1>3, <1>4

(* The merchant changes a row under the runs, which are noted as           *)
(* disturbed.                                                              *)
LEMMA ChangeStatusTypes ==
    ASSUME TypeInv, NEW i \in DOMAIN defs, NEW status \in Statuses, ChangeStatus(i, status)
    PROVE  /\ TypeInv' /\ UNCHANGED <<worldVars, sources, run, overlapped>> /\ Disturbs
           /\ Len(defs') = Len(defs) /\ \A j \in 1..Len(defs) : j # i => defs'[j] = defs[j]
           /\ defs'[i] = [defs[i] EXCEPT !.status = status]
           /\ defs[i].status # "deleted"
<1>1. /\ UNCHANGED <<worldVars, sources, run, overlapped>> /\ Disturbs
      /\ disturbed' \subseteq Runs /\ overlapped' \subseteq Runs /\ defs[i].status # "deleted"
  BY DEF ChangeStatus, Disturbs, TypeInv
<1>2. i \in 1..Len(defs)
  BY DEF TypeInv, DefsOK
<1> DEFINE row == [defs[i] EXCEPT !.status = status]
<1>3. /\ defs[i] \in DefRows
      /\ DOMAIN defs[i].rels \subseteq plan.refs[defs[i].name]
      /\ \A t \in DOMAIN defs[i].rels : defs[i].rels[t] <= Len(defs)
  BY <1>2, RowsFacts
<1>4. row \in DefRows /\ row.name = defs[i].name /\ row.rels = defs[i].rels
  BY <1>3 DEF DefRows
<1>5. defs' = [defs EXCEPT ![i] = row]
  BY DEF ChangeStatus
<1> HIDE DEF row
<1>6. /\ RowsStay /\ Len(defs') = Len(defs) /\ defs'[i] = row
      /\ \A j \in 1..Len(defs) : j # i => defs'[j] = defs[j]
  BY <1>1, <1>2, <1>3, <1>4, <1>5, RowChanged
<1>7. TypeInv'
  <2>1. DOMAIN run' = Runs
    BY <1>1 DEF TypeInv
  <2>2. ASSUME NEW r \in Runs
        PROVE  /\ LocalsOK(run'[r]) /\ IdsOK(run'[r], Len(sources'), Len(defs'))
               /\ run'[r].at \in Found => defs'[run'[r].id].name = run'[r].name
    BY <1>1, <1>6, IdsGrow, IdsNow
  <2> QED
    BY <1>6, <2>1, <2>2, RunsKeepTypes
<1> QED
  BY <1>1, <1>6, <1>7 DEF row

(* The merchant renames a source under the runs.                           *)
LEMMA RenameSourceTypes ==
    ASSUME TypeInv, NEW s \in Keys, RenameSource(s)
    PROVE  TypeInv' /\ UNCHANGED <<plan, sources, defs, run, overlapped>> /\ Disturbs
<1>1. UNCHANGED <<plan, sources, defs, run, overlapped>> /\ Disturbs /\ disturbed' \subseteq Runs
  BY DEF RenameSource, Disturbs, TypeInv
<1>2. label' \in [Keys -> Nat]
  <2>1. PICK n \in 0..MaxLabel : label' = [label EXCEPT ![s] = n]
    BY DEF RenameSource
  <2>2. n \in Nat /\ label \in [Keys -> Nat]
    BY <2>1, ProvisioningBounds DEF TypeInv
  <2> QED
    BY <2>1, <2>2
<1>3. Locals' = Locals /\ Idle' = Idle /\ Keys' = Keys /\ Names' = Names
  BY <1>1 DEF Locals, Idle, Keys, Names
<1>4. SourcesOK' /\ DefsOK'
  BY <1>1 DEF TypeInv, SourcesOK, DefsOK, SourceRows, DefRows, Relations, Keys, Names
<1>5. ASSUME NEW r \in Runs PROVE LocalsOK(run[r])' /\ IdsOK(run[r], Len(sources), Len(defs))'
  <2>1. LocalsOK(run[r])'
    BY <1>1, <1>3, IdsNow DEF LocalsOK, Open, Siblings
  <2>2. IdsOK(run[r], Len(sources), Len(defs))'
    BY <1>1, <1>3, IdsNow DEF IdsOK
  <2> QED
    BY <2>1, <2>2
<1> QED
  BY <1>1, <1>2, <1>3, <1>4, <1>5 DEF TypeInv

(* The tables start with old definitions, and no run.                      *)
LEMMA InitTypes ==
    ASSUME Init
    PROVE  TypeInv
<1>1. SourcesOK
  BY DEF Init, SourcesOK
<1>2. DefsOK
  <2>0. PICK n \in 0..MaxOld : \E names \in [1..n -> Names] :
            defs = [i \in 1..n |-> [name |-> names[i], status |-> "active",
                                    rels |-> [t \in {} |-> 0],
                                    raced |-> \E j \in 1..(i - 1) : names[j] = names[i]]]
    BY DEF Init
  <2>1. PICK names \in [1..n -> Names] :
            defs = [i \in 1..n |-> [name |-> names[i], status |-> "active",
                                    rels |-> [t \in {} |-> 0],
                                    raced |-> \E j \in 1..(i - 1) : names[j] = names[i]]]
    BY <2>0
  <2>2. n \in Nat
    BY ProvisioningBounds
  <2>3. [t \in {} |-> 0] \in Relations /\ DOMAIN [t \in {} |-> 0] = {}
    <3>1. [t \in {} |-> 0] \in [{} -> Nat]
      OBVIOUS
    <3> QED
      BY <3>1, RelationsFacts
  <2> DEFINE none == [t \in {} |-> 0]
             row(i) == [name |-> names[i], status |-> "active", rels |-> none,
                        raced |-> \E j \in 1..(i - 1) : names[j] = names[i]]
  <2>4. none \in Relations /\ DOMAIN none = {}
    BY <2>3
  <2>5. defs = [i \in 1..n |-> row(i)]
    BY <2>1
  <2> HIDE DEF none
  <2>6. \A i \in 1..n : row(i) \in DefRows /\ row(i).rels = none
    BY <2>4 DEF DefRows, Statuses
  <2> HIDE DEF row
  <2>7. defs \in Seq(DefRows) /\ Len(defs) = n /\ \A i \in 1..n : defs[i] = row(i)
    BY <2>2, <2>5, <2>6
  <2> QED
    BY <2>4, <2>6, <2>7 DEF DefsOK
<1>3. Len(sources) \in Nat /\ Len(defs) \in Nat
  BY <1>1, <1>2 DEF SourcesOK, DefsOK
<1>4. ASSUME NEW r \in Runs
      PROVE  LocalsOK(run[r]) /\ IdsOK(run[r], Len(sources), Len(defs)) /\ run[r].at \notin Found
  <2>1. run[r] = Idle
    BY DEF Init
  <2> QED
    BY <1>3, <2>1, IdleTypes DEF Found
<1>5. plan \in Plans /\ label \in [Keys -> Nat] /\ DOMAIN run = Runs /\ disturbed \subseteq Runs /\ overlapped \subseteq Runs
  BY DEF Init
<1> QED
  BY <1>1, <1>2, <1>4, <1>5 DEF TypeInv

(* A source that fails concerns no definition.                             *)
LEMMA SourceFailedQuiet ==
    ASSUME TypeInv, NEW r \in Runs, SourceFailed(r), UNCHANGED defs
    PROVE  Quiet(r) /\ run'[r].at # "create"
<1> DEFINE l == SourceDone(run[r], run[r].sourceIds, TRUE, Next1(r), Past(r))
<1>1. run' = [run EXCEPT ![r] = l] /\ DOMAIN run = Runs
  BY SourceFailedShape DEF TypeInv
<1>2. run[r] \in Locals /\ run[r].sourceIds \in [Keys -> Nat] /\ run[r].next \in Nat
  BY LocalsTypes
<1>3. Next1(r) \in Nat /\ Past(r) \in Ats /\ Past(r) \in {"source", "sort"} /\ TRUE \in BOOLEAN
  BY <1>2 DEF Next1, Past, Ats
<1>4. l \in Locals /\ l.at = Past(r) /\ l.errors = TRUE /\ SameDefs(l, run[r])
  BY <1>2, <1>3 DEF SourceDone, Locals, SameDefs
<1> HIDE DEF l
<1>5. Past(r) \notin DefSteps /\ Past(r) # "create" /\ run'[r] = l
  BY <1>1, <1>3 DEF DefSteps
<1> QED
  BY <1>1, <1>4, <1>5 DEF Quiet, SameDefs

(* Nor does a source that is resolved.                                     *)
LEMMA SourceResolvedQuiet ==
    ASSUME TypeInv, NEW r \in Runs, NEW id \in Nat, SourceResolved(r, id), UNCHANGED defs
    PROVE  Quiet(r) /\ run'[r].at # "create"
<1> DEFINE ids == [run[r].sourceIds EXCEPT ![Source(r)] = id]
           l == SourceDone(run[r], ids, run[r].errors, Next1(r), Past(r))
<1>1. run' = [run EXCEPT ![r] = l] /\ DOMAIN run = Runs
  BY SourceResolvedShape DEF TypeInv
<1>2. /\ run[r] \in Locals /\ ids \in [Keys -> Nat] /\ run[r].next \in Nat
      /\ run[r].errors \in BOOLEAN
  BY LocalsTypes
<1> HIDE DEF ids
<1>3. Next1(r) \in Nat /\ Past(r) \in Ats /\ Past(r) \in {"source", "sort"}
  BY <1>2 DEF Next1, Past, Ats
<1>4. l \in Locals /\ l.at = Past(r) /\ l.errors = run[r].errors /\ SameDefs(l, run[r])
  BY <1>2, <1>3, SourceDoneFields
<1> HIDE DEF l
<1>5. Past(r) \notin DefSteps /\ Past(r) # "create" /\ run'[r] = l
  BY <1>1, <1>3 DEF DefSteps
<1> QED
  BY <1>1, <1>4, <1>5 DEF Quiet, SameDefs

(* Nor does going on before the definitions.                               *)
LEMMA MovedQuiet ==
    ASSUME TypeInv, NEW r \in Runs, NEW id \in Nat, NEW at \in Ats \ DefSteps,
           run' = [run EXCEPT ![r] = Moved(run[r], run[r].errors, id, at)], UNCHANGED defs
    PROVE  Quiet(r) /\ run'[r].at = at /\ SameSources(run'[r], run[r])
<1> DEFINE l == Moved(run[r], run[r].errors, id, at)
<1>1. run[r] \in Locals /\ run[r].errors \in BOOLEAN /\ DOMAIN run = Runs
  BY LocalsTypes DEF TypeInv
<1>2. l \in Locals /\ l.at = at /\ l.errors = run[r].errors /\ SameDefs(l, run[r]) /\ SameSources(l, run[r])
  BY <1>1, MovedFields
<1>3. run' = [run EXCEPT ![r] = l]
  OBVIOUS
<1> HIDE DEF l
<1> QED
  BY <1>1, <1>2, <1>3 DEF Quiet, SameDefs

(* A step of a run that is under way, before the definitions.              *)
LEMMA ListSourcesQuiet ==
    ASSUME TypeInv, NEW r \in Runs, ListSources(r)
    PROVE  /\ TypeInv' /\ Quiet(r) /\ UNCHANGED sources
           /\ run'[r].at = "create" => ByStableKey(r, Source(r)) = {} /\ run'[r].next = run[r].next
<1>1. UNCHANGED <<sources, defs>> /\ run[r].id \in Nat /\ Len(sources) \in Nat
      /\ "relabel" \in Ats \ DefSteps /\ "create" \in Ats \ DefSteps
  BY LocalsTypes, IdsNow DEF ListSources, Ats, DefSteps
<1>2. CASE SourceFailed(r)
  BY <1>1, <1>2, SourceFailedQuiet, ListSourcesTypes
<1>3. CASE \E i \in 1..Len(sources) : SourceResolved(r, i)
  <2>1. PICK i \in 1..Len(sources) : SourceResolved(r, i)
    BY <1>3
  <2>2. Quiet(r) /\ run'[r].at # "create"
    BY <1>1, <2>1, SourceResolvedQuiet
  <2> QED
    BY <1>1, <2>2, ListSourcesTypes
<1>4. CASE \E i \in 1..Len(sources) : run' = [run EXCEPT ![r] = Moved(run[r], run[r].errors, i, "relabel")]
  <2>1. PICK i \in 1..Len(sources) : run' = [run EXCEPT ![r] = Moved(run[r], run[r].errors, i, "relabel")]
    BY <1>4
  <2>2. i \in Nat
    BY <1>1
  <2>3. Quiet(r) /\ run'[r].at = "relabel"
    BY <1>1, <2>1, <2>2, MovedQuiet
  <2> QED
    BY <1>1, <2>3, ListSourcesTypes
<1>5. CASE /\ ByStableKey(r, Source(r)) = {}
           /\ run' = [run EXCEPT ![r] = Moved(run[r], run[r].errors, run[r].id, "create")]
  <2>1. Quiet(r) /\ run'[r].at = "create" /\ SameSources(run'[r], run[r])
    BY <1>1, <1>5, MovedQuiet
  <2> QED
    BY <1>1, <1>5, <2>1, ListSourcesTypes DEF SameSources
<1> QED
  BY <1>2, <1>3, <1>4, <1>5, ListSourcesTypes

(* Nor does a new label.                                                   *)
LEMMA UpdateLabelQuiet ==
    ASSUME TypeInv, NEW r \in Runs, UpdateLabel(r)
    PROVE  TypeInv' /\ Quiet(r) /\ run'[r].at # "create"
<1>1. UNCHANGED defs /\ run[r].id \in Nat /\ SourceResolved(r, run[r].id)
  BY LocalsTypes DEF UpdateLabel
<1> QED
  BY <1>1, SourceResolvedQuiet, UpdateLabelTypes

(* Nor does a new source.                                                  *)
LEMMA CreateSourceQuiet ==
    ASSUME TypeInv, NEW r \in Runs, CreateSource(r)
    PROVE  TypeInv' /\ Quiet(r) /\ run'[r].at # "create"
<1>1. TypeInv' /\ Len(sources') \in Nat /\ UNCHANGED defs
  BY CreateSourceTypes DEF CreateSource, TypeInv, SourcesOK
<1>2. SourceFailed(r) \/ SourceResolved(r, Len(sources'))
  BY DEF CreateSource
<1> QED
  BY <1>1, <1>2, SourceFailedQuiet, SourceResolvedQuiet

(* Nor does their order.                                                   *)
LEMMA SortDefsQuiet ==
    ASSUME TypeInv, NEW r \in Runs, SortDefs(r)
    PROVE  TypeInv' /\ Quiet(r) /\ run'[r].at # "create"
<1>1. PICK at \in {"threw", "defs"} : run' = [run EXCEPT ![r] = Moved(run[r], run[r].errors, run[r].id, at)]
  BY SortDefsTypes
<1>2. at \in Ats \ DefSteps /\ at # "create" /\ run[r].id \in Nat /\ UNCHANGED defs
  BY LocalsTypes DEF Ats, DefSteps, SortDefs
<1>3. Quiet(r) /\ run'[r].at = at
  BY <1>1, <1>2, MovedQuiet
<1> QED
  BY <1>2, <1>3, SortDefsTypes

(* Nor does one that is refused without a call.                            *)
LEMMA RefuseDefQuiet ==
    ASSUME TypeInv, NEW r \in Runs, NEW d \in Names, RefuseDef(r, d)
    PROVE  TypeInv' /\ Quiet(r) /\ run'[r].at # "create"
<1>1. UNCHANGED defs /\ DOMAIN run = Runs /\ "defs" \notin DefSteps
  BY DEF RefuseDef, TypeInv, DefSteps
<1>2. PICK l \in Locals : /\ run' = [run EXCEPT ![r] = l] /\ l.at = "defs" /\ l.errors
                          /\ l.todo = run[r].todo \ {d} /\ l.defIds = run[r].defIds
  BY RefuseDefTypes
<1>3. run'[r] = l
  BY <1>1, <1>2
<1> QED
  BY <1>1, <1>2, <1>3, RefuseDefTypes DEF Quiet

(* Nor does the end of a run.                                              *)
LEMMA EndQuiet ==
    ASSUME TypeInv, NEW r \in Runs, EnsureEvent(r) \/ SaveOrderStatuses(r)
    PROVE  TypeInv' /\ Quiet(r) /\ run'[r].at # "create"
<1>1. UNCHANGED defs /\ DOMAIN run = Runs /\ run[r] \in Locals
  BY LocalsTypes DEF EnsureEvent, SaveOrderStatuses, TypeInv
<1>2. PICK events \in SUBSET plan.events, errors \in BOOLEAN, at \in {"defs", "over"} :
                 /\ run[r].errors => errors
                 /\ run' = [run EXCEPT ![r] = Ending(run[r], events, errors, at)]
  BY EndTypes
<1> DEFINE l == Ending(run[r], events, errors, at)
<1>3. at \in Ats /\ at \notin DefSteps /\ at # "create"
  BY DEF Ats, DefSteps
<1>4. l \in Locals /\ l.at = at /\ l.errors = errors /\ SameDefs(l, run[r])
  BY <1>1, <1>3, EndingFields
<1>5. run' = [run EXCEPT ![r] = l] /\ (run[r].errors => errors)
  BY <1>2
<1> HIDE DEF l
<1>6. run'[r] = l
  BY <1>1, <1>5
<1>7. TypeInv'
  BY EndTypes
<1> QED
  BY <1>1, <1>3, <1>4, <1>5, <1>6, <1>7 DEF Quiet, SameDefs

(* Nor does its start.                                                     *)
LEMMA StartQuiet ==
    ASSUME TypeInv, NEW r \in Runs, Start(r)
    PROVE  TypeInv' /\ Quiet(r) /\ run'[r].at # "create" /\ \A d \in Names : run'[r].defIds[d] = 0
<1> DEFINE at == IF plan.sources = <<>> THEN "sort" ELSE "source"
           l == Started(run[r], label, Names, plan.events, at)
<1>1. TypeInv' /\ run' = [run EXCEPT ![r] = l]
  BY StartTypes
<1>2. /\ run[r] \in Locals /\ label \in [Keys -> Nat] /\ UNCHANGED defs /\ DOMAIN run = Runs
      /\ \A d \in Names : run[r].defIds[d] = 0
  BY LocalsTypes, IdsNow, IdleTypes DEF Start, TypeInv, LocalsOK
<1>3. at \in Ats /\ at \notin DefSteps /\ at # "create"
  BY DEF Ats, DefSteps
<1> HIDE DEF at
<1>4. l \in Locals /\ l.at = at /\ l.errors = run[r].errors /\ l.defIds = run[r].defIds
  BY <1>2, <1>3, StartedFields
<1> HIDE DEF l
<1>5. run'[r] = l
  BY <1>1, <1>2
<1> QED
  BY <1>1, <1>2, <1>3, <1>4, <1>5 DEF Quiet

-----------------------------------------------------------------------------
(* Every step of a run keeps the types.                                    *)
LEMMA StepTypes ==
    ASSUME TypeInv, NEW r \in Runs, Step(r)
    PROVE  TypeInv'
<1>1. ASSUME NEW d \in Names, RefuseDef(r, d) \/ ListDefs(r, d) PROVE TypeInv'
  BY <1>1, RefuseDefTypes, ListDefsTypes
<1>2. CASE Start(r) \/ ListSources(r) \/ UpdateLabel(r) \/ CreateSource(r) \/ SortDefs(r)
  BY <1>2, StartTypes, ListSourcesTypes, UpdateLabelTypes, CreateSourceTypes, SortDefsTypes
<1>3. CASE GetDef(r) \/ ExtendDef(r) \/ SubmitDef(r) \/ InsertDef(r) \/ ActivateDef(r)
  BY <1>3, GetDefTypes, ExtendDefTypes, SubmitDefTypes, InsertDefTypes, ActivateDefTypes
<1>4. CASE EnsureEvent(r) \/ SaveOrderStatuses(r)
  BY <1>4, EndTypes
<1> QED
  BY <1>1, <1>2, <1>3, <1>4 DEF Step

(* So does none.                                                           *)
LEMMA StutterTypes ==
    ASSUME TypeInv, UNCHANGED vars
    PROVE  TypeInv'
<1>1. UNCHANGED <<worldVars, sources, defs, disturbed, overlapped, run>>
  BY DEF vars, worldVars
<1>2. RowsStay /\ DOMAIN run' = Runs
  BY <1>1, QuietTypes DEF TypeInv
<1>3. ASSUME NEW q \in Runs
      PROVE  /\ LocalsOK(run'[q]) /\ IdsOK(run'[q], Len(sources'), Len(defs'))
             /\ run'[q].at \in Found => defs'[run'[q].id].name = run'[q].name
  BY <1>1, <1>2, IdsGrow, IdsNow
<1> QED
  BY <1>2, <1>3, RunsKeepTypes

(* The types are inductive.                                                *)
LEMMA NextTypes ==
    ASSUME TypeInv, [Next]_vars
    PROVE  TypeInv'
<1>1. ASSUME NEW r \in Runs, Step(r) PROVE TypeInv'
  BY <1>1, StepTypes
<1>2. ASSUME NEW s \in Keys, RenameSource(s) PROVE TypeInv'
  BY <1>2, RenameSourceTypes
<1>3. ASSUME NEW i \in DOMAIN defs, NEW status \in Statuses, ChangeStatus(i, status) PROVE TypeInv'
  BY <1>3, ChangeStatusTypes
<1>4. CASE Crash
  BY <1>4, CrashTypes
<1>5. CASE UNCHANGED vars
  BY <1>5, StutterTypes
<1> QED
  BY <1>1, <1>2, <1>3, <1>4, <1>5 DEF Next

(* They contain what TLC checks.                                           *)
LEMMA TypesImplyTypeOK ==
    ASSUME TypeInv
    PROVE  TypeOK
<1>1. \A i \in DOMAIN sources :
           /\ sources[i].key \in Keys /\ sources[i].label \in Nat
           /\ sources[i].parent \in 0..Len(sources)
  <2> SUFFICES ASSUME NEW i \in DOMAIN sources
               PROVE  /\ sources[i].key \in Keys /\ sources[i].label \in Nat
                      /\ sources[i].parent \in 0..Len(sources)
    OBVIOUS
  <2>1. sources[i] \in SourceRows /\ sources[i].parent <= Len(sources)
    BY DEF TypeInv, SourcesOK
  <2>2. Len(sources) \in Nat
    BY DEF TypeInv, SourcesOK
  <2> QED
    BY <2>1, <2>2 DEF SourceRows
<1>2. \A i \in DOMAIN defs :
           /\ defs[i].name \in Names /\ defs[i].status \in Statuses
           /\ DOMAIN defs[i].rels \subseteq plan.refs[defs[i].name]
           /\ \A t \in DOMAIN defs[i].rels : defs[i].rels[t] \in 0..Len(defs)
  <2> SUFFICES ASSUME NEW i \in DOMAIN defs
               PROVE  /\ defs[i].name \in Names /\ defs[i].status \in Statuses
                      /\ DOMAIN defs[i].rels \subseteq plan.refs[defs[i].name]
                      /\ \A t \in DOMAIN defs[i].rels : defs[i].rels[t] \in 0..Len(defs)
    OBVIOUS
  <2>1. i \in 1..Len(defs)
    BY DEF TypeInv, DefsOK
  <2>2. /\ defs[i].name \in Names /\ defs[i].status \in Statuses /\ Len(defs) \in Nat
        /\ DOMAIN defs[i].rels \subseteq plan.refs[defs[i].name]
        /\ defs[i].rels \in [DOMAIN defs[i].rels -> Nat]
        /\ \A t \in DOMAIN defs[i].rels : defs[i].rels[t] <= Len(defs)
    BY <2>1, RowsFacts
  <2> QED
    BY <2>2
<1>3. ASSUME NEW r \in Runs
      PROVE  /\ run[r].sourceIds \in [Keys -> 0..Len(sources)]
             /\ run[r].defIds \in [Names -> 0..Len(defs)]
             /\ run[r].todo \subseteq Names /\ run[r].events \subseteq plan.events
  <2>1. /\ run[r].sourceIds \in [Keys -> Nat] /\ run[r].defIds \in [Names -> Nat]
        /\ run[r].todo \in SUBSET Names /\ run[r].events \in SUBSET plan.events
    BY LocalsTypes
  <2>2. /\ \A s \in Keys : run[r].sourceIds[s] <= Len(sources)
        /\ \A d \in Names : run[r].defIds[d] <= Len(defs)
        /\ Len(sources) \in Nat /\ Len(defs) \in Nat
    BY IdsNow DEF IdsOK
  <2> QED
    BY <2>1, <2>2
<1> QED
  BY <1>1, <1>2, <1>3 DEF TypeInv, TypeOK

(* Every variable of a provisioning keeps its type; the ids a run holds are *)
(* ids of rows there are.                                                  *)
THEOREM TypeCorrect == Spec => []TypeOK
<1>1. TypeInv /\ [Next]_vars => TypeInv'
  BY NextTypes
<1> QED
  BY InitTypes, <1>1, TypesImplyTypeOK, PTL DEF Spec

-----------------------------------------------------------------------------
(* What the properties rest on.  A run that is clean has met nobody.       *)

Clean(r) == r \notin disturbed /\ r \notin overlapped

OverlapsNoted ==
    \A q, r \in Runs : Active(q) /\ Active(r) /\ q # r => q \in overlapped /\ r \in overlapped

(* What a run has looked for and not found is still not there.             *)
NoneThere ==
    \A r \in Runs : r \notin overlapped =>
        /\ run[r].at = "create" => ByStableKey(r, Source(r)) = {}
        /\ run[r].at = "insert" => Usable(run[r].name) = {}

DupInv == TypeInv /\ OverlapsNoted /\ NoneThere /\ NoDuplicates

(* What a run has found, or resolved, is still the best row of its name.   *)
FoundBest ==
    \A r \in Runs : Clean(r) =>
        /\ run[r].at \in Found => Best(run[r].name, run[r].id)
        /\ \A d \in Names : run[r].defIds[d] # 0 => Best(d, run[r].defIds[d])

(* Nobody is creating what a run has resolved.                             *)
NoRival ==
    \A r, q \in Runs, d \in Names :
        Clean(r) /\ run[r].defIds[d] # 0 /\ q # r /\ run[q].at \in {"submit", "insert", "activate"}
            => run[q].name # d

BestInv == DupInv /\ FoundBest /\ NoRival

(* A definition refers to itself by its name.                              *)
SelfByName ==
    \A i \in 1..Len(defs) :
        defs[i].name \in DOMAIN defs[i].rels => defs[i].rels[defs[i].name] = 0

RelsGood(r, d, i) ==
    \A t \in plan.refs[d] : t \in DOMAIN defs[i].rels /\ defs[i].rels[t] \in {0, run[r].defIds[t]}

RelsFit(r, d, i) ==
    \A t \in plan.refs[d] \intersect DOMAIN defs[i].rels : defs[i].rels[t] \in {0, run[r].defIds[t]}

(* The relations of what a run has resolved without an error point to what *)
(* it has resolved.                                                        *)
RelsResolved ==
    \A r \in Runs : Clean(r) /\ ~run[r].errors =>
        /\ \A d \in Names : run[r].defIds[d] # 0 => RelsGood(r, d, run[r].defIds[d])
        /\ run[r].at = "activate" => RelsGood(r, run[r].name, run[r].id)
        /\ run[r].at = "extend" => RelsFit(r, run[r].name, run[r].id)

ConvInv == BestInv /\ SelfByName /\ RelsResolved

-----------------------------------------------------------------------------
(* What a step of a run is to the others.                                  *)

(* A step of a run is no step of another.                                  *)
LEMMA OneRun ==
    ASSUME TypeInv, NEW r \in Runs, Step(r)
    PROVE  DOMAIN run' = Runs /\ \A q \in Runs \ {r} : run'[q] = run[q]
<1>1. DOMAIN run = Runs
  BY DEF TypeInv
<1>2. CASE Start(r) \/ ListSources(r) \/ UpdateLabel(r) \/ CreateSource(r) \/ SortDefs(r)
  BY <1>1, <1>2 DEF Start, ListSources, UpdateLabel, CreateSource, SortDefs, SourceResolved, SourceFailed,
                    AfterSource, Becomes
<1>3. ASSUME NEW d \in Names, RefuseDef(r, d) \/ ListDefs(r, d)
      PROVE  DOMAIN run' = Runs /\ \A q \in Runs \ {r} : run'[q] = run[q]
  BY <1>1, <1>3 DEF RefuseDef, ListDefs, DefFailed, AfterDef, Becomes
<1>4. CASE GetDef(r) \/ ExtendDef(r) \/ SubmitDef(r) \/ InsertDef(r) \/ ActivateDef(r)
  BY <1>1, <1>4 DEF GetDef, ExtendDef, SubmitDef, InsertDef, ActivateDef, DefFailed, DefResolved, AfterDef, Becomes
<1>5. CASE EnsureEvent(r) \/ SaveOrderStatuses(r)
  BY <1>1, <1>5 DEF EnsureEvent, SaveOrderStatuses, Becomes
<1> QED
  BY <1>2, <1>3, <1>4, <1>5 DEF Step

(* A run that steps has started or starts now.                             *)
LEMMA Underway ==
    ASSUME NEW r \in Runs, Step(r)
    PROVE  /\ UNCHANGED <<worldVars, disturbed>>
           /\ Start(r) \/ (Active(r) /\ UNCHANGED overlapped)
<1>1. CASE Start(r)
  BY <1>1 DEF Start
<1>2. CASE ListSources(r) \/ UpdateLabel(r) \/ CreateSource(r) \/ SortDefs(r)
  BY <1>2 DEF ListSources, UpdateLabel, CreateSource, SortDefs, Active
<1>3. ASSUME NEW d \in Names, RefuseDef(r, d) \/ ListDefs(r, d)
      PROVE  UNCHANGED <<worldVars, disturbed>> /\ Active(r) /\ UNCHANGED overlapped
  BY <1>3 DEF RefuseDef, ListDefs, Active
<1>4. CASE GetDef(r) \/ ExtendDef(r) \/ SubmitDef(r) \/ InsertDef(r) \/ ActivateDef(r)
  BY <1>4 DEF GetDef, ExtendDef, SubmitDef, InsertDef, ActivateDef, Active
<1>5. CASE EnsureEvent(r) \/ SaveOrderStatuses(r)
  BY <1>5 DEF EnsureEvent, SaveOrderStatuses, Active
<1> QED
  BY <1>1, <1>2, <1>3, <1>4, <1>5 DEF Step

(* An overlap that has been noted stays noted.                             *)
LEMMA OverlapsGrow ==
    ASSUME NEW r \in Runs, Step(r)
    PROVE  overlapped \subseteq overlapped'
<1>1. CASE Start(r)
  BY <1>1 DEF Start
<1> QED
  BY <1>1, Underway

(* A run that has met nobody is not under way when another one steps.      *)
LEMMA NobodyElse ==
    ASSUME OverlapsNoted, NEW r \in Runs, Step(r), NEW q \in Runs \ {r}
    PROVE  /\ q \notin overlapped' => ~Active(q)
           /\ r \notin overlapped' => ~Active(q)
<1>1. CASE Start(r)
  BY <1>1 DEF Start
<1>2. CASE Active(r) /\ UNCHANGED overlapped
  BY <1>2 DEF OverlapsNoted
<1> QED
  BY <1>1, <1>2, Underway

(* A run that starts beside another is noted, and so is the other.         *)
LEMMA StepNotesOverlaps ==
    ASSUME TypeInv, OverlapsNoted, NEW r \in Runs, Step(r)
    PROVE  OverlapsNoted'
<1> SUFFICES ASSUME NEW p \in Runs, NEW q \in Runs, Active(p)', Active(q)', p # q
             PROVE  p \in overlapped' /\ q \in overlapped'
  BY DEF OverlapsNoted
<1>1. overlapped \subseteq overlapped'
  BY OverlapsGrow
<1>2. CASE p # r /\ q # r
  <2>1. Active(p) /\ Active(q)
    BY <1>2, OneRun DEF Active
  <2> QED
    BY <1>1, <2>1 DEF OverlapsNoted
<1>3. CASE p = r
  <2>1. Active(q)
    BY <1>3, OneRun DEF Active
  <2> QED
    BY <1>3, <2>1, NobodyElse
<1>4. CASE q = r
  <2>1. Active(p)
    BY <1>4, OneRun DEF Active
  <2> QED
    BY <1>4, <2>1, NobodyElse
<1> QED
  BY <1>2, <1>3, <1>4

(* Where a run is after a step at a definition.                            *)
LEMMA DefFailedAfter ==
    ASSUME TypeInv, NEW r \in Runs, DefFailedAt(r)
    PROVE  /\ run'[r].at = "defs" /\ run'[r].defIds = run[r].defIds /\ run'[r].errors
           /\ \A d \in Names : run'[r].defIds[d] = run[r].defIds[d]
<1>1. run[r] \in Locals /\ DOMAIN run = Runs
  BY LocalsTypes DEF TypeInv
<1> QED
  BY <1>1 DEF DefFailedAt, DefDone, Locals

(* The locals after a definition was resolved.                             *)
LEMMA DefResolvedAfter ==
    ASSUME TypeInv, NEW r \in Runs, run[r].at \in DefSteps, NEW id, NEW errors \in BOOLEAN,
           DefResolvedTo(r, id, errors)
    PROVE  /\ run'[r].at = "defs" /\ run'[r].errors = errors
           /\ run[r].name \in Names /\ run'[r].defIds[run[r].name] = id
           /\ \A d \in Names : d # run[r].name => run'[r].defIds[d] = run[r].defIds[d]
<1>1. /\ run[r] \in Locals /\ DOMAIN run = Runs /\ run[r].defIds \in [Names -> Nat]
      /\ run[r].name \in Names
  BY LocalsTypes, IdsNow DEF TypeInv, LocalsOK
<1> DEFINE ids == [run[r].defIds EXCEPT ![run[r].name] = id]
           l == DefDone(run[r], run[r].todo, errors, ids)
<1>2. l.at = "defs" /\ l.errors = errors /\ l.defIds = ids
  BY <1>1 DEF DefDone, Locals
<1>3. run'[r] = l
  BY <1>1 DEF DefResolvedTo
<1> HIDE DEF l
<1> QED
  BY <1>1, <1>2, <1>3

(* The locals after going on.                                              *)
LEMMA MovedAfter ==
    ASSUME TypeInv, NEW r \in Runs, NEW errors \in BOOLEAN, NEW id \in Nat, NEW at \in Ats,
           run' = [run EXCEPT ![r] = Moved(run[r], errors, id, at)]
    PROVE  /\ run'[r].at = at /\ run'[r].errors = errors /\ run'[r].id = id
           /\ run'[r].name = run[r].name /\ run'[r].defIds = run[r].defIds
<1>1. run[r] \in Locals /\ DOMAIN run = Runs
  BY LocalsTypes DEF TypeInv
<1>2. run'[r] = Moved(run[r], errors, id, at)
  BY <1>1
<1> QED
  BY <1>1, <1>2, MovedFields DEF SameDefs

(* The locals after a definition was taken.                                *)
LEMMA DefTakenAfter ==
    ASSUME TypeInv, NEW r \in Runs, NEW d \in Names, NEW id \in Nat, NEW at \in Ats,
           run' = [run EXCEPT ![r] = DefTaken(run[r], run[r].todo \ {d}, d, id, at)]
    PROVE  /\ run'[r].at = at /\ run'[r].errors = run[r].errors /\ run'[r].id = id
           /\ run'[r].name = d /\ run'[r].defIds = run[r].defIds
<1>1. run[r] \in Locals /\ DOMAIN run = Runs /\ run[r].todo \ {d} \in SUBSET Names
  BY LocalsTypes DEF TypeInv
<1>2. run'[r] = DefTaken(run[r], run[r].todo \ {d}, d, id, at)
  BY <1>1
<1> QED
  BY <1>1, <1>2, DefTakenFields

(* The locals after a quiet step.                                          *)
LEMMA QuietAfter ==
    ASSUME TypeInv, NEW r \in Runs, Quiet(r)
    PROVE  /\ run'[r].at \notin DefSteps /\ run'[r].defIds = run[r].defIds
           /\ run[r].errors => run'[r].errors
           /\ defs' = defs
<1>1. PICK l \in Locals : /\ run' = [run EXCEPT ![r] = l] /\ l.at \notin DefSteps /\ l.defIds = run[r].defIds
                          /\ run[r].errors => l.errors
  BY DEF Quiet
<1>2. run'[r] = l
  BY <1>1 DEF TypeInv
<1> QED
  BY <1>1, <1>2 DEF Quiet

(* The steps that are not quiet.                                           *)
DefStep(r) ==
    \/ \E d \in Names : ListDefs(r, d)
    \/ GetDef(r) \/ ExtendDef(r) \/ SubmitDef(r) \/ InsertDef(r) \/ ActivateDef(r)

(* A step is about a definition, or is quiet.                              *)
LEMMA QuietSteps ==
    ASSUME TypeInv, NEW r \in Runs, Step(r)
    PROVE  \/ DefStep(r)
           \/ Quiet(r) /\ (run'[r].at = "create" => ListSources(r))
<1>1. ASSUME NEW d \in Names, RefuseDef(r, d) PROVE Quiet(r) /\ run'[r].at # "create"
  BY <1>1, RefuseDefQuiet
<1>2. CASE Start(r) \/ UpdateLabel(r) \/ CreateSource(r)
  BY <1>2, StartQuiet, UpdateLabelQuiet, CreateSourceQuiet
<1>3. CASE SortDefs(r) \/ EnsureEvent(r) \/ SaveOrderStatuses(r)
  BY <1>3, SortDefsQuiet, EndQuiet
<1>4. CASE ListSources(r)
  BY <1>4, ListSourcesQuiet
<1> QED
  BY <1>1, <1>2, <1>3, <1>4 DEF Step, DefStep

(* Where a run comes from when it is to insert, to get, to extend or to    *)
(* activate.                                                               *)
LEMMA Arrivals ==
    ASSUME TypeInv, NEW r \in Runs, DefStep(r)
    PROVE  /\ run'[r].at # "create"
           /\ run'[r].at = "insert" => SubmitDef(r)
           /\ run'[r].at \in {"get", "submit"} => \E d \in Names : ListDefs(r, d)
           /\ run'[r].at = "extend" => GetDef(r)
           /\ run'[r].at = "activate" => InsertDef(r)
<1>0. {"get", "submit", "extend", "insert", "activate", "defs"} \subseteq Ats
  BY DEF Ats
<1>1. ASSUME DefFailedAt(r) PROVE run'[r].at = "defs"
  BY <1>1, DefFailedAfter
<1>2. ASSUME NEW errors \in BOOLEAN, NEW id, run[r].at \in DefSteps, DefResolvedTo(r, id, errors)
      PROVE  run'[r].at = "defs"
  BY <1>2, DefResolvedAfter
<1>3. ASSUME NEW errors \in BOOLEAN, NEW id \in Nat, NEW at \in Ats,
             run' = [run EXCEPT ![r] = Moved(run[r], errors, id, at)]
      PROVE  run'[r].at = at
  <2>1. run[r] \in Locals /\ DOMAIN run = Runs
    BY LocalsTypes DEF TypeInv
  <2> QED
    BY <1>3, <2>1 DEF Moved, Locals
<1>4. run[r].id \in Nat /\ run[r].errors \in BOOLEAN /\ Len(defs) \in Nat
  BY LocalsTypes, IdsNow
<1>5. ASSUME NEW d \in Names, ListDefs(r, d) PROVE run'[r].at \in {"defs", "get", "submit"}
  <2>1. CASE run' = [run EXCEPT ![r] = DefDone(run[r], run[r].todo \ {d}, TRUE, run[r].defIds)]
    <3>1. run[r] \in Locals /\ DOMAIN run = Runs
      BY LocalsTypes DEF TypeInv
    <3> QED
      BY <2>1, <3>1 DEF DefDone, Locals
  <2>2. CASE \E id \in Nat : run' = [run EXCEPT ![r] = DefTaken(run[r], run[r].todo \ {d}, d, id, "submit")]
    <3>0. run[r] \in Locals /\ DOMAIN run = Runs
      BY LocalsTypes DEF TypeInv
    <3>1. PICK id \in Nat : run' = [run EXCEPT ![r] = DefTaken(run[r], run[r].todo \ {d}, d, id, "submit")]
      BY <2>2
    <3>2. "submit" \in Ats
      BY DEF Ats
    <3>3. run'[r].at = "submit"
      BY <3>0, <3>1, <3>2 DEF DefTaken, Locals
    <3> QED
      BY <3>3
  <2>3. CASE \E id \in 1..Len(defs) : run' = [run EXCEPT ![r] = DefTaken(run[r], run[r].todo \ {d}, d, id, "get")]
    <3>0. run[r] \in Locals /\ DOMAIN run = Runs
      BY LocalsTypes DEF TypeInv
    <3>1. PICK id \in 1..Len(defs) : run' = [run EXCEPT ![r] = DefTaken(run[r], run[r].todo \ {d}, d, id, "get")]
      BY <2>3
    <3>2. id \in Nat /\ "get" \in Ats
      BY <1>4 DEF Ats
    <3>3. run'[r].at = "get"
      BY <3>0, <3>1, <3>2 DEF DefTaken, Locals
    <3> QED
      BY <3>3
  <2> QED
    BY <1>5, <2>1, <2>2, <2>3, ListDefsTypes
<1>6. ASSUME GetDef(r) PROVE run'[r].at \in {"defs", "extend"}
  <2>1. run[r].at \in DefSteps
    BY <1>6 DEF GetDef, DefSteps
  <2> QED
    BY <1>0, <1>1, <1>2, <1>3, <1>4, <1>6, <2>1, GetDefTypes
<1>7. ASSUME ExtendDef(r) PROVE run'[r].at = "defs"
  <2>1. run[r].at \in DefSteps
    BY <1>7 DEF ExtendDef, DefSteps
  <2> QED
    BY <1>1, <1>2, <1>4, <1>7, <2>1, ExtendDefTypes
<1>8. ASSUME SubmitDef(r) PROVE run'[r].at \in {"defs", "insert"}
  BY <1>0, <1>1, <1>3, <1>4, <1>8, SubmitDefTypes
<1>9. ASSUME InsertDef(r) PROVE run'[r].at \in {"defs", "activate"}
  <2>1. Len(defs') \in Nat
    BY <1>4, <1>9, InsertDefTypes
  <2> QED
    BY <1>0, <1>1, <1>3, <1>4, <1>9, <2>1, InsertDefTypes
<1>10. ASSUME ActivateDef(r) PROVE run'[r].at = "defs"
  <2>1. run[r].at \in DefSteps
    BY <1>10 DEF ActivateDef, DefSteps
  <2> QED
    BY <1>2, <1>4, <1>10, <2>1, ActivateDefTypes
<1>11. \/ \E d \in Names : ListDefs(r, d) /\ run'[r].at \in {"defs", "get", "submit"}
       \/ GetDef(r) /\ run'[r].at \in {"defs", "extend"}
       \/ (ExtendDef(r) \/ ActivateDef(r)) /\ run'[r].at = "defs"
       \/ SubmitDef(r) /\ run'[r].at \in {"defs", "insert"}
       \/ InsertDef(r) /\ run'[r].at \in {"defs", "activate"}
  BY <1>5, <1>6, <1>7, <1>8, <1>9, <1>10 DEF DefStep
<1> QED
  BY <1>11

-----------------------------------------------------------------------------
(* No duplicates.                                                          *)

SourcesOnce ==
    \A i, j \in DOMAIN sources :
        i < j /\ sources[i].key = sources[j].key /\ sources[i].key \in plan.stable
            => sources[i].raced \/ sources[j].raced

DefsOnce ==
    \A i, j \in DOMAIN defs :
        i < j /\ defs[i].name = defs[j].name /\ Live(i) /\ Live(j)
            => defs[i].raced \/ defs[j].raced

(* Rows that are only relabelled, or only get another status or relations. *)
SourcesKept ==
    /\ Len(sources') = Len(sources)
    /\ \A i \in 1..Len(sources) : sources'[i].key = sources[i].key /\ sources'[i].raced = sources[i].raced
DefsKept ==
    /\ Len(defs') = Len(defs)
    /\ \A i \in 1..Len(defs) : /\ defs'[i].name = defs[i].name /\ defs'[i].raced = defs[i].raced
                               /\ defs[i].status = "deleted" => defs'[i].status = "deleted"

(* Tables are sequences.                                                   *)
LEMMA Domains ==
    ASSUME TypeInv
    PROVE  /\ DOMAIN sources = 1..Len(sources) /\ DOMAIN defs = 1..Len(defs)
           /\ Len(sources) \in Nat /\ Len(defs) \in Nat
BY DEF TypeInv, SourcesOK, DefsOK

(* Rows that stay as they are stay unique.                                 *)
LEMMA KeptOnce ==
    ASSUME TypeInv, TypeInv', UNCHANGED plan, SourcesOnce, DefsOnce
    PROVE  /\ SourcesKept => SourcesOnce'
           /\ DefsKept => DefsOnce'
<1>1. /\ DOMAIN sources = 1..Len(sources) /\ DOMAIN defs = 1..Len(defs)
      /\ Len(sources) \in Nat /\ Len(defs) \in Nat
  BY Domains
<1>2. DOMAIN sources' = 1..Len(sources') /\ DOMAIN defs' = 1..Len(defs')
  BY Domains, TypeInv' DEF TypeInv, SourcesOK, DefsOK
<1>3. ASSUME SourcesKept PROVE SourcesOnce'
  <2> SUFFICES ASSUME NEW i \in DOMAIN sources', NEW j \in DOMAIN sources', i < j,
                      sources'[i].key = sources'[j].key, sources'[i].key \in plan'.stable
               PROVE  sources'[i].raced \/ sources'[j].raced
    BY DEF SourcesOnce
  <2>1. i \in DOMAIN sources /\ j \in DOMAIN sources
    BY <1>1, <1>2, <1>3 DEF SourcesKept
  <2>2. sources[i].raced \/ sources[j].raced
    BY <1>1, <1>3, <2>1 DEF SourcesKept, SourcesOnce
  <2> QED
    BY <1>1, <1>3, <2>1, <2>2 DEF SourcesKept
<1>4. ASSUME DefsKept PROVE DefsOnce'
  <2> SUFFICES ASSUME NEW i \in DOMAIN defs', NEW j \in DOMAIN defs', i < j,
                      defs'[i].name = defs'[j].name, Live(i)', Live(j)'
               PROVE  defs'[i].raced \/ defs'[j].raced
    BY DEF DefsOnce
  <2>1. i \in DOMAIN defs /\ j \in DOMAIN defs
    BY <1>1, <1>2, <1>4 DEF DefsKept
  <2>2. defs[i].raced \/ defs[j].raced
    BY <1>1, <1>4, <2>1 DEF DefsKept, DefsOnce, Live
  <2> QED
    BY <1>1, <1>4, <2>1, <2>2 DEF DefsKept
<1> QED
  BY <1>3, <1>4

(* Tables that do not change are kept.                                     *)
LEMMA UnchangedKept ==
    /\ UNCHANGED sources => SourcesKept
    /\ UNCHANGED defs => DefsKept
BY DEF SourcesKept, DefsKept

(* A new label changes no key.                                             *)
LEMMA UpdateLabelKept ==
    ASSUME TypeInv, NEW r \in Runs, UpdateLabel(r)
    PROVE  SourcesKept
<1>1. run[r].id \in 1..Len(sources) /\ sources \in Seq(SourceRows)
  BY IdsNow DEF UpdateLabel, IdsOK, TypeInv, SourcesOK
<1>2. CASE UNCHANGED sources
  BY <1>2, UnchangedKept
<1>3. CASE sources' = [sources EXCEPT ![run[r].id].label = run[r].label[Source(r)]]
  <2> DEFINE row == [sources[run[r].id] EXCEPT !.label = run[r].label[Source(r)]]
  <2>1. sources' = [sources EXCEPT ![run[r].id] = row]
    BY <1>3
  <2>2. row.key = sources[run[r].id].key /\ row.raced = sources[run[r].id].raced
    <3>1. sources[run[r].id] \in SourceRows
      BY <1>1
    <3> QED
      BY <3>1 DEF SourceRows
  <2> HIDE DEF row
  <2> QED
    BY <1>1, <2>1, <2>2 DEF SourcesKept
<1> QED
  BY <1>2, <1>3 DEF UpdateLabel

(* A run creates a source with a stable key that is there already only     *)
(* when it has met another run.                                            *)
LEMMA CreateSourceOnce ==
    ASSUME DupInv, TypeInv', SourcesOnce, NEW r \in Runs, CreateSource(r)
    PROVE  SourcesOnce'
<1> DEFINE row == [key |-> Source(r), label |-> run[r].label[Source(r)],
                   parent |-> ParentId(r, Source(r)), raced |-> r \in overlapped]
<1>1. /\ TypeInv /\ UNCHANGED plan /\ run[r].at = "create"
      /\ sources \in Seq(SourceRows) /\ Len(sources) \in Nat
      /\ r \notin overlapped => ByStableKey(r, Source(r)) = {}
  BY DEF DupInv, NoneThere, TypeInv, SourcesOK, CreateSource, worldVars
<1>2. CASE UNCHANGED sources
  BY <1>1, <1>2 DEF SourcesOnce
<1>3. CASE sources' = Append(sources, row)
  <2>1. row.key = Source(r) /\ row.raced = (r \in overlapped)
    OBVIOUS
  <2> HIDE DEF row
  <2>2. /\ Len(sources') = Len(sources) + 1 /\ DOMAIN sources' = 1..(Len(sources) + 1)
        /\ \A i \in 1..Len(sources) : sources'[i] = sources[i]
        /\ sources'[Len(sources) + 1] = row
    BY <1>1, <1>3
  <2> SUFFICES ASSUME NEW i \in DOMAIN sources', NEW j \in DOMAIN sources', i < j,
                      sources'[i].key = sources'[j].key, sources'[i].key \in plan.stable
               PROVE  sources'[i].raced \/ sources'[j].raced
    BY <1>1 DEF SourcesOnce
  <2>3. i \in 1..Len(sources) /\ i \in DOMAIN sources /\ sources'[i] = sources[i]
    BY <1>1, <2>2
  <2>4. CASE j \in 1..Len(sources)
    <3>1. j \in DOMAIN sources /\ sources'[j] = sources[j]
      BY <1>1, <2>2, <2>4
    <3> QED
      BY <2>3, <3>1 DEF SourcesOnce
  <2>5. CASE j = Len(sources) + 1
    <3>1. sources[i].key = Source(r) /\ Source(r) \in plan.stable
      BY <2>1, <2>2, <2>3, <2>5
    <3>2. i \in ByStableKey(r, Source(r))
      BY <2>3, <3>1 DEF ByStableKey
    <3>3. r \in overlapped
      BY <1>1, <3>2
    <3> QED
      BY <2>1, <2>2, <2>5, <3>3
  <2> QED
    BY <1>1, <2>2, <2>4, <2>5
<1> QED
  BY <1>2, <1>3 DEF CreateSource

(* A row is inserted where there is no usable homonym, or the run has      *)
(* overlapped.                                                             *)
LEMMA InsertDefOnce ==
    ASSUME DupInv, TypeInv', DefsOnce, NEW r \in Runs, InsertDef(r)
    PROVE  DefsOnce'
<1>1. /\ TypeInv /\ run[r].at = "insert" /\ Len(defs) \in Nat /\ DOMAIN defs = 1..Len(defs)
      /\ r \notin overlapped => Usable(run[r].name) = {}
  BY Domains DEF DupInv, NoneThere, InsertDef
<1>2. /\ Len(defs') = Len(defs) + 1 /\ \A j \in 1..Len(defs) : defs'[j] = defs[j]
      /\ defs'[Len(defs')] = [name |-> run[r].name, status |-> "creating",
                              rels |-> Shipped(r, plan.refs[run[r].name]), raced |-> r \in overlapped]
  BY <1>1, InsertDefTypes
<1>3. /\ defs'[Len(defs) + 1].name = run[r].name /\ defs'[Len(defs) + 1].raced = (r \in overlapped)
      /\ DOMAIN defs' = 1..(Len(defs) + 1)
  BY <1>2 DEF TypeInv, DefsOK
<1> SUFFICES ASSUME NEW i \in DOMAIN defs', NEW j \in DOMAIN defs', i < j,
                    defs'[i].name = defs'[j].name, Live(i)', Live(j)'
             PROVE  defs'[i].raced \/ defs'[j].raced
  BY DEF DefsOnce
<1>4. i \in 1..Len(defs) /\ i \in DOMAIN defs /\ defs'[i] = defs[i] /\ Live(i)
  BY <1>1, <1>2, <1>3 DEF Live
<1>5. CASE j \in 1..Len(defs)
  <2>1. j \in DOMAIN defs /\ defs'[j] = defs[j] /\ Live(j)
    BY <1>1, <1>2, <1>5 DEF Live
  <2> QED
    BY <1>4, <2>1 DEF DefsOnce
<1>6. CASE j = Len(defs) + 1
  <2>1. i \in Usable(run[r].name)
    BY <1>3, <1>4, <1>6 DEF Usable, Live
  <2> QED
    BY <1>1, <1>3, <1>6, <2>1
<1> QED
  BY <1>1, <1>3, <1>5, <1>6

(* An extension changes neither names nor statuses.                        *)
LEMMA ExtendDefKept ==
    ASSUME TypeInv, NEW r \in Runs, ExtendDef(r)
    PROVE  DefsKept /\ \A i \in 1..Len(defs) : defs'[i].status = defs[i].status
<1>1. run[r].id \in 1..Len(defs)
  BY IdsNow DEF ExtendDef, Found
<1>2. defs[run[r].id] \in DefRows
  BY <1>1, RowsFacts
<1>3. CASE UNCHANGED defs
  BY <1>3, UnchangedKept
<1>4. CASE /\ Len(defs') = Len(defs)
           /\ \A j \in 1..Len(defs) : j # run[r].id => defs'[j] = defs[j]
           /\ defs'[run[r].id] = [defs[run[r].id] EXCEPT !.rels = Appended(run[r].id, Shipped(r, Missing(r)))]
  <2>1. /\ defs'[run[r].id].name = defs[run[r].id].name /\ defs'[run[r].id].raced = defs[run[r].id].raced
        /\ defs'[run[r].id].status = defs[run[r].id].status
    BY <1>2, <1>4 DEF DefRows
  <2> QED
    BY <1>1, <1>4, <2>1 DEF DefsKept
<1> QED
  BY <1>3, <1>4, ExtendDefTypes

(* An activation changes neither names nor relations.                      *)
LEMMA ActivateDefKept ==
    ASSUME TypeInv, NEW r \in Runs, ActivateDef(r)
    PROVE  /\ DefsKept
           /\ \A i \in 1..Len(defs) : /\ defs'[i].status = "deleted" <=> defs[i].status = "deleted"
                                      /\ defs'[i].rels = defs[i].rels
<1>1. run[r].id \in 1..Len(defs)
  BY IdsNow DEF ActivateDef, Found
<1>2. defs[run[r].id] \in DefRows
  BY <1>1, RowsFacts
<1>3. /\ defs'[run[r].id].name = defs[run[r].id].name /\ defs'[run[r].id].raced = defs[run[r].id].raced
      /\ defs'[run[r].id].status = "deleted" <=> defs[run[r].id].status = "deleted"
      /\ defs'[run[r].id].rels = defs[run[r].id].rels
  <2>1. CASE defs'[run[r].id] = defs[run[r].id]
    BY <2>1
  <2>2. CASE /\ defs[run[r].id].status = "creating"
             /\ defs'[run[r].id] = [defs[run[r].id] EXCEPT !.status = "active"]
    BY <1>2, <2>2 DEF DefRows
  <2> QED
    BY <2>1, <2>2, ActivateDefTypes
<1>4. Len(defs') = Len(defs) /\ \A j \in 1..Len(defs) : j # run[r].id => defs'[j] = defs[j]
  BY ActivateDefTypes
<1> QED
  BY <1>1, <1>3, <1>4 DEF DefsKept

(* Nor does the merchant; what is deleted stays deleted.                   *)
LEMMA ChangeStatusKept ==
    ASSUME TypeInv, NEW i \in DOMAIN defs, NEW status \in Statuses, ChangeStatus(i, status)
    PROVE  DefsKept /\ \A j \in 1..Len(defs) : defs'[j].rels = defs[j].rels
<1>1. i \in 1..Len(defs) /\ defs[i] \in DefRows
  BY Domains, RowsFacts
<1>2. /\ Len(defs') = Len(defs) /\ \A j \in 1..Len(defs) : j # i => defs'[j] = defs[j]
      /\ defs'[i] = [defs[i] EXCEPT !.status = status] /\ defs[i].status # "deleted"
  BY ChangeStatusTypes
<1>3. defs'[i].name = defs[i].name /\ defs'[i].raced = defs[i].raced /\ defs'[i].rels = defs[i].rels
  BY <1>1, <1>2 DEF DefRows
<1> QED
  BY <1>1, <1>2, <1>3 DEF DefsKept

(* Which steps change the tables.                                          *)
LEMMA TablesOfStep ==
    ASSUME TypeInv, NEW r \in Runs, Step(r)
    PROVE  /\ SourcesKept \/ CreateSource(r)
           /\ DefsKept \/ InsertDef(r)
<1>1. CASE Start(r) \/ ListSources(r) \/ SortDefs(r)
  BY <1>1, UnchangedKept DEF Start, ListSources, SortDefs
<1>2. CASE UpdateLabel(r)
  BY <1>2, UpdateLabelKept, UnchangedKept DEF UpdateLabel
<1>3. CASE CreateSource(r)
  BY <1>3, UnchangedKept DEF CreateSource
<1>4. ASSUME NEW d \in Names, RefuseDef(r, d) \/ ListDefs(r, d) PROVE SourcesKept /\ DefsKept
  BY <1>4, UnchangedKept DEF RefuseDef, ListDefs
<1>5. CASE GetDef(r) \/ SubmitDef(r) \/ EnsureEvent(r) \/ SaveOrderStatuses(r)
  BY <1>5, UnchangedKept DEF GetDef, SubmitDef, EnsureEvent, SaveOrderStatuses
<1>6. CASE ExtendDef(r) \/ ActivateDef(r)
  <2>1. UNCHANGED sources
    BY <1>6 DEF ExtendDef, ActivateDef
  <2> QED
    BY <1>6, <2>1, UnchangedKept, ExtendDefKept, ActivateDefKept
<1>7. CASE InsertDef(r)
  BY <1>7, UnchangedKept DEF InsertDef
<1> QED
  BY <1>1, <1>2, <1>3, <1>4, <1>5, <1>6, <1>7 DEF Step

(* The two halves of NoDuplicates.                                         *)
LEMMA OnceIsNoDuplicates ==
    NoDuplicates <=> SourcesOnce /\ DefsOnce
BY DEF NoDuplicates, SourcesOnce, DefsOnce

(* A step creates no duplicate, unless its run has overlapped.             *)
LEMMA StepDup ==
    ASSUME DupInv, NEW r \in Runs, Step(r)
    PROVE  DupInv'
<1>1. TypeInv /\ OverlapsNoted /\ SourcesOnce /\ DefsOnce /\ TypeInv'
  BY StepTypes, OnceIsNoDuplicates DEF DupInv
<1>2. OverlapsNoted'
  BY <1>1, StepNotesOverlaps
<1>3. UNCHANGED plan
  BY Underway DEF worldVars
<1>4. SourcesOnce' /\ DefsOnce'
  BY <1>1, <1>3, KeptOnce, TablesOfStep, CreateSourceOnce, InsertDefOnce
<1>5. NoDuplicates'
  BY <1>4 DEF NoDuplicates, SourcesOnce, DefsOnce
<1>6. ASSUME NEW q \in Runs, q \notin overlapped'
      PROVE  /\ run'[q].at = "create" => ByStableKey(q, Source(q))' = {}
             /\ run'[q].at = "insert" => Usable(run[q].name)' = {}
  <2>1. CASE q # r
    <3>1. run'[q] = run[q] /\ ~Active(q)
      BY <1>1, <1>6, <2>1, OneRun, NobodyElse
    <3> QED
      BY <3>1 DEF Active
  <2>2. CASE q = r
    <3>1. ASSUME run'[r].at = "create" PROVE ByStableKey(r, Source(r))' = {}
      <4>1. ListSources(r)
        BY <1>1, <3>1, QuietSteps, Arrivals
      <4>2. ByStableKey(r, Source(r)) = {} /\ UNCHANGED sources /\ run'[r].next = run[r].next
        BY <1>1, <3>1, <4>1, ListSourcesQuiet
      <4> QED
        BY <1>3, <4>2 DEF ByStableKey, Source
    <3>2. ASSUME run'[r].at = "insert" PROVE Usable(run[r].name)' = {}
      <4>1. SubmitDef(r)
        BY <1>1, <3>2, QuietSteps, QuietAfter, Arrivals DEF DefSteps
      <4>2. ~DefFailedAt(r)
        BY <1>1, <3>2, DefFailedAfter
      <4>3. /\ Usable(run[r].name) = {}
            /\ run' = [run EXCEPT ![r] = Moved(run[r], run[r].errors, run[r].id, "insert")]
        BY <1>1, <4>1, <4>2, SubmitDefTypes
      <4>4. run'[r].name = run[r].name
        BY <1>1, <4>3, LocalsTypes DEF Moved, Locals, TypeInv
      <4> QED
        BY <4>1, <4>3, <4>4 DEF SubmitDef, Usable
    <3> QED
      BY <2>2, <3>1, <3>2
  <2> QED
    BY <2>1, <2>2
<1>7. NoneThere'
  BY <1>6 DEF NoneThere
<1> QED
  BY <1>1, <1>2, <1>5, <1>7 DEF DupInv

(* Steps that no run takes.                                                *)
LEMMA OtherDup ==
    ASSUME DupInv, TypeInv', UNCHANGED <<plan, sources, overlapped>>, DefsKept,
           \A r \in Runs : \/ run'[r] = run[r]
                           \/ run'[r].at = "dead"
    PROVE  DupInv'
<1>1. TypeInv /\ SourcesOnce /\ DefsOnce /\ Len(defs) \in Nat /\ DOMAIN defs = 1..Len(defs)
  BY OnceIsNoDuplicates, Domains DEF DupInv
<1>2. OverlapsNoted'
  <2> SUFFICES ASSUME NEW p \in Runs, NEW q \in Runs, Active(p)', Active(q)', p # q
               PROVE  p \in overlapped' /\ q \in overlapped'
    BY DEF OverlapsNoted
  <2>1. Active(p) /\ Active(q)
    BY DEF Active
  <2> QED
    BY <2>1 DEF DupInv, OverlapsNoted
<1>3. SourcesOnce' /\ DefsOnce'
  BY <1>1, KeptOnce, UnchangedKept
<1>4. NoDuplicates'
  BY <1>3 DEF NoDuplicates, SourcesOnce, DefsOnce
<1>5. ASSUME NEW q \in Runs, q \notin overlapped'
      PROVE  /\ run'[q].at = "create" => ByStableKey(q, Source(q))' = {}
             /\ run'[q].at = "insert" => Usable(run[q].name)' = {}
  <2>1. CASE run'[q].at = "dead"
    BY <2>1
  <2>2. CASE run'[q] = run[q]
    <3>1. ASSUME run[q].at = "create" PROVE ByStableKey(q, Source(q))' = {}
      <4>1. ByStableKey(q, Source(q)) = {}
        BY <1>5, <3>1 DEF DupInv, NoneThere
      <4> QED
        BY <2>2, <4>1 DEF ByStableKey, Source
    <3>2. ASSUME run[q].at = "insert" PROVE Usable(run[q].name)' = {}
      <4>1. Usable(run[q].name) = {}
        BY <1>5, <3>2 DEF DupInv, NoneThere
      <4>2. DOMAIN defs' = 1..Len(defs)
        BY DEF TypeInv, DefsOK, DefsKept
      <4> QED
        BY <1>1, <2>2, <4>1, <4>2 DEF Usable, DefsKept
    <3> QED
      BY <2>2, <3>1, <3>2
  <2> QED
    BY <2>1, <2>2
<1>6. NoneThere'
  BY <1>5 DEF NoneThere
<1> QED
  BY <1>1, <1>2, <1>4, <1>6 DEF DupInv

(* The invariant is inductive.                                             *)
LEMMA NextDup ==
    ASSUME DupInv, [Next]_vars
    PROVE  DupInv'
<1>0. TypeInv /\ TypeInv'
  BY NextTypes DEF DupInv
<1>1. ASSUME NEW r \in Runs, Step(r) PROVE DupInv'
  BY <1>1, StepDup
<1>2. ASSUME NEW s \in Keys, RenameSource(s) PROVE DupInv'
  BY <1>0, <1>2, RenameSourceTypes, UnchangedKept, OtherDup
<1>3. ASSUME NEW i \in DOMAIN defs, NEW status \in Statuses, ChangeStatus(i, status) PROVE DupInv'
  BY <1>0, <1>3, ChangeStatusTypes, ChangeStatusKept, OtherDup DEF worldVars
<1>4. CASE Crash
  BY <1>0, <1>4, CrashTypes, UnchangedKept, OtherDup DEF worldVars
<1>5. CASE UNCHANGED vars
  BY <1>0, <1>5, UnchangedKept, OtherDup DEF vars, worldVars
<1> QED
  BY <1>1, <1>2, <1>3, <1>4, <1>5 DEF Next

(* Old definitions are no duplicates.                                      *)
LEMMA InitDup ==
    ASSUME Init
    PROVE  DupInv
<1>1. TypeInv
  BY InitTypes
<1>2. \A r \in Runs : run[r].at = "idle"
  BY DEF Init, Idle
<1>3. OverlapsNoted /\ NoneThere
  BY <1>2 DEF OverlapsNoted, NoneThere, Active
<1>4. SourcesOnce
  BY DEF Init, SourcesOnce
<1>5. DefsOnce
  <2>0. PICK n \in 0..MaxOld : \E names \in [1..n -> Names] :
            defs = [i \in 1..n |-> [name |-> names[i], status |-> "active",
                                    rels |-> [t \in {} |-> 0],
                                    raced |-> \E j \in 1..(i - 1) : names[j] = names[i]]]
    BY DEF Init
  <2>1. PICK names \in [1..n -> Names] :
            defs = [i \in 1..n |-> [name |-> names[i], status |-> "active",
                                    rels |-> [t \in {} |-> 0],
                                    raced |-> \E j \in 1..(i - 1) : names[j] = names[i]]]
    BY <2>0
  <2>2. n \in Nat /\ DOMAIN defs = 1..n
    BY <2>1, ProvisioningBounds
  <2> SUFFICES ASSUME NEW i \in DOMAIN defs, NEW j \in DOMAIN defs, i < j, defs[i].name = defs[j].name
               PROVE  defs[i].raced \/ defs[j].raced
    BY DEF DefsOnce
  <2>3. defs[i].name = names[i] /\ defs[j].name = names[j]
    BY <2>1, <2>2
  <2>4. i \in 1..(j - 1) /\ names[i] = names[j]
    <3>1. i \in 1..n /\ j \in 1..n
      BY <2>2
    <3>2. i \in 1..(j - 1)
      BY <2>2, <3>1
    <3>3. names[i] = names[j]
      BY <2>3
    <3> QED
      BY <3>2, <3>3
  <2>5. defs[j].raced = (\E k \in 1..(j - 1) : names[k] = names[j])
    BY <2>1, <2>2
  <2> QED
    BY <2>4, <2>5
<1> QED
  BY <1>1, <1>3, <1>4, <1>5, OnceIsNoDuplicates DEF DupInv

(* Neither a rename, a failure, a crash nor an answer that got lost makes  *)
(* a second row of a source with a stable key, or a second live definition *)
(* of a name: only runs that overlap do (ensureDataSource,                 *)
(* ensureCustomDataDefinition).                                            *)
THEOREM NothingIsDuplicated == Spec => []NoDuplicates
<1>1. DupInv /\ [Next]_vars => DupInv'
  BY NextDup
<1>2. DupInv => NoDuplicates
  BY DEF DupInv
<1> QED
  BY InitDup, <1>1, <1>2, PTL DEF Spec

-----------------------------------------------------------------------------
(* What is resolved is the best.                                           *)

(* The usable rows of a name, and their statuses, stay as they are.        *)
Untouched(d) ==
    /\ Usable(d)' = Usable(d)
    /\ \A j \in Usable(d) : defs'[j].status = defs[j].status

(* The best row stays the best while no row of its name changes.           *)
LEMMA BestStays ==
    ASSUME NEW d, NEW i, Best(d, i), Untouched(d)
    PROVE  Best(d, i)'
BY DEF Best, Better, Untouched

(* Tables that do not change are untouched.                                *)
LEMMA SameDefsUntouched ==
    ASSUME UNCHANGED defs, NEW d
    PROVE  Untouched(d)
BY DEF Untouched, Usable

(* So is a name whose rows keep their statuses.                            *)
LEMMA KeptUntouched ==
    ASSUME TypeInv, TypeInv', DefsKept, NEW d,
           \A i \in 1..Len(defs) : defs[i].name = d => defs'[i].status = defs[i].status
    PROVE  Untouched(d)
<1>1. DOMAIN defs = 1..Len(defs) /\ DOMAIN defs' = 1..Len(defs)
  BY Domains DEF TypeInv, DefsOK, DefsKept
<1> QED
  BY <1>1 DEF Untouched, Usable, DefsKept

(* A step touches no name but the one that the run is at.                  *)
LEMMA OthersUntouched ==
    ASSUME TypeInv, NEW r \in Runs, Step(r), NEW d,
           d # run[r].name \/ ~(InsertDef(r) \/ ActivateDef(r))
    PROVE  Untouched(d)
<1>1. TypeInv' /\ DOMAIN defs = 1..Len(defs) /\ Len(defs) \in Nat
  BY StepTypes, Domains
<1>2. CASE UNCHANGED defs
  BY <1>2, SameDefsUntouched
<1>3. CASE ExtendDef(r)
  BY <1>1, <1>3, ExtendDefKept, KeptUntouched
<1>4. CASE InsertDef(r)
  <2>1. d # run[r].name
    BY <1>4
  <2>2. /\ Len(defs') = Len(defs) + 1 /\ \A j \in 1..Len(defs) : defs'[j] = defs[j]
        /\ defs'[Len(defs')].name = run[r].name
    BY <1>4, InsertedRow
  <2>3. DOMAIN defs' = 1..(Len(defs) + 1)
    BY <1>1, <2>2 DEF TypeInv, DefsOK
  <2>4. \A i \in DOMAIN defs' : defs'[i].name = d => i \in DOMAIN defs /\ defs'[i] = defs[i]
    BY <1>1, <2>1, <2>2, <2>3
  <2>5. \A i \in DOMAIN defs : i \in DOMAIN defs' /\ defs'[i] = defs[i]
    BY <1>1, <2>2, <2>3
  <2> QED
    BY <2>4, <2>5 DEF Untouched, Usable
<1>5. CASE ActivateDef(r)
  <2>1. d # run[r].name
    BY <1>5
  <2>2. DefsKept /\ \A j \in 1..Len(defs) : j # run[r].id => defs'[j] = defs[j]
    BY <1>5, ActivateDefKept, ActivateDefTypes
  <2>3. defs[run[r].id].name = run[r].name
    BY <1>5, IdsNow DEF ActivateDef, Found
  <2>4. \A i \in 1..Len(defs) : defs[i].name = d => defs'[i].status = defs[i].status
    BY <2>1, <2>2, <2>3
  <2> QED
    BY <1>1, <2>2, <2>4, KeptUntouched
<1>6. UNCHANGED defs \/ ExtendDef(r) \/ InsertDef(r) \/ ActivateDef(r)
  <2>1. CASE DefStep(r)
    BY <2>1 DEF DefStep, ListDefs, GetDef, SubmitDef
  <2>2. CASE Quiet(r)
    BY <2>2 DEF Quiet
  <2> QED
    BY <2>1, <2>2, QuietSteps
<1> QED
  BY <1>2, <1>3, <1>4, <1>5, <1>6

(* What a run inserts when nobody else is there is the only row, and what  *)
(* it activates remains the best.                                          *)
LEMMA InsertedIsBest ==
    ASSUME TypeInv, NEW r \in Runs, InsertDef(r), Usable(run[r].name) = {},
           NEW d, d = run[r].name, NEW k, k = Len(defs')
    PROVE  Best(d, k)'
<1>1. /\ Len(defs') = Len(defs) + 1 /\ \A j \in 1..Len(defs) : defs'[j] = defs[j]
      /\ defs'[Len(defs')].name = run[r].name /\ defs'[Len(defs')].status = "creating"
      /\ TypeInv'
  BY InsertedRow, InsertDefTypes
<1>2. DOMAIN defs = 1..Len(defs) /\ Len(defs) \in Nat /\ DOMAIN defs' = 1..(Len(defs) + 1)
  BY <1>1, Domains DEF TypeInv, DefsOK
<1>3. Usable(d)' = {k}
  <2>1. k \in DOMAIN defs'
    BY <1>1, <1>2
  <2>2. ASSUME NEW i \in DOMAIN defs', defs'[i].name = d, defs'[i].status # "deleted" PROVE i = k
    <3>1. CASE i \in 1..Len(defs)
      <4>1. i \in Usable(d)
        BY <1>1, <1>2, <2>2, <3>1 DEF Usable
      <4> QED
        BY <4>1
    <3> QED
      BY <1>1, <1>2, <3>1
  <2> QED
    BY <1>1, <2>1, <2>2 DEF Usable
<1> QED
  BY <1>3 DEF Best

(* A best row that is activated is the best even more so.                  *)
LEMMA ActivatedIsBest ==
    ASSUME TypeInv, NEW r \in Runs, ActivateDef(r), NEW d, d = run[r].name, NEW k, k = run[r].id, Best(d, k)
    PROVE  Best(d, k)'
<1>1. k \in 1..Len(defs) /\ Len(defs) \in Nat /\ DOMAIN defs = 1..Len(defs) /\ defs[k] \in DefRows
  BY IdsNow, Domains, RowsFacts DEF ActivateDef, Found
<1>2. /\ Len(defs') = Len(defs) /\ \A j \in 1..Len(defs) : j # k => defs'[j] = defs[j]
      /\ \/ defs'[k] = defs[k]
         \/ defs[k].status = "creating" /\ defs'[k] = [defs[k] EXCEPT !.status = "active"]
      /\ TypeInv'
  BY ActivateDefTypes
<1>3. DOMAIN defs' = 1..Len(defs)
  BY <1>2 DEF TypeInv, DefsOK
<1>4. CASE defs'[k] = defs[k]
  <2>1. Untouched(d)
    BY <1>1, <1>2, <1>3, <1>4 DEF Untouched, Usable
  <2> QED
    BY <2>1, BestStays
<1>5. CASE defs[k].status = "creating" /\ defs'[k] = [defs[k] EXCEPT !.status = "active"]
  <2>1. defs'[k].name = d /\ defs'[k].status = "active" /\ defs[k].name = d
    BY <1>1, <1>5 DEF DefRows, Best, Usable
  <2>2. Usable(d)' = Usable(d)
    BY <1>1, <1>2, <1>3, <1>5, <2>1 DEF Usable, Best
  <2>3. ASSUME NEW j \in Usable(d) \ {k} PROVE Better(k, j)'
    <3>1. Better(k, j) /\ j \in 1..Len(defs) /\ defs'[j] = defs[j]
      BY <1>1, <1>2, <2>3 DEF Best, Usable
    <3>2. Rank(defs[k].status) = 1
      BY <1>5 DEF Rank
    <3>3. Rank(defs'[k].status) = 3
      BY <2>1 DEF Rank
    <3>4. Rank(defs[j].status) \in 1..3
      BY DEF Rank
    <3>5. Rank(defs'[k].status) > Rank(defs'[j].status) \/ (Rank(defs[j].status) = 1 /\ k < j)
      BY <3>1, <3>2, <3>3, <3>4 DEF Better
    <3>6. Rank(defs'[k].status) > Rank(defs'[j].status)
      BY <3>1, <3>3, <3>5
    <3> QED
      BY <3>6 DEF Better
  <2>4. \A j \in Usable(d) \ {k} : Better(k, j)'
    BY <2>3
  <2>5. k \in Usable(d)
    BY DEF Best
  <2> QED
    BY <2>2, <2>4, <2>5 DEF Best
<1> QED
  BY <1>2, <1>4, <1>5

(* The best rows of a run's own, after a step of it.                       *)
OwnBest(r) ==
    /\ \A d, k : run'[r].at \in Found /\ d = run'[r].name /\ k = run'[r].id => Best(d, k)'
    /\ \A d \in Names : \A k : k = run'[r].defIds[d] /\ k # 0 => Best(d, k)'

(* What a run resolves is the best row of its name, and what it resolved   *)
(* before is still.                                                        *)
LEMMA ResolvedBest ==
    ASSUME TypeInv, NEW r \in Runs, run[r].at \in DefSteps, NEW id, NEW errors \in BOOLEAN,
           DefResolvedTo(r, id, errors),
           \A d, k : d = run[r].name /\ k = id => Best(d, k)',
           \A d \in Names : run[r].defIds[d] # 0 => Best(d, run[r].defIds[d]),
           \A d \in Names : d # run[r].name => Untouched(d)
    PROVE  OwnBest(r)
<1>1. /\ run'[r].at \notin Found /\ run[r].name \in Names /\ run'[r].defIds[run[r].name] = id
      /\ \A d \in Names : d # run[r].name => run'[r].defIds[d] = run[r].defIds[d]
  BY DefResolvedAfter DEF Found
<1>2. ASSUME NEW d \in Names, NEW k, k = run'[r].defIds[d], k # 0 PROVE Best(d, k)'
  <2>1. CASE d = run[r].name
    BY <1>1, <1>2, <2>1
  <2>2. CASE d # run[r].name
    <3>1. Best(d, k) /\ Untouched(d)
      BY <1>1, <1>2, <2>2
    <3> QED
      BY <3>1, BestStays
  <2> QED
    BY <2>1, <2>2
<1> QED
  BY <1>1, <1>2 DEF OwnBest

(* A step that resolves nothing and touches no row.                        *)
LEMMA UnresolvedBest ==
    ASSUME NEW r \in Runs, \A d \in Names : run'[r].defIds[d] = run[r].defIds[d],
           \A d \in Names : run[r].defIds[d] # 0 => Best(d, run[r].defIds[d]),
           \A d \in Names : run[r].defIds[d] # 0 => Untouched(d),
           \A d, k : run'[r].at \in Found /\ d = run'[r].name /\ k = run'[r].id => Best(d, k)'
    PROVE  OwnBest(r)
<1>1. ASSUME NEW d \in Names, NEW k, k = run'[r].defIds[d], k # 0 PROVE Best(d, k)'
  <2>1. Best(d, k) /\ Untouched(d)
    BY <1>1
  <2> QED
    BY <2>1, BestStays
<1> QED
  BY <1>1 DEF OwnBest

(* A run that nobody disturbs has the best rows after its step.            *)
LEMMA StepOwnBest ==
    ASSUME BestInv, NEW r \in Runs, Step(r), r \notin disturbed', r \notin overlapped'
    PROVE  OwnBest(r)
<1>1. TypeInv /\ OverlapsNoted /\ Clean(r) /\ NoneThere
  <2>1. UNCHANGED disturbed /\ overlapped \subseteq overlapped'
    BY Underway, OverlapsGrow
  <2> QED
    BY <2>1 DEF BestInv, DupInv, Clean
<1>2. /\ run[r].at \in Found => Best(run[r].name, run[r].id)
      /\ \A d \in Names : run[r].defIds[d] # 0 => Best(d, run[r].defIds[d])
      /\ run[r].errors \in BOOLEAN /\ run[r].id \in Nat /\ Len(defs) \in Nat
  BY <1>1, LocalsTypes, IdsNow DEF BestInv, FoundBest
<1>3. \A d \in Names : d # run[r].name \/ ~(InsertDef(r) \/ ActivateDef(r)) => Untouched(d)
  BY <1>1, OthersUntouched
<1>4. run[r].at \in DefSteps => run[r].name \in Names /\ run[r].defIds[run[r].name] = 0
  <2>1. LocalsOK(run[r]) /\ run[r] \in Locals
    BY <1>1, IdsNow, LocalsTypes
  <2> QED
    BY <2>1 DEF LocalsOK, Open
<1>5. ASSUME ~InsertDef(r), ~ActivateDef(r), \A d \in Names : run'[r].defIds[d] = run[r].defIds[d],
             run'[r].at \notin Found
      PROVE  OwnBest(r)
  BY <1>2, <1>3, <1>5, UnresolvedBest
<1>6. CASE Quiet(r)
  <2>1. /\ run'[r].at \notin Found /\ defs' = defs
        /\ \A d \in Names : run'[r].defIds[d] = run[r].defIds[d]
    BY <1>1, <1>6, QuietAfter DEF Found, DefSteps
  <2>2. \A d \in Names : Untouched(d)
    BY <2>1, SameDefsUntouched
  <2> QED
    BY <1>2, <2>1, <2>2, UnresolvedBest
<1>7. ASSUME NEW d \in Names, ListDefs(r, d) PROVE OwnBest(r)
  <2>0. UNCHANGED defs /\ run[r] \in Locals /\ DOMAIN run = Runs
    BY <1>1, <1>7, LocalsTypes DEF ListDefs, TypeInv
  <2>1. \A e \in Names : Untouched(e)
    BY <2>0, SameDefsUntouched
  <2>2. CASE run' = [run EXCEPT ![r] = DefDone(run[r], run[r].todo \ {d}, TRUE, run[r].defIds)]
    <3>1. run'[r].at = "defs" /\ run'[r].defIds = run[r].defIds
      BY <2>0, <2>2 DEF DefDone, Locals
    <3> QED
      BY <1>2, <2>1, <3>1, UnresolvedBest DEF Found
  <2>3. CASE \E id \in Nat : run' = [run EXCEPT ![r] = DefTaken(run[r], run[r].todo \ {d}, d, id, "submit")]
    <3>1. run'[r].at = "submit" /\ run'[r].defIds = run[r].defIds
      BY <2>0, <2>3 DEF DefTaken, Locals
    <3> QED
      BY <1>2, <2>1, <3>1, UnresolvedBest DEF Found
  <2>4. CASE \E id \in 1..Len(defs) : /\ Best(d, id)
                 /\ run' = [run EXCEPT ![r] = DefTaken(run[r], run[r].todo \ {d}, d, id, "get")]
    <3>1. PICK id \in 1..Len(defs) : /\ Best(d, id)
                 /\ run' = [run EXCEPT ![r] = DefTaken(run[r], run[r].todo \ {d}, d, id, "get")]
      BY <2>4
    <3>2. run'[r].name = d /\ run'[r].id = id /\ run'[r].defIds = run[r].defIds
      BY <2>0, <3>1 DEF DefTaken, Locals
    <3>3. Best(d, id)'
      BY <2>1, <3>1, BestStays
    <3> QED
      BY <1>2, <2>1, <3>2, <3>3, UnresolvedBest
  <2> QED
    BY <1>1, <1>7, <2>2, <2>3, <2>4, ListDefsTypes
<1>8. CASE GetDef(r)
  <2>0. /\ UNCHANGED defs /\ run[r].at \in DefSteps /\ "extend" \in Ats /\ Best(run[r].name, run[r].id)
        /\ run[r] \in Locals /\ DOMAIN run = Runs
    BY <1>1, <1>2, <1>8, LocalsTypes DEF GetDef, DefSteps, Ats, Found, TypeInv
  <2>1. \A e : Untouched(e)
    BY <2>0, SameDefsUntouched
  <2>2. \A d, k : d = run[r].name /\ k = run[r].id => Best(d, k)'
    BY <2>0, <2>1, BestStays
  <2>3. CASE DefFailedAt(r)
    BY <1>1, <1>2, <2>1, <2>3, DefFailedAfter, UnresolvedBest DEF Found
  <2>4. ASSUME NEW errors \in BOOLEAN, DefResolvedTo(r, run[r].id, errors) PROVE OwnBest(r)
    BY <1>1, <1>2, <2>0, <2>1, <2>2, <2>4, ResolvedBest
  <2>5. ASSUME NEW errors \in BOOLEAN, run' = [run EXCEPT ![r] = Moved(run[r], errors, run[r].id, "extend")]
        PROVE  OwnBest(r)
    <3>1. run'[r].name = run[r].name /\ run'[r].id = run[r].id /\ run'[r].defIds = run[r].defIds
      BY <2>0, <2>5 DEF Moved, Locals
    <3> QED
      BY <1>2, <2>1, <2>2, <3>1, UnresolvedBest
  <2> QED
    BY <1>1, <1>8, <2>3, <2>4, <2>5, GetDefTypes
<1>9. CASE ExtendDef(r)
  <2>0. run[r].at \in DefSteps /\ Best(run[r].name, run[r].id) /\ ~InsertDef(r) /\ ~ActivateDef(r)
    BY <1>2, <1>9 DEF ExtendDef, InsertDef, ActivateDef, DefSteps, Found
  <2>1. \A e \in Names : Untouched(e)
    BY <1>3, <2>0
  <2>2. \A d, k : d = run[r].name /\ k = run[r].id => Best(d, k)'
    BY <1>4, <2>0, <2>1, BestStays
  <2>3. CASE DefFailedAt(r)
    BY <1>1, <1>2, <2>1, <2>3, DefFailedAfter, UnresolvedBest DEF Found
  <2>4. CASE DefResolvedTo(r, run[r].id, run[r].errors)
    BY <1>1, <1>2, <2>0, <2>1, <2>2, <2>4, ResolvedBest
  <2> QED
    BY <1>1, <1>9, <2>3, <2>4, ExtendDefTypes
<1>10. CASE SubmitDef(r)
  <2>0. UNCHANGED defs /\ run[r] \in Locals /\ DOMAIN run = Runs
    BY <1>1, <1>10, LocalsTypes DEF SubmitDef, TypeInv
  <2>1. \A e : Untouched(e)
    BY <2>0, SameDefsUntouched
  <2>2. CASE DefFailedAt(r)
    BY <1>1, <1>2, <2>1, <2>2, DefFailedAfter, UnresolvedBest DEF Found
  <2>3. CASE run' = [run EXCEPT ![r] = Moved(run[r], run[r].errors, run[r].id, "insert")]
    <3>1. run'[r].at = "insert" /\ run'[r].defIds = run[r].defIds
      BY <2>0, <2>3 DEF Moved, Locals
    <3> QED
      BY <1>2, <2>1, <3>1, UnresolvedBest DEF Found
  <2> QED
    BY <1>1, <1>10, <2>2, <2>3, SubmitDefTypes
<1>11. CASE InsertDef(r)
  <2>0. /\ run[r].at \in DefSteps /\ Usable(run[r].name) = {} /\ run[r] \in Locals /\ DOMAIN run = Runs
    BY <1>1, <1>11, LocalsTypes DEF InsertDef, NoneThere, DefSteps, TypeInv, Clean
  <2>1. \A d \in Names : run[r].defIds[d] # 0 => Untouched(d)
    BY <1>3, <1>4, <2>0
  <2>2. CASE DefFailedAt(r)
    BY <1>1, <1>2, <2>1, <2>2, DefFailedAfter, UnresolvedBest DEF Found
  <2>3. CASE run' = [run EXCEPT ![r] = Moved(run[r], run[r].errors, Len(defs'), "activate")]
    <3>1. run'[r].name = run[r].name /\ run'[r].id = Len(defs') /\ run'[r].defIds = run[r].defIds
      BY <2>0, <2>3 DEF Moved, Locals
    <3>2. \A d, k : d = run'[r].name /\ k = run'[r].id => Best(d, k)'
      BY <1>1, <1>11, <2>0, <3>1, InsertedIsBest
    <3> QED
      BY <1>2, <2>1, <3>1, <3>2, UnresolvedBest
  <2> QED
    BY <1>1, <1>11, <2>2, <2>3, InsertDefTypes
<1>12. CASE ActivateDef(r)
  <2>0. run[r].at \in DefSteps /\ Best(run[r].name, run[r].id)
    BY <1>2, <1>12 DEF ActivateDef, DefSteps, Found
  <2>1. \A d, k : d = run[r].name /\ k = run[r].id => Best(d, k)'
    BY <1>1, <1>12, <2>0, ActivatedIsBest
  <2>2. DefResolvedTo(r, run[r].id, run[r].errors)
    BY <1>1, <1>12, ActivateDefTypes
  <2>3. \A d \in Names : d # run[r].name => Untouched(d)
    BY <1>3
  <2> QED
    BY <1>1, <1>2, <2>0, <2>1, <2>2, <2>3, ResolvedBest
<1> QED
  BY <1>1, <1>6, <1>7, <1>8, <1>9, <1>10, <1>11, <1>12, QuietSteps DEF DefStep

(* So have the other runs.                                                 *)
LEMMA StepBest ==
    ASSUME BestInv, NEW r \in Runs, Step(r)
    PROVE  BestInv'
<1>1. TypeInv /\ OverlapsNoted /\ FoundBest /\ NoRival /\ DupInv /\ TypeInv'
  BY StepTypes DEF BestInv, DupInv
<1>2. DupInv'
  BY <1>1, StepDup
<1>3. UNCHANGED <<plan, disturbed>> /\ Names' = Names /\ overlapped \subseteq overlapped'
  BY Underway, OverlapsGrow DEF worldVars, Names
<1>4. ASSUME NEW q \in Runs \ {r}, q \notin disturbed', q \notin overlapped'
      PROVE  /\ Clean(q) /\ run'[q] = run[q] /\ ~Active(q)
             /\ \A d \in Names : run[q].defIds[d] # 0 => Best(d, run[q].defIds[d]) /\ Untouched(d)
  <2>1. Clean(q) /\ run'[q] = run[q] /\ ~Active(q)
    BY <1>1, <1>3, <1>4, OneRun, NobodyElse DEF Clean
  <2>2. ASSUME NEW d \in Names, run[q].defIds[d] # 0 PROVE Best(d, run[q].defIds[d]) /\ Untouched(d)
    <3>1. Best(d, run[q].defIds[d])
      BY <1>1, <2>1, <2>2 DEF FoundBest
    <3>2. run[r].at \in {"submit", "insert", "activate"} => run[r].name # d
      BY <1>1, <2>1, <2>2 DEF NoRival
    <3>3. d # run[r].name \/ ~(InsertDef(r) \/ ActivateDef(r))
      BY <3>2 DEF InsertDef, ActivateDef
    <3> QED
      BY <1>1, <3>1, <3>3, OthersUntouched
  <2> QED
    BY <2>1, <2>2
<1>5. FoundBest'
  <2> SUFFICES ASSUME NEW q \in Runs, q \notin disturbed', q \notin overlapped'
               PROVE  /\ run'[q].at \in Found => Best(run[q].name, run[q].id)'
                      /\ \A d \in Names : run'[q].defIds[d] # 0 => Best(d, run[q].defIds[d])'
    BY <1>3 DEF FoundBest, Clean
  <2>1. CASE q = r
    <3>1. OwnBest(r)
      BY <2>1, StepOwnBest
    <3> QED
      BY <2>1, <3>1 DEF OwnBest
  <2>2. CASE q # r
    <3>1. run'[q] = run[q] /\ run'[q].at \notin Found
      BY <1>4, <2>2 DEF Active, Found
    <3>2. ASSUME NEW d \in Names, run'[q].defIds[d] # 0 PROVE Best(d, run[q].defIds[d])'
      <4>1. \A k : k = run[q].defIds[d] => Best(d, k)'
        BY <1>4, <2>2, <3>1, <3>2, BestStays
      <4> QED
        BY <3>1, <4>1
    <3> QED
      BY <3>1, <3>2
  <2> QED
    BY <2>1, <2>2
<1>6. NoRival'
  <2> SUFFICES ASSUME NEW p \in Runs, NEW q \in Runs, NEW d \in Names, p \notin disturbed', p \notin overlapped',
                      run'[p].defIds[d] # 0, q # p, run'[q].at \in {"submit", "insert", "activate"},
                      run'[q].name = d
               PROVE  FALSE
    BY <1>3 DEF NoRival, Clean
  <2>1. CASE p = r
    <3>1. run'[q] = run[q] /\ ~Active(q)
      BY <1>1, <2>1, OneRun, NobodyElse
    <3> QED
      BY <3>1 DEF Active
  <2>2. CASE p # r /\ q # r
    <3>1. run'[q] = run[q] /\ run'[p] = run[p] /\ Clean(p)
      BY <1>1, <1>4, <2>2, OneRun
    <3> QED
      BY <1>1, <3>1 DEF NoRival
  <2>3. CASE p # r /\ q = r
    <3>1. run'[p] = run[p] /\ Clean(p) /\ Best(d, run[p].defIds[d]) /\ Usable(d) # {}
      BY <1>4, <2>3 DEF Best
    <3>2. run[r].at \in {"submit", "insert", "activate"} => run[r].name # d
      BY <1>1, <2>3, <3>1 DEF NoRival
    <3>3. DefStep(r)
      BY <1>1, <2>3, QuietSteps, QuietAfter DEF DefSteps
    <3>4. run[r] \in Locals /\ DOMAIN run = Runs /\ run[r].id \in Nat
      BY <1>1, LocalsTypes DEF TypeInv
    <3>5. CASE run'[r].at = "submit"
      <4>1. PICK e \in Names : ListDefs(r, e)
        BY <1>1, <3>3, <3>5, Arrivals
      <4>2. CASE run' = [run EXCEPT ![r] = DefDone(run[r], run[r].todo \ {e}, TRUE, run[r].defIds)]
        <5>1. run'[r].at = "defs"
          BY <3>4, <4>2 DEF DefDone, Locals
        <5> QED
          BY <3>5, <5>1
      <4>3. CASE Usable(e) = {} /\ \E id \in Nat :
                    run' = [run EXCEPT ![r] = DefTaken(run[r], run[r].todo \ {e}, e, id, "submit")]
        <5>1. run'[r].name = e
          BY <3>4, <4>3 DEF DefTaken, Locals
        <5> QED
          BY <2>3, <3>1, <4>3, <5>1
      <4>4. CASE \E id \in 1..Len(defs) : /\ Best(e, id)
                    /\ run' = [run EXCEPT ![r] = DefTaken(run[r], run[r].todo \ {e}, e, id, "get")]
        <5>1. run'[r].at = "get"
          BY <3>4, <4>4 DEF DefTaken, Locals
        <5> QED
          BY <3>5, <5>1
      <4> QED
        BY <1>1, <4>1, <4>2, <4>3, <4>4, ListDefsTypes
    <3>6. CASE run'[r].at = "insert"
      <4>1. SubmitDef(r) /\ ~DefFailedAt(r)
        BY <1>1, <3>3, <3>6, Arrivals, DefFailedAfter
      <4>2. run' = [run EXCEPT ![r] = Moved(run[r], run[r].errors, run[r].id, "insert")]
        BY <1>1, <4>1, SubmitDefTypes
      <4>3. run'[r].name = run[r].name
        BY <3>4, <4>2 DEF Moved, Locals
      <4> QED
        BY <2>3, <3>2, <4>1, <4>3 DEF SubmitDef
    <3>7. CASE run'[r].at = "activate"
      <4>1. InsertDef(r) /\ ~DefFailedAt(r)
        BY <1>1, <3>3, <3>7, Arrivals, DefFailedAfter
      <4>2. run' = [run EXCEPT ![r] = Moved(run[r], run[r].errors, Len(defs'), "activate")]
        BY <1>1, <4>1, InsertDefTypes
      <4>3. run'[r].name = run[r].name
        BY <3>4, <4>2 DEF Moved, Locals
      <4> QED
        BY <2>3, <3>2, <4>1, <4>3 DEF InsertDef
    <3> QED
      BY <2>3, <3>5, <3>6, <3>7
  <2> QED
    BY <2>1, <2>2, <2>3
<1> QED
  BY <1>2, <1>5, <1>6 DEF BestInv

(* Steps that no run takes: whoever is still clean after a change of the   *)
(* merchant has not begun.                                                 *)
LEMMA DisturbedOthers ==
    ASSUME TypeInv, Disturbs, UNCHANGED <<plan, run, overlapped>>
    PROVE  \A q \in Runs : q \notin disturbed' =>
               run'[q].at = "idle" /\ \A d \in Names : run'[q].defIds[d] = 0
<1> SUFFICES ASSUME NEW q \in Runs, q \notin disturbed'
             PROVE  run'[q].at = "idle" /\ \A d \in Names : run'[q].defIds[d] = 0
  OBVIOUS
<1>1. run[q].at = "idle" /\ run'[q] = run[q]
  BY DEF Disturbs
<1>2. run[q] = Idle
  BY <1>1, IdsNow DEF LocalsOK
<1> QED
  BY <1>1, <1>2, IdleTypes

(* The merchant disturbs whoever is at work.                               *)
LEMMA DisturbedBest ==
    ASSUME BestInv, DupInv', Disturbs, UNCHANGED <<plan, run, overlapped>>
    PROVE  BestInv'
<1>1. Names' = Names /\ TypeInv
  BY DEF Names, BestInv, DupInv
<1>2. \A q \in Runs : q \notin disturbed' => run'[q].at = "idle" /\ \A d \in Names : run'[q].defIds[d] = 0
  BY <1>1, DisturbedOthers
<1> QED
  BY <1>1, <1>2 DEF BestInv, FoundBest, NoRival, Clean, Found

(* Other steps change no definition.                                       *)
LEMMA QuietBest ==
    ASSUME BestInv, DupInv', UNCHANGED <<plan, defs, disturbed, overlapped>>,
           \A r \in Runs : \/ run'[r] = run[r]
                           \/ run'[r].at = "dead" /\ \A d \in Names : run'[r].defIds[d] = 0
    PROVE  BestInv'
<1>1. Names' = Names /\ \A d, k : Best(d, k)' <=> Best(d, k)
  BY DEF Names, Best, Usable, Better
<1>2. FoundBest'
  <2> SUFFICES ASSUME NEW q \in Runs, Clean(q)
               PROVE  /\ run'[q].at \in Found => Best(run[q].name, run[q].id)'
                      /\ \A d \in Names : run'[q].defIds[d] # 0 => Best(d, run[q].defIds[d])'
    BY <1>1 DEF FoundBest, Clean
  <2>1. CASE run'[q] = run[q]
    <3>1. /\ run[q].at \in Found => Best(run[q].name, run[q].id)
          /\ \A d \in Names : run[q].defIds[d] # 0 => Best(d, run[q].defIds[d])
      BY DEF BestInv, FoundBest
    <3> QED
      BY <2>1, <3>1 DEF Best, Usable, Better
  <2>2. CASE run'[q].at = "dead" /\ \A d \in Names : run'[q].defIds[d] = 0
    BY <2>2 DEF Found
  <2> QED
    BY <2>1, <2>2
<1>3. NoRival'
  <2> SUFFICES ASSUME NEW p \in Runs, NEW q \in Runs, NEW d \in Names, Clean(p),
                      run'[p].defIds[d] # 0, q # p, run'[q].at \in {"submit", "insert", "activate"},
                      run'[q].name = d
               PROVE  FALSE
    BY <1>1 DEF NoRival, Clean
  <2>1. run'[p] = run[p] /\ run'[q] = run[q]
    OBVIOUS
  <2> QED
    BY <2>1 DEF BestInv, NoRival
<1> QED
  BY <1>2, <1>3 DEF BestInv

(* The invariant is inductive.                                             *)
LEMMA NextBest ==
    ASSUME BestInv, [Next]_vars
    PROVE  BestInv'
<1>0. TypeInv /\ DupInv'
  BY NextDup DEF BestInv, DupInv
<1>1. ASSUME NEW r \in Runs, Step(r) PROVE BestInv'
  BY <1>1, StepBest
<1>2. ASSUME NEW s \in Keys, RenameSource(s) PROVE BestInv'
  BY <1>0, <1>2, RenameSourceTypes, DisturbedBest
<1>3. ASSUME NEW i \in DOMAIN defs, NEW status \in Statuses, ChangeStatus(i, status) PROVE BestInv'
  BY <1>0, <1>3, ChangeStatusTypes, DisturbedBest DEF worldVars
<1>4. CASE Crash
  BY <1>0, <1>4, CrashTypes, QuietBest DEF worldVars
<1>5. CASE UNCHANGED vars
  BY <1>0, <1>5, QuietBest DEF vars, worldVars
<1> QED
  BY <1>1, <1>2, <1>3, <1>4, <1>5 DEF Next

(* Nothing is resolved yet.                                                *)
LEMMA InitBest ==
    ASSUME Init
    PROVE  BestInv
<1>1. \A r \in Runs : run[r] = Idle
  BY DEF Init
<1>2. FoundBest /\ NoRival
  BY <1>1, IdleTypes DEF FoundBest, NoRival, Found
<1> QED
  BY <1>2, InitDup DEF BestInv

(* It contains what TLC checks.                                            *)
LEMMA BestResolves ==
    ASSUME BestInv
    PROVE  ResolvesBest
<1> SUFFICES ASSUME NEW r \in Runs, NEW d \in Names, Alone(r), run[r].defIds[d] # 0
             PROVE  LET id == run[r].defIds[d] IN
                    /\ Live(id)
                    /\ \A j \in DOMAIN defs : defs[j].name = d /\ j # id =>
                           /\ defs[j].status = "active" => defs[id].status = "active"
                           /\ j < id => defs[j].status # defs[id].status
  BY DEF ResolvesBest
<1> DEFINE id == run[r].defIds[d]
<1>1. Best(d, id) /\ DOMAIN defs = 1..Len(defs) /\ Len(defs) \in Nat
  BY Domains DEF BestInv, FoundBest, DupInv, Alone, Clean
<1> HIDE DEF id
<1>2. Live(id) /\ id \in DOMAIN defs /\ id \in Nat
  BY <1>1 DEF Best, Usable, Live
<1>3. ASSUME NEW j \in DOMAIN defs, defs[j].name = d, j # id
      PROVE  /\ defs[j].status = "active" => defs[id].status = "active"
             /\ j < id => defs[j].status # defs[id].status
  <2>1. j \in Nat
    BY <1>1
  <2>2. ASSUME defs[j].status = "active" PROVE defs[id].status = "active"
    <3>1. Better(id, j)
      BY <1>1, <1>3, <2>2 DEF Best, Usable
    <3>2. Rank(defs[j].status) = 3
      BY <2>2 DEF Rank
    <3>3. Rank(defs[id].status) >= 3
      BY <1>2, <3>1, <3>2 DEF Better, Rank
    <3> QED
      BY <3>3 DEF Rank
  <2>3. ASSUME j < id, defs[j].status = defs[id].status PROVE FALSE
    <3>1. Better(id, j)
      BY <1>1, <1>2, <1>3, <2>3 DEF Best, Usable, Live
    <3>2. Rank(defs[j].status) = Rank(defs[id].status) /\ Rank(defs[id].status) \in Nat
      BY <2>3 DEF Rank
    <3>3. id < j
      BY <3>1, <3>2 DEF Better
    <3> QED
      BY <1>2, <2>1, <2>3, <3>3
  <2> QED
    BY <2>2, <2>3
<1> QED
  BY <1>2, <1>3 DEF id

(* What an undisturbed run has resolved for a name is the row that         *)
(* findDefinition promises: the most usable status, then the lowest id.    *)
THEOREM BestIsResolved == Spec => []ResolvesBest
<1>1. BestInv /\ [Next]_vars => BestInv'
  BY NextBest
<1> QED
  BY InitBest, <1>1, BestResolves, PTL DEF Spec

-----------------------------------------------------------------------------
(* A clean run converges.                                                  *)

(* The relations there are stay: the API only appends.                     *)
RelsKept ==
    \A i \in 1..Len(defs) : \A t \in DOMAIN defs[i].rels :
        t \in DOMAIN defs'[i].rels /\ defs'[i].rels[t] = defs[i].rels[t]

(* What a definition is extended with.                                     *)
LEMMA ExtendedRels ==
    ASSUME TypeInv, NEW r \in Runs, ExtendDef(r), ~UNCHANGED defs
    PROVE  /\ run[r].id \in 1..Len(defs) /\ defs[run[r].id].name = run[r].name
           /\ \A j \in 1..Len(defs) : j # run[r].id => defs'[j] = defs[j]
           /\ defs'[run[r].id].name = run[r].name
           /\ DOMAIN defs'[run[r].id].rels = plan.refs[run[r].name]
           /\ \A t \in plan.refs[run[r].name] :
                 defs'[run[r].id].rels[t] = IF t \in DOMAIN defs[run[r].id].rels THEN defs[run[r].id].rels[t]
                                            ELSE run[r].defIds[t]
<1>1. /\ run[r].id \in 1..Len(defs) /\ defs[run[r].id].name = run[r].name
      /\ defs[run[r].id] \in DefRows /\ DOMAIN defs[run[r].id].rels \subseteq plan.refs[run[r].name]
  <2>1. run[r].id \in 1..Len(defs) /\ defs[run[r].id].name = run[r].name
    BY IdsNow DEF ExtendDef, Found
  <2> QED
    BY <2>1, RowsFacts
<1>2. /\ \A j \in 1..Len(defs) : j # run[r].id => defs'[j] = defs[j]
      /\ defs'[run[r].id] = [defs[run[r].id] EXCEPT !.rels = Appended(run[r].id, Shipped(r, Missing(r)))]
  BY ExtendDefTypes
<1> DEFINE rels == Appended(run[r].id, Shipped(r, Missing(r)))
<1>3. /\ DOMAIN rels = plan.refs[run[r].name]
      /\ \A t \in plan.refs[run[r].name] :
             rels[t] = IF t \in DOMAIN defs[run[r].id].rels THEN defs[run[r].id].rels[t] ELSE run[r].defIds[t]
  BY <1>1 DEF Appended, Shipped, Missing, Wanted
<1> HIDE DEF rels
<1>4. defs'[run[r].id].rels = rels /\ defs'[run[r].id].name = defs[run[r].id].name
  BY <1>1, <1>2 DEF DefRows, rels
<1> QED
  BY <1>1, <1>2, <1>3, <1>4

(* A definition is taken once, and after the definitions it refers to,     *)
(* unless there was an error.                                              *)
LEMMA NotYetResolved ==
    ASSUME TypeInv, NEW r \in Runs, run[r].at \in DefSteps
    PROVE  /\ run[r].name \in Names /\ run[r].defIds[run[r].name] = 0
           /\ ~run[r].errors => \A t \in plan.refs[run[r].name] : t # run[r].name => run[r].defIds[t] # 0
           /\ \A e \in Names : run[r].defIds[e] # 0 => e # run[r].name /\ run[r].name \notin plan.refs[e]
<1>1. /\ LocalsOK(run[r]) /\ run[r].name \in Names /\ plan.refs[run[r].name] \subseteq Names
      /\ Open(run[r]) = run[r].todo \union {run[r].name}
      /\ Siblings(run[r].name) \intersect run[r].todo = {}
      /\ run[r].at \notin {"idle", "dead"}
  <2>1. LocalsOK(run[r]) /\ run[r].name \in Names /\ Siblings(run[r].name) \intersect run[r].todo = {}
    BY IdsNow DEF LocalsOK
  <2>2. plan.refs[run[r].name] \subseteq Names
    BY <2>1, PlanTypes DEF TypeInv
  <2> QED
    BY <2>1, <2>2 DEF Open, DefSteps
<1>2. run[r].defIds[run[r].name] = 0
  BY <1>1 DEF LocalsOK
<1>3. ASSUME ~run[r].errors, NEW t \in plan.refs[run[r].name], t # run[r].name PROVE run[r].defIds[t] # 0
  <2>1. t \in Names \ Open(run[r])
    BY <1>1, <1>3 DEF Siblings
  <2> QED
    BY <1>1, <1>3, <2>1 DEF LocalsOK
<1>4. ASSUME NEW e \in Names, run[r].defIds[e] # 0 PROVE e # run[r].name /\ run[r].name \notin plan.refs[e]
  <2>1. e \in Names \ Open(run[r])
    BY <1>1, <1>4 DEF LocalsOK
  <2>2. Siblings(e) \intersect Open(run[r]) = {}
    BY <1>1, <2>1 DEF LocalsOK
  <2> QED
    BY <1>1, <2>1, <2>2 DEF Siblings
<1> QED
  BY <1>1, <1>2, <1>3, <1>4

(* A relation that is stored is not replaced.                              *)
LEMMA StepRels ==
    ASSUME TypeInv, SelfByName, NEW r \in Runs, Step(r)
    PROVE  RelsKept /\ SelfByName'
<1>1. TypeInv' /\ Len(defs) \in Nat /\ DOMAIN defs = 1..Len(defs)
  BY StepTypes, Domains
<1>2. CASE UNCHANGED defs
  BY <1>2 DEF RelsKept, SelfByName
<1>3. CASE ExtendDef(r) /\ ~UNCHANGED defs
  <2>1. run[r].at \in DefSteps
    BY <1>3 DEF ExtendDef, DefSteps
  <2>2. run[r].defIds[run[r].name] = 0
    BY <2>1, NotYetResolved
  <2>3. Len(defs') = Len(defs)
    BY <1>3, ExtendDefTypes
  <2>4. DOMAIN defs[run[r].id].rels \subseteq plan.refs[run[r].name]
    BY <1>3, ExtendedRels, RowsFacts
  <2>5. RelsKept
    BY <1>3, <2>4, ExtendedRels DEF RelsKept
  <2>6. SelfByName'
    BY <1>3, <2>2, <2>3, ExtendedRels DEF SelfByName
  <2> QED
    BY <2>5, <2>6
<1>4. CASE InsertDef(r)
  <2>1. run[r].at \in DefSteps
    BY <1>4 DEF InsertDef, DefSteps
  <2>2. run[r].defIds[run[r].name] = 0
    BY <2>1, NotYetResolved
  <2>3. /\ Len(defs') = Len(defs) + 1 /\ \A j \in 1..Len(defs) : defs'[j] = defs[j]
        /\ defs'[Len(defs')].name = run[r].name
        /\ defs'[Len(defs')].rels = Shipped(r, plan.refs[run[r].name])
    BY <1>4, InsertedRow
  <2>4. RelsKept
    BY <2>3 DEF RelsKept
  <2>5. ASSUME NEW i \in 1..Len(defs'), defs'[i].name \in DOMAIN defs'[i].rels
        PROVE  defs'[i].rels[defs'[i].name] = 0
    <3>1. CASE i \in 1..Len(defs)
      BY <2>3, <2>5, <3>1 DEF SelfByName
    <3>2. CASE i = Len(defs')
      BY <2>2, <2>3, <2>5, <3>2 DEF Shipped, Wanted
    <3> QED
      BY <1>1, <2>3, <3>1, <3>2
  <2> QED
    BY <2>4, <2>5 DEF SelfByName
<1>5. CASE ActivateDef(r)
  <2>1. DefsKept /\ \A i \in 1..Len(defs) : defs'[i].rels = defs[i].rels
    BY <1>5, ActivateDefKept
  <2> QED
    BY <2>1 DEF RelsKept, SelfByName, DefsKept
<1>6. UNCHANGED defs \/ ExtendDef(r) \/ InsertDef(r) \/ ActivateDef(r)
  <2>1. CASE DefStep(r)
    BY <2>1 DEF DefStep, ListDefs, GetDef, SubmitDef
  <2>2. CASE Quiet(r)
    BY <2>2 DEF Quiet
  <2> QED
    BY <2>1, <2>2, QuietSteps
<1> QED
  BY <1>2, <1>3, <1>4, <1>5, <1>6

(* The relations of what a run has resolved, after a step of it.           *)
OwnRels(r) ==
    /\ \A d \in Names : \A k : k = run'[r].defIds[d] /\ k # 0 => RelsGood(r, d, k)'
    /\ \A d, k : d = run'[r].name /\ k = run'[r].id =>
           /\ run'[r].at = "activate" => RelsGood(r, d, k)'
           /\ run'[r].at = "extend" => RelsFit(r, d, k)'

(* Relations stay right while what they point at is resolved as before.    *)
LEMMA SameResolved ==
    ASSUME TypeInv, UNCHANGED plan, RelsKept, NEW r \in Runs,
           \A d \in Names : run'[r].defIds[d] = run[r].defIds[d],
           NEW d \in Names, NEW k \in 1..Len(defs), RelsGood(r, d, k)
    PROVE  RelsGood(r, d, k)'
<1>1. plan.refs[d] \subseteq Names
  BY PlanTypes DEF TypeInv
<1> QED
  BY <1>1 DEF RelsGood, RelsKept

(* Relations of a definition that is resolved point at what was resolved   *)
(* before it.                                                              *)
LEMMA ResolvedRels ==
    ASSUME TypeInv, TypeInv', UNCHANGED plan, SelfByName', RelsKept, NEW r \in Runs, run[r].at \in DefSteps,
           NEW id \in 1..Len(defs'), NEW errors \in BOOLEAN, DefResolvedTo(r, id, errors),
           defs'[id].name = run[r].name,
           \A t \in plan.refs[run[r].name] :
               t \in DOMAIN defs'[id].rels /\ (t # run[r].name => defs'[id].rels[t] \in {0, run[r].defIds[t]}),
           \A d \in Names : run[r].defIds[d] # 0 => RelsGood(r, d, run[r].defIds[d])
    PROVE  OwnRels(r)
<1>1. /\ run'[r].at = "defs" /\ run[r].name \in Names /\ run'[r].defIds[run[r].name] = id
      /\ \A d \in Names : d # run[r].name => run'[r].defIds[d] = run[r].defIds[d]
  BY DefResolvedAfter
<1>2. ASSUME NEW d \in Names, NEW k, k = run'[r].defIds[d], k # 0 PROVE RelsGood(r, d, k)'
  <2>0. plan.refs[d] \subseteq Names
    BY PlanTypes DEF TypeInv
  <2>1. CASE d = run[r].name
    <3>1. ASSUME NEW t \in plan.refs[d]
          PROVE  t \in DOMAIN defs'[k].rels /\ defs'[k].rels[t] \in {0, run'[r].defIds[t]}
      <4>1. CASE t = d
        BY <1>1, <1>2, <2>1, <3>1, <4>1 DEF SelfByName
      <4>2. CASE t # d
        BY <1>1, <1>2, <2>0, <2>1, <3>1, <4>2
      <4> QED
        BY <4>1, <4>2
    <3> QED
      BY <3>1 DEF RelsGood
  <2>2. CASE d # run[r].name
    <3>1. RelsGood(r, d, k) /\ run[r].defIds[d] # 0 /\ k = run[r].defIds[d]
      BY <1>1, <1>2, <2>2
    <3>2. run[r].name \notin plan.refs[d]
      BY <3>1, NotYetResolved
    <3>3. k \in 1..Len(defs)
      BY <1>2, <3>1, IdsNow, LocalsTypes DEF IdsOK
    <3> QED
      BY ZenonT(60), <1>1, <2>0, <3>1, <3>2, <3>3 DEF RelsGood, RelsKept
  <2> QED
    BY <2>1, <2>2
<1> QED
  BY <1>1, <1>2 DEF OwnRels

(* Relations of the others stay right.                                     *)
LEMMA UnresolvedRels ==
    ASSUME TypeInv, UNCHANGED plan, RelsKept, NEW r \in Runs,
           \A d \in Names : run'[r].defIds[d] = run[r].defIds[d],
           \A d \in Names : run[r].defIds[d] # 0 => RelsGood(r, d, run[r].defIds[d]),
           \A d, k : d = run'[r].name /\ k = run'[r].id =>
               /\ run'[r].at = "activate" => RelsGood(r, d, k)'
               /\ run'[r].at = "extend" => RelsFit(r, d, k)'
    PROVE  OwnRels(r)
<1>1. ASSUME NEW d \in Names, NEW k, k = run'[r].defIds[d], k # 0 PROVE RelsGood(r, d, k)'
  <2>1. RelsGood(r, d, k) /\ k = run[r].defIds[d]
    BY <1>1
  <2>2. k \in 1..Len(defs)
    BY <1>1, <2>1, IdsNow, LocalsTypes DEF IdsOK
  <2> QED
    BY <2>1, <2>2, SameResolved
<1> QED
  BY <1>1 DEF OwnRels

(* A step that a run leaves without an error, it came to without one.      *)
LEMMA ErrorsStay ==
    ASSUME TypeInv, NEW r \in Runs, Step(r), run[r].errors
    PROVE  run'[r].errors
<1>1. CASE Quiet(r)
  BY <1>1, QuietAfter
<1>2. run[r] \in Locals /\ DOMAIN run = Runs /\ run[r].errors \in BOOLEAN
  BY LocalsTypes DEF TypeInv
<1>3. ASSUME NEW l, l.errors, run' = [run EXCEPT ![r] = l] PROVE run'[r].errors
  BY <1>2, <1>3
<1>4. ASSUME NEW todo, NEW d, NEW id, NEW at, run' = [run EXCEPT ![r] = DefTaken(run[r], todo, d, id, at)]
      PROVE  run'[r].errors
  <2> DEFINE l == DefTaken(run[r], todo, d, id, at)
  <2>1. l.errors = run[r].errors
    BY <1>2 DEF DefTaken, Locals
  <2>2. run' = [run EXCEPT ![r] = l]
    BY <1>4
  <2> HIDE DEF l
  <2> QED
    BY <1>3, <2>1, <2>2
<1>5. ASSUME NEW todo, NEW ids, NEW errors \in BOOLEAN, errors,
             run' = [run EXCEPT ![r] = DefDone(run[r], todo, errors, ids)]
      PROVE  run'[r].errors
  <2> DEFINE l == DefDone(run[r], todo, errors, ids)
  <2>1. l.errors = errors
    BY <1>2 DEF DefDone, Locals
  <2>2. run' = [run EXCEPT ![r] = l]
    BY <1>5
  <2> HIDE DEF l
  <2> QED
    BY <1>3, <1>5, <2>1, <2>2
<1>6. ASSUME NEW errors \in BOOLEAN, errors, NEW id, NEW at,
             run' = [run EXCEPT ![r] = Moved(run[r], errors, id, at)]
      PROVE  run'[r].errors
  <2> DEFINE l == Moved(run[r], errors, id, at)
  <2>1. l.errors = errors
    BY <1>2 DEF Moved, Locals
  <2>2. run' = [run EXCEPT ![r] = l]
    BY <1>6
  <2> HIDE DEF l
  <2> QED
    BY <1>3, <1>6, <2>1, <2>2
<1>7. ASSUME DefFailedAt(r) PROVE run'[r].errors
  BY <1>7, DefFailedAfter
<1>8. ASSUME NEW d \in Names, ListDefs(r, d) PROVE run'[r].errors
  <2>1. CASE run' = [run EXCEPT ![r] = DefDone(run[r], run[r].todo \ {d}, TRUE, run[r].defIds)]
    BY <1>2, <2>1 DEF DefDone, Locals
  <2> QED
    BY <1>4, <1>8, <2>1, ListDefsTypes
<1>9. CASE GetDef(r)
  <2>1. CASE \E errors \in BOOLEAN : errors = (run[r].errors \/ Stale(r)) /\ DefResolvedTo(r, run[r].id, errors)
    BY <1>5, <2>1 DEF DefResolvedTo
  <2>2. CASE \E errors \in BOOLEAN :
                 /\ errors = (run[r].errors \/ Stale(r))
                 /\ run' = [run EXCEPT ![r] = Moved(run[r], errors, run[r].id, "extend")]
    BY ZenonT(60), <1>6, <2>2
  <2> QED
    BY <1>7, <1>9, <2>1, <2>2, GetDefTypes
<1>10. CASE ExtendDef(r)
  <2>1. ASSUME DefResolvedTo(r, run[r].id, run[r].errors) PROVE run'[r].errors
    BY <1>2, <1>5, <2>1 DEF DefResolvedTo
  <2> QED
    BY <1>7, <1>10, <2>1, ExtendDefTypes
<1>11. CASE SubmitDef(r)
  <2>1. ASSUME run' = [run EXCEPT ![r] = Moved(run[r], run[r].errors, run[r].id, "insert")] PROVE run'[r].errors
    BY <1>2, <1>6, <2>1
  <2> QED
    BY <1>7, <1>11, <2>1, SubmitDefTypes
<1>12. CASE InsertDef(r)
  <2>1. ASSUME run' = [run EXCEPT ![r] = Moved(run[r], run[r].errors, Len(defs'), "activate")] PROVE run'[r].errors
    BY <1>2, <1>6, <2>1
  <2> QED
    BY <1>7, <1>12, <2>1, InsertDefTypes
<1>13. CASE ActivateDef(r)
  <2>1. DefResolvedTo(r, run[r].id, run[r].errors)
    BY <1>13, ActivateDefTypes
  <2> QED
    BY <1>2, <1>5, <2>1 DEF DefResolvedTo
<1> QED
  BY <1>1, <1>8, <1>9, <1>10, <1>11, <1>12, <1>13, QuietSteps DEF DefStep

(* A run without errors has the right relations after its step.            *)
LEMMA StepOwnRels ==
    ASSUME ConvInv, NEW r \in Runs, Step(r), r \notin disturbed', r \notin overlapped', ~run'[r].errors
    PROVE  OwnRels(r)
<1>1. TypeInv /\ SelfByName /\ Clean(r)
  <2>1. UNCHANGED disturbed /\ overlapped \subseteq overlapped'
    BY Underway, OverlapsGrow
  <2> QED
    BY <2>1 DEF ConvInv, BestInv, DupInv, Clean
<1>2. TypeInv' /\ RelsKept /\ SelfByName' /\ UNCHANGED plan
  BY <1>1, StepTypes, StepRels, Underway DEF worldVars
<1>3. ~run[r].errors
  BY <1>1, ErrorsStay
<1>4. /\ \A d \in Names : run[r].defIds[d] # 0 => RelsGood(r, d, run[r].defIds[d])
      /\ run[r].at = "activate" => RelsGood(r, run[r].name, run[r].id)
      /\ run[r].at = "extend" => RelsFit(r, run[r].name, run[r].id)
  BY <1>1, <1>3 DEF ConvInv, RelsResolved
<1>5. /\ run[r] \in Locals /\ DOMAIN run = Runs /\ run[r].errors \in BOOLEAN /\ Len(defs) \in Nat
      /\ run[r].at \in Found => run[r].id \in 1..Len(defs) /\ defs[run[r].id].name = run[r].name
  BY <1>1, LocalsTypes, IdsNow DEF TypeInv
<1>6. ASSUME run'[r].at \notin {"activate", "extend"}, \A d \in Names : run'[r].defIds[d] = run[r].defIds[d]
      PROVE  OwnRels(r)
  BY <1>1, <1>2, <1>4, <1>6, UnresolvedRels
<1>7. CASE Quiet(r)
  BY <1>1, <1>6, <1>7, QuietAfter DEF DefSteps
<1>8. ~DefFailedAt(r)
  BY <1>1, DefFailedAfter
<1>9. ASSUME NEW d \in Names, ListDefs(r, d) PROVE OwnRels(r)
  <2>1. run'[r].at \in {"defs", "submit", "get"} /\ run'[r].defIds = run[r].defIds
    <3>1. CASE run' = [run EXCEPT ![r] = DefDone(run[r], run[r].todo \ {d}, TRUE, run[r].defIds)]
      BY <1>5, <3>1 DEF DefDone, Locals
    <3>2. CASE \E id \in Nat : run' = [run EXCEPT ![r] = DefTaken(run[r], run[r].todo \ {d}, d, id, "submit")]
      BY <1>5, <3>2 DEF DefTaken, Locals
    <3>3. CASE \E id \in 1..Len(defs) :
                   run' = [run EXCEPT ![r] = DefTaken(run[r], run[r].todo \ {d}, d, id, "get")]
      BY <1>5, <3>3 DEF DefTaken, Locals
    <3> QED
      BY <1>1, <1>9, <3>1, <3>2, <3>3, ListDefsTypes
  <2> QED
    BY <1>6, <2>1
<1>10. CASE GetDef(r)
  <2>0. /\ run[r].at \in DefSteps /\ run[r].at \in Found /\ UNCHANGED defs
    BY <1>10 DEF GetDef, DefSteps, Found
  <2>1. PICK errors \in BOOLEAN :
            /\ errors = (run[r].errors \/ Stale(r))
            /\ \/ Missing(r) = {} /\ DefResolvedTo(r, run[r].id, errors)
               \/ run' = [run EXCEPT ![r] = Moved(run[r], errors, run[r].id, "extend")]
    BY <1>1, <1>8, <1>10, GetDefTypes
  <2>2. ~errors
    <3>1. CASE DefResolvedTo(r, run[r].id, errors)
      BY <1>1, <2>0, <3>1, DefResolvedAfter
    <3>2. CASE run' = [run EXCEPT ![r] = Moved(run[r], errors, run[r].id, "extend")]
      BY <1>5, <3>2 DEF Moved, Locals
    <3> QED
      BY <2>1, <3>1, <3>2
  <2>3. ~Stale(r)
    BY <2>1, <2>2
  <2>4. ASSUME NEW t \in plan.refs[run[r].name] \intersect DOMAIN defs[run[r].id].rels
        PROVE  defs[run[r].id].rels[t] \in {0, run[r].defIds[t]}
    <3>1. CASE t = run[r].name
      BY <1>1, <1>5, <2>0, <2>4, <3>1 DEF SelfByName
    <3>2. CASE t # run[r].name
      <4>1. run[r].defIds[t] # 0
        BY <1>1, <1>3, <2>0, <2>4, <3>2, NotYetResolved
      <4> QED
        BY <2>3, <2>4, <4>1 DEF Stale, Wanted
    <3> QED
      BY <3>1, <3>2
  <2>5. CASE Missing(r) = {} /\ DefResolvedTo(r, run[r].id, errors)
    <3>1. \A t \in plan.refs[run[r].name] :
              t \in DOMAIN defs'[run[r].id].rels /\ defs'[run[r].id].rels[t] \in {0, run[r].defIds[t]}
      BY <2>0, <2>4, <2>5 DEF Missing
    <3>2. run[r].id \in 1..Len(defs') /\ defs'[run[r].id].name = run[r].name
      BY <1>5, <2>0
    <3> QED
      BY <1>1, <1>2, <1>4, <2>0, <2>5, <3>1, <3>2, ResolvedRels
  <2>6. CASE run' = [run EXCEPT ![r] = Moved(run[r], errors, run[r].id, "extend")]
    <3>1. /\ run'[r].at = "extend" /\ run'[r].name = run[r].name /\ run'[r].id = run[r].id
          /\ run'[r].defIds = run[r].defIds
      BY <1>5, <2>6 DEF Moved, Locals
    <3>2. \A d, k : d = run'[r].name /\ k = run'[r].id => RelsFit(r, d, k)'
      BY <1>2, <2>0, <2>4, <3>1 DEF RelsFit
    <3> QED
      BY <1>1, <1>2, <1>4, <3>1, <3>2, UnresolvedRels
  <2> QED
    BY <2>1, <2>5, <2>6
<1>11. CASE ExtendDef(r)
  <2>0. /\ run[r].at \in DefSteps /\ run[r].at = "extend" /\ run[r].id \in 1..Len(defs)
    BY <1>5, <1>11 DEF ExtendDef, DefSteps, Found
  <2>1. /\ DefResolvedTo(r, run[r].id, run[r].errors) /\ Len(defs') = Len(defs)
    BY <1>1, <1>8, <1>11, ExtendDefTypes
  <2>2. ~UNCHANGED defs \/ Missing(r) = {}
    <3>1. defs'[run[r].id] = [defs[run[r].id] EXCEPT !.rels = Appended(run[r].id, Shipped(r, Missing(r)))]
      BY <1>1, <1>8, <1>11, ExtendDefTypes
    <3>2. defs[run[r].id] \in DefRows
      BY <1>1, <2>0, RowsFacts
    <3>3. defs'[run[r].id].rels = Appended(run[r].id, Shipped(r, Missing(r)))
      BY <3>1, <3>2 DEF DefRows
    <3>4. Missing(r) \subseteq DOMAIN defs'[run[r].id].rels
      BY <3>3 DEF Appended, Shipped
    <3> QED
      BY <3>4 DEF Missing
  <2>3. /\ defs'[run[r].id].name = run[r].name
        /\ \A t \in plan.refs[run[r].name] :
              t \in DOMAIN defs'[run[r].id].rels /\ defs'[run[r].id].rels[t] \in {0, run[r].defIds[t]}
    <3>1. CASE ~UNCHANGED defs
      <4>1. /\ defs'[run[r].id].name = run[r].name
            /\ DOMAIN defs'[run[r].id].rels = plan.refs[run[r].name]
            /\ \A t \in plan.refs[run[r].name] :
                  defs'[run[r].id].rels[t] = IF t \in DOMAIN defs[run[r].id].rels THEN defs[run[r].id].rels[t]
                                             ELSE run[r].defIds[t]
        BY <1>1, <1>11, <3>1, ExtendedRels
      <4> QED
        BY <1>4, <2>0, <4>1 DEF RelsFit
    <3>2. CASE UNCHANGED defs
      BY <1>4, <1>5, <2>0, <2>2, <3>2 DEF RelsFit, Missing, Found
    <3> QED
      BY <3>1, <3>2
  <2>4. run[r].id \in 1..Len(defs')
    BY <2>0, <2>1
  <2> QED
    BY <1>1, <1>2, <1>4, <1>5, <2>0, <2>1, <2>3, <2>4, ResolvedRels
<1>12. CASE SubmitDef(r)
  <2>1. run' = [run EXCEPT ![r] = Moved(run[r], run[r].errors, run[r].id, "insert")]
    BY <1>1, <1>8, <1>12, SubmitDefTypes
  <2>2. run'[r].at = "insert" /\ run'[r].defIds = run[r].defIds
    BY <1>5, <2>1 DEF Moved, Locals
  <2> QED
    BY <1>6, <2>2
<1>13. CASE InsertDef(r)
  <2>1. run' = [run EXCEPT ![r] = Moved(run[r], run[r].errors, Len(defs'), "activate")]
    BY <1>1, <1>8, <1>13, InsertDefTypes
  <2>2. /\ run'[r].at = "activate" /\ run'[r].defIds = run[r].defIds
        /\ run'[r].name = run[r].name /\ run'[r].id = Len(defs')
    BY <1>5, <2>1 DEF Moved, Locals
  <2>3. defs'[Len(defs')].rels = Shipped(r, plan.refs[run[r].name])
    BY <1>1, <1>13, InsertedRow
  <2>4. \A d, k : d = run'[r].name /\ k = run'[r].id => RelsGood(r, d, k)'
    BY <1>2, <2>2, <2>3 DEF RelsGood, Shipped, Wanted
  <2> QED
    BY <1>1, <1>2, <1>4, <2>2, <2>4, UnresolvedRels
<1>14. CASE ActivateDef(r)
  <2>0. run[r].at \in DefSteps /\ run[r].at = "activate" /\ run[r].id \in 1..Len(defs) /\ defs[run[r].id].name = run[r].name
    BY <1>5, <1>14 DEF ActivateDef, DefSteps, Found
  <2>1. DefResolvedTo(r, run[r].id, run[r].errors) /\ Len(defs') = Len(defs)
    BY <1>1, <1>14, ActivateDefTypes
  <2>2. DefsKept /\ defs'[run[r].id].rels = defs[run[r].id].rels
    BY <1>1, <1>14, <2>0, ActivateDefKept
  <2>3. defs'[run[r].id].name = run[r].name /\ run[r].id \in 1..Len(defs')
    BY <2>0, <2>1, <2>2 DEF DefsKept
  <2>4. \A t \in plan.refs[run[r].name] :
              t \in DOMAIN defs'[run[r].id].rels /\ defs'[run[r].id].rels[t] \in {0, run[r].defIds[t]}
    BY <1>4, <2>0, <2>2 DEF RelsGood
  <2> QED
    BY <1>1, <1>2, <1>4, <1>5, <2>0, <2>1, <2>3, <2>4, ResolvedRels
<1> QED
  BY <1>1, <1>7, <1>9, <1>10, <1>11, <1>12, <1>13, <1>14, QuietSteps DEF DefStep

(* So have the other runs.                                                 *)
LEMMA StepConv ==
    ASSUME ConvInv, NEW r \in Runs, Step(r)
    PROVE  ConvInv'
<1>1. TypeInv /\ OverlapsNoted /\ SelfByName /\ BestInv /\ RelsResolved
  BY DEF ConvInv, BestInv, DupInv
<1>2. BestInv' /\ SelfByName' /\ RelsKept /\ UNCHANGED <<plan, disturbed>> /\ Names' = Names
      /\ overlapped \subseteq overlapped'
  BY <1>1, StepBest, StepRels, Underway, OverlapsGrow DEF worldVars, Names
<1>3. RelsResolved'
  <2> SUFFICES ASSUME NEW q \in Runs, q \notin disturbed', q \notin overlapped', ~run'[q].errors
               PROVE  /\ \A d \in Names : run'[q].defIds[d] # 0 => RelsGood(q, d, run[q].defIds[d])'
                      /\ run'[q].at = "activate" => RelsGood(q, run[q].name, run[q].id)'
                      /\ run'[q].at = "extend" => RelsFit(q, run[q].name, run[q].id)'
    BY <1>2 DEF RelsResolved, Clean
  <2>1. CASE q = r
    <3>1. OwnRels(r)
      BY <2>1, StepOwnRels
    <3> QED
      BY <2>1, <3>1 DEF OwnRels
  <2>2. CASE q # r
    <3>1. run'[q] = run[q] /\ ~Active(q) /\ Clean(q)
      BY <1>1, <1>2, <2>2, OneRun, NobodyElse DEF Clean
    <3>2. ASSUME NEW d \in Names, run'[q].defIds[d] # 0 PROVE RelsGood(q, d, run[q].defIds[d])'
      <4>1. RelsGood(q, d, run[q].defIds[d]) /\ run[q].defIds[d] \in 1..Len(defs)
        <5>1. RelsGood(q, d, run[q].defIds[d])
          BY <1>1, <3>1, <3>2 DEF RelsResolved
        <5>2. run[q].defIds[d] <= Len(defs) /\ run[q].defIds[d] \in Nat /\ Len(defs) \in Nat
          BY <1>1, IdsNow, LocalsTypes DEF IdsOK
        <5> QED
          BY <3>1, <3>2, <5>1, <5>2
      <4>2. \A k : k = run[q].defIds[d] => RelsGood(q, d, k)'
        BY <1>1, <1>2, <3>1, <4>1, SameResolved
      <4> QED
        BY <3>1, <4>2
    <3> QED
      BY <3>1, <3>2 DEF Active
  <2> QED
    BY <2>1, <2>2
<1> QED
  BY <1>2, <1>3 DEF ConvInv

(* The merchant changes no relation.                                       *)
LEMMA DisturbedConv ==
    ASSUME ConvInv, BestInv', DefsKept, \A j \in 1..Len(defs) : defs'[j].rels = defs[j].rels,
           Disturbs, UNCHANGED <<plan, run, overlapped>>
    PROVE  ConvInv'
<1>1. Names' = Names /\ TypeInv
  BY DEF Names, ConvInv, BestInv, DupInv
<1>2. \A q \in Runs : q \notin disturbed' => run'[q].at = "idle" /\ \A d \in Names : run'[q].defIds[d] = 0
  BY <1>1, DisturbedOthers
<1>3. SelfByName'
  BY DEF ConvInv, SelfByName, DefsKept
<1> QED
  BY <1>1, <1>2, <1>3 DEF ConvInv, RelsResolved, Clean

(* Other steps change no definition.                                       *)
LEMMA QuietConv ==
    ASSUME ConvInv, BestInv', UNCHANGED <<plan, defs, disturbed, overlapped>>,
           \A r \in Runs : \/ run'[r] = run[r]
                           \/ run'[r].at = "dead" /\ \A d \in Names : run'[r].defIds[d] = 0
    PROVE  ConvInv'
<1>1. Names' = Names /\ SelfByName'
  BY DEF Names, ConvInv, SelfByName
<1>2. RelsResolved'
  <2> SUFFICES ASSUME NEW q \in Runs, Clean(q), ~run'[q].errors
               PROVE  /\ \A d \in Names : run'[q].defIds[d] # 0 => RelsGood(q, d, run[q].defIds[d])'
                      /\ run'[q].at = "activate" => RelsGood(q, run[q].name, run[q].id)'
                      /\ run'[q].at = "extend" => RelsFit(q, run[q].name, run[q].id)'
    BY <1>1 DEF RelsResolved, Clean
  <2>1. CASE run'[q] = run[q]
    <3>1. /\ \A d \in Names : run[q].defIds[d] # 0 => RelsGood(q, d, run[q].defIds[d])
          /\ run[q].at = "activate" => RelsGood(q, run[q].name, run[q].id)
          /\ run[q].at = "extend" => RelsFit(q, run[q].name, run[q].id)
      BY <2>1 DEF ConvInv, RelsResolved
    <3> QED
      BY <2>1, <3>1 DEF RelsGood, RelsFit
  <2>2. CASE run'[q].at = "dead" /\ \A d \in Names : run'[q].defIds[d] = 0
    BY <2>2
  <2> QED
    BY <2>1, <2>2
<1> QED
  BY <1>1, <1>2 DEF ConvInv

(* The invariant is inductive.                                             *)
LEMMA NextConv ==
    ASSUME ConvInv, [Next]_vars
    PROVE  ConvInv'
<1>0. TypeInv /\ BestInv /\ BestInv'
  BY NextBest DEF ConvInv, BestInv, DupInv
<1>1. ASSUME NEW r \in Runs, Step(r) PROVE ConvInv'
  BY <1>1, StepConv
<1>2. ASSUME NEW s \in Keys, RenameSource(s) PROVE ConvInv'
  <2>1. DefsKept /\ \A j \in 1..Len(defs) : defs'[j].rels = defs[j].rels
    BY <1>0, <1>2, RenameSourceTypes, UnchangedKept
  <2> QED
    BY <1>0, <1>2, <2>1, RenameSourceTypes, DisturbedConv
<1>3. ASSUME NEW i \in DOMAIN defs, NEW status \in Statuses, ChangeStatus(i, status) PROVE ConvInv'
  BY <1>0, <1>3, ChangeStatusTypes, ChangeStatusKept, DisturbedConv DEF worldVars
<1>4. CASE Crash
  BY <1>0, <1>4, CrashTypes, QuietConv DEF worldVars
<1>5. CASE UNCHANGED vars
  BY <1>0, <1>5, QuietConv DEF vars, worldVars
<1> QED
  BY <1>1, <1>2, <1>3, <1>4, <1>5 DEF Next

(* Nothing is resolved yet.                                                *)
LEMMA InitConv ==
    ASSUME Init
    PROVE  ConvInv
<1>1. \A r \in Runs : run[r] = Idle
  BY DEF Init
<1>2. RelsResolved
  BY <1>1, IdleTypes DEF RelsResolved
<1>3. SelfByName
  <2>1. \A i \in 1..Len(defs) : DOMAIN defs[i].rels = {}
    <3>1. PICK n \in 0..MaxOld : \E names \in [1..n -> Names] :
              defs = [i \in 1..n |-> [name |-> names[i], status |-> "active",
                                      rels |-> [t \in {} |-> 0],
                                      raced |-> \E j \in 1..(i - 1) : names[j] = names[i]]]
      BY DEF Init
    <3>2. n \in Nat
      BY ProvisioningBounds
    <3>3. \A i \in 1..n : defs[i].rels = [t \in {} |-> 0]
      BY <3>1
    <3>4. DOMAIN defs = 1..n /\ DOMAIN defs = 1..Len(defs)
      BY <3>1, InitTypes, Domains
    <3> QED
      BY <3>3, <3>4
  <2> QED
    BY <2>1 DEF SelfByName
<1> QED
  BY <1>2, <1>3, InitBest DEF ConvInv

(* At the end of a run without errors, all of the plan is resolved.        *)
LEMMA ConvConverges ==
    ASSUME ConvInv
    PROVE  CleanRunConverges
<1> SUFFICES ASSUME NEW r \in Runs, Alone(r), ~run[r].errors
             PROVE  /\ \A s \in Keys : run[r].sourceIds[s] # 0
                    /\ \A d \in Names : run[r].defIds[d] # 0
                    /\ \A d \in Names : \A t \in plan.refs[d] :
                           LET rels == defs[run[r].defIds[d]].rels IN
                           t \in DOMAIN rels /\ rels[t] \in {0, run[r].defIds[t]}
  BY DEF CleanRunConverges
<1>1. TypeInv /\ Clean(r) /\ run[r].at = "over" /\ LocalsOK(run[r])
  BY IdsNow DEF ConvInv, BestInv, DupInv, Alone, Clean
<1>2. \A n \in 1..Len(plan.sources) : run[r].sourceIds[plan.sources[n]] # 0
  BY <1>1, PlanTypes DEF LocalsOK, SourceSteps, TypeInv
<1>3. \A s \in Keys : \E n \in 1..Len(plan.sources) : s = plan.sources[n]
  <2>1. plan \in Plans /\ DOMAIN plan.sources = 1..Len(plan.sources)
    BY <1>1, PlanTypes DEF TypeInv
  <2> QED
    BY <2>1, PlansAssumption DEF Keys
<1>4. \A d \in Names : run[r].defIds[d] # 0
  <2>1. Open(run[r]) = {}
    BY <1>1 DEF Open, LocalsOK, DefSteps
  <2> QED
    BY <1>1, <2>1 DEF LocalsOK
<1>5. \A d \in Names : RelsGood(r, d, run[r].defIds[d])
  BY <1>1, <1>4 DEF ConvInv, RelsResolved
<1> QED
  BY <1>2, <1>3, <1>4, <1>5 DEF RelsGood

(* An undisturbed run that reports no error has resolved the whole plan,   *)
(* and every relation there is points to what it has resolved, or is a     *)
(* name (resolveCustomRelationTargets, ensureCustomDataDefinition).         *)
THEOREM CleanRunsConverge == Spec => []CleanRunConverges
<1>1. ConvInv /\ [Next]_vars => ConvInv'
  BY NextConv
<1> QED
  BY InitConv, <1>1, ConvConverges, PTL DEF Spec
=============================================================================

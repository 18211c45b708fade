---------------------------- MODULE Provisioning ----------------------------
(***************************************************************************)
(* runProvisioning of src/provisioning/runner.ts and the find-or-create    *)
(* operations of src/provisioning/ensure.ts, against the ShopiMind API.    *)
(*                                                                         *)
(* An action is one call to the API with the code up to the next call.     *)
(* Runs of one installation can overlap: a webhook takes no lock (see      *)
(* Lifecycle).  The API is external: what is modelled of it is what the    *)
(* comments of ensure.ts say of it.                                        *)
(***************************************************************************)
EXTENDS Naturals, Sequences, FiniteSets

CONSTANTS
    Plans,     \* plans an integration may declare, one of which it does:
               \* [sources: Seq(key), parent: key -> key or Null, stable: set of
               \*  keys with a stableConfigKey, refs: definition -> its custom
               \*  relations, invalid: definitions refused before any call,
               \*  events: set of code names]
    Runs,      \* calls of runProvisioning
    MaxRows,   \* bound on the rows of each table of the API
    MaxOld,    \* bound on the definitions there are already
    MaxLabel,  \* bound on the labels, which two sources may share
    Null

ASSUME PlansAssumption ==
    \A p \in Plans :
        /\ p.sources \in Seq(DOMAIN p.parent)
        /\ DOMAIN p.parent = {p.sources[n] : n \in DOMAIN p.sources}
        /\ p.stable \subseteq DOMAIN p.parent
        /\ \A d \in DOMAIN p.refs : p.refs[d] \subseteq DOMAIN p.refs

ASSUME ProvisioningBounds ==
    MaxRows \in Nat /\ MaxOld \in Nat /\ MaxLabel \in Nat /\ IsFiniteSet(Runs)

VARIABLES
    plan,      \* what integration.provisioning(ctx) returns, but for the labels
    label,     \* source key -> the label it has in the shop now
    sources,   \* the data sources of the API, in the order of their ids
    defs,      \* its custom data definitions, in the order of their ids
    run,       \* run -> its locals
    disturbed, \* history: runs that started before a change made by the merchant
    overlapped \* history: runs that were in progress together with another

worldVars == <<plan, label>>
vars == <<plan, label, sources, defs, run, disturbed, overlapped>>

Keys == DOMAIN plan.parent
Names == DOMAIN plan.refs

Statuses == {"creating", "active", "inactive", "deleted"}

Idle == [at |-> "idle", label |-> [s \in Keys |-> 0], next |-> 1, todo |-> {}, name |-> Null,
         id |-> 0, sourceIds |-> [s \in Keys |-> 0], defIds |-> [d \in Names |-> 0],
         events |-> {}, errors |-> FALSE]

Active(r) == run[r].at \notin {"idle", "over", "threw", "dead"}

Init ==
    /\ plan \in Plans
    /\ label \in [Keys -> 0..MaxLabel]
    /\ sources = <<>>
    \* What older versions of the integration, without relations, have left.
    /\ \E n \in 0..MaxOld : \E names \in [1..n -> Names] :
           defs = [i \in 1..n |-> [name |-> names[i], status |-> "active",
                                   rels |-> [t \in {} |-> 0],
                                   raced |-> \E j \in 1..(i - 1) : names[j] = names[i]]]
    /\ run = [r \in Runs |-> Idle]
    /\ disturbed = {} /\ overlapped = {}

-----------------------------------------------------------------------------
(* The locals of a run.                                                    *)

Becomes(r, locals) == run' = [run EXCEPT ![r] = locals]

Source(r) == plan.sources[run[r].next]

(* The loop over plan.dataSources: the next one, or the sort after the     *)
(* last one.                                                               *)
AfterSource(r, locals) ==
    Becomes(r, [locals EXCEPT !.next = run[r].next + 1, !.id = 0,
                              !.at = IF locals.next = Len(plan.sources) THEN "sort" ELSE "source"])

SourceResolved(r, id) == AfterSource(r, [run[r] EXCEPT !.sourceIds[Source(r)] = id])
SourceFailed(r) == AfterSource(r, [run[r] EXCEPT !.errors = TRUE])

AfterDef(r, locals) == Becomes(r, [locals EXCEPT !.at = "defs", !.name = Null, !.id = 0])
DefResolved(r, id, locals) == AfterDef(r, [locals EXCEPT !.defIds[run[r].name] = id])
DefFailed(r, locals) == AfterDef(r, [locals EXCEPT !.errors = TRUE])

Start(r) ==
    /\ run[r].at = "idle"
    /\ Becomes(r, [run[r] EXCEPT !.label = label, !.todo = Names, !.events = plan.events,
                                 !.at = IF plan.sources = <<>> THEN "sort" ELSE "source"])
    /\ overlapped' = IF \E q \in Runs : Active(q)
                     THEN overlapped \union {r} \union {q \in Runs : Active(q)}
                     ELSE overlapped
    /\ UNCHANGED <<worldVars, sources, defs, disturbed>>

-----------------------------------------------------------------------------
(* ensureDataSource.                                                       *)

(* Any listed source will do, one with another stable key too.             *)
HasLabel(i, r, s) == sources[i].label = run[r].label[s]

Mutant_ByStableKey_LabelOnly(r, s) ==
    {i \in DOMAIN sources : s \in plan.stable /\ HasLabel(i, r, s)}

(* Match first on config[stableConfigKey], which survives a rename.        *)
ByStableKey(r, s) == {i \in DOMAIN sources : s \in plan.stable /\ sources[i].key = s}

ByLabel(r, s) == {i \in DOMAIN sources : HasLabel(i, r, s)}

(* SpmDataSources.list, and find: the listing promises no order.           *)
ListSources(r) ==
    /\ run[r].at = "source"
    /\ LET s == Source(r) IN
       \/ SourceFailed(r)
       \/ \E i \in ByStableKey(r, s) :
              IF HasLabel(i, r, s) THEN SourceResolved(r, i)
              ELSE Becomes(r, [run[r] EXCEPT !.at = "relabel", !.id = i])
       \/ /\ ByStableKey(r, s) = {}
          /\ \E i \in ByLabel(r, s) : SourceResolved(r, i)
       \/ /\ ByStableKey(r, s) \union ByLabel(r, s) = {}
          /\ Becomes(r, [run[r] EXCEPT !.at = "create"])
    /\ UNCHANGED <<worldVars, sources, defs, disturbed, overlapped>>

(* The envelope of SpmDataSources.update is not looked at.                 *)
UpdateLabel(r) ==
    /\ run[r].at = "relabel"
    /\ \/ UNCHANGED sources
       \/ sources' = [sources EXCEPT ![run[r].id].label = run[r].label[Source(r)]]
    /\ SourceResolved(r, run[r].id)
    /\ UNCHANGED <<worldVars, defs, disturbed, overlapped>>

ParentId(r, s) ==
    IF plan.parent[s] \in Keys THEN run[r].sourceIds[plan.parent[s]] ELSE 0

(* SpmDataSources.create, whose answer may be an error although the source *)
(* has been created.                                                       *)
CreateSource(r) ==
    /\ run[r].at = "create"
    /\ LET s == Source(r) IN
       \/ SourceFailed(r) /\ UNCHANGED sources
       \/ /\ Len(sources) < MaxRows
          /\ sources' = Append(sources, [key |-> s, label |-> run[r].label[s],
                                         parent |-> ParentId(r, s), raced |-> r \in overlapped])
          /\ SourceResolved(r, Len(sources')) \/ SourceFailed(r)
    /\ UNCHANGED <<worldVars, defs, disturbed, overlapped>>

-----------------------------------------------------------------------------
(* The order of the definitions.                                           *)

Siblings(d) == plan.refs[d] \ {d}

(* A set of definitions each of which refers to another one of the set.    *)
Cyclic == \E C \in SUBSET Names : C # {} /\ \A d \in C : Siblings(d) \intersect C # {}

(* topoSortCustomData, whose throw leaves runProvisioning.                 *)
SortDefs(r) ==
    /\ run[r].at = "sort"
    /\ Becomes(r, [run[r] EXCEPT !.at = IF Cyclic THEN "threw" ELSE "defs"])
    /\ UNCHANGED <<worldVars, sources, defs, disturbed, overlapped>>

(* The sorted plan is walked: any order with the siblings a definition     *)
(* refers to before it (the code keeps the declaration order otherwise).   *)
Sorted(r, d) == d \in run[r].todo /\ Siblings(d) \intersect run[r].todo = {}

(* validateCustomDataDefinition throws before any call.                    *)
RefuseDef(r, d) ==
    /\ run[r].at = "defs" /\ Sorted(r, d) /\ d \in plan.invalid
    /\ Becomes(r, [run[r] EXCEPT !.todo = @ \ {d}, !.errors = TRUE])
    /\ UNCHANGED <<worldVars, sources, defs, disturbed, overlapped>>

-----------------------------------------------------------------------------
(* ensureCustomDataDefinition.                                             *)

Rank(status) == CASE status = "active" -> 3 [] status = "inactive" -> 2 [] OTHER -> 1

(* Rows of that name that have not been deleted.                           *)
Usable(d) == {i \in DOMAIN defs : defs[i].name = d /\ defs[i].status # "deleted"}

Mutant_Better_IdOnly(i, j) == i < j

Better(i, j) ==
    \/ Rank(defs[i].status) > Rank(defs[j].status)
    \/ Rank(defs[i].status) = Rank(defs[j].status) /\ i < j

(* findDefinition: the most usable status, then the lowest id.             *)
FindDefinition(d) ==
    IF Usable(d) = {} THEN 0
    ELSE CHOOSE i \in Usable(d) : \A j \in Usable(d) \ {i} : Better(i, j)

ListDefs(r, d) ==
    /\ run[r].at = "defs" /\ Sorted(r, d) /\ d \notin plan.invalid
    /\ LET taken == [run[r] EXCEPT !.todo = @ \ {d}, !.name = d] IN
       \/ DefFailed(r, taken)
       \/ Becomes(r, [taken EXCEPT !.id = FindDefinition(d),
                                   !.at = IF FindDefinition(d) = 0 THEN "submit" ELSE "get"])
    /\ UNCHANGED <<worldVars, sources, defs, disturbed, overlapped>>

(* resolveCustomRelationTargets: the id of the sibling, or 0, which stands *)
(* for its name, left as it is when the sibling has not been resolved.     *)
Wanted(r, t) == run[r].defIds[t]

Live(i) == i \in DOMAIN defs /\ defs[i].status # "deleted"

Mutant_Missing_Everything(r) == Names \ DOMAIN defs[run[r].id].rels

Missing(r) == plan.refs[run[r].name] \ DOMAIN defs[run[r].id].rels

Mutant_Stale_Unreported(r) == FALSE

(* A stored target that is not the one the plan resolves to, when both     *)
(* are numeric.                                                            *)
Stale(r) ==
    \E t \in plan.refs[run[r].name] \intersect DOMAIN defs[run[r].id].rels :
        LET stored == defs[run[r].id].rels[t] IN
        stored # 0 /\ Wanted(r, t) # 0 /\ stored # Wanted(r, t)

(* SpmCustomDataDefinitions.get: an error for a definition that has been   *)
(* deleted since the listing.                                              *)
GetDef(r) ==
    /\ run[r].at = "get"
    /\ \/ DefFailed(r, run[r])
       \/ /\ Live(run[r].id)
          /\ LET seen == [run[r] EXCEPT !.errors = @ \/ Stale(r)] IN
             IF Missing(r) = {} THEN DefResolved(r, run[r].id, seen)
             ELSE Becomes(r, [seen EXCEPT !.at = "extend"])
    /\ UNCHANGED <<worldVars, sources, defs, disturbed, overlapped>>

Shipped(r, targets) == [t \in targets |-> Wanted(r, t)]

(* The API only appends.                                                   *)
Appended(i, rels) ==
    [t \in DOMAIN defs[i].rels \union DOMAIN rels |->
        IF t \in DOMAIN defs[i].rels THEN defs[i].rels[t] ELSE rels[t]]

(* SpmCustomDataDefinitions.extend with what the definition lacks.         *)
ExtendDef(r) ==
    /\ run[r].at = "extend"
    /\ \/ DefFailed(r, run[r]) /\ UNCHANGED defs
       \/ /\ Live(run[r].id)
          /\ defs' = [defs EXCEPT ![run[r].id].rels = Appended(run[r].id, Shipped(r, Missing(r)))]
          /\ DefResolved(r, run[r].id, run[r]) \/ DefFailed(r, run[r])
    /\ UNCHANGED <<worldVars, sources, disturbed, overlapped>>

(* SpmCustomDataDefinitions.create: names are checked in application code, *)
(* among the definitions that are not deleted, before the row is inserted. *)
SubmitDef(r) ==
    /\ run[r].at = "submit"
    /\ \/ DefFailed(r, run[r])
       \/ Usable(run[r].name) = {} /\ Becomes(r, [run[r] EXCEPT !.at = "insert"])
    /\ UNCHANGED <<worldVars, sources, defs, disturbed, overlapped>>

InsertDef(r) ==
    /\ run[r].at = "insert" /\ Len(defs) < MaxRows
    /\ defs' = Append(defs, [name |-> run[r].name, status |-> "creating",
                             rels |-> Shipped(r, plan.refs[run[r].name]),
                             raced |-> r \in overlapped])
    /\ \/ Becomes(r, [run[r] EXCEPT !.at = "activate", !.id = Len(defs')])
       \/ DefFailed(r, run[r])
    /\ UNCHANGED <<worldVars, sources, disturbed, overlapped>>

(* Activation is best effort: a failure is a warning, and a 409 is fine.   *)
ActivateDef(r) ==
    /\ run[r].at = "activate"
    /\ \/ UNCHANGED defs
       \/ /\ defs[run[r].id].status = "creating"
          /\ defs' = [defs EXCEPT ![run[r].id].status = "active"]
    /\ DefResolved(r, run[r].id, run[r])
    /\ UNCHANGED <<worldVars, sources, disturbed, overlapped>>

-----------------------------------------------------------------------------
(* The rest of the plan, and the end of a run.                             *)

(* validateProvisioningEvents and ensureEvent, which tolerates a 409.      *)
EnsureEvent(r) ==
    /\ run[r].at = "defs" /\ run[r].todo = {}
    /\ \E e \in run[r].events, failed \in BOOLEAN :
           Becomes(r, [run[r] EXCEPT !.events = @ \ {e}, !.errors = @ \/ failed])
    /\ UNCHANGED <<worldVars, sources, defs, disturbed, overlapped>>

(* SpmOrdersStatuses.bulkSave, then the result is returned.                *)
SaveOrderStatuses(r) ==
    /\ run[r].at = "defs" /\ run[r].todo = {} /\ run[r].events = {}
    /\ \E failed \in BOOLEAN :
           Becomes(r, [run[r] EXCEPT !.at = "over", !.errors = @ \/ failed])
    /\ UNCHANGED <<worldVars, sources, defs, disturbed, overlapped>>

(* The process dies: nothing of the runs is left but what the API has.     *)
Crash ==
    /\ \E r \in Runs : Active(r)
    /\ run' = [r \in Runs |-> IF Active(r) THEN [Idle EXCEPT !.at = "dead"] ELSE run[r]]
    /\ UNCHANGED <<worldVars, sources, defs, disturbed, overlapped>>

-----------------------------------------------------------------------------
(* The merchant.                                                           *)

Disturbs == disturbed' = disturbed \union {r \in Runs : run[r].at # "idle"}

RenameSource(s) ==
    /\ \E n \in 0..MaxLabel \ {label[s]} : label' = [label EXCEPT ![s] = n]
    /\ Disturbs
    /\ UNCHANGED <<plan, sources, defs, run, overlapped>>

(* A logical delete, a deactivation, a reactivation.                       *)
ChangeStatus(i, status) ==
    /\ <<defs[i].status, status>> \in {<<"creating", "deleted">>, <<"active", "deleted">>,
           <<"inactive", "deleted">>, <<"active", "inactive">>, <<"inactive", "active">>}
    /\ defs' = [defs EXCEPT ![i].status = status]
    /\ Disturbs
    /\ UNCHANGED <<worldVars, sources, run, overlapped>>

-----------------------------------------------------------------------------
Step(r) ==
    \/ Start(r)
    \/ ListSources(r) \/ UpdateLabel(r) \/ CreateSource(r) \/ SortDefs(r)
    \/ \E d \in Names : RefuseDef(r, d) \/ ListDefs(r, d)
    \/ GetDef(r) \/ ExtendDef(r) \/ SubmitDef(r) \/ InsertDef(r) \/ ActivateDef(r)
    \/ EnsureEvent(r) \/ SaveOrderStatuses(r)

Next ==
    \/ \E r \in Runs : Step(r)
    \/ \E s \in Keys : RenameSource(s)
    \/ \E i \in DOMAIN defs, status \in Statuses : ChangeStatus(i, status)
    \/ Crash

Spec == Init /\ [][Next]_vars

-----------------------------------------------------------------------------
(* Properties.                                                             *)

(* Every variable keeps its type.                                          *)
TypeOK ==
    /\ plan \in Plans /\ label \in [Keys -> Nat]
    /\ \A i \in DOMAIN sources :
           /\ sources[i].key \in Keys /\ sources[i].label \in Nat
           /\ sources[i].parent \in 0..Len(sources)
    /\ \A i \in DOMAIN defs :
           /\ defs[i].name \in Names /\ defs[i].status \in Statuses
           /\ DOMAIN defs[i].rels \subseteq plan.refs[defs[i].name]
           /\ \A t \in DOMAIN defs[i].rels : defs[i].rels[t] \in 0..Len(defs)
    /\ \A r \in Runs :
           /\ run[r].sourceIds \in [Keys -> 0..Len(sources)]
           /\ run[r].defIds \in [Names -> 0..Len(defs)]
           /\ run[r].todo \subseteq Names /\ run[r].events \subseteq plan.events
    /\ disturbed \subseteq Runs /\ overlapped \subseteq Runs

(* "a rename no longer spawns a duplicate" (ensure.ts): whatever fails,    *)
(* crashes, is applied without an answer or is renamed in between, a       *)
(* source with a stable key is created twice, and a definition has two     *)
(* rows that are not deleted, only by runs that overlap.                   *)
NoDuplicates ==
    /\ \A i, j \in DOMAIN sources :
           i < j /\ sources[i].key = sources[j].key /\ sources[i].key \in plan.stable
               => sources[i].raced \/ sources[j].raced
    /\ \A i, j \in DOMAIN defs :
           i < j /\ defs[i].name = defs[j].name /\ Live(i) /\ Live(j)
               => defs[i].raced \/ defs[j].raced

Alone(r) == run[r].at = "over" /\ r \notin disturbed /\ r \notin overlapped

(* "the most usable status wins [...] on a tie, the LOWEST id wins": the   *)
(* definition a run has resolved is, when nobody interfered, one that has  *)
(* not been deleted; no other one of that name is active if it is not, and *)
(* none with a lower id has its status; through the runs after it.         *)
ResolvesBest ==
    \A r \in Runs, d \in Names : Alone(r) /\ run[r].defIds[d] # 0 =>
        LET id == run[r].defIds[d] IN
        /\ Live(id)
        /\ \A j \in DOMAIN defs : defs[j].name = d /\ j # id =>
               /\ defs[j].status = "active" => defs[id].status = "active"
               /\ j < id => defs[j].status # defs[id].status

(* "Convergent provisioning": a run that nobody interfered with and that   *)
(* reports no error has resolved the whole plan, and every relation points *)
(* at the definition it has resolved; but for those whose target some run  *)
(* left as a name, which a later run neither replaces nor reports.         *)
CleanRunConverges ==
    \A r \in Runs : Alone(r) /\ ~run[r].errors =>
        /\ \A s \in Keys : run[r].sourceIds[s] # 0
        /\ \A d \in Names : run[r].defIds[d] # 0
        /\ \A d \in Names : \A t \in plan.refs[d] :
               LET rels == defs[run[r].defIds[d]].rels IN
               t \in DOMAIN rels /\ rels[t] \in {0, run[r].defIds[t]}

=============================================================================

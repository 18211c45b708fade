--------------------------- MODULE LifecycleProofs ---------------------------
(***************************************************************************)
(* Theorems about Lifecycle: for every set of deliveries and signatures,   *)
(* every payload, every set of jobs and every provisioning plan.           *)
(***************************************************************************)
EXTENDS Lifecycle, TLAPS

-----------------------------------------------------------------------------
(* Frames.                                                                 *)

Frames == [pc: PCs, hooking: BOOLEAN, base: SUBSET Mapped, got: SUBSET Resources,
           sees: SUBSET Mapped, secret: Actors \union {Null}]

(* A hook is called with the context that its actor has built.             *)
HookHasSecret == \A a \in Actors : At(a, "hook") => frame[a].secret # Null

TypeInv == TypeOK /\ HookHasSecret

OthersStand(a) == \A b \in Actors \ {a} : frame'[b] = frame[b]

(* The parts of an actor's frame.                                          *)
LEMMA FrameTypes ==
    ASSUME TypeOK, NEW a \in Actors
    PROVE  /\ frame[a] \in Frames /\ frame[a].pc \in PCs /\ Idle \in Frames
           /\ frame[a].hooking \in BOOLEAN /\ frame[a].base \subseteq Mapped
           /\ frame[a].got \subseteq Resources /\ frame[a].sees \subseteq Mapped
           /\ frame[a].secret \in Actors \union {Null}
BY DEF TypeOK, Frames, Idle, PCs

(* An actor that goes on keeps its locals, and loses them when it is over. *)
LEMMA GoesMoves ==
    ASSUME TypeOK, NEW a \in Actors, NEW p \in PCs, Goes(a, p)
    PROVE  /\ frame' \in [Actors -> Frames] /\ OthersStand(a)
           /\ frame'[a].pc = p
           /\ p # "over" => /\ frame'[a].hooking = frame[a].hooking /\ frame'[a].base = frame[a].base
                            /\ frame'[a].got = frame[a].got /\ frame'[a].sees = frame[a].sees
                            /\ frame'[a].secret = frame[a].secret
           /\ p = "over" => ~frame'[a].hooking /\ frame'[a].got = {}
<1>1. Placed(a, p) \in Frames /\ Placed(a, p).pc = p
  BY FrameTypes DEF Placed, Idle, Frames
<1>2. frame \in [Actors -> Frames]
  BY DEF TypeOK, Frames
<1>3. frame'[a] = Placed(a, p) /\ OthersStand(a) /\ frame' \in [Actors -> Frames]
  BY <1>1, <1>2 DEF Goes, OthersStand
<1> QED
  BY <1>1, <1>3, FrameTypes DEF Placed, Idle, Frames

-----------------------------------------------------------------------------
(* Type correctness.                                                       *)

(* What a delivery brings, and where its handler begins and goes on.       *)
LEMMA BodyTypes ==
    ASSUME TypeOK, NEW d \in Deliveries
    PROVE  /\ SigOf[d] \in Sigs /\ Body(d) \in [event: Events, token: BOOLEAN, configs: BOOLEAN]
           /\ Body(d).event \in Events /\ Body(d).token \in BOOLEAN /\ Body(d).configs \in BOOLEAN
           /\ FirstStep(Body(d).event) \in {"token", "secrets", "finding"}
           /\ AfterConfigs(d) \in {"answering", "context"}
           /\ Target(d) \in {"uninstalled", "inactive"}
<1>1. SigOf[d] \in Sigs /\ Body(d) \in [event: Events, token: BOOLEAN, configs: BOOLEAN]
  BY ActorsAssumption, PayloadsAssumption DEF TypeOK, Body
<1> QED
  BY <1>1 DEF Events, FirstStep, AfterConfigs, Target

(* A throw takes a delivery to its catch, and a job to its end.            *)
LEMMA CatchTypes ==
    ASSUME TypeOK, NEW a \in Actors, NEW p \in Catches(a)
    PROVE  /\ p \in {"over", "releasing", "answering"}
           /\ a \in Jobs <=> p = "over"
<1>1. a \in Jobs <=> a \notin Deliveries
  BY ActorsAssumption DEF Actors, Jobs
<1>2. CASE a \in Jobs
  BY <1>1, <1>2 DEF Catches
<1>3. CASE a \notin Jobs
  BY <1>1, <1>3 DEF Catches
<1> QED
  BY <1>2, <1>3

(* The frames of the other actors, and where an actor can go.              *)
ActorStep(a) ==
    \/ a \in Deliveries /\ Webhook(a)
    \/ Shared(a)
    \/ a \in Jobs /\ (StartJob(a) \/ JobRefused(a))
    \/ a \in Syncs /\ (Snapshot(a) \/ SyncEnds(a))

(* Every step is one actor's, or a crash.                                  *)
LEMMA NextSteps ==
    ASSUME [Next]_vars
    PROVE  (\E a \in Actors : ActorStep(a)) \/ Crash \/ UNCHANGED vars
BY DEF Next, ActorStep, Actors, Jobs, Done

(* A context that is built sees the map and the secret of that moment.     *)
LEMMA ContextTypes ==
    ASSUME TypeInv, NEW a \in Actors, Context(a) \/ StoreSecret(a)
    PROVE  /\ frame' \in [Actors -> Frames] /\ OthersStand(a)
           /\ frame'[a].hooking = frame[a].hooking /\ frame'[a].got = frame[a].got
           /\ Context(a) => /\ frame'[a].sees = ids /\ frame'[a].secret = secret
                            /\ frame'[a].pc = IF secret = Null THEN "storing" ELSE AfterContext(a)
           /\ StoreSecret(a) => /\ frame'[a].sees = frame[a].sees /\ frame'[a].secret = a
                                /\ frame'[a].pc = AfterContext(a)
           /\ frame'[a].base = frame[a].base
           /\ AfterContext(a) \in {"hook", "snapshot", "testing", "provisioning"}
<1>1. /\ frame \in [Actors -> Frames] /\ frame[a] \in Frames /\ ids \subseteq Mapped
      /\ secret \in Actors \union {Null}
  BY DEF TypeInv, TypeOK, Frames
<1>2. AfterContext(a) \in {"hook", "snapshot", "testing", "provisioning"}
  BY DEF AfterContext
<1>3. CASE Context(a)
  <2>1. PICK p \in {"storing", AfterContext(a)} :
            p = IF secret = Null THEN "storing" ELSE AfterContext(a)
    OBVIOUS
  <2>2. frame' = [frame EXCEPT ![a] = [frame[a] EXCEPT !.sees = ids, !.secret = secret, !.pc = p]]
    BY <1>1, <1>3, <2>1 DEF Context
  <2>3. [frame[a] EXCEPT !.sees = ids, !.secret = secret, !.pc = p] \in Frames
    BY <1>1, <1>2, <2>1 DEF Frames, PCs
  <2> QED
    BY <1>1, <1>2, <1>3, <2>1, <2>2, <2>3 DEF OthersStand, Frames, Context, StoreSecret, At
<1>4. CASE StoreSecret(a)
  <2>1. PICK p \in {"hook", "snapshot", "testing", "provisioning"} : p = AfterContext(a)
    BY <1>2
  <2>2. frame' = [frame EXCEPT ![a] = [frame[a] EXCEPT !.secret = a, !.pc = p]]
    BY <1>1, <1>4, <2>1 DEF StoreSecret
  <2>3. [frame[a] EXCEPT !.secret = a, !.pc = p] \in Frames
    BY <1>1, <2>1 DEF Frames, PCs
  <2> QED
    BY <1>1, <1>2, <1>4, <2>1, <2>2, <2>3 DEF OthersStand, Frames, Context, StoreSecret, At
<1> QED
  BY <1>3, <1>4

(* Provisioning, and the read and the write of persistProvisioningMap.     *)
LEMMA MapTypes ==
    ASSUME TypeInv, NEW a \in Actors,
           Provision(a) \/ ReadMap(a) \/ ReadMapFails(a) \/ WriteMap(a)
    PROVE  /\ frame' \in [Actors -> Frames] /\ OthersStand(a)
           /\ Merged(a) \subseteq Mapped /\ AfterMap(a) \in {"over", "refusing", "context"}
           /\ Provision(a) => frame'[a].pc = "reading" /\ frame'[a].hooking = frame[a].hooking
           /\ ReadMap(a) => /\ frame'[a].pc = "writing" /\ frame'[a].base = ids
                            /\ frame'[a].hooking = frame[a].hooking /\ frame'[a].got = frame[a].got
           /\ ReadMapFails(a) => /\ frame'[a].pc = "writing"
                                 /\ frame'[a].hooking = frame[a].hooking /\ frame'[a].got = frame[a].got
           /\ WriteMap(a) => /\ frame'[a].pc = AfterMap(a)
                             /\ frame'[a].hooking => frame'[a].pc = "context"
                             /\ frame'[a].got \subseteq frame[a].got
<1>1. /\ frame \in [Actors -> Frames] /\ frame[a] \in Frames /\ ids \subseteq Mapped
      /\ frame[a].got \subseteq Resources /\ frame[a].base \subseteq Mapped
      /\ Idle \in Frames
  BY FrameTypes DEF TypeInv, TypeOK, Frames
<1>2. Merged(a) \subseteq Mapped /\ AfterMap(a) \in {"over", "refusing", "context"}
  BY <1>1 DEF Merged, AfterMap
<1>3. ASSUME Provision(a)
      PROVE  /\ frame' \in [Actors -> Frames] /\ OthersStand(a)
             /\ frame'[a].pc = "reading" /\ frame'[a].hooking = frame[a].hooking
  <2>1. PICK got \in SUBSET Resources :
            frame' = [frame EXCEPT ![a] = [frame[a] EXCEPT !.got = got, !.pc = "reading"]]
    BY <1>1, <1>3 DEF Provision
  <2>2. [frame[a] EXCEPT !.got = got, !.pc = "reading"] \in Frames
    BY <1>1 DEF Frames, PCs
  <2> QED
    BY <1>1, <2>1, <2>2 DEF OthersStand, Frames
<1>4. ASSUME ReadMap(a)
      PROVE  /\ frame' \in [Actors -> Frames] /\ OthersStand(a)
             /\ frame'[a].pc = "writing" /\ frame'[a].base = ids
             /\ frame'[a].hooking = frame[a].hooking /\ frame'[a].got = frame[a].got
  BY <1>1, <1>4 DEF ReadMap, OthersStand, Frames, PCs
<1>5. ASSUME ReadMapFails(a)
      PROVE  /\ frame' \in [Actors -> Frames] /\ OthersStand(a)
             /\ frame'[a].pc = "writing"
             /\ frame'[a].hooking = frame[a].hooking /\ frame'[a].got = frame[a].got
  BY <1>1, <1>5 DEF ReadMapFails, OthersStand, Frames, PCs
<1>6. ASSUME WriteMap(a)
      PROVE  /\ frame' \in [Actors -> Frames] /\ OthersStand(a)
             /\ frame'[a].pc = AfterMap(a) /\ frame'[a].got \subseteq frame[a].got
             /\ frame'[a].hooking => frame'[a].pc = "context"
  <2>1. PICK p \in {"over", "refusing", "context"} : p = AfterMap(a)
    BY <1>2
  <2>2. /\ Placed(a, p) \in Frames /\ Placed(a, p).pc = p
        /\ Placed(a, p).got \subseteq frame[a].got
    BY <1>1, <2>1 DEF Placed, Frames, PCs, Idle
  <2>3. PICK f \in Frames : f = Placed(a, p)
    BY <2>2
  <2>4. frame' = [frame EXCEPT ![a] = [f EXCEPT !.base = {}, !.hooking = (p = "context")]]
    BY <1>6, <2>1, <2>3 DEF WriteMap
  <2> QED
    BY <1>1, <2>1, <2>2, <2>3, <2>4 DEF OthersStand, Frames
<1> QED
  BY <1>2, <1>3, <1>4, <1>5, <1>6
(* The moves of a webhook through its handler.                             *)
LEMMA WebhookMoves ==
    ASSUME TypeInv, NEW d \in Deliveries, Webhook(d), ~SetStatus(d)
    PROVE  \E p \in PCs \ {"hook"} : Goes(d, p)
<1>1. /\ FirstStep(Body(d).event) \in {"token", "secrets", "finding"}
      /\ AfterConfigs(d) \in {"answering", "context"}
  BY BodyTypes DEF TypeInv
<1> QED
  BY <1>1
  DEF Webhook, Refuse, Accept, Claim, Begins, ClaimThrows, Succeed, Release, ReleaseThrows, SetToken,
      Upsert, SaveSecrets, SavePlain, TestConnection, Refused, Hook, Activate, Find, PCs

(* A status that has been set is followed by the hook.                     *)
LEMMA SetStatusMoves ==
    ASSUME TypeInv, NEW d \in Deliveries, SetStatus(d)
    PROVE  /\ frame' \in [Actors -> Frames] /\ OthersStand(d)
           /\ frame'[d].pc = "context" /\ frame'[d].hooking /\ frame'[d].got = frame[d].got
<1>1. frame \in [Actors -> Frames] /\ d \in Actors /\ frame[d] \in Frames
  BY DEF TypeInv, TypeOK, Frames, Actors
<1>2. frame' = [frame EXCEPT ![d] = [frame[d] EXCEPT !.pc = "context", !.hooking = TRUE]]
  BY <1>1 DEF SetStatus
<1> QED
  BY <1>1, <1>2 DEF OthersStand, Frames, PCs

(* The steps that only take an actor elsewhere.                            *)
LEMMA OtherMoves ==
    ASSUME TypeInv, NEW a \in Actors,
           Throws(a) \/ StartJob(a) \/ JobRefused(a) \/ SyncEnds(a)
    PROVE  \E p \in {"over", "releasing", "answering", "context"} : Goes(a, p)
BY CatchTypes DEF TypeInv, Throws, StartJob, JobRefused, SyncEnds

(* A sync takes its snapshot of the map.                                   *)
LEMMA SnapshotMoves ==
    ASSUME TypeInv, NEW a \in Actors, Snapshot(a)
    PROVE  /\ frame' \in [Actors -> Frames] /\ OthersStand(a)
           /\ frame'[a].pc = "syncing" /\ frame'[a].sees = ids
           /\ frame'[a].hooking = frame[a].hooking /\ frame'[a].got = frame[a].got
<1>1. frame \in [Actors -> Frames] /\ frame[a] \in Frames /\ ids \subseteq Mapped
  BY DEF TypeInv, TypeOK, Frames
<1> QED
  BY <1>1 DEF Snapshot, OthersStand, Frames, PCs

(* A step moves one frame and leaves the others.                           *)
LEMMA StepMoves ==
    ASSUME TypeInv, NEW a \in Actors, ActorStep(a)
    PROVE  frame' \in [Actors -> Frames] /\ OthersStand(a)
<1>1. TypeOK
  BY DEF TypeInv
<1>2. ASSUME NEW p \in PCs, Goes(a, p) PROVE frame' \in [Actors -> Frames] /\ OthersStand(a)
  BY <1>1, <1>2, GoesMoves
<1>3. CASE a \in Deliveries /\ Webhook(a)
  BY <1>2, <1>3, WebhookMoves, SetStatusMoves
<1>4. CASE Context(a) \/ StoreSecret(a)
  BY <1>4, ContextTypes
<1>5. CASE Provision(a) \/ ReadMap(a) \/ ReadMapFails(a) \/ WriteMap(a)
  BY <1>5, MapTypes
<1>6. CASE Throws(a) \/ StartJob(a) \/ JobRefused(a) \/ SyncEnds(a)
  BY <1>2, <1>6, OtherMoves DEF PCs
<1>7. CASE Snapshot(a)
  BY <1>7, SnapshotMoves
<1> QED
  BY <1>3, <1>4, <1>5, <1>6, <1>7 DEF ActorStep, Shared

(* A hook is given a secret.                                               *)
LEMMA HookHasSecretNext ==
    ASSUME TypeInv, NEW a \in Actors, ActorStep(a)
    PROVE  HookHasSecret'
<1>0. TypeOK /\ OthersStand(a) /\ (At(a, "hook") => frame[a].secret # Null)
      /\ Null \notin Actors
  BY StepMoves, ActorsAssumption DEF TypeInv, HookHasSecret
<1> SUFFICES At(a, "hook")' => frame'[a].secret # Null
  BY <1>0 DEF HookHasSecret, OthersStand, TypeInv, At
<1>1. ASSUME NEW p \in PCs \ {"hook"}, Goes(a, p) PROVE ~At(a, "hook")'
  BY <1>0, <1>1, GoesMoves DEF At
<1>2. CASE a \in Deliveries /\ Webhook(a)
  BY <1>1, <1>2, WebhookMoves, SetStatusMoves DEF At
<1>3. CASE Context(a) \/ StoreSecret(a)
  BY <1>0, <1>3, ContextTypes DEF At
<1>4. CASE Provision(a) \/ ReadMap(a) \/ ReadMapFails(a) \/ WriteMap(a)
  BY <1>4, MapTypes DEF At
<1>5. CASE Throws(a) \/ StartJob(a) \/ JobRefused(a) \/ SyncEnds(a)
  BY <1>1, <1>5, OtherMoves DEF PCs
<1>6. CASE Snapshot(a)
  BY <1>6, SnapshotMoves DEF At
<1> QED
  BY <1>2, <1>3, <1>4, <1>5, <1>6 DEF ActorStep, Shared

(* A step keeps the types, and hooks have their secret.                    *)
LEMMA StepTypes == ASSUME TypeInv, NEW a \in Actors, ActorStep(a) PROVE TypeInv'
<1> USE DEF tables, history
<1>0. TypeOK /\ frame' \in [Actors -> Frames] /\ HookHasSecret'
  BY StepMoves, HookHasSecretNext DEF TypeInv
<1>1. CASE a \in Deliveries /\ (Refuse(a) \/ Accept(a) \/ ClaimThrows(a) \/ Succeed(a)
                                \/ Release(a) \/ ReleaseThrows(a))
  BY <1>0, <1>1, BodyTypes
  DEF TypeInv, TypeOK, Frames, Refuse, Accept, ClaimThrows, Succeed, Release, ReleaseThrows
<1>9. CASE a \in Deliveries /\ Claim(a)
  <2>1. CASE SigOf[a] \in seen
    BY <1>0, <1>9, <2>1 DEF TypeInv, TypeOK, Frames, Claim
  <2>2. CASE SigOf[a] \notin seen
    <3>1. begun' \in [Sigs -> Nat] /\ seen' \subseteq Sigs
      BY <1>0, <1>9, <2>2, BodyTypes DEF TypeOK, Claim, Begins
    <3> QED
      BY <1>0, <1>9, <2>2, <3>1 DEF TypeInv, TypeOK, Frames, Claim, Begins, Working
  <2> QED
    BY <2>1, <2>2
<1>2. CASE a \in Deliveries /\ (SetToken(a) \/ Upsert(a) \/ SaveSecrets(a) \/ SavePlain(a)
                                \/ TestConnection(a) \/ Find(a))
  BY <1>0, <1>2, BodyTypes
  DEF TypeInv, TypeOK, Frames, SetToken, Upsert, SaveSecrets, SavePlain, TestConnection, Find
<1>3. CASE a \in Deliveries /\ (Refused(a) \/ Hook(a) \/ Activate(a) \/ SetStatus(a))
  <2>1. At(a, "hook") => frame[a].secret \in Actors
    BY <1>0, FrameTypes DEF TypeInv, HookHasSecret
  <2> QED
    BY <1>0, <1>3, <2>1, BodyTypes
    DEF TypeInv, TypeOK, Frames, Refused, Hook, Activate, SetStatus, WithStatus
<1>4. CASE Context(a) \/ StoreSecret(a) \/ Provision(a) \/ ReadMap(a) \/ ReadMapFails(a)
  <2>1. CASE Context(a)
    BY <1>0, <2>1 DEF TypeInv, TypeOK, Frames, Context
  <2>2. CASE StoreSecret(a)
    BY <1>0, <2>2 DEF TypeInv, TypeOK, Frames, StoreSecret
  <2>3. CASE Provision(a)
    BY <1>0, <2>3 DEF TypeInv, TypeOK, Frames, Provision
  <2>4. CASE ReadMap(a) \/ ReadMapFails(a)
    BY <1>0, <2>4 DEF TypeInv, TypeOK, Frames, ReadMap, ReadMapFails
  <2> QED
    BY <1>4, <2>1, <2>2, <2>3, <2>4
<1>5. CASE WriteMap(a)
  <2>1. ids' = Merged(a) /\ Merged(a) \subseteq Mapped /\ frame' \in [Actors -> Frames]
    BY <1>5, MapTypes DEF WriteMap
  <2>2. /\ lock' \in Jobs \union {Null} /\ persisted' = persisted \union Merged(a)
        /\ intruded' \subseteq Syncs
    BY <1>0, <1>5 DEF TypeInv, TypeOK, WriteMap
  <2>3. UNCHANGED <<payload, status, token, cfg, secret, seen, reply, begun, failed, raced, overlapped, doubled, handed, newest>>
    BY <1>5 DEF WriteMap
  <2> QED
    BY <1>0, <2>1, <2>2, <2>3 DEF TypeInv, TypeOK, Frames
<1>6. CASE Throws(a)
  <2>1. a \in Deliveries \/ a \in Jobs
    BY DEF Actors, Jobs
  <2>2. failed' \subseteq Sigs
    BY <1>0, <1>6, <2>1, CatchTypes, BodyTypes DEF Throws, TypeOK
  <2> QED
    BY <1>0, <1>6, <2>2 DEF TypeInv, TypeOK, Frames, Throws
<1>7. CASE a \in Jobs /\ (StartJob(a) \/ JobRefused(a))
  BY <1>0, <1>7 DEF TypeInv, TypeOK, Frames, StartJob, JobRefused, Working
<1>8. CASE a \in Syncs /\ (Snapshot(a) \/ SyncEnds(a))
  BY <1>0, <1>8 DEF TypeInv, TypeOK, Frames, Snapshot, SyncEnds
<1> QED
  BY <1>1, <1>2, <1>3, <1>4, <1>5, <1>6, <1>7, <1>8, <1>9 DEF ActorStep, Shared, Webhook

(* After a crash, whoever had begun is over.                               *)
LEMMA CrashMoves ==
    ASSUME TypeInv, Crash
    PROVE  /\ frame' \in [Actors -> Frames]
           /\ \A a \in Actors : \/ At(a, "new") /\ frame'[a] = Idle
                                \/ ~At(a, "new") /\ At(a, "over")' /\ ~frame'[a].hooking
                                   /\ frame'[a].got = {}
BY DEF Crash, Placed, Idle, Frames, PCs, At

(* The types are inductive.                                                *)
LEMMA TypeNext == TypeInv /\ [Next]_vars => TypeInv'
<1> SUFFICES ASSUME TypeInv, [Next]_vars PROVE TypeInv'
  OBVIOUS
<1> USE DEF tables, history
<1>1. CASE Crash
  <2>1. failed' \subseteq Sigs
    BY <1>1, BodyTypes DEF TypeInv, TypeOK, Crash
  <2>2. HookHasSecret'
    BY <1>1, CrashMoves DEF HookHasSecret, At, Idle
  <2> QED
    BY <1>1, <2>1, <2>2, CrashMoves DEF TypeInv, TypeOK, Frames, Crash
<1>2. CASE UNCHANGED vars
  BY <1>2 DEF TypeInv, TypeOK, HookHasSecret, At, vars
<1> QED
  BY <1>1, <1>2, NextSteps, StepTypes

(* Nobody has begun, and there is no row.                                  *)
LEMMA TypeInit == Init => TypeInv
<1> SUFFICES ASSUME Init PROVE TypeInv
  OBVIOUS
<1>1. Idle \in Frames /\ Idle.pc = "new"
  BY DEF Idle, Frames, PCs
<1>2. frame \in [Actors -> Frames] /\ HookHasSecret
  BY <1>1 DEF Init, HookHasSecret, At
<1>3. payload \in [Sigs -> Payloads] /\ begun \in [Sigs -> Nat] /\ cfg \in [secrets: Sigs \union {Null}, plain: Sigs \union {Null}]
  BY DEF Init
<1> QED
  BY <1>2, <1>3 DEF Init, TypeInv, TypeOK, Frames

(* Every reachable state is well typed.                                    *)
THEOREM TypeCorrect == Spec => []TypeOK
<1>1. TypeInv => TypeOK
  BY DEF TypeInv
<1> QED
  BY <1>1, TypeInit, TypeNext, PTL DEF Spec

-----------------------------------------------------------------------------
(* The claim of a signature, and its release.                              *)

(* A delivery is answered when its handling ends; what is released has     *)
(* failed; what began and did not fail is claimed.                         *)
RepliesEnd == \A d \in Deliveries : reply[d] # "none" => At(d, "over")
ReleasesFailed == \A d \in Deliveries : At(d, "releasing") => SigOf[d] \in failed
BegunIsClaimed == \A s \in Sigs \ failed : begun[s] > 0 => s \in seen

ClaimInv ==
    /\ TypeInv /\ RepliesEnd /\ ReleasesFailed /\ BegunIsClaimed
    /\ HandledOnce /\ ClaimIsOwned

(* An actor is a job or a delivery.                                        *)
LEMMA ActorsAreApart ==
    ASSUME NEW a \in Actors
    PROVE  (a \in Jobs <=> a \notin Deliveries) /\ a # Null
BY ActorsAssumption DEF Actors, Jobs

(* Who is over does not step.                                              *)
LEMMA NotOver == ASSUME NEW a \in Actors, ActorStep(a) PROVE ~At(a, "over")
<1>1. CASE Webhook(a)
  BY <1>1
  DEF At, Webhook, Refuse, Accept, Claim, ClaimThrows, Succeed, Release, ReleaseThrows, SetToken,
      Upsert, SaveSecrets, SavePlain, TestConnection, Refused, Hook, Activate, Find, SetStatus
<1> QED
  BY <1>1
  DEF ActorStep, At, Shared, Context, StoreSecret, Provision, ReadMap, ReadMapFails, WriteMap,
      Throws, StartJob, JobRefused, Snapshot, SyncEnds

(* What answers leave.                                                     *)
LEMMA StepReplies ==
    ASSUME TypeInv, NEW a \in Actors, ActorStep(a)
    PROVE  \/ reply' = reply
           \/ /\ a \in Deliveries /\ At(a, "over")'
              /\ \A d \in Deliveries \ {a} : reply'[d] = reply[d]
<1>0. TypeOK
  BY DEF TypeInv
<1>1. ASSUME a \in Deliveries, Goes(a, "over"), NEW r, reply' = [reply EXCEPT ![a] = r]
      PROVE  At(a, "over")' /\ \A d \in Deliveries \ {a} : reply'[d] = reply[d]
  <2>1. At(a, "over")'
    BY <1>0, <1>1, GoesMoves DEF At, PCs
  <2> QED
    BY <1>0, <1>1, <2>1 DEF TypeOK
<1>2. CASE a \in Deliveries /\ (Refuse(a) \/ ClaimThrows(a) \/ Succeed(a) \/ Release(a) \/ ReleaseThrows(a))
  BY <1>1, <1>2 DEF Refuse, ClaimThrows, Succeed, Release, ReleaseThrows
<1>3. CASE a \in Deliveries /\ Claim(a)
  BY <1>1, <1>3 DEF Claim, Begins
<1>4. CASE a \in Deliveries /\ (Accept(a) \/ SetToken(a) \/ Upsert(a) \/ SaveSecrets(a) \/ SavePlain(a)
                                \/ TestConnection(a) \/ Refused(a) \/ Hook(a) \/ Activate(a)
                                \/ Find(a) \/ SetStatus(a))
  BY <1>4 DEF Accept, SetToken, Upsert, SaveSecrets, SavePlain, TestConnection, Refused, Hook,
              Activate, Find, SetStatus
<1>5. CASE Shared(a)
  BY <1>5 DEF Shared, Context, StoreSecret, Provision, ReadMap, ReadMapFails, WriteMap, Throws
<1> QED
  BY <1>2, <1>3, <1>4, <1>5
  DEF ActorStep, Webhook, StartJob, JobRefused, Snapshot, SyncEnds

(* What a step does to the claims.                                         *)
LEMMA StepClaims ==
    ASSUME TypeInv, NEW a \in Actors, ActorStep(a)
    PROVE  \/ seen' = seen /\ begun' = begun
           \/ /\ a \in Deliveries /\ SigOf[a] \notin seen
              /\ seen' = seen \union {SigOf[a]} /\ At(a, "claiming")
              /\ begun' = begun \/ begun' = [begun EXCEPT ![SigOf[a]] = @ + 1]
           \/ /\ a \in Deliveries /\ At(a, "releasing")
              /\ seen' = seen \ {SigOf[a]} /\ begun' = begun
<1> USE DEF history
<1>1. CASE a \in Deliveries /\ (Claim(a) \/ ClaimThrows(a) \/ Release(a))
  BY <1>1 DEF Claim, Begins, ClaimThrows, Release
<1>2. CASE a \in Deliveries /\ (Refuse(a) \/ Accept(a) \/ Succeed(a) \/ ReleaseThrows(a) \/ SetToken(a)
                                \/ Upsert(a) \/ SaveSecrets(a) \/ SavePlain(a)
                                \/ TestConnection(a) \/ Refused(a) \/ Hook(a) \/ Activate(a)
                                \/ Find(a) \/ SetStatus(a))
  BY <1>2 DEF Refuse, Accept, Succeed, ReleaseThrows, SetToken, Upsert, SaveSecrets, SavePlain,
              TestConnection, Refused, Hook, Activate, Find, SetStatus
<1>3. CASE Shared(a)
  BY <1>3 DEF Shared, Context, StoreSecret, Provision, ReadMap, ReadMapFails, WriteMap, Throws
<1> QED
  BY <1>1, <1>2, <1>3
  DEF ActorStep, Webhook, StartJob, JobRefused, Snapshot, SyncEnds

(* A delivery on its way to release its claim is noted as failed.          *)
LEMMA StepFails ==
    ASSUME TypeInv, NEW a \in Actors, ActorStep(a)
    PROVE  failed \subseteq failed'
           /\ (a \in Deliveries /\ At(a, "releasing")' => SigOf[a] \in failed')
<1> USE DEF history
<1>0. TypeOK
  BY DEF TypeInv
<1>1. ASSUME NEW p \in PCs \ {"releasing"}, Goes(a, p) PROVE ~At(a, "releasing")'
  BY <1>0, <1>1, GoesMoves DEF At
<1>2. /\ FirstStep(Body(a).event) \in {"token", "secrets", "finding"} \/ a \notin Deliveries
      /\ AfterConfigs(a) \in {"answering", "context"} \/ a \notin Deliveries
  BY <1>0, BodyTypes
<1>3. CASE a \in Deliveries /\ (Refuse(a) \/ Accept(a) \/ Succeed(a) \/ ReleaseThrows(a) \/ SetToken(a)
                                \/ Upsert(a) \/ SaveSecrets(a) \/ SavePlain(a) \/ ClaimThrows(a)
                                \/ Hook(a) \/ Activate(a) \/ Find(a) \/ Release(a) \/ TestConnection(a))
  <2>1. \E p \in PCs \ {"releasing"} : Goes(a, p)
    BY <1>2, <1>3
    DEF Refuse, Accept, Succeed, ReleaseThrows, SetToken, Upsert, SaveSecrets, SavePlain,
        Hook, Activate, Find, Release, ClaimThrows, TestConnection, PCs
  <2>2. failed' = failed
    BY <1>3
    DEF Refuse, Accept, Succeed, ReleaseThrows, SetToken, Upsert, SaveSecrets, SavePlain,
        Hook, Activate, Find, Release, ClaimThrows, TestConnection
  <2> QED
    BY <1>1, <2>1, <2>2
<1>4. CASE a \in Deliveries /\ Claim(a)
  <2>1. \E p \in PCs \ {"releasing"} : Goes(a, p)
    BY <1>2, <1>4 DEF Claim, Begins, PCs
  <2> QED
    BY <1>1, <1>4, <2>1 DEF Claim, Begins
<1>5. CASE a \in Deliveries /\ (Refused(a) \/ SetStatus(a))
  BY <1>5, SetStatusMoves DEF Refused, SetStatus, At
<1>6. CASE Context(a) \/ StoreSecret(a)
  BY <1>6, ContextTypes DEF Context, StoreSecret, At
<1>7. CASE Provision(a) \/ ReadMap(a) \/ ReadMapFails(a) \/ WriteMap(a)
  BY <1>7, MapTypes DEF Provision, ReadMap, ReadMapFails, WriteMap, At
<1>8. CASE Throws(a)
  <2>1. PICK p \in Catches(a) : /\ Goes(a, p)
                                /\ failed' = IF p = "releasing" THEN failed \union {SigOf[a]} ELSE failed
    BY <1>8 DEF Throws
  <2>2. p \in {"over", "releasing", "answering"}
    BY <1>0, CatchTypes
  <2>3. frame'[a].pc = p
    BY <1>0, <2>1, <2>2, GoesMoves DEF PCs
  <2> QED
    BY <2>1, <2>3 DEF At
<1>9. CASE a \in Jobs
  <2>1. a \notin Deliveries
    BY <1>9, ActorsAreApart
  <2> QED
    BY <1>6, <1>7, <1>8, <1>9, <2>1 DEF ActorStep, Shared, StartJob, JobRefused, Snapshot, SyncEnds
<1> QED
  BY <1>3, <1>4, <1>5, <1>6, <1>7, <1>8, <1>9 DEF ActorStep, Shared, Webhook, Jobs

(* A delivery at work stays at work until it is answered or released.      *)
LEMMA StepHandles ==
    ASSUME TypeInv, NEW d \in Deliveries, ActorStep(d)
    PROVE  /\ Handling(d) => Handling(d)' \/ reply'[d] \in {"success", "error"} \/ SigOf[d] \notin seen'
           /\ SigOf[d] \in seen' \ seen => Handling(d)' \/ reply'[d] = "error"
<1>0. TypeOK /\ d \in Actors /\ d \notin Jobs /\ reply \in [Deliveries -> {"none", "refused", "replayed", "success", "failure", "error", "lost"}]
  BY ActorsAreApart DEF TypeInv, TypeOK, Actors
<1>1. ASSUME NEW p \in PCs \ {"new", "claiming", "over"}, Goes(d, p) PROVE Handling(d)'
  BY <1>0, <1>1, GoesMoves DEF Handling
<1>2. /\ FirstStep(Body(d).event) \in {"token", "secrets", "finding"}
      /\ AfterConfigs(d) \in {"answering", "context"}
  BY <1>0, BodyTypes
<1>3. CASE SetToken(d) \/ Upsert(d) \/ SaveSecrets(d) \/ SavePlain(d) \/ TestConnection(d)
           \/ Refused(d) \/ Hook(d) \/ Activate(d) \/ Find(d)
  BY <1>1, <1>2, <1>3
  DEF SetToken, Upsert, SaveSecrets, SavePlain, TestConnection, Refused, Hook, Activate, Find, PCs
<1>4. CASE Refuse(d) \/ Accept(d) \/ ClaimThrows(d)
  BY <1>0, <1>4 DEF Refuse, Accept, ClaimThrows, Handling, At
<1>5. CASE Claim(d)
  BY <1>1, <1>2, <1>5 DEF Claim, Begins, Handling, At, PCs
<1>6. CASE Succeed(d) \/ Release(d) \/ ReleaseThrows(d)
  BY <1>0, <1>6 DEF Succeed, Release, ReleaseThrows
<1>7. CASE SetStatus(d) \/ Context(d) \/ StoreSecret(d) \/ Provision(d) \/ ReadMap(d) \/ ReadMapFails(d)
  BY <1>0, <1>7, SetStatusMoves, ContextTypes, MapTypes DEF Handling
<1>8. CASE WriteMap(d)
  <2>1. AfterMap(d) \in {"refusing", "context"}
    BY <1>0 DEF AfterMap
  <2> QED
    BY <1>0, <1>8, <2>1, MapTypes DEF Handling
<1>9. CASE Throws(d)
  <2>1. PICK p \in Catches(d) : Goes(d, p)
    BY <1>9 DEF Throws
  <2>2. p \in {"releasing", "answering"}
    BY <1>0, CatchTypes
  <2> QED
    BY <1>1, <2>1, <2>2 DEF PCs
<1> QED
  BY <1>0, <1>3, <1>4, <1>5, <1>6, <1>7, <1>8, <1>9 DEF ActorStep, Shared, Webhook, Jobs

(* A handler begins with a claim that it has just inserted, so that a copy *)
(* finds it.                                                               *)
LEMMA ClaimStep ==
    ASSUME ClaimInv, TypeInv', NEW a \in Actors, ActorStep(a)
    PROVE  ClaimInv'
<1>0. /\ TypeInv /\ TypeOK /\ ~At(a, "over") /\ OthersStand(a)
      /\ begun \in [Sigs -> Nat] /\ Deliveries \subseteq Actors
      /\ (a \in Deliveries => SigOf[a] \in Sigs)
  BY NotOver, StepMoves, BodyTypes DEF ClaimInv, TypeInv, TypeOK, Actors
<1>1. ASSUME NEW d \in Deliveries \ {a} PROVE frame'[d] = frame[d] /\ reply'[d] = reply[d]
  BY <1>0, StepReplies DEF OthersStand
<1>2. RepliesEnd'
  <2>1. a \in Deliveries => reply[a] = "none"
    BY <1>0 DEF ClaimInv, RepliesEnd
  <2>2. a \in Deliveries => reply'[a] = "none" \/ At(a, "over")'
    BY <1>0, <2>1, StepReplies
  <2> QED
    BY <1>1, <2>2 DEF ClaimInv, RepliesEnd, At
<1>3. ReleasesFailed'
  BY <1>0, <1>1, StepFails DEF ClaimInv, ReleasesFailed, At
<1>4. a \in Deliveries /\ At(a, "releasing") => SigOf[a] \in failed
  BY DEF ClaimInv, ReleasesFailed
<1>5. BegunIsClaimed' /\ HandledOnce'
  <2>1. failed \subseteq failed'
    BY <1>0, StepFails
  <2>2. CASE seen' = seen /\ begun' = begun
    BY <2>1, <2>2 DEF ClaimInv, BegunIsClaimed, HandledOnce
  <2>3. CASE /\ a \in Deliveries /\ SigOf[a] \notin seen
             /\ seen' = seen \union {SigOf[a]}
             /\ begun' = begun \/ begun' = [begun EXCEPT ![SigOf[a]] = @ + 1]
    <3>1. SigOf[a] \notin failed => begun[SigOf[a]] = 0
      BY <1>0, <2>3 DEF ClaimInv, BegunIsClaimed
    <3>2. \A s \in Sigs : s # SigOf[a] => begun'[s] = begun[s]
      BY <1>0, <2>3
    <3>3. SigOf[a] \notin failed => begun'[SigOf[a]] <= 1
      BY <1>0, <2>3, <3>1
    <3> QED
      BY <1>0, <2>1, <2>3, <3>2, <3>3 DEF ClaimInv, BegunIsClaimed, HandledOnce
  <2>4. CASE a \in Deliveries /\ At(a, "releasing") /\ seen' = seen \ {SigOf[a]} /\ begun' = begun
    BY <1>4, <2>1, <2>4 DEF ClaimInv, BegunIsClaimed, HandledOnce
  <2> QED
    BY <1>0, <2>2, <2>3, <2>4, StepClaims
<1>6. ClaimIsOwned'
  <2> SUFFICES ASSUME NEW s \in seen'
               PROVE  \E d \in Deliveries :
                          SigOf[d] = s /\ (Handling(d)' \/ reply'[d] \in {"success", "error", "lost"})
    BY DEF ClaimIsOwned, Handling
  <2>1. CASE s \in seen
    <3>1. PICK d \in Deliveries : SigOf[d] = s /\ (Handling(d) \/ reply[d] \in {"success", "error", "lost"})
      BY <2>1 DEF ClaimInv, ClaimIsOwned
    <3>2. CASE d # a
      BY <1>1, <3>1, <3>2 DEF Handling
    <3>3. CASE d = a
      <4>1. Handling(a)
        BY <1>0, <3>1, <3>3 DEF ClaimInv, RepliesEnd
      <4> QED
        BY <1>0, <3>1, <3>3, <4>1, StepHandles
    <3> QED
      BY <3>2, <3>3
  <2>2. CASE s \notin seen
    <3>1. a \in Deliveries /\ s = SigOf[a]
      BY <1>0, <2>2, StepClaims
    <3> QED
      BY <1>0, <2>2, <3>1, StepHandles
  <2> QED
    BY <2>1, <2>2
<1> QED
  BY <1>2, <1>3, <1>5, <1>6 DEF ClaimInv

(* A crash keeps the claims of webhooks that have begun.                   *)
LEMMA ClaimCrash == ASSUME ClaimInv, TypeInv', Crash PROVE ClaimInv'
<1> USE DEF tables
<1>0. TypeInv /\ TypeOK /\ Deliveries \subseteq Actors
  BY DEF ClaimInv, TypeInv, Actors
<1>1. \A d \in Deliveries :
          /\ At(d, "over")' \/ (At(d, "new") /\ At(d, "new")')
          /\ reply'[d] = IF frame[d].pc \in {"new", "over"} THEN reply[d] ELSE "lost"
  <2>1. \A d \in Deliveries : reply'[d] = IF frame[d].pc \in {"new", "over"} THEN reply[d] ELSE "lost"
    BY DEF Crash
  <2>2. \A d \in Deliveries : At(d, "over")' \/ (At(d, "new") /\ At(d, "new")')
    BY <1>0, CrashMoves DEF At, Idle
  <2> QED
    BY <2>1, <2>2
<1>2. /\ seen' = seen /\ begun' = begun /\ failed \subseteq failed'
      /\ \A d \in Deliveries : Handling(d) => SigOf[d] \in failed'
  BY DEF Crash
<1>3. RepliesEnd' /\ ReleasesFailed'
  BY <1>1 DEF ClaimInv, RepliesEnd, ReleasesFailed, At
<1>4. ClaimIsOwned'
  BY <1>1, <1>2 DEF ClaimInv, ClaimIsOwned, Handling, RepliesEnd, At
<1> QED
  BY <1>2, <1>3, <1>4 DEF ClaimInv, BegunIsClaimed, HandledOnce

(* The invariant is inductive.                                             *)
LEMMA ClaimNext == ClaimInv /\ [Next]_vars => ClaimInv'
<1> SUFFICES ASSUME ClaimInv, [Next]_vars PROVE ClaimInv'
  OBVIOUS
<1>1. TypeInv'
  BY TypeNext DEF ClaimInv
<1>2. CASE UNCHANGED vars
  BY <1>1, <1>2 DEF ClaimInv, RepliesEnd, ReleasesFailed, BegunIsClaimed, HandledOnce, ClaimIsOwned,
                    Handling, At, vars, history
<1> QED
  BY <1>1, <1>2, NextSteps, ClaimStep, ClaimCrash

(* No claim, no handler.                                                   *)
LEMMA ClaimInit == Init => ClaimInv
<1> SUFFICES ASSUME Init PROVE ClaimInv
  OBVIOUS
<1>1. \A d \in Deliveries : reply[d] = "none" /\ ~At(d, "releasing")
  BY DEF Init, At, Idle, Actors
<1>2. \A s \in Sigs : begun[s] = 0 /\ seen = {}
  BY DEF Init
<1>3. seen = {}
  BY DEF Init
<1> QED
  BY <1>1, <1>2, <1>3, TypeInit
  DEF ClaimInv, RepliesEnd, ReleasesFailed, BegunIsClaimed, HandledOnce, ClaimIsOwned

(* Until an execution of it fails or is cut short, the handler of a signed *)
(* webhook runs at most once, however often the webhook is delivered.      *)
THEOREM WebhookHandledOnce == Spec => []HandledOnce
<1>1. ClaimInv => HandledOnce
  BY DEF ClaimInv
<1> QED
  BY <1>1, ClaimInit, ClaimNext, PTL DEF Spec

(* No claim is left behind by a delivery that was told to come back.       *)
THEOREM ClaimsAreOwned == Spec => []ClaimIsOwned
<1>1. ClaimInv => ClaimIsOwned
  BY DEF ClaimInv
<1> QED
  BY <1>1, ClaimInit, ClaimNext, PTL DEF Spec

-----------------------------------------------------------------------------
(* The map of provisioned resources.                                       *)

(* A job at work holds the lock: no two jobs are.                          *)
JobsHoldLock == \A a \in Jobs : frame[a].pc \notin {"new", "over"} => lock = a

(* What a run has read is what is stored, and nobody else is about to      *)
(* write, unless a read failed or was overtaken.                           *)
ReadsAreCurrent ==
    ~raced =>
        /\ persisted \subseteq ids
        /\ \A a \in Actors : At(a, "writing") =>
               /\ persisted \subseteq frame[a].base
               /\ \A b \in Actors : At(b, "writing") => b = a

(* Provisioning comes before the hook of its run, whose context sees what  *)
(* was provisioned.                                                        *)
HookFollows(a) ==
    /\ frame[a].hooking =>
           /\ frame[a].pc \in {"context", "storing", "hook", "activating", "answering", "releasing"}
           /\ frame[a].got \intersect Mapped \subseteq persisted
    /\ At(a, "hook") => frame[a].hooking
    /\ frame[a].pc \in {"new", "claiming", "finding", "setting"} => frame[a].got = {}
    /\ ~raced /\ frame[a].hooking /\ frame[a].pc \in {"storing", "hook"} =>
           frame[a].got \intersect Mapped \subseteq frame[a].sees

MapInv ==
    /\ TypeInv /\ JobsHoldLock /\ ReadsAreCurrent
    /\ \A a \in Actors : HookFollows(a)
    /\ SnapshotStaysFresh

(* The map and its history change when it is written, and only then.       *)
LEMMA StepWrites ==
    ASSUME TypeInv, NEW a \in Actors, ActorStep(a)
    PROVE  /\ ~WriteMap(a) => UNCHANGED <<ids, persisted, intruded>>
           /\ persisted \subseteq persisted' /\ (raced => raced')
           /\ (ReadMap(a) \/ ReadMapFails(a)) \/ raced' = raced
<1> USE DEF tables, history
<1>1. CASE a \in Deliveries /\ Webhook(a)
  BY <1>1
  DEF Webhook, Refuse, Accept, Claim, Begins, ClaimThrows, Succeed, Release, ReleaseThrows, SetToken,
      Upsert, SaveSecrets, SavePlain, TestConnection, Refused, Hook, Activate, Find, SetStatus
<1>2. CASE Shared(a)
  <2>1. raced \in BOOLEAN
    BY DEF TypeInv, TypeOK
  <2>2. CASE ReadMap(a) \/ ReadMapFails(a)
    BY <2>1, <2>2 DEF ReadMap, ReadMapFails
  <2> QED
    BY <1>2, <2>2 DEF Shared, Context, StoreSecret, Provision, WriteMap, Throws
<1> QED
  BY <1>1, <1>2 DEF ActorStep, StartJob, JobRefused, Snapshot, SyncEnds

(* Steps between provisioning and the hook, and after the hook.            *)
LEMMA HookGoes ==
    ASSUME TypeInv, NEW a \in Actors, HookFollows(a), NEW p \in PCs \ {"hook", "storing"}, Goes(a, p),
           persisted \subseteq persisted', raced => raced',
           frame[a].hooking => p \in {"activating", "answering", "releasing", "over"},
           p \in {"new", "claiming", "finding", "setting"} => frame[a].got = {}
    PROVE  HookFollows(a)'
<1>1. TypeOK
  BY DEF TypeInv
<1> QED
  BY <1>1, GoesMoves DEF HookFollows, At

(* The context of a hook is built after its own provisioning was written.  *)
LEMMA HookStep ==
    ASSUME TypeInv, NEW a \in Actors, HookFollows(a), ActorStep(a), ReadsAreCurrent, JobsHoldLock
    PROVE  HookFollows(a)'
<1>0. /\ TypeOK /\ persisted \subseteq persisted' /\ (raced => raced') /\ raced \in BOOLEAN
      /\ persisted \subseteq Mapped /\ frame[a].got \subseteq Resources /\ frame[a].hooking \in BOOLEAN
  BY StepWrites, FrameTypes DEF TypeInv, TypeOK
<1>1. CASE a \in Deliveries /\ (Refuse(a) \/ Accept(a) \/ ClaimThrows(a) \/ Succeed(a) \/ Release(a)
                                \/ ReleaseThrows(a) \/ SetToken(a) \/ Upsert(a) \/ SaveSecrets(a)
                                \/ SavePlain(a) \/ TestConnection(a) \/ Refused(a) \/ Hook(a)
                                \/ Activate(a) \/ Find(a) \/ Claim(a))
  <2>1. /\ FirstStep(Body(a).event) \in {"token", "secrets", "finding"}
        /\ AfterConfigs(a) \in {"answering", "context"}
    BY <1>0, <1>1, BodyTypes
  <2>2. \E p \in PCs \ {"hook", "storing"} :
            /\ Goes(a, p)
            /\ frame[a].hooking => p \in {"activating", "answering", "releasing", "over"}
            /\ p \in {"new", "claiming", "finding", "setting"} => frame[a].got = {}
    BY <1>1, <2>1
    DEF Refuse, Accept, ClaimThrows, Succeed, Release, ReleaseThrows, SetToken, Upsert, SaveSecrets,
        SavePlain, TestConnection, Refused, Hook, Activate, Find, Claim, Begins, PCs, At, HookFollows
  <2> QED
    BY <1>0, <2>2, HookGoes
<1>2. CASE a \in Deliveries /\ SetStatus(a)
  <2>1. frame[a].got = {}
    BY <1>2 DEF SetStatus, At, HookFollows
  <2> QED
    BY <1>2, <2>1, SetStatusMoves DEF HookFollows, At
<1>3. CASE Context(a) \/ StoreSecret(a)
  <2>1. frame'[a].pc = "storing" \/ frame'[a].pc = AfterContext(a)
    BY <1>3, ContextTypes
  <2>3. frame[a].hooking <=> AfterContext(a) = "hook"
    BY <1>0 DEF AfterContext
  <2>4. ids' = ids /\ persisted' = persisted /\ raced' = raced
    BY <1>3 DEF Context, StoreSecret, tables, history
  <2>5. CASE Context(a)
    BY <1>0, <1>3, <2>1, <2>3, <2>4, <2>5, ContextTypes DEF HookFollows, At, ReadsAreCurrent
  <2>6. CASE StoreSecret(a)
    BY <1>0, <1>3, <2>1, <2>3, <2>4, <2>6, ContextTypes DEF HookFollows, At, StoreSecret
  <2> QED
    BY <1>3, <2>5, <2>6
<1>4. CASE Provision(a) \/ ReadMap(a) \/ ReadMapFails(a)
  <2>1. ~frame[a].hooking
    BY <1>4 DEF HookFollows, Provision, ReadMap, ReadMapFails, At
  <2> QED
    BY <1>4, <2>1, MapTypes DEF HookFollows, At
<1>5. CASE WriteMap(a)
  <2>1. frame[a].got \intersect Mapped \subseteq persisted'
    BY <1>5 DEF WriteMap, Merged
  <2> QED
    BY <1>5, <2>1, MapTypes DEF HookFollows, At
<1>6. CASE Throws(a)
  <2>1. PICK p \in Catches(a) : Goes(a, p)
    BY <1>6 DEF Throws
  <2>2. p \in {"over", "releasing", "answering"}
    BY <1>0, CatchTypes
  <2> QED
    BY <1>0, <2>1, <2>2, HookGoes DEF PCs
<1>7. CASE StartJob(a) \/ JobRefused(a) \/ SyncEnds(a)
  BY <1>0, <1>7, HookGoes DEF StartJob, JobRefused, SyncEnds, HookFollows, At, PCs
<1>8. CASE Snapshot(a)
  BY <1>8, SnapshotMoves DEF HookFollows, At, Snapshot
<1> QED
  BY <1>1, <1>2, <1>3, <1>4, <1>5, <1>6, <1>7, <1>8 DEF ActorStep, Shared, Webhook

(* Only a read of the map leads to its write, only a snapshot to a sync.   *)
LEMMA StepPlaces ==
    ASSUME TypeInv, NEW a \in Actors, ActorStep(a)
    PROVE  /\ At(a, "writing")' => ReadMap(a) \/ ReadMapFails(a)
           /\ At(a, "syncing")' => Snapshot(a)
<1>0. TypeOK
  BY DEF TypeInv
<1>1. ASSUME NEW p \in PCs \ {"writing", "syncing"}, Goes(a, p)
      PROVE  ~At(a, "writing")' /\ ~At(a, "syncing")'
  BY <1>0, <1>1, GoesMoves DEF At
<1>2. CASE a \in Deliveries /\ Webhook(a)
  <2>1. CASE SetStatus(a)
    BY <1>2, <2>1, SetStatusMoves DEF At
  <2>2. CASE ~SetStatus(a)
    <3>1. /\ FirstStep(Body(a).event) \in {"token", "secrets", "finding"}
          /\ AfterConfigs(a) \in {"answering", "context"}
      BY <1>0, <1>2, BodyTypes
    <3>2. \E p \in PCs \ {"writing", "syncing"} : Goes(a, p)
      BY <1>2, <2>2, <3>1
      DEF Webhook, Refuse, Accept, Claim, Begins, ClaimThrows, Succeed, Release, ReleaseThrows,
          SetToken, Upsert, SaveSecrets, SavePlain, TestConnection, Refused, Hook, Activate, Find, PCs
    <3> QED
      BY <1>1, <3>2
  <2> QED
    BY <2>1, <2>2
<1>3. CASE Context(a) \/ StoreSecret(a)
  BY <1>3, ContextTypes DEF At
<1>4. CASE Provision(a) \/ WriteMap(a)
  BY <1>4, MapTypes DEF At
<1>5. CASE Throws(a) \/ StartJob(a) \/ JobRefused(a) \/ SyncEnds(a)
  BY <1>1, <1>5, OtherMoves DEF PCs
<1>6. CASE Snapshot(a)
  BY <1>6, SnapshotMoves DEF At
<1>7. CASE ReadMap(a) \/ ReadMapFails(a)
  BY <1>7, MapTypes DEF At
<1> QED
  BY <1>2, <1>3, <1>4, <1>5, <1>6, <1>7 DEF ActorStep, Shared

(* A job takes the lock when it starts and lets go of it when it ends.     *)
LEMMA StepLocks ==
    ASSUME TypeInv, NEW a \in Actors, ActorStep(a)
    PROVE  \/ lock' = lock /\ (a \in Jobs /\ ~At(a, "over")' => ~At(a, "new"))
           \/ a \in Jobs /\ lock = Null /\ lock' = a
           \/ a \in Jobs /\ frame[a].pc \notin {"new", "over"} /\ lock' = Null /\ At(a, "over")'
<1> USE DEF tables, history
<1>0. TypeOK /\ (a \in Jobs <=> a \notin Deliveries) /\ ~At(a, "over")
  BY ActorsAreApart, NotOver DEF TypeInv
<1>1. CASE a \in Deliveries /\ Webhook(a)
  BY <1>0, <1>1
  DEF Webhook, Refuse, Accept, Claim, Begins, ClaimThrows, Succeed, Release, ReleaseThrows, SetToken,
      Upsert, SaveSecrets, SavePlain, TestConnection, Refused, Hook, Activate, Find, SetStatus
<1>2. CASE Context(a) \/ StoreSecret(a) \/ Provision(a) \/ ReadMap(a) \/ ReadMapFails(a) \/ Snapshot(a)
  BY <1>2 DEF Context, StoreSecret, Provision, ReadMap, ReadMapFails, Snapshot, At
<1>3. CASE WriteMap(a)
  <2>1. a \in Jobs => AfterMap(a) = "over"
    BY <1>0 DEF AfterMap
  <2> QED
    BY <1>3, <2>1, MapTypes DEF WriteMap, At
<1>4. CASE Throws(a)
  <2>1. PICK p \in Catches(a) : Goes(a, p)
    BY <1>4 DEF Throws
  <2>2. a \in Jobs => At(a, "over")'
    BY <1>0, <2>1, CatchTypes, GoesMoves DEF At, PCs
  <2> QED
    BY <1>4, <2>2 DEF Throws, At
<1>5. CASE a \in Jobs /\ (StartJob(a) \/ JobRefused(a))
  <2>1. JobRefused(a) => At(a, "over")'
    BY <1>0, GoesMoves DEF JobRefused, At, PCs
  <2> QED
    BY <1>5, <2>1 DEF StartJob, JobRefused
<1>6. CASE a \in Syncs /\ SyncEnds(a)
  <2>1. At(a, "over")'
    BY <1>0, <1>6, GoesMoves DEF SyncEnds, At, PCs
  <2> QED
    BY <1>6, <2>1 DEF SyncEnds, At, Jobs
<1>7. CASE Shared(a)
  BY <1>2, <1>3, <1>4, <1>7 DEF Shared
<1>8. CASE a \in Syncs /\ Snapshot(a)
  BY <1>2, <1>8
<1> QED
  BY <1>1, <1>5, <1>6, <1>7, <1>8 DEF ActorStep

(* Two actors that are about to write have overlapped, and the second      *)
(* one's read is noted as a race.                                          *)
LEMMA MapStep ==
    ASSUME MapInv, TypeInv', NEW a \in Actors, ActorStep(a)
    PROVE  MapInv'
<1>0. /\ TypeInv /\ TypeOK /\ ~At(a, "over") /\ OthersStand(a) /\ Jobs \subseteq Actors
      /\ Syncs \subseteq Jobs /\ Null \notin Jobs /\ (a \in Jobs \/ a \in Deliveries)
      /\ raced \in BOOLEAN /\ raced' \in BOOLEAN
  BY NotOver, StepMoves, ActorsAssumption DEF MapInv, TypeInv, TypeOK, Actors, Jobs
<1>1. JobsHoldLock'
  BY <1>0, StepLocks DEF MapInv, JobsHoldLock, OthersStand, At
<1>2. ASSUME NEW b \in Actors PROVE HookFollows(b)'
  <2>1. CASE b = a
    BY <1>0, <2>1, HookStep DEF MapInv
  <2>2. CASE b # a
    BY <1>0, <2>2, StepWrites DEF MapInv, HookFollows, OthersStand, At
  <2> QED
    BY <2>1, <2>2
<1>3. ReadsAreCurrent'
  <2>1. CASE ReadMap(a)
    <3>1. /\ raced' = (raced \/ \E b \in Actors \ {a} : At(b, "writing"))
          /\ ids' = ids /\ persisted' = persisted
      BY <2>1 DEF ReadMap, tables
    <3>2. frame'[a].base = ids
      BY <1>0, <2>1, MapTypes
    <3>3. ~raced' => ~raced /\ \A b \in Actors \ {a} : ~At(b, "writing")'
      BY <1>0, <3>1 DEF OthersStand, At
    <3>4. ~raced' => persisted' \subseteq ids'
      BY <3>1, <3>3 DEF MapInv, ReadsAreCurrent
    <3> QED
      BY <3>1, <3>2, <3>3, <3>4 DEF ReadsAreCurrent, At
  <2>2. CASE ReadMapFails(a)
    BY <2>2 DEF ReadsAreCurrent, ReadMapFails
  <2>3. CASE WriteMap(a)
    <3>1. raced' = raced /\ ids' = Merged(a) /\ persisted' = persisted \union Merged(a)
          /\ At(a, "writing")
      BY <2>3 DEF WriteMap
    <3>4. ~At(a, "writing")'
      BY <1>0, <2>3, MapTypes DEF At
    <3>2. ~raced => \A b \in Actors : ~At(b, "writing")'
      BY <1>0, <3>1, <3>4 DEF MapInv, ReadsAreCurrent, OthersStand, At
    <3>3. ~raced => persisted \subseteq Merged(a)
      BY <3>1 DEF MapInv, ReadsAreCurrent, Merged
    <3> QED
      BY <3>1, <3>2, <3>3 DEF ReadsAreCurrent
  <2>4. CASE ~ReadMap(a) /\ ~ReadMapFails(a) /\ ~WriteMap(a)
    <3>1. UNCHANGED <<ids, persisted, raced>> /\ ~At(a, "writing")'
      BY <1>0, <2>4, StepWrites, StepPlaces
    <3> QED
      BY <1>0, <3>1 DEF MapInv, ReadsAreCurrent, OthersStand, At
  <2> QED
    BY <2>1, <2>2, <2>3, <2>4
<1>4. SnapshotStaysFresh'
  <2> SUFFICES ASSUME NEW s \in Syncs, At(s, "syncing")', s \notin intruded'
               PROVE  frame'[s].sees = ids'
    BY DEF SnapshotStaysFresh, At
  <2>1. CASE WriteMap(a)
    <3>1. s # a /\ frame'[s] = frame[s]
      BY <1>0, <2>1, MapTypes DEF OthersStand, At
    <3>2. At(s, "syncing") /\ At(a, "writing")
      BY <2>1, <3>1 DEF At, WriteMap
    <3>3. a \in Jobs => lock = a /\ lock = s
      BY <1>0, <3>2 DEF MapInv, JobsHoldLock, At
    <3>4. a \in Deliveries
      BY <1>0, <3>1, <3>3
    <3> QED
      BY <2>1, <3>2, <3>4 DEF WriteMap
  <2>2. CASE ~WriteMap(a) /\ s = a
    BY <1>0, <2>2, StepPlaces, SnapshotMoves, StepWrites DEF At
  <2>3. CASE ~WriteMap(a) /\ s # a
    BY <1>0, <2>3, StepWrites DEF MapInv, SnapshotStaysFresh, OthersStand, At
  <2> QED
    BY <2>1, <2>2, <2>3
<1> QED
  BY <1>1, <1>2, <1>3, <1>4 DEF MapInv

(* A crash leaves the stored map, and nobody who would write.              *)
LEMMA MapCrash == ASSUME MapInv, TypeInv', Crash PROVE MapInv'
<1> USE DEF tables
<1>0. TypeInv /\ Jobs \subseteq Actors /\ Syncs \subseteq Jobs
  BY DEF MapInv, Actors, Jobs
<1>1. ASSUME NEW a \in Actors
      PROVE  frame'[a].pc \in {"new", "over"} /\ ~frame'[a].hooking /\ frame'[a].got = {}
  BY <1>0, CrashMoves DEF At, Idle
<1>2. UNCHANGED <<ids, persisted, raced>>
  BY DEF Crash
<1> QED
  BY <1>0, <1>1, <1>2
  DEF MapInv, JobsHoldLock, ReadsAreCurrent, HookFollows, SnapshotStaysFresh, At

(* The invariant is inductive.                                             *)
LEMMA MapNext == MapInv /\ [Next]_vars => MapInv'
<1> SUFFICES ASSUME MapInv, [Next]_vars PROVE MapInv'
  OBVIOUS
<1>1. TypeInv'
  BY TypeNext DEF MapInv
<1>2. CASE UNCHANGED vars
  BY <1>1, <1>2 DEF MapInv, JobsHoldLock, ReadsAreCurrent, HookFollows, SnapshotStaysFresh,
                    At, vars, tables, history
<1> QED
  BY <1>1, <1>2, NextSteps, MapStep, MapCrash

(* The map is empty.                                                       *)
LEMMA MapInit == Init => MapInv
<1> SUFFICES ASSUME Init PROVE MapInv
  OBVIOUS
<1>1. \A a \in Actors : frame[a].pc = "new" /\ ~frame[a].hooking /\ frame[a].got = {}
  BY DEF Init, Idle
<1>2. persisted = {} /\ Jobs \subseteq Actors /\ Syncs \subseteq Actors
  BY DEF Init, Actors, Jobs
<1> QED
  BY <1>1, <1>2, TypeInit
  DEF MapInv, JobsHoldLock, ReadsAreCurrent, HookFollows, SnapshotStaysFresh, At

(* Whatever part of the plan a run resolves, no id is lost from the map.   *)
THEOREM NoIdIsLost == Spec => []MapKeepsIds
<1>1. MapInv => MapKeepsIds
  BY DEF MapInv, ReadsAreCurrent, MapKeepsIds
<1> QED
  BY <1>1, MapInit, MapNext, PTL DEF Spec

(* A hook sees what its own run has provisioned.                           *)
THEOREM HooksSeeFreshIds == Spec => []HookSeesFreshIds
<1>1. MapInv => HookSeesFreshIds
  BY DEF MapInv, HookFollows, HookSeesFreshIds, Actors, At
<1> QED
  BY <1>1, MapInit, MapNext, PTL DEF Spec

(* The snapshot of a sync stays the stored map, but for a webhook.         *)
THEOREM SnapshotsStayFresh == Spec => []SnapshotStaysFresh
<1>1. MapInv => SnapshotStaysFresh
  BY DEF MapInv
<1> QED
  BY <1>1, MapInit, MapNext, PTL DEF Spec

-----------------------------------------------------------------------------
(* One actor at a time.                                                    *)

Busy(a) == frame[a].pc \notin {"new", "claiming", "over"}

(* Whoever is at work is alone, and a delivery at work is the newest.      *)
OneAtATime ==
    ~overlapped =>
        /\ \A a, b \in Actors : Busy(a) /\ Busy(b) => a = b
        /\ \A d \in Deliveries : Busy(d) => d = newest

(* One context at a time is about to store a secret, and only where there  *)
(* is none; a hook is handed the stored one.                               *)
SecretHeld ==
    ~doubled =>
        /\ handed \subseteq {secret}
        /\ \A a, b \in Actors : At(a, "storing") /\ At(b, "storing") => a = b
        /\ \A a \in Actors :
               /\ At(a, "storing") => secret = Null
               /\ At(a, "hook") => frame[a].secret = secret

SecretInv == MapInv /\ OneAtATime /\ SecretHeld

(* Work begins with a claim or the start of a job.                         *)
LEMMA StepWork ==
    ASSUME TypeInv, NEW a \in Actors, ActorStep(a)
    PROVE  \/ UNCHANGED <<overlapped, newest>> /\ (Busy(a)' => Busy(a))
           \/ /\ a \in Deliveries /\ At(a, "claiming") /\ newest' = a
              /\ overlapped' = (overlapped \/ Working) /\ UNCHANGED <<status, cfg, secret, handed, reply>>
           \/ /\ a \in Jobs /\ lock = Null /\ newest' = newest
              /\ overlapped' = (overlapped \/ Working) /\ UNCHANGED <<status, cfg, secret, handed, reply>>
<1> USE DEF tables, history
<1>0. TypeOK
  BY DEF TypeInv
<1>1. ASSUME Goes(a, "over") \/ Goes(a, "claiming") PROVE ~Busy(a)'
  BY <1>0, <1>1, GoesMoves DEF Busy, PCs
<1>2. CASE a \in Deliveries /\ (Refuse(a) \/ Accept(a) \/ ClaimThrows(a))
  BY <1>1, <1>2 DEF Refuse, Accept, ClaimThrows
<1>3. CASE a \in Deliveries /\ Claim(a)
  <2>1. CASE SigOf[a] \in seen
    BY <1>1, <1>3, <2>1 DEF Claim
  <2>2. CASE SigOf[a] \notin seen
    BY <1>3, <2>2 DEF Claim, Begins
  <2> QED
    BY <2>1, <2>2
<1>4. CASE a \in Deliveries /\ (Succeed(a) \/ Release(a) \/ ReleaseThrows(a) \/ SetToken(a) \/ Upsert(a)
                                \/ SaveSecrets(a) \/ SavePlain(a) \/ TestConnection(a) \/ Refused(a)
                                \/ Hook(a) \/ Activate(a) \/ Find(a) \/ SetStatus(a))
  BY <1>4
  DEF Succeed, Release, ReleaseThrows, SetToken, Upsert, SaveSecrets, SavePlain, TestConnection,
      Refused, Hook, Activate, Find, SetStatus, Busy, At
<1>5. CASE Shared(a)
  BY <1>5
  DEF Shared, Context, StoreSecret, Provision, ReadMap, ReadMapFails, WriteMap, Throws, Busy, At
<1>6. CASE a \in Jobs /\ (StartJob(a) \/ JobRefused(a))
  BY <1>1, <1>6 DEF StartJob, JobRefused
<1>7. CASE a \in Syncs /\ (Snapshot(a) \/ SyncEnds(a))
  BY <1>7 DEF Snapshot, SyncEnds, Busy, At
<1> QED
  BY <1>2, <1>3, <1>4, <1>5, <1>6, <1>7 DEF ActorStep, Webhook

(* A hook comes after a context.                                           *)
LEMMA StepHooks ==
    ASSUME TypeInv, NEW a \in Actors, ActorStep(a), At(a, "hook")' \/ At(a, "storing")'
    PROVE  Context(a) \/ StoreSecret(a)
<1>0. TypeOK
  BY DEF TypeInv
<1>1. ASSUME NEW p \in PCs \ {"hook", "storing"}, Goes(a, p) PROVE ~(At(a, "hook")' \/ At(a, "storing")')
  BY <1>0, <1>1, GoesMoves DEF At
<1>2. CASE a \in Deliveries /\ Webhook(a)
  <2>1. CASE SetStatus(a)
    BY <1>2, <2>1, SetStatusMoves DEF At
  <2>2. CASE ~SetStatus(a)
    <3>1. /\ FirstStep(Body(a).event) \in {"token", "secrets", "finding"}
          /\ AfterConfigs(a) \in {"answering", "context"}
      BY <1>0, <1>2, BodyTypes
    <3>2. \E p \in PCs \ {"hook", "storing"} : Goes(a, p)
      BY <1>2, <2>2, <3>1
      DEF Webhook, Refuse, Accept, Claim, Begins, ClaimThrows, Succeed, Release, ReleaseThrows,
          SetToken, Upsert, SaveSecrets, SavePlain, TestConnection, Refused, Hook, Activate, Find, PCs
    <3> QED
      BY <1>1, <3>2
  <2> QED
    BY <2>1, <2>2
<1>4. CASE Provision(a) \/ ReadMap(a) \/ ReadMapFails(a) \/ WriteMap(a)
  BY <1>4, MapTypes DEF At
<1>5. CASE Throws(a) \/ StartJob(a) \/ JobRefused(a) \/ SyncEnds(a)
  BY <1>1, <1>5, OtherMoves DEF PCs
<1>6. CASE Snapshot(a)
  BY <1>6, SnapshotMoves DEF At
<1> QED
  BY <1>2, <1>4, <1>5, <1>6 DEF ActorStep, Shared

(* Who writes the secret, and who hands it over.                           *)
LEMMA StepSecret ==
    ASSUME NEW a \in Actors, ActorStep(a)
    PROVE  /\ secret' = secret \/ StoreSecret(a)
           /\ handed' = handed \/ (a \in Deliveries /\ Hook(a))
           /\ doubled' = doubled \/ (Context(a) /\ doubled' = (doubled \/ FindsNoneEither(a)))
<1> USE DEF tables, history
<1>1. CASE a \in Deliveries /\ Webhook(a)
  BY <1>1
  DEF Webhook, Refuse, Accept, Claim, Begins, ClaimThrows, Succeed, Release, ReleaseThrows, SetToken,
      Upsert, SaveSecrets, SavePlain, TestConnection, Refused, Activate, Find, SetStatus, Hook
<1>2. CASE Shared(a)
  BY <1>2 DEF Shared, Context, Provision, ReadMap, ReadMapFails, WriteMap, Throws, StoreSecret
<1> QED
  BY <1>1, <1>2 DEF ActorStep, StartJob, JobRefused, Snapshot, SyncEnds

(* Where nobody works: no delivery, and no job.                            *)
LEMMA IdleAll ==
    ASSUME MapInv, ~Working, NEW b \in Actors
    PROVE  ~Busy(b)
<1>1. b \in Jobs \/ b \in Deliveries
  BY DEF Actors, Jobs
<1>2. b \in Jobs => b # Null
  BY ActorsAreApart
<1> QED
  BY <1>1, <1>2 DEF MapInv, JobsHoldLock, Working, Handling, Busy

(* An actor that begins while another is at work overlaps.                 *)
LEMMA AloneStep ==
    ASSUME SecretInv, NEW a \in Actors, ActorStep(a)
    PROVE  OneAtATime' /\ (overlapped => overlapped')
<1>0. /\ TypeInv /\ MapInv /\ OthersStand(a) /\ overlapped \in BOOLEAN /\ Deliveries \subseteq Actors
      /\ (a \in Jobs => a \notin Deliveries)
  BY StepMoves, ActorsAreApart DEF SecretInv, MapInv, TypeInv, TypeOK, Actors
<1>1. \A b \in Actors \ {a} : Busy(b)' <=> Busy(b)
  BY <1>0 DEF OthersStand, Busy
<1>2. CASE UNCHANGED <<overlapped, newest>> /\ (Busy(a)' => Busy(a))
  BY <1>0, <1>1, <1>2 DEF SecretInv, OneAtATime
<1>3. CASE overlapped' = (overlapped \/ Working) /\ (newest' = a \/ a \in Jobs)
  <2>1. ~overlapped' => \A b \in Actors : ~Busy(b)
    BY <1>0, <1>3, IdleAll
  <2> QED
    BY <1>0, <1>1, <1>3, <2>1 DEF OneAtATime
<1> QED
  BY <1>0, <1>2, <1>3, StepWork

(* A secret is generated only where none was found, and nobody else is     *)
(* about to store one meanwhile.                                           *)
LEMMA SecretStep ==
    ASSUME SecretInv, TypeInv', NEW a \in Actors, ActorStep(a)
    PROVE  SecretInv'
<1>0. /\ TypeInv /\ TypeOK /\ MapInv /\ OthersStand(a) /\ a # Null /\ Null \notin Actors
      /\ overlapped \in BOOLEAN /\ doubled \in BOOLEAN /\ handed \subseteq Actors
      /\ OneAtATime' /\ (overlapped => overlapped')
  BY StepMoves, AloneStep, ActorsAreApart, ActorsAssumption DEF SecretInv, MapInv, TypeInv, TypeOK
<1>3. doubled' \in BOOLEAN
  BY DEF TypeInv, TypeOK
<1>1. MapInv'
  BY <1>0, MapStep
<1>2. SecretHeld'
  <2> SUFFICES ASSUME doubled' = FALSE
               PROVE  /\ handed' \subseteq {secret'}
                      /\ \A b, c \in Actors : At(b, "storing")' /\ At(c, "storing")' => b = c
                      /\ \A b \in Actors : /\ At(b, "storing")' => secret' = Null
                                           /\ At(b, "hook")' => frame'[b].secret = secret'
    BY <1>0, <1>3 DEF SecretHeld, At
  <2>0. doubled = FALSE /\ (Context(a) => ~FindsNoneEither(a))
    BY <1>0, StepSecret DEF FindsNoneEither, Context
  <2>1. /\ handed \subseteq {secret}
        /\ \A b, c \in Actors : At(b, "storing") /\ At(c, "storing") => b = c
        /\ \A b \in Actors : /\ At(b, "storing") => secret = Null
                             /\ At(b, "hook") => frame[b].secret = secret
    BY <1>0, <2>0 DEF SecretInv, SecretHeld
  <2>2. CASE StoreSecret(a)
    <3>1. At(a, "storing") /\ secret = Null /\ secret' = a /\ handed' = handed
      BY <2>1, <2>2 DEF StoreSecret, history
    <3>2. handed = {}
      BY <1>0, <2>1, <3>1
    <3>3. \A b \in Actors : ~At(b, "hook")
      BY <1>0, <2>1, <3>1 DEF TypeInv, HookHasSecret
    <3>4. \A b \in Actors \ {a} : ~At(b, "storing") /\ frame'[b] = frame[b]
      BY <1>0, <2>1, <3>1 DEF OthersStand
    <3>5. frame'[a].secret = a /\ ~At(a, "storing")'
      BY <1>0, <2>2, ContextTypes DEF At
    <3> QED
      BY <3>1, <3>2, <3>3, <3>4, <3>5 DEF At
  <2>3. CASE Context(a)
    <3>1. secret' = secret /\ handed' = handed
      BY <2>3 DEF Context, tables
    <3>2. frame'[a].secret = secret /\ (At(a, "storing")' => secret = Null)
      BY <1>0, <2>3, ContextTypes DEF At
    <3>3. At(a, "storing")' => \A b \in Actors \ {a} : ~At(b, "storing")
      BY <2>0, <2>3, <3>2 DEF FindsNoneEither
    <3> QED
      BY <1>0, <2>1, <3>1, <3>2, <3>3 DEF OthersStand, At
  <2>4. CASE ~StoreSecret(a) /\ ~Context(a)
    <3>1. secret' = secret /\ ~At(a, "storing")' /\ ~At(a, "hook")'
      BY <1>0, <2>4, StepHooks, StepSecret
    <3>2. handed' \subseteq {secret}
      BY <1>0, <2>1, StepSecret DEF Hook
    <3> QED
      BY <1>0, <2>1, <3>1, <3>2 DEF OthersStand, At
  <2> QED
    BY <2>2, <2>3, <2>4
<1> QED
  BY <1>0, <1>1, <1>2 DEF SecretInv

(* A crash leaves the stored secret.                                       *)
LEMMA SecretCrash == ASSUME SecretInv, TypeInv', Crash PROVE SecretInv'
<1> USE DEF tables
<1>0. TypeInv /\ MapInv /\ Deliveries \subseteq Actors
  BY DEF SecretInv, MapInv, Actors
<1>1. ASSUME NEW a \in Actors PROVE frame'[a].pc \in {"new", "over"}
  BY <1>0, CrashMoves DEF At, Idle
<1>2. UNCHANGED <<secret, handed, overlapped, doubled, newest>>
  BY DEF Crash
<1> QED
  BY <1>0, <1>1, <1>2, MapCrash DEF SecretInv, OneAtATime, SecretHeld, Busy, At

(* The invariant is inductive.                                             *)
LEMMA SecretNext == SecretInv /\ [Next]_vars => SecretInv'
<1> SUFFICES ASSUME SecretInv, [Next]_vars PROVE SecretInv'
  OBVIOUS
<1>1. TypeInv' /\ MapInv'
  BY TypeNext, MapNext DEF SecretInv, MapInv
<1>2. CASE UNCHANGED vars
  BY <1>1, <1>2 DEF SecretInv, OneAtATime, SecretHeld, Busy, At, vars, tables, history
<1> QED
  BY <1>1, <1>2, NextSteps, SecretStep, SecretCrash

(* There is no secret, and none has been handed over.                      *)
LEMMA SecretInit == Init => SecretInv
<1> SUFFICES ASSUME Init PROVE SecretInv
  OBVIOUS
<1>1. \A a \in Actors : frame[a].pc = "new"
  BY DEF Init, Idle
<1>2. handed = {} /\ Deliveries \subseteq Actors
  BY DEF Init, Actors
<1> QED
  BY <1>1, <1>2, MapInit DEF SecretInv, OneAtATime, SecretHeld, Busy, At

(* Every secret a hook was given is the one inbound calls are verified     *)
(* with, whatever overlapped, failed or crashed, unless two contexts once  *)
(* found no secret before either had stored its own.                       *)
THEOREM HandedSecretsHold == Spec => []HandedSecretHolds
<1>1. SecretInv => HandedSecretHolds
  BY DEF SecretInv, SecretHeld, HandedSecretHolds
<1> QED
  BY <1>1, SecretInit, SecretNext, PTL DEF Spec

-----------------------------------------------------------------------------
(* Webhooks one after the other.                                           *)

(* The places of the handler of each event.                                *)
PlacesOf(event) ==
    {"answering", "releasing"} \union
    CASE event = "install" -> {"token", "upsert", "secrets", "plain"}
      [] event = "activate" -> {"token", "upsert", "secrets", "plain", "context", "storing",
                                "testing", "provisioning", "reading", "writing", "refusing",
                                "hook", "activating"}
      [] event = "config_updated" -> {"secrets", "plain", "context", "storing", "provisioning",
                                      "reading", "writing", "hook"}
      [] event \in {"deactivate", "uninstall"} -> {"finding", "setting", "context", "storing", "hook"}

InPlace(d) ==
    Busy(d) =>
        /\ frame[d].pc \in PlacesOf(Body(d).event)
        /\ Body(d).event \in {"deactivate", "uninstall"} /\ frame[d].pc \in {"context", "storing", "hook"}
               => frame[d].hooking

SavesConfigs(d) == Body(d).event \in {"install", "activate", "config_updated"} /\ Body(d).configs

(* How far a delivery that is alone at work has come, in the tables.       *)
Progress(d) ==
    /\ Body(d).event = "install" /\ frame[d].pc \in {"secrets", "plain"} => status = "inactive"
    /\ Body(d).event = "activate" /\ frame[d].pc \notin {"token", "upsert", "answering", "releasing"}
           => status = "inactive"
    /\ Body(d).event = "deactivate" /\ frame[d].pc \in {"context", "storing", "hook"}
           => status # "active"
    /\ Body(d).event = "uninstall" /\ frame[d].pc \in {"context", "storing", "hook"}
           => status \in {"uninstalled", "absent"}
    /\ At(d, "plain") => Body(d).configs /\ cfg.secrets = SigOf[d]
    /\ SavesConfigs(d) /\ frame[d].pc \notin {"token", "upsert", "secrets", "plain", "releasing"}
           => cfg = [secrets |-> SigOf[d], plain |-> SigOf[d]]
    /\ At(d, "answering") => InEffect(d)

SerialInv ==
    /\ SecretInv /\ RepliesEnd
    /\ \A d \in Deliveries : InPlace(d) /\ (Busy(d) /\ ~overlapped => Progress(d))
    /\ SerialWebhooksTakeEffect

(* A signature keeps the body it binds.                                    *)
LEMMA StepPayload == ASSUME NEW a \in Actors, ActorStep(a) PROVE payload' = payload
<1>1. CASE a \in Deliveries /\ Webhook(a)
  BY <1>1
  DEF Webhook, Refuse, Accept, Claim, Begins, ClaimThrows, Succeed, Release, ReleaseThrows, SetToken,
      Upsert, SaveSecrets, SavePlain, TestConnection, Refused, Activate, Find, SetStatus, Hook
<1>2. CASE Shared(a)
  BY <1>2 DEF Shared, Context, Provision, ReadMap, ReadMapFails, WriteMap, Throws, StoreSecret
<1> QED
  BY <1>1, <1>2 DEF ActorStep, StartJob, JobRefused, Snapshot, SyncEnds

(* The places of each handler, spelt out.                                  *)
LEMMA PlaceSets ==
    ASSUME NEW e \in Events
    PROVE  /\ e = "install" => PlacesOf(e) = {"answering", "releasing", "token", "upsert", "secrets", "plain"}
           /\ e = "activate" => PlacesOf(e) =
                 {"answering", "releasing", "token", "upsert", "secrets", "plain", "context", "storing",
                  "testing", "provisioning", "reading", "writing", "refusing", "hook", "activating"}
           /\ e = "config_updated" => PlacesOf(e) =
                 {"answering", "releasing", "secrets", "plain", "context", "storing", "provisioning",
                  "reading", "writing", "hook"}
           /\ e \in {"deactivate", "uninstall"} => PlacesOf(e) =
                 {"answering", "releasing", "finding", "setting", "context", "storing", "hook"}
BY DEF PlacesOf, Events

(* The handler of an event goes from place to place of its own.            *)
LEMMA PlaceStep ==
    ASSUME TypeInv, NEW d \in Deliveries, HookFollows(d), InPlace(d), ActorStep(d)
    PROVE  InPlace(d)'
<1> DEFINE e == Body(d).event
<1>0. /\ TypeOK /\ d \in Actors /\ d \notin Jobs /\ d \notin Syncs /\ e \in Events
      /\ Body(d)' = Body(d) /\ ~At(d, "over")
  BY ActorsAreApart, BodyTypes, StepPayload, NotOver DEF TypeInv, Body, Actors, Jobs
<1>1. ASSUME NEW p \in PCs, Goes(d, p), p \in PlacesOf(e) \union {"new", "claiming", "over"},
             p \in {"context", "storing", "hook"} => e \notin {"deactivate", "uninstall"}
      PROVE  InPlace(d)'
  BY <1>0, <1>1, GoesMoves DEF InPlace, Busy
<1>2. CASE Refuse(d) \/ Accept(d) \/ ClaimThrows(d) \/ Succeed(d) \/ Release(d) \/ ReleaseThrows(d)
  BY <1>1, <1>2 DEF Refuse, Accept, ClaimThrows, Succeed, Release, ReleaseThrows, PCs
<1>3. CASE Claim(d)
  <2>1. FirstStep(e) \in PlacesOf(e) /\ FirstStep(e) \in {"token", "secrets", "finding"}
    BY <1>0, PlaceSets DEF FirstStep, Events
  <2> QED
    BY <1>1, <1>3, <2>1 DEF Claim, Begins, PCs
<1>4. CASE SetToken(d) \/ Upsert(d) \/ SaveSecrets(d) \/ SavePlain(d)
  <2>1. Busy(d) /\ e \in {"install", "activate", "config_updated"}
    BY <1>0, <1>4, PlaceSets DEF SetToken, Upsert, SaveSecrets, SavePlain, At, InPlace, Busy, Events
  <2>2. AfterConfigs(d) \in PlacesOf(e) /\ AfterConfigs(d) \in {"answering", "context"}
    BY <1>0, <2>1, PlaceSets DEF AfterConfigs
  <2> QED
    BY <1>0, <1>1, <1>4, <2>1, <2>2, PlaceSets
    DEF SetToken, Upsert, SaveSecrets, SavePlain, PCs, At, InPlace, Busy
<1>5. CASE TestConnection(d) \/ Refused(d) \/ Activate(d)
  <2>1. e = "activate"
    BY <1>0, <1>5, PlaceSets DEF TestConnection, Refused, Activate, At, InPlace, Busy, Events
  <2> QED
    BY <1>0, <1>1, <1>5, <2>1, PlaceSets DEF TestConnection, Refused, Activate, PCs
<1>6. CASE Hook(d) \/ Find(d)
  <2>1. Find(d) => e \in {"deactivate", "uninstall"}
    BY <1>0, PlaceSets DEF Find, At, InPlace, Busy, Events
  <2> QED
    BY <1>0, <1>1, <1>6, <2>1, PlaceSets DEF Hook, Find, PCs, Events
<1>7. CASE SetStatus(d)
  <2>1. e \in {"deactivate", "uninstall"}
    BY <1>0, <1>7, PlaceSets DEF SetStatus, At, InPlace, Busy, Events
  <2> QED
    BY <1>0, <1>7, <2>1, SetStatusMoves, PlaceSets DEF InPlace, Busy
<1>8. CASE Context(d) \/ StoreSecret(d)
  <2>1. /\ e \in {"activate", "config_updated", "deactivate", "uninstall"}
        /\ e \in {"deactivate", "uninstall"} => frame[d].hooking
    BY <1>0, <1>8, PlaceSets DEF Context, StoreSecret, At, InPlace, Busy, Events
  <2>2. /\ frame'[d].pc \in {"storing", AfterContext(d)}
        /\ frame'[d].hooking = frame[d].hooking
    BY <1>0, <1>8, ContextTypes
  <2>3. AfterContext(d) = IF frame[d].hooking THEN "hook"
                          ELSE IF e = "activate" THEN "testing" ELSE "provisioning"
    BY <1>0 DEF AfterContext
  <2> QED
    BY <1>0, <2>1, <2>2, <2>3, PlaceSets DEF InPlace, Busy
<1>9. CASE Provision(d) \/ ReadMap(d) \/ ReadMapFails(d) \/ WriteMap(d)
  <2>1. e \in {"activate", "config_updated"}
    BY <1>0, <1>9, PlaceSets DEF Provision, ReadMap, ReadMapFails, WriteMap, At, InPlace, Busy, Events
  <2>2. /\ AfterMap(d) \in {"refusing", "context"}
        /\ AfterMap(d) = "refusing" => e = "activate"
    BY <1>0 DEF AfterMap
  <2> QED
    BY <1>0, <1>9, <2>1, <2>2, MapTypes, PlaceSets DEF InPlace, Busy
<1>10. CASE Throws(d)
  <2>1. PICK p \in Catches(d) : Goes(d, p)
    BY <1>10 DEF Throws
  <2>2. p \in {"releasing", "answering"}
    BY <1>0, CatchTypes
  <2> QED
    BY <1>0, <1>1, <2>1, <2>2, PlaceSets DEF PCs, Events
<1> QED
  BY <1>0, <1>2, <1>3, <1>4, <1>5, <1>6, <1>7, <1>8, <1>9, <1>10 DEF ActorStep, Shared, Webhook, Jobs

(* A step of an actor that is not at work leaves status, configuration and *)
(* newest delivery alone, or is a beginning.                               *)
LEMMA StepTables ==
    ASSUME NEW a \in Actors, ActorStep(a)
    PROVE  \/ UNCHANGED <<status, cfg>>
           \/ a \in Deliveries /\ Busy(a)
<1> USE DEF tables, history
<1>1. CASE a \in Deliveries /\ (Refuse(a) \/ Accept(a) \/ Claim(a) \/ ClaimThrows(a))
  BY <1>1 DEF Refuse, Accept, Claim, Begins, ClaimThrows
<1>2. CASE a \in Deliveries /\ (Succeed(a) \/ Release(a) \/ ReleaseThrows(a) \/ SetToken(a) \/ Upsert(a)
                                \/ SaveSecrets(a) \/ SavePlain(a) \/ TestConnection(a) \/ Refused(a)
                                \/ Hook(a) \/ Activate(a) \/ Find(a) \/ SetStatus(a))
  BY <1>2
  DEF Succeed, Release, ReleaseThrows, SetToken, Upsert, SaveSecrets, SavePlain, TestConnection,
      Refused, Hook, Activate, Find, SetStatus, Busy, At
<1>3. CASE Shared(a)
  BY <1>3 DEF Shared, Context, Provision, ReadMap, ReadMapFails, WriteMap, Throws, StoreSecret
<1> QED
  BY <1>1, <1>2, <1>3 DEF ActorStep, Webhook, StartJob, JobRefused, Snapshot, SyncEnds

(* Step by step, a delivery that is alone at work moves the tables on.     *)
LEMMA ProgressStep ==
    ASSUME TypeInv, NEW d \in Deliveries, HookFollows(d), InPlace(d), ActorStep(d), Busy(d)',
           Busy(d) => Progress(d)
    PROVE  Progress(d)'
<1> DEFINE e == Body(d).event
<1> USE DEF tables, history
<1>0. /\ TypeOK /\ d \in Actors /\ d \notin Jobs /\ d \notin Syncs /\ e \in Events
      /\ Body(d)' = Body(d) /\ ~At(d, "over") /\ Body(d).configs \in BOOLEAN
      /\ status \in {"absent", "inactive", "active", "uninstalled"}
      /\ cfg \in [secrets: Sigs \union {Null}, plain: Sigs \union {Null}]
  BY ActorsAreApart, BodyTypes, StepPayload, NotOver DEF TypeInv, TypeOK, Body, Actors, Jobs
<1>1. ASSUME NEW p \in PCs, Goes(d, p) PROVE frame'[d].pc = p
  BY <1>0, <1>1, GoesMoves
<1>2. CASE Refuse(d) \/ Accept(d) \/ ClaimThrows(d) \/ Succeed(d) \/ Release(d) \/ ReleaseThrows(d)
  BY <1>1, <1>2 DEF Refuse, Accept, ClaimThrows, Succeed, Release, ReleaseThrows, PCs, Busy
<1>3. CASE Claim(d)
  <2>1. CASE SigOf[d] \in seen
    BY <1>1, <1>3, <2>1 DEF Claim, PCs, Busy
  <2>2. CASE SigOf[d] \notin seen
    <3>1. frame'[d].pc = FirstStep(e)
      BY <1>0, <1>1, <1>3, <2>2, BodyTypes DEF Claim, Begins, PCs
    <3>2. /\ e \in {"install", "activate"} => FirstStep(e) = "token"
          /\ e = "config_updated" => FirstStep(e) = "secrets"
          /\ e \in {"deactivate", "uninstall"} => FirstStep(e) = "finding"
      BY <1>0 DEF FirstStep, Events
    <3>3. \/ e \in {"install", "activate"} /\ frame'[d].pc = "token"
          \/ e = "config_updated" /\ frame'[d].pc = "secrets"
          \/ e \in {"deactivate", "uninstall"} /\ frame'[d].pc = "finding"
      BY <1>0, <3>1, <3>2 DEF Events
    <3> HIDE DEF e
    <3> QED
      BY <1>0, <3>3 DEF Progress, SavesConfigs, At, e
  <2> QED
    BY <2>1, <2>2
<1>4. CASE SetToken(d) \/ Upsert(d)
  <2>1. Busy(d) /\ e \in {"install", "activate"}
    BY <1>0, <1>4, PlaceSets DEF SetToken, Upsert, At, InPlace, Busy, Events
  <2>2. /\ frame'[d].pc = (IF SetToken(d) THEN "upsert" ELSE "secrets") /\ cfg' = cfg
        /\ Upsert(d) => status' = "inactive"
        /\ SetToken(d) => frame'[d].pc = "upsert"
        /\ Upsert(d) => frame'[d].pc = "secrets"
    BY <1>1, <1>4 DEF SetToken, Upsert, PCs, At
  <2> QED
    BY <1>0, <1>4, <2>1, <2>2 DEF Progress, SavesConfigs, At
<1>5. CASE SaveSecrets(d) \/ SavePlain(d)
  <2>1. Busy(d) /\ e \in {"install", "activate", "config_updated"}
    BY <1>0, <1>5, PlaceSets DEF SaveSecrets, SavePlain, At, InPlace, Busy, Events
  <2>2. AfterConfigs(d) = IF e = "install" THEN "answering" ELSE "context"
    BY DEF AfterConfigs
  <2>3. status' = status
    BY <1>5 DEF SaveSecrets, SavePlain
  <2>4. CASE SaveSecrets(d) /\ Body(d).configs
    <3>1. frame'[d].pc = "plain" /\ cfg'.secrets = SigOf[d] /\ At(d, "secrets")
      BY <1>0, <1>1, <2>4 DEF SaveSecrets, PCs
    <3> QED
      BY <1>0, <2>1, <2>3, <2>4, <3>1 DEF Progress, SavesConfigs, At
  <2>5. CASE SaveSecrets(d) /\ ~Body(d).configs
    <3>1. frame'[d].pc = AfterConfigs(d) /\ cfg' = cfg /\ At(d, "secrets")
      BY <1>0, <1>1, <2>2, <2>5 DEF SaveSecrets, PCs
    <3> QED
      BY <1>0, <2>1, <2>2, <2>3, <2>5, <3>1 DEF Progress, SavesConfigs, InEffect, At
  <2>6. CASE SavePlain(d)
    <3>1. /\ frame'[d].pc = AfterConfigs(d) /\ At(d, "plain")
          /\ cfg' = [cfg EXCEPT !.plain = SigOf[d]]
      BY <1>0, <1>1, <2>2, <2>6 DEF SavePlain, PCs
    <3>2. cfg' = [secrets |-> SigOf[d], plain |-> SigOf[d]]
      BY <1>0, <2>1, <3>1 DEF Progress
    <3> QED
      BY <1>0, <2>1, <2>2, <2>3, <3>1, <3>2 DEF Progress, SavesConfigs, InEffect, At
  <2> QED
    BY <1>5, <2>4, <2>5, <2>6
<1>6. CASE TestConnection(d) \/ Refused(d) \/ Activate(d)
  <2>1. Busy(d) /\ e = "activate"
    BY <1>0, <1>6, PlaceSets DEF TestConnection, Refused, Activate, At, InPlace, Busy, Events
  <2>2. cfg' = cfg
    BY <1>6 DEF TestConnection, Refused, Activate
  <2>3. CASE TestConnection(d)
    <3>1. status' = status /\ frame'[d].pc \in {"provisioning", "refusing"} /\ At(d, "testing")
      BY <1>1, <2>3 DEF TestConnection, PCs
    <3> QED
      BY <1>0, <2>1, <2>2, <3>1 DEF Progress, SavesConfigs, At
  <2>4. CASE Refused(d)
    <3>1. status' = "inactive" /\ frame'[d].pc = "releasing"
      BY <1>1, <2>4 DEF Refused, PCs
    <3> QED
      BY <1>0, <2>1, <2>2, <3>1 DEF Progress, SavesConfigs, At
  <2>5. CASE Activate(d)
    <3>1. At(d, "activating") /\ frame'[d].pc = "answering" /\ status' = WithStatus("active")
      BY <1>1, <2>5 DEF Activate, PCs
    <3>2. status' = "active"
      BY <2>1, <3>1 DEF Progress, WithStatus, At
    <3> QED
      BY <1>0, <2>1, <2>2, <3>1, <3>2 DEF Progress, SavesConfigs, InEffect, At
  <2> QED
    BY <1>6, <2>3, <2>4, <2>5
<1>7. CASE Hook(d)
  <2>1. /\ Busy(d) /\ At(d, "hook") /\ UNCHANGED <<status, cfg>>
        /\ frame'[d].pc = IF e = "activate" THEN "activating" ELSE "answering"
        /\ e # "install"
    BY <1>0, <1>1, <1>7, PlaceSets DEF Hook, At, Busy, PCs, InPlace
  <2> QED
    BY <1>0, <2>1 DEF Progress, SavesConfigs, InEffect, At, Events
<1>8. CASE Find(d) \/ SetStatus(d)
  <2>1. Busy(d) /\ e \in {"deactivate", "uninstall"} /\ cfg' = cfg
    BY <1>0, <1>8, PlaceSets DEF Find, SetStatus, At, InPlace, Busy, Events
  <2>2. Target(d) = IF e = "uninstall" THEN "uninstalled" ELSE "inactive"
    BY DEF Target
  <2>3. CASE Find(d)
    <3>1. /\ status' = status
          /\ frame'[d].pc = IF AlreadyThere(d) THEN "answering" ELSE "setting"
      BY <1>1, <2>3 DEF Find, PCs
    <3> QED
      BY <1>0, <2>1, <2>2, <3>1 DEF Progress, SavesConfigs, InEffect, At, AlreadyThere
  <2>4. CASE SetStatus(d)
    <3>1. status' = WithStatus(Target(d)) /\ frame'[d].pc = "context"
      BY <2>4, SetStatusMoves DEF SetStatus
    <3> QED
      BY <1>0, <2>1, <2>2, <3>1 DEF Progress, SavesConfigs, At, WithStatus
  <2> QED
    BY <1>8, <2>3, <2>4
<1>9. CASE Context(d) \/ StoreSecret(d)
  <2>1. /\ Busy(d) /\ frame[d].pc \in {"context", "storing"} /\ UNCHANGED <<status, cfg>>
        /\ e \in {"activate", "config_updated", "deactivate", "uninstall"}
    BY <1>0, <1>9, PlaceSets DEF Context, StoreSecret, At, InPlace, Busy, Events
  <2>2. frame'[d].pc \in {"storing", "hook", "testing", "provisioning"}
    BY <1>0, <1>9, ContextTypes DEF AfterContext
  <2> QED
    BY <1>0, <2>1, <2>2 DEF Progress, SavesConfigs, At
<1>10. CASE Provision(d) \/ ReadMap(d) \/ ReadMapFails(d) \/ WriteMap(d)
  <2>1. /\ Busy(d) /\ frame[d].pc \in {"provisioning", "reading", "writing"} /\ UNCHANGED <<status, cfg>>
        /\ e \in {"activate", "config_updated"}
    BY <1>0, <1>10, PlaceSets DEF Provision, ReadMap, ReadMapFails, WriteMap, At, InPlace, Busy, Events
  <2>2. AfterMap(d) \in {"refusing", "context"}
    BY <1>0 DEF AfterMap
  <2>3. frame'[d].pc \in {"reading", "writing", "refusing", "context"}
    BY <1>0, <1>10, <2>2, MapTypes
  <2> QED
    BY <1>0, <2>1, <2>3 DEF Progress, SavesConfigs, At
<1>11. CASE Throws(d)
  <2>1. PICK p \in Catches(d) \ {frame[d].pc} : Goes(d, p)
    BY <1>11 DEF Throws
  <2>2. /\ p \in {"releasing", "answering"} /\ frame'[d].pc = p /\ UNCHANGED <<status, cfg>>
        /\ frame[d].pc \notin {"releasing", "new", "claiming", "over"} /\ Busy(d)
    BY <1>0, <1>1, <1>11, <2>1, CatchTypes DEF PCs, Throws, Busy
  <2>3. CASE p = "releasing"
    BY <1>0, <2>2, <2>3 DEF Progress, SavesConfigs, At
  <2>4. CASE p = "answering"
    <3>1. frame[d].pc # "answering" /\ frame[d].pc \in PlacesOf(e)
      BY <2>1, <2>2, <2>4 DEF InPlace
    <3>2. e \notin {"install", "activate"}
      <4>1. e = "activate" => Catches(d) = {"releasing"}
        BY <1>0 DEF Catches
      <4>2. e = "install" => ~frame[d].hooking
        BY <1>0, <2>4, <3>1, <2>2, PlaceSets DEF HookFollows
      <4>3. e = "install" => Catches(d) = {"releasing"}
        BY <1>0, <4>2 DEF Catches
      <4> QED
        BY <2>1, <2>4, <4>1, <4>3
    <3>3. e = "config_updated" => frame[d].pc \notin {"token", "upsert", "secrets", "plain"}
      BY <1>0, <2>1, <2>4, <3>1, PlaceSets DEF Catches
    <3>4. e \in {"deactivate", "uninstall"} => frame[d].pc \in {"context", "storing", "hook"}
      BY <1>0, <2>1, <2>2, <2>4, <3>1, PlaceSets DEF Catches, HookFollows
    <3> QED
      BY <1>0, <2>2, <2>4, <3>1, <3>2, <3>3, <3>4 DEF Progress, SavesConfigs, InEffect, At, Events
  <2> QED
    BY <2>2, <2>3, <2>4
<1> QED
  BY <1>0, <1>2, <1>3, <1>4, <1>5, <1>6, <1>7, <1>8, <1>9, <1>10, <1>11
  DEF ActorStep, Shared, Webhook, Jobs

(* A delivery that has not been claimed is not answered success.           *)
LEMMA FirstAnswers ==
    ASSUME TypeInv, NEW d \in Deliveries, ActorStep(d), ~Busy(d), reply'[d] = "success"
    PROVE  reply'[d] = reply[d]
<1> USE DEF history
<1>0. /\ d \notin Jobs /\ d \notin Syncs
      /\ reply \in [Deliveries -> {"none", "refused", "replayed", "success", "failure", "error", "lost"}]
  BY ActorsAreApart DEF TypeInv, TypeOK, Actors, Jobs
<1>1. CASE Refuse(d) \/ ClaimThrows(d)
  BY <1>0, <1>1 DEF Refuse, ClaimThrows
<1>2. CASE Claim(d)
  BY <1>0, <1>2 DEF Claim, Begins
<1>3. CASE Accept(d)
  BY <1>3 DEF Accept
<1>4. CASE Succeed(d) \/ Release(d) \/ ReleaseThrows(d) \/ SetToken(d) \/ Upsert(d)
           \/ SaveSecrets(d) \/ SavePlain(d) \/ TestConnection(d) \/ Refused(d)
           \/ Hook(d) \/ Activate(d) \/ Find(d) \/ SetStatus(d)
  BY <1>4
  DEF Succeed, Release, ReleaseThrows, SetToken, Upsert, SaveSecrets, SavePlain, TestConnection,
      Refused, Hook, Activate, Find, SetStatus, Busy, At
<1>5. CASE Shared(d)
  BY <1>5 DEF Shared, Context, Provision, ReadMap, ReadMapFails, WriteMap, Throws, StoreSecret, Busy, At
<1> QED
  BY <1>0, <1>1, <1>2, <1>3, <1>4, <1>5 DEF ActorStep, Webhook, Jobs

(* A delivery alone at work finds the tables as it left them at its step   *)
(* before.                                                                 *)
LEMMA SerialStep ==
    ASSUME SerialInv, TypeInv', NEW a \in Actors, ActorStep(a)
    PROVE  SerialInv'
<1>0. /\ TypeInv /\ TypeOK /\ MapInv /\ OthersStand(a) /\ Deliveries \subseteq Actors
      /\ ~At(a, "over") /\ payload' = payload /\ overlapped \in BOOLEAN
      /\ OneAtATime /\ OneAtATime' /\ (overlapped => overlapped')
      /\ (a \in Jobs <=> a \notin Deliveries)
  BY NotOver, StepMoves, StepPayload, AloneStep, ActorsAreApart
  DEF SerialInv, SecretInv, MapInv, TypeInv, TypeOK, Actors
<1>1. SecretInv'
  BY SecretStep DEF SerialInv
<1>2. RepliesEnd'
  <2>1. a \in Deliveries => reply[a] = "none"
    BY <1>0 DEF SerialInv, RepliesEnd
  <2> QED
    BY <1>0, <2>1, StepReplies DEF SerialInv, RepliesEnd, OthersStand, At
<1>3. ASSUME NEW d \in Deliveries PROVE InPlace(d)'
  <2>1. CASE d = a
    <3>1. InPlace(d) /\ HookFollows(d)
      BY <1>0 DEF SerialInv, MapInv
    <3> QED
      BY <1>0, <2>1, <3>1, PlaceStep
  <2>2. CASE d # a
    BY <1>0, <2>2 DEF SerialInv, InPlace, OthersStand, Busy, Body
  <2> QED
    BY <2>1, <2>2
<1>4. ASSUME NEW d \in Deliveries, Busy(d)', ~overlapped' PROVE Progress(d)'
  <2>1. CASE d = a
    <3>1. InPlace(d) /\ HookFollows(d) /\ (Busy(d) => Progress(d))
      BY <1>0, <1>4 DEF SerialInv, MapInv
    <3> QED
      BY <1>0, <1>4, <2>1, <3>1, ProgressStep
  <2>2. CASE d # a
    <3>1. Busy(d) /\ Progress(d) /\ frame'[d] = frame[d]
      BY <1>0, <1>4, <2>2 DEF SerialInv, OthersStand, Busy
    <3>2. ~Busy(a)
      BY <1>0, <1>4, <2>2, <3>1 DEF OneAtATime
    <3>3. UNCHANGED <<status, cfg>>
      BY <3>2, StepTables
    <3> QED
      BY <1>0, <3>1, <3>3 DEF Progress, SavesConfigs, InEffect, Body, At
  <2> QED
    BY <2>1, <2>2
<1>5. SerialWebhooksTakeEffect'
  <2> SUFFICES ASSUME NEW n \in Deliveries, newest' = n, ~overlapped', reply'[n] = "success"
               PROVE  InEffect(n)'
    <3>1. newest' \in Deliveries \union {Null}
      BY DEF TypeInv, TypeOK
    <3> QED
      BY <3>1 DEF SerialWebhooksTakeEffect, InEffect, Body
  <2>1. ~overlapped
    BY <1>0
  <2>2. At(n, "over")'
    BY <1>2 DEF RepliesEnd, At
  <2>3. CASE a \in Deliveries /\ Busy(a)
    <3>1. newest = a /\ n = a
      BY <1>0, <2>1, <2>3, StepWork DEF OneAtATime, Busy, At
    <3>2. reply[a] = "none" /\ Progress(a)
      BY <1>0, <2>1, <2>3 DEF SerialInv, RepliesEnd
    <3>3. Succeed(a) /\ At(a, "answering")
      <4>1. CASE Release(a) \/ ReleaseThrows(a)
        BY <1>0, <2>3, <3>1, <4>1 DEF Release, ReleaseThrows, TypeOK
      <4>2. CASE Refuse(a) \/ Accept(a) \/ Claim(a) \/ ClaimThrows(a)
        BY <2>3, <4>2 DEF Refuse, Accept, Claim, ClaimThrows, Busy, At
      <4>3. CASE SetToken(a) \/ Upsert(a) \/ SaveSecrets(a) \/ SavePlain(a) \/ TestConnection(a)
                 \/ Refused(a) \/ Hook(a) \/ Activate(a) \/ Find(a) \/ SetStatus(a)
        BY <3>1, <3>2, <4>3
        DEF SetToken, Upsert, SaveSecrets, SavePlain, TestConnection, Refused, Hook, Activate, Find, SetStatus
      <4>4. CASE Shared(a)
        BY <3>1, <3>2, <4>4
        DEF Shared, Context, Provision, ReadMap, ReadMapFails, WriteMap, Throws, StoreSecret
      <4>5. CASE Succeed(a)
        BY <4>5 DEF Succeed
      <4> QED
        BY <1>0, <2>3, <4>1, <4>2, <4>3, <4>4, <4>5 DEF ActorStep, Webhook, Jobs
    <3>4. InEffect(a)
      BY <3>2, <3>3 DEF Progress
    <3>5. UNCHANGED <<status, cfg>>
      BY <3>3 DEF Succeed, tables
    <3> QED
      BY <1>0, <3>1, <3>4, <3>5 DEF InEffect, Body
  <2>4. CASE ~(a \in Deliveries /\ Busy(a))
    <3>1. UNCHANGED <<status, cfg>>
      BY <2>4, StepTables
    <3>2. newest' = newest
      <4>1. a \in Deliveries /\ At(a, "claiming") /\ newest' = a /\ UNCHANGED reply => FALSE
        BY <1>0 DEF SerialInv, RepliesEnd, At
      <4> QED
        BY <1>0, <4>1, StepWork
    <3>3. reply'[n] = reply[n]
      <4>1. CASE n = a
        BY <1>0, <2>4, <4>1, FirstAnswers
      <4>2. CASE n # a
        BY <1>0, <4>2, StepReplies
      <4> QED
        BY <4>1, <4>2
    <3>4. InEffect(n)
      <4>1. newest = n /\ reply[newest] = "success" /\ newest # Null
        BY <3>2, <3>3, ActorsAssumption DEF Actors
      <4>2. InEffect(newest)
        BY <2>1, <4>1 DEF SerialInv, SerialWebhooksTakeEffect
      <4> QED
        BY <4>1, <4>2
    <3> QED
      BY <1>0, <3>1, <3>4 DEF InEffect, Body
  <2> QED
    BY <2>3, <2>4
<1> QED
  BY <1>1, <1>2, <1>3, <1>4, <1>5 DEF SerialInv

(* A crash ends the delivery at work, which is not answered then.          *)
LEMMA SerialCrash == ASSUME SerialInv, TypeInv', Crash PROVE SerialInv'
<1>0. /\ TypeInv /\ TypeOK /\ Deliveries \subseteq Actors
      /\ UNCHANGED <<payload, status, cfg, overlapped, newest>>
  BY DEF SerialInv, SecretInv, MapInv, TypeInv, Actors, Crash, tables
<1>1. ASSUME NEW a \in Actors PROVE frame'[a].pc \in {"new", "over"}
  BY <1>0, CrashMoves DEF At, Idle
<1>2. ASSUME NEW d \in Deliveries
      PROVE  reply'[d] = IF frame[d].pc \in {"new", "over"} THEN reply[d] ELSE "lost"
  BY DEF Crash
<1>3. RepliesEnd'
  BY <1>0, <1>2, CrashMoves DEF SerialInv, RepliesEnd, At
<1>4. ASSUME NEW d \in Deliveries PROVE InPlace(d)' /\ ~Busy(d)'
  BY <1>0, <1>1 DEF InPlace, Busy
<1>5. SerialWebhooksTakeEffect'
  <2> SUFFICES ASSUME NEW n \in Deliveries, newest' = n, ~overlapped', reply'[n] = "success"
               PROVE  InEffect(n)'
    <3>1. newest' \in Deliveries \union {Null}
      BY DEF TypeInv, TypeOK
    <3> QED
      BY <3>1 DEF SerialWebhooksTakeEffect, InEffect, Body
  <2>1. newest = n /\ newest # Null
    BY <1>0, ActorsAssumption DEF Actors
  <2>2. reply[newest] = "success"
    BY <1>2, <2>1
  <2>3. InEffect(newest)
    BY <1>0, <2>1, <2>2 DEF SerialInv, SerialWebhooksTakeEffect
  <2>4. InEffect(n)
    BY <2>1, <2>3
  <2> QED
    BY <1>0, <2>4 DEF InEffect, Body
<1>6. SecretInv'
  BY SecretCrash DEF SerialInv
<1> QED
  BY <1>3, <1>4, <1>5, <1>6 DEF SerialInv

(* The invariant is inductive.                                             *)
LEMMA SerialNext == SerialInv /\ [Next]_vars => SerialInv'
<1> SUFFICES ASSUME SerialInv, [Next]_vars PROVE SerialInv'
  OBVIOUS
<1>1. TypeInv' /\ SecretInv'
  BY TypeNext, SecretNext DEF SerialInv, SecretInv, MapInv
<1>2. CASE UNCHANGED vars
  BY <1>1, <1>2
  DEF SerialInv, RepliesEnd, InPlace, Progress, SavesConfigs, SerialWebhooksTakeEffect, InEffect,
      Body, Busy, At, vars, tables, history
<1> QED
  BY <1>1, <1>2, NextSteps, SerialStep, SerialCrash

(* No webhook is in effect, as none was answered.                          *)
LEMMA SerialInit == Init => SerialInv
<1> SUFFICES ASSUME Init PROVE SerialInv
  OBVIOUS
<1>1. Deliveries \subseteq Actors /\ newest = Null
  BY DEF Init, Actors
<1>2. \A d \in Deliveries : frame[d].pc = "new" /\ reply[d] = "none"
  BY <1>1 DEF Init, Idle
<1> QED
  BY <1>1, <1>2, SecretInit
  DEF SerialInv, RepliesEnd, InPlace, Busy, At, SerialWebhooksTakeEffect

(* Webhooks handled one after the other leave the tables as the last one   *)
(* that was answered success asked, whatever failed or crashed before it.  *)
THEOREM LastWebhookIsInEffect == Spec => []SerialWebhooksTakeEffect
<1>1. SerialInv => SerialWebhooksTakeEffect
  BY DEF SerialInv
<1> QED
  BY <1>1, SerialInit, SerialNext, PTL DEF Spec

=============================================================================

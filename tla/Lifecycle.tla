----------------------------- MODULE Lifecycle -----------------------------
(***************************************************************************)
(* One installation under its lifecycle webhooks: handleWebhook and the    *)
(* handlers of src/lifecycle/dispatcher.ts, over the installs, state and   *)
(* webhook_seen tables, with the provisioning map of                       *)
(* provisioning-state.ts, the configuration of config-store.ts and the     *)
(* inbound secret of inbound.ts.  The jobs of src/runtime/create-app.ts    *)
(* that use the same map, a reprovisioning and a sync, take its lock; the  *)
(* webhooks do not.                                                        *)
(*                                                                         *)
(* The integration has a provisioning plan and all three hooks.  An action *)
(* is the code up to the next store write or external call: consecutive    *)
(* reads of a context are one action.                                      *)
(***************************************************************************)
EXTENDS FiniteSets, Naturals

CONSTANTS
    Deliveries,   \* webhook requests, retries and verbatim replays included
    Sigs,         \* signatures: each binds a timestamp and a body
    SigOf,        \* delivery -> its signature
    Payloads,     \* the bodies ShopiMind may send: [event, token, configs]
    Reprovisions, \* reprovision() calls of the admin surface
    Syncs,        \* runSyncOnce() calls
    Resources,    \* what the provisioning plan declares
    Mapped,       \* the resources with an id in the map: data sources and definitions
    Null

Actors == Deliveries \union Reprovisions \union Syncs
Jobs == Reprovisions \union Syncs

ASSUME ActorsAssumption ==
    /\ SigOf \in [Deliveries -> Sigs]
    /\ Deliveries \intersect Jobs = {} /\ Reprovisions \intersect Syncs = {}
    /\ Null \notin Actors \union Sigs

ASSUME PlanAssumption == Mapped \subseteq Resources /\ IsFiniteSet(Resources)

Events == {"install", "activate", "deactivate", "uninstall", "config_updated"}

ASSUME PayloadsAssumption ==
    Payloads \subseteq [event: Events, token: BOOLEAN, configs: BOOLEAN]

VARIABLES
    payload,    \* signature -> the body it binds
    status,     \* installs.status, "absent" without a row
    token,      \* an access token is stored
    cfg,        \* the signatures whose configs were last stored: cfgsec: keys, cfg key
    ids,        \* keys of the map stored under __provisioning
    secret,     \* __inbound_secret, named by the actor that generated it
    seen,       \* dedup keys of webhook_seen
    lock,       \* the job that holds the installation in `running`
    frame,      \* actor -> where it awaits and what it holds
    reply,      \* delivery -> its answer
    begun,      \* history: signature -> executions of its handler
    failed,     \* history: signatures an execution of which failed or was cut short
    persisted,  \* history: every key ever written to the map
    raced,      \* history: a map was written from a read that failed or was overtaken
    intruded,   \* history: syncs during which a webhook wrote the map
    overlapped, \* history: two actors were at work at once
    doubled,    \* history: a context found no secret while another one was storing its own
    handed,     \* history: the secrets the hooks were given
    newest      \* history: the delivery whose handling began last

tables == <<status, token, cfg, ids, secret>>
history == <<begun, failed, persisted, raced, intruded, overlapped, doubled, handed, newest>>
vars == <<payload, tables, seen, lock, frame, reply, history>>

PCs == {"new", "claiming", "token", "upsert", "secrets", "plain", "context", "storing",
        "testing", "provisioning", "reading", "writing", "refusing", "hook", "activating",
        "finding", "setting", "snapshot", "syncing", "answering", "releasing", "over"}

Idle == [pc |-> "new", hooking |-> FALSE, base |-> {}, got |-> {}, sees |-> {}, secret |-> Null]

At(a, p) == frame[a].pc = p
Placed(a, p) == IF p = "over" THEN [Idle EXCEPT !.pc = p] ELSE [frame[a] EXCEPT !.pc = p]
Goes(a, p) == frame' = [frame EXCEPT ![a] = Placed(a, p)]
Body(d) == payload[SigOf[d]]
Handling(d) == frame[d].pc \notin {"new", "claiming", "over"}
Working == lock # Null \/ \E d \in Deliveries : Handling(d)

Init ==
    /\ payload \in [Sigs -> Payloads]
    /\ status = "absent" /\ token = FALSE
    /\ cfg = [secrets |-> Null, plain |-> Null]
    /\ ids = {} /\ secret = Null /\ seen = {} /\ lock = Null
    /\ frame = [a \in Actors |-> Idle]
    /\ reply = [d \in Deliveries |-> "none"]
    /\ begun = [s \in Sigs |-> 0]
    /\ failed = {} /\ persisted = {} /\ intruded = {} /\ handed = {}
    /\ raced = FALSE /\ overlapped = FALSE /\ doubled = FALSE /\ newest = Null

-----------------------------------------------------------------------------
(* handleWebhook: reception, claim, answer.                                *)

(* 400, 401, unknown_event: refused before anything is claimed.            *)
Refuse(d) ==
    /\ At(d, "new")
    /\ Goes(d, "over") /\ reply' = [reply EXCEPT ![d] = "refused"]
    /\ UNCHANGED <<payload, tables, seen, lock, history>>

Accept(d) ==
    /\ At(d, "new") /\ Goes(d, "claiming")
    /\ UNCHANGED <<payload, tables, seen, lock, reply, history>>

FirstStep(event) ==
    CASE event \in {"install", "activate"} -> "token"
      [] event = "config_updated" -> "secrets"
      [] event \in {"deactivate", "uninstall"} -> "finding"

Begins(d) ==
    /\ Goes(d, FirstStep(Body(d).event))
    /\ begun' = [begun EXCEPT ![SigOf[d]] = @ + 1]
    /\ overlapped' = (overlapped \/ Working)
    /\ newest' = d
    /\ UNCHANGED <<reply, failed, persisted, raced, intruded, doubled, handed>>

Mutant_Claim_Unconditional(d) ==
    /\ At(d, "claiming")
    /\ seen' = seen \union {SigOf[d]} /\ Begins(d)
    /\ UNCHANGED <<payload, tables, lock>>

(* INSERT ... ON CONFLICT DO NOTHING: already claimed, a harmless replay.  *)
Claim(d) ==
    /\ At(d, "claiming")
    /\ IF SigOf[d] \in seen
       THEN /\ Goes(d, "over") /\ reply' = [reply EXCEPT ![d] = "replayed"]
            /\ UNCHANGED <<seen, history>>
       ELSE seen' = seen \union {SigOf[d]} /\ Begins(d)
    /\ UNCHANGED <<payload, tables, lock>>

(* The claim throws, applied or not: handleWebhook throws, Hapi answers 500.*)
ClaimThrows(d) ==
    /\ At(d, "claiming")
    /\ Goes(d, "over") /\ reply' = [reply EXCEPT ![d] = "error"]
    /\ \/ UNCHANGED seen
       \/ SigOf[d] \notin seen /\ seen' = seen \union {SigOf[d]}
    /\ UNCHANGED <<payload, tables, lock, history>>

Succeed(d) ==
    /\ At(d, "answering") /\ Goes(d, "over")
    /\ reply' = [reply EXCEPT ![d] = "success"]
    /\ UNCHANGED <<payload, tables, seen, lock, history>>

Mutant_Release_Kept(d) ==
    /\ At(d, "releasing") /\ Goes(d, "over")
    /\ reply' = [reply EXCEPT ![d] = "failure"]
    /\ UNCHANGED <<payload, tables, seen, lock, history>>

Release(d) ==
    /\ At(d, "releasing") /\ Goes(d, "over")
    /\ seen' = seen \ {SigOf[d]}
    /\ reply' = [reply EXCEPT ![d] = "failure"]
    /\ UNCHANGED <<payload, tables, lock, history>>

(* The release throws, again in the catch: Hapi answers 500.               *)
ReleaseThrows(d) ==
    /\ At(d, "releasing") /\ Goes(d, "over")
    /\ reply' = [reply EXCEPT ![d] = "error"]
    /\ UNCHANGED <<payload, tables, seen, lock, history>>

-----------------------------------------------------------------------------
(* What the handlers of install, activation and configuration share.       *)

SetToken(d) ==
    /\ At(d, "token") /\ Goes(d, "upsert")
    /\ token' = (token \/ Body(d).token)
    /\ UNCHANGED <<payload, status, cfg, ids, secret, seen, lock, reply, history>>

AfterConfigs(d) == IF Body(d).event = "install" THEN "answering" ELSE "context"

Upsert(d) ==
    /\ At(d, "upsert") /\ Goes(d, "secrets")
    /\ status' = "inactive"
    /\ UNCHANGED <<payload, token, cfg, ids, secret, seen, lock, reply, history>>

(* saveConfigs: the sensitive fields one by one, then the others.          *)
SaveSecrets(d) ==
    /\ At(d, "secrets")
    /\ IF Body(d).configs
       THEN Goes(d, "plain") /\ cfg' = [cfg EXCEPT !.secrets = SigOf[d]]
       ELSE Goes(d, AfterConfigs(d)) /\ UNCHANGED cfg
    /\ UNCHANGED <<payload, status, token, ids, secret, seen, lock, reply, history>>

SavePlain(d) ==
    /\ At(d, "plain") /\ Goes(d, AfterConfigs(d))
    /\ cfg' = [cfg EXCEPT !.plain = SigOf[d]]
    /\ UNCHANGED <<payload, status, token, ids, secret, seen, lock, reply, history>>

(* Where a context is needed: before a hook, or before everything else.    *)
AfterContext(a) ==
    IF frame[a].hooking THEN "hook"
    ELSE CASE a \in Syncs -> "snapshot"
           [] a \in Deliveries /\ Body(a).event = "activate" -> "testing"
           [] OTHER -> "provisioning"

(* ensureInboundSecret reads none, and another call of it has read none    *)
(* and awaits its setSecret: the two will generate two secrets.            *)
FindsNoneEither(a) == secret = Null /\ \E b \in Actors \ {a} : At(b, "storing")

Mutant_Context_FirstOnly(a) ==
    /\ At(a, "context") /\ token
    /\ frame' = [frame EXCEPT ![a].sees = IF frame[a].hooking THEN @ ELSE ids, ![a].secret = secret,
                              ![a].pc = IF secret = Null THEN "storing" ELSE AfterContext(a)]
    /\ doubled' = (doubled \/ FindsNoneEither(a))
    /\ UNCHANGED <<payload, tables, seen, lock, reply, begun, failed, persisted, raced, intruded,
                   overlapped, handed, newest>>

(* buildContext, up to the first await of ensureInboundSecret.  Without a  *)
(* token it throws, or returns null to a job that then stops.              *)
Context(a) ==
    /\ At(a, "context") /\ token
    /\ frame' = [frame EXCEPT ![a].sees = ids, ![a].secret = secret,
                              ![a].pc = IF secret = Null THEN "storing" ELSE AfterContext(a)]
    /\ doubled' = (doubled \/ FindsNoneEither(a))
    /\ UNCHANGED <<payload, tables, seen, lock, reply, begun, failed, persisted, raced, intruded,
                   overlapped, handed, newest>>

Mutant_StoreSecret_NotPersisted(a) ==
    /\ At(a, "storing")
    /\ frame' = [frame EXCEPT ![a].secret = a, ![a].pc = AfterContext(a)]
    /\ UNCHANGED <<payload, tables, seen, lock, reply, history>>

StoreSecret(a) ==
    /\ At(a, "storing")
    /\ secret' = a
    /\ frame' = [frame EXCEPT ![a].secret = a, ![a].pc = AfterContext(a)]
    /\ UNCHANGED <<payload, status, token, cfg, ids, seen, lock, reply, history>>

TestConnection(d) ==
    /\ At(d, "testing")
    /\ \E ok \in BOOLEAN : Goes(d, IF ok THEN "provisioning" ELSE "refusing")
    /\ UNCHANGED <<payload, tables, seen, lock, reply, history>>

(* runProvisioning: best effort, got is what it could resolve.             *)
Provision(a) ==
    /\ At(a, "provisioning")
    /\ \E got \in SUBSET Resources :
           frame' = [frame EXCEPT ![a].got = got, ![a].pc = "reading"]
    /\ UNCHANGED <<payload, tables, seen, lock, reply, history>>

(* persistProvisioningMap reads; "unreadable [...]: treat it as absent".   *)
ReadMap(a) ==
    /\ At(a, "reading")
    /\ frame' = [frame EXCEPT ![a].base = ids, ![a].pc = "writing"]
    /\ raced' = (raced \/ \E b \in Actors \ {a} : At(b, "writing"))
    /\ UNCHANGED <<payload, tables, seen, lock, reply, begun, failed, persisted, intruded, overlapped, doubled, handed, newest>>

ReadMapFails(a) ==
    /\ At(a, "reading")
    /\ frame' = [frame EXCEPT ![a].base = {}, ![a].pc = "writing"]
    /\ raced' = TRUE
    /\ UNCHANGED <<payload, tables, seen, lock, reply, begun, failed, persisted, intruded, overlapped, doubled, handed, newest>>

Mutant_Merged_Replaced(a) == frame[a].got \intersect Mapped

(* The keys resolved by this run win; the others are kept.                 *)
Merged(a) == frame[a].base \union (frame[a].got \intersect Mapped)

(* A hard failure only if nothing succeeded.                               *)
AfterMap(a) ==
    CASE a \in Jobs -> "over"
      [] a \in Deliveries /\ Body(a).event = "activate" /\ frame[a].got = {} /\ Resources # {} -> "refusing"
      [] OTHER -> "context"

WriteMap(a) ==
    /\ At(a, "writing")
    /\ ids' = Merged(a)
    /\ frame' = [frame EXCEPT ![a] = [Placed(a, AfterMap(a)) EXCEPT
                    !.base = {}, !.hooking = AfterMap(a) = "context"]]
    /\ lock' = IF a \in Jobs THEN Null ELSE lock
    /\ persisted' = persisted \union Merged(a)
    /\ intruded' = intruded \union {s \in Syncs : a \in Deliveries /\ At(s, "syncing")}
    /\ UNCHANGED <<payload, status, token, cfg, secret, seen, reply, begun, failed, raced, overlapped, doubled, handed, newest>>

Refused(d) ==
    /\ At(d, "refusing") /\ Goes(d, "releasing")
    /\ status' = "inactive"
    /\ failed' = failed \union {SigOf[d]}
    /\ UNCHANGED <<payload, token, cfg, ids, secret, seen, lock, reply,
                   begun, persisted, raced, intruded, overlapped, doubled, handed, newest>>

Hook(d) ==
    /\ At(d, "hook")
    /\ Goes(d, IF Body(d).event = "activate" THEN "activating" ELSE "answering")
    /\ handed' = handed \union {frame[d].secret}
    /\ UNCHANGED <<payload, tables, seen, lock, reply,
                   begun, failed, persisted, raced, intruded, overlapped, doubled, newest>>

(* setStatus is an UPDATE: without a row it changes nothing.               *)
WithStatus(to) == IF status = "absent" THEN "absent" ELSE to

Activate(d) ==
    /\ At(d, "activating") /\ Goes(d, "answering")
    /\ status' = WithStatus("active")
    /\ UNCHANGED <<payload, token, cfg, ids, secret, seen, lock, reply, history>>

-----------------------------------------------------------------------------
(* onDeactivate and onUninstall.                                           *)

Mutant_Target_EventName(d) == Body(d).event

Target(d) == IF Body(d).event = "uninstall" THEN "uninstalled" ELSE "inactive"

Mutant_AlreadyThere_AnyRow(d) == status \in {Target(d), "uninstalled", "inactive"}

AlreadyThere(d) == status \in {Target(d), "uninstalled"}

Find(d) ==
    /\ At(d, "finding")
    /\ Goes(d, IF AlreadyThere(d) THEN "answering" ELSE "setting")
    /\ UNCHANGED <<payload, tables, seen, lock, reply, history>>

SetStatus(d) ==
    /\ At(d, "setting")
    /\ status' = WithStatus(Target(d))
    /\ frame' = [frame EXCEPT ![d].pc = "context", ![d].hooking = TRUE]
    /\ UNCHANGED <<payload, token, cfg, ids, secret, seen, lock, reply, history>>

-----------------------------------------------------------------------------
(* The jobs of create-app.ts.                                              *)

Mutant_StartJob_Reprovision(a) ==
    /\ At(a, "new") /\ a \in Syncs => lock = Null
    /\ lock' = a /\ Goes(a, "context")
    /\ overlapped' = (overlapped \/ Working)
    /\ UNCHANGED <<payload, tables, seen, reply, begun, failed, persisted, raced, intruded, doubled, handed, newest>>

StartJob(a) ==
    /\ At(a, "new") /\ lock = Null
    /\ lock' = a /\ Goes(a, "context")
    /\ overlapped' = (overlapped \/ Working)
    /\ UNCHANGED <<payload, tables, seen, reply, begun, failed, persisted, raced, intruded, doubled, handed, newest>>

(* "busy", or skipped: already running for this installation.              *)
JobRefused(a) ==
    /\ At(a, "new") /\ lock # Null
    /\ Goes(a, "over")
    /\ UNCHANGED <<payload, tables, seen, lock, reply, history>>

(* "The provisioning blob is read once here."                              *)
Snapshot(a) ==
    /\ At(a, "snapshot")
    /\ frame' = [frame EXCEPT ![a].sees = ids, ![a].pc = "syncing"]
    /\ UNCHANGED <<payload, tables, seen, lock, reply, history>>

SyncEnds(a) ==
    /\ At(a, "syncing") /\ Goes(a, "over") /\ lock' = Null
    /\ UNCHANGED <<payload, tables, seen, reply, history>>

-----------------------------------------------------------------------------
(* Errors and crashes.                                                     *)

(* Where an exception can take the actor: out of a job; to the catch of    *)
(* onConfigUpdated, of runHookSafe, or of handleWebhook.                   *)
Catches(a) ==
    CASE a \in Jobs -> {"over"}
      [] a \in Deliveries /\ Body(a).event = "config_updated" ->
             CASE frame[a].pc \in {"secrets", "plain"} -> {"releasing"}
               [] frame[a].pc = "context" /\ ~frame[a].hooking -> {"releasing", "answering"}
               [] OTHER -> {"answering"}
      [] a \in Deliveries /\ frame[a].hooking /\ Body(a).event \notin {"activate", "config_updated"} ->
             IF frame[a].pc = "context" THEN {"releasing", "answering"} ELSE {"answering"}
      [] OTHER -> {"releasing"}

(* A store call, the plan or a hook throws, or there is no context.  A     *)
(* write that threw once applied is this action at the place after it.     *)
Throws(a) ==
    /\ frame[a].pc \notin {"new", "claiming", "releasing", "over"}
    /\ \E p \in Catches(a) \ {frame[a].pc} :
           /\ Goes(a, p)
           /\ failed' = IF p = "releasing" THEN failed \union {SigOf[a]} ELSE failed
    /\ lock' = IF a \in Jobs THEN Null ELSE lock
    /\ UNCHANGED <<payload, tables, seen, reply, begun, persisted, raced, intruded, overlapped, doubled, handed, newest>>

Crash ==
    /\ \E a \in Actors : frame[a].pc \notin {"new", "over"}
    /\ frame' = [a \in Actors |-> IF At(a, "new") THEN Idle ELSE Placed(a, "over")]
    /\ reply' = [d \in Deliveries |-> IF frame[d].pc \in {"new", "over"} THEN reply[d] ELSE "lost"]
    /\ lock' = Null
    /\ failed' = failed \union {SigOf[d] : d \in {e \in Deliveries : Handling(e)}}
    /\ UNCHANGED <<payload, tables, seen, begun, persisted, raced, intruded, overlapped, doubled, handed, newest>>

Done ==
    /\ \A a \in Actors : At(a, "over")
    /\ UNCHANGED vars

Webhook(d) ==
    \/ Refuse(d) \/ Accept(d) \/ Claim(d) \/ ClaimThrows(d)
    \/ Succeed(d) \/ Release(d) \/ ReleaseThrows(d)
    \/ SetToken(d) \/ Upsert(d) \/ SaveSecrets(d) \/ SavePlain(d)
    \/ TestConnection(d) \/ Refused(d) \/ Hook(d) \/ Activate(d)
    \/ Find(d) \/ SetStatus(d)

Shared(a) ==
    \/ Context(a) \/ StoreSecret(a) \/ Provision(a)
    \/ ReadMap(a) \/ ReadMapFails(a) \/ WriteMap(a) \/ Throws(a)

Next ==
    \/ \E d \in Deliveries : Webhook(d)
    \/ \E a \in Actors : Shared(a)
    \/ \E a \in Jobs : StartJob(a) \/ JobRefused(a)
    \/ \E a \in Syncs : Snapshot(a) \/ SyncEnds(a)
    \/ Crash \/ Done

Spec == Init /\ [][Next]_vars

-----------------------------------------------------------------------------
(* Properties.                                                             *)

(* Every variable keeps its type.                                          *)
TypeOK ==
    /\ payload \in [Sigs -> Payloads]
    /\ status \in {"absent", "inactive", "active", "uninstalled"} /\ token \in BOOLEAN
    /\ cfg \in [secrets: Sigs \union {Null}, plain: Sigs \union {Null}]
    /\ ids \subseteq Mapped /\ secret \in Actors \union {Null}
    /\ seen \subseteq Sigs /\ lock \in Jobs \union {Null}
    /\ frame \in [Actors -> [pc: PCs, hooking: BOOLEAN, base: SUBSET Mapped,
                              got: SUBSET Resources, sees: SUBSET Mapped,
                              secret: Actors \union {Null}]]
    /\ reply \in [Deliveries -> {"none", "refused", "replayed", "success", "failure", "error", "lost"}]
    /\ begun \in [Sigs -> Nat] /\ failed \subseteq Sigs
    /\ persisted \subseteq Mapped /\ intruded \subseteq Syncs /\ handed \subseteq Actors
    /\ raced \in BOOLEAN /\ overlapped \in BOOLEAN /\ doubled \in BOOLEAN
    /\ newest \in Deliveries \union {Null}

(* "We claim this key BEFORE processing; a verbatim replay is              *)
(* short-circuited" (dispatcher.ts): until an execution fails or is cut    *)
(* short, the handler of a signed webhook runs at most once.               *)
HandledOnce == \A s \in Sigs \ failed : begun[s] <= 1

(* "The key is RELEASED if processing fails so ShopiMind can resend the    *)
(* webhook": a key that is still claimed belongs to a delivery being       *)
(* handled or handled, unless a crash or the store kept it from releasing. *)
ClaimIsOwned ==
    \A s \in seen : \E d \in Deliveries :
        SigOf[d] = s /\ (Handling(d) \/ reply[d] \in {"success", "error", "lost"})

(* What a success answer to d says of the tables.                          *)
InEffect(d) ==
    /\ CASE Body(d).event = "install" -> status = "inactive"
         [] Body(d).event = "activate" -> status = "active"
         [] Body(d).event = "deactivate" -> status # "active"
         [] Body(d).event = "uninstall" -> status \in {"uninstalled", "absent"}
         [] OTHER -> TRUE
    /\ Body(d).event \in {"install", "activate", "config_updated"} /\ Body(d).configs
         => cfg = [secrets |-> SigOf[d], plain |-> SigOf[d]]

(* Webhooks handled one after the other leave the state of the last one    *)
(* that was answered success, whatever failed or crashed before it.        *)
SerialWebhooksTakeEffect ==
    ~overlapped /\ newest # Null /\ reply[newest] = "success" => InEffect(newest)

(* "Merging makes a failed run inert instead of destructive"               *)
(* (provisioning-state.ts): whatever part of the plan a run resolves, no   *)
(* id is lost, as long as reads of the map succeed and do not race.        *)
MapKeepsIds == ~raced => persisted \subseteq ids

(* "Rebuild the context so the hook sees the FRESH provisioning ids": a    *)
(* hook is given every id its own provisioning run resolved, as long as    *)
(* reads of the map succeed and do not race with its writers.              *)
HookSeesFreshIds ==
    \A d \in Deliveries :
        At(d, "hook") /\ ~raced => frame[d].got \intersect Mapped \subseteq frame[d].sees

(* "Safe because reprovision and sync share the same per-installation      *)
(* lock" (create-app.ts): short of a webhook, the map a sync read once is  *)
(* the stored one for as long as the sync lasts.                           *)
SnapshotStaysFresh ==
    \A s \in Syncs : At(s, "syncing") /\ s \notin intruded => frame[s].sees = ids

(* integration/types.ts: inboundSecret is to be passed to the integrator's *)
(* app in onActivate "so it can sign its inbound calls": whatever overlaps,*)
(* failed or crashed, every secret a hook was ever given is the one that   *)
(* inbound calls are verified with, unless two contexts once found no      *)
(* secret before either had stored its own (inbound.ts:24-27).             *)
HandedSecretHolds == ~doubled => handed \subseteq {secret}

-----------------------------------------------------------------------------
(* What comments of the repository say and the code does not do.           *)

(* dispatcher.ts: "Idempotent transition: already deactivated/uninstalled  *)
(* -> no-op": a deactivation answered success, with nothing begun after it *)
(* and nothing in progress, leaves the installation not active.            *)
DeactivationHolds ==
    ( /\ newest # Null /\ reply[newest] = "success" /\ Body(newest).event = "deactivate"
      /\ \A d \in Deliveries : ~Handling(d) )
    => status # "active"

=============================================================================

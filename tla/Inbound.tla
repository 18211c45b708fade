------------------------------ MODULE Inbound ------------------------------
(***************************************************************************)
(* Inbound calls of an integrator app: handleInbound of                    *)
(* src/lifecycle/inbound.ts over the inbound_event table, whose claim and  *)
(* finish are those of src/store/postgres/stores.ts (on SQLite the two     *)
(* statements of a claim run in one callback: a subset of the behaviours), *)
(* with the retention purge of src/runtime/create-app.ts and crashes.      *)
(*                                                                         *)
(* An action is the code between two awaits of one call.  All calls are to *)
(* one installation: every query is scoped by installation_id.             *)
(***************************************************************************)
EXTENDS Integers, FiniteSets

CONSTANTS
    Calls,      \* HTTP requests, verbatim duplicates and retries included
    Keys,       \* deduplication keys
    SignedAt,   \* key derived from a signature -> the time it was signed;
                \* Null for an x-idempotency-key, which any signature may carry
    Tolerance,  \* toleranceSeconds: how old a signature may be
    Lead,       \* how far in the future it may be
    Retention,  \* retentionDays, in the same unit
    MaxTime,    \* bound on the clock
    Null

ASSUME CallsAssumption ==
    /\ IsFiniteSet(Calls)
    /\ SignedAt \in [Keys -> Nat \union {Null}]
    /\ Null \notin Nat /\ Null \notin Calls

ASSUME TimeAssumption ==
    /\ Tolerance \in Nat /\ Lead \in Nat /\ Retention \in Nat /\ MaxTime \in Nat

(* The retention is in days, the signature window in seconds (90 days and  *)
(* 300 seconds by default): a row outlives the window of its signature.    *)
ASSUME RetentionAssumption == Tolerance + Lead <= Retention

VARIABLES
    keyOf,      \* call -> the key its request carries
    now,        \* the clock
    ready,      \* buildContext finds an access token
    rows,       \* key -> its inbound_event row, NoRow when there is none
    pc,         \* call -> where handleInbound awaits
    claimed,    \* call -> claim.rowId, or what the claim has of it so far
    reply,      \* call -> its answer
    begun,      \* history: key -> executions of the handler that began
    completed,  \* history: keys whose handler returned
    failedOnce, \* history: keys some execution of which was not finished as done
    purged,     \* history: keys a row of which was purged
    orphaned    \* history: keys whose claimant never finished the row it inserted

tableVars == <<rows, purged>>
callVars == <<pc, claimed, reply>>
historyVars == <<begun, completed, failedOnce, orphaned>>
vars == <<keyOf, now, ready, tableVars, callVars, historyVars>>

(* The id of a row is named by the call that inserted it: a call inserts   *)
(* at most one.                                                            *)
Row == [id: Calls, status: {"received", "done", "failed"}, at: Nat]
NoRow == [id |-> Null, status |-> "none", at |-> 0]

PCs == {"new", "finding", "building", "claiming", "reading", "reclaiming", "rereading",
        "running", "finishing", "failing", "over"}
Replies == {"none", "refused", "no_context", "replayed", "done", "error", "lost"}

InFlight(c) == pc[c] \notin {"new", "over"}
Executing(c) == pc[c] \in {"running", "finishing", "failing"}
Verified(c) == pc[c] \in {"finding", "building", "claiming", "reading", "reclaiming", "rereading"}

Init ==
    /\ keyOf \in [Calls -> Keys]
    /\ now = 0 /\ ready \in BOOLEAN
    /\ rows = [k \in Keys |-> NoRow]
    /\ pc = [c \in Calls |-> "new"]
    /\ claimed = [c \in Calls |-> Null]
    /\ reply = [c \in Calls |-> "none"]
    /\ begun = [k \in Keys |-> 0]
    /\ completed = {} /\ failedOnce = {} /\ purged = {} /\ orphaned = {}

-----------------------------------------------------------------------------
(* Steps of a call.                                                        *)

Goes(c, place) == pc' = [pc EXCEPT ![c] = place] /\ UNCHANGED <<claimed, reply>>

Answers(c, r) ==
    /\ pc' = [pc EXCEPT ![c] = "over"]
    /\ reply' = [reply EXCEPT ![c] = r]
    /\ UNCHANGED claimed

(* verifyFromHeaders of the SDK: the asymmetric window of the timestamp.   *)
InSignatureWindow(k) ==
    SignedAt[k] # Null => SignedAt[k] - Lead <= now /\ now <= SignedAt[k] + Tolerance

(* 400, 401, 429 and 404: everything that is refused before the row is     *)
(* looked up.                                                              *)
Refuse(c) ==
    /\ pc[c] = "new"
    /\ Answers(c, "refused")
    /\ UNCHANGED <<keyOf, now, ready, tableVars, historyVars>>

Accept(c) ==
    /\ pc[c] = "new" /\ InSignatureWindow(keyOf[c])
    /\ Goes(c, "finding")
    /\ UNCHANGED <<keyOf, now, ready, tableVars, historyVars>>

(* The fast path: prior.status === 'done'.                                 *)
FindPrior(c) ==
    /\ pc[c] = "finding"
    /\ IF rows[keyOf[c]].status = "done" THEN Answers(c, "replayed") ELSE Goes(c, "building")
    /\ UNCHANGED <<keyOf, now, ready, tableVars, historyVars>>

(* A context that is built after the claim leaves its row behind.          *)
Mutant_BuildContext_AfterClaim(c) ==
    /\ pc[c] = "building"
    /\ rows' = [rows EXCEPT ![keyOf[c]] =
                  IF @ = NoRow THEN [id |-> c, status |-> "received", at |-> now] ELSE @]
    /\ IF ready THEN Goes(c, "claiming") ELSE Answers(c, "no_context")
    /\ UNCHANGED <<keyOf, now, ready, purged, historyVars>>

(* Nothing has been claimed yet when there is no context to execute in.    *)
BuildContext(c) ==
    /\ pc[c] = "building"
    /\ IF ready THEN Goes(c, "claiming") ELSE Answers(c, "no_context")
    /\ UNCHANGED <<keyOf, now, ready, tableVars, historyVars>>

(* INSERT ... ON CONFLICT DO NOTHING RETURNING id.                         *)
Inserted(k, c) == [rows EXCEPT ![k] = [id |-> c, status |-> "received", at |-> now]]

Mutant_Decide_ReceivedExecutes(c, fresh, status, id) ==
    IF fresh \/ status # "done"
    THEN /\ pc' = [pc EXCEPT ![c] = "running"]
         /\ claimed' = [claimed EXCEPT ![c] = id]
         /\ begun' = [begun EXCEPT ![keyOf[c]] = @ + 1]
         /\ UNCHANGED reply
    ELSE Answers(c, "replayed") /\ UNCHANGED begun

(* The claim is decided: fresh or 'failed' executes, 'done' and 'received' *)
(* are answered as replays.                                                *)
Decide(c, fresh, status, id) ==
    IF fresh \/ status = "failed"
    THEN /\ pc' = [pc EXCEPT ![c] = "running"]
         /\ claimed' = [claimed EXCEPT ![c] = id]
         /\ begun' = [begun EXCEPT ![keyOf[c]] = @ + 1]
         /\ UNCHANGED reply
    ELSE Answers(c, "replayed") /\ UNCHANGED begun

ClaimFresh(c) ==
    /\ pc[c] = "claiming" /\ rows[keyOf[c]] = NoRow
    /\ rows' = Inserted(keyOf[c], c)
    /\ Decide(c, TRUE, "received", c)
    /\ UNCHANGED <<keyOf, now, ready, purged, completed, failedOnce, orphaned>>

(* ON CONFLICT DO UPDATE SET status = 'received'.                          *)
Mutant_ClaimConflict_Resets(c) ==
    /\ pc[c] = "claiming" /\ rows[keyOf[c]] # NoRow
    /\ rows' = [rows EXCEPT ![keyOf[c]].status = "received"]
    /\ Goes(c, "reading")
    /\ UNCHANGED <<keyOf, now, ready, purged, historyVars>>

ClaimConflict(c) ==
    /\ pc[c] = "claiming" /\ rows[keyOf[c]] # NoRow
    /\ Goes(c, "reading")
    /\ UNCHANGED <<keyOf, now, ready, tableVars, historyVars>>

ReadClaim(c) ==
    /\ pc[c] = "reading" /\ rows[keyOf[c]] # NoRow
    /\ Decide(c, FALSE, rows[keyOf[c]].status, rows[keyOf[c]].id)
    /\ UNCHANGED <<keyOf, now, ready, tableVars, completed, failedOnce, orphaned>>

(* "Extreme race (row deleted between the INSERT and the SELECT)".         *)
ReadVanished(c) ==
    /\ pc[c] = "reading" /\ rows[keyOf[c]] = NoRow
    /\ Goes(c, "reclaiming")
    /\ UNCHANGED <<keyOf, now, ready, tableVars, historyVars>>

Reclaim(c) ==
    /\ pc[c] = "reclaiming"
    /\ pc' = [pc EXCEPT ![c] = "rereading"]
    /\ IF rows[keyOf[c]] = NoRow
       THEN rows' = Inserted(keyOf[c], c) /\ claimed' = [claimed EXCEPT ![c] = c]
       ELSE UNCHANGED <<rows, claimed>>
    /\ UNCHANGED <<keyOf, now, ready, purged, reply, historyVars>>

Reread(c) ==
    /\ pc[c] = "rereading"
    /\ LET row == rows[keyOf[c]]
           fresh == claimed[c] # Null IN
       IF row = NoRow THEN Decide(c, fresh, "received", claimed[c])
                      ELSE Decide(c, fresh, row.status, row.id)
    /\ UNCHANGED <<keyOf, now, ready, tableVars, completed, failedOnce, orphaned>>

HandlerReturns(c) ==
    /\ pc[c] = "running"
    /\ completed' = completed \union {keyOf[c]}
    /\ Goes(c, "finishing")
    /\ UNCHANGED <<keyOf, now, ready, tableVars, begun, failedOnce, orphaned>>

HandlerThrows(c) ==
    /\ pc[c] = "running"
    /\ failedOnce' = failedOnce \union {keyOf[c]}
    /\ Goes(c, "failing")
    /\ UNCHANGED <<keyOf, now, ready, tableVars, begun, completed, orphaned>>

(* A finish that writes by key revives the row the purge has deleted.      *)
Mutant_Finished_ByKey(c, status) == [rows EXCEPT ![keyOf[c]].status = status]

(* finish: UPDATE ... WHERE id, which finds nothing once the row is purged.*)
Finished(c, status) ==
    IF rows[keyOf[c]].id = claimed[c] /\ rows[keyOf[c]] # NoRow
    THEN [rows EXCEPT ![keyOf[c]].status = status]
    ELSE rows

FinishDone(c) ==
    /\ pc[c] = "finishing"
    /\ rows' = Finished(c, "done")
    /\ Answers(c, "done")
    /\ UNCHANGED <<keyOf, now, ready, purged, historyVars>>

FinishFailed(c) ==
    /\ pc[c] = "failing"
    /\ rows' = Finished(c, "failed")
    /\ Answers(c, "error")
    /\ UNCHANGED <<keyOf, now, ready, purged, historyVars>>

(* An error of finish that is swallowed once the handler has returned.     *)
Mutant_FinishThrows_Swallowed(c) ==
    /\ pc[c] = "finishing"
    /\ Answers(c, "done")
    /\ UNCHANGED <<keyOf, now, ready, tableVars, historyVars>>

(* finish('done') throws inside the try: the catch marks the call failed.  *)
FinishThrows(c) ==
    /\ pc[c] = "finishing"
    /\ failedOnce' = failedOnce \union {keyOf[c]}
    /\ Goes(c, "failing")
    /\ UNCHANGED <<keyOf, now, ready, tableVars, begun, completed, orphaned>>

(* Any other store call throws out of handleInbound: Hapi answers 500.  An *)
(* INSERT that throws may have been applied.                               *)
StoreThrows(c) ==
    /\ Verified(c) \/ pc[c] = "failing"
    /\ \/ rows' = rows
       \/ /\ pc[c] \in {"claiming", "reclaiming"} /\ rows[keyOf[c]] = NoRow
          /\ rows' = Inserted(keyOf[c], c)
    /\ orphaned' = IF rows'[keyOf[c]].id \in {c, claimed[c]} \ {Null}
                   THEN orphaned \union {keyOf[c]} ELSE orphaned
    /\ Answers(c, "error")
    /\ UNCHANGED <<keyOf, now, ready, purged, begun, completed, failedOnce>>

-----------------------------------------------------------------------------
(* The clock, the installation, the purge, and a crash.                    *)

(* Between the verification of a signature and the outcome of its claim    *)
(* lie a few store queries: less than a time unit.                         *)
Tick ==
    /\ now < MaxTime /\ \A c \in Calls : ~Verified(c)
    /\ now' = now + 1
    /\ UNCHANGED <<keyOf, ready, tableVars, callVars, historyVars>>

(* The access token arrives; nothing ever deletes it.                      *)
Activate ==
    /\ ~ready /\ ready' = TRUE
    /\ UNCHANGED <<keyOf, now, tableVars, callVars, historyVars>>

Expired(k) == rows[k] # NoRow /\ rows[k].at < now - Retention

(* purgeReceivedBefore: whatever the status of the row.                    *)
Purge ==
    /\ \E k \in Keys : Expired(k)
    /\ rows' = [k \in Keys |-> IF Expired(k) THEN NoRow ELSE rows[k]]
    /\ purged' = purged \union {k \in Keys : Expired(k)}
    /\ UNCHANGED <<keyOf, now, ready, callVars, historyVars>>

(* The process dies and restarts: its calls get no answer.                 *)
Crash ==
    /\ \E c \in Calls : InFlight(c)
    /\ pc' = [c \in Calls |-> IF InFlight(c) THEN "over" ELSE pc[c]]
    /\ reply' = [c \in Calls |-> IF InFlight(c) THEN "lost" ELSE reply[c]]
    /\ orphaned' = orphaned \union {keyOf[c] : c \in {d \in Calls : InFlight(d) /\ claimed[d] # Null}}
    /\ UNCHANGED <<keyOf, now, ready, tableVars, claimed, begun, completed, failedOnce>>

Settled ==
    /\ \A c \in Calls : pc[c] = "over"
    /\ UNCHANGED vars

Step(c) ==
    \/ Refuse(c) \/ Accept(c) \/ FindPrior(c) \/ BuildContext(c)
    \/ ClaimFresh(c) \/ ClaimConflict(c) \/ ReadClaim(c) \/ ReadVanished(c)
    \/ Reclaim(c) \/ Reread(c)
    \/ HandlerReturns(c) \/ HandlerThrows(c)
    \/ FinishDone(c) \/ FinishFailed(c) \/ FinishThrows(c) \/ StoreThrows(c)

Next ==
    \/ \E c \in Calls : Step(c)
    \/ Tick \/ Activate \/ Purge \/ Crash \/ Settled

Spec == Init /\ [][Next]_vars

-----------------------------------------------------------------------------
(* Properties.                                                             *)

(* Every variable keeps its type.                                          *)
TypeOK ==
    /\ keyOf \in [Calls -> Keys]
    /\ now \in Nat /\ ready \in BOOLEAN
    /\ rows \in [Keys -> Row \union {NoRow}]
    /\ pc \in [Calls -> PCs]
    /\ claimed \in [Calls -> Calls \union {Null}]
    /\ reply \in [Calls -> Replies]
    /\ begun \in [Keys -> Nat]
    /\ completed \subseteq Keys /\ failedOnce \subseteq Keys
    /\ purged \subseteq Keys /\ orphaned \subseteq Keys

(* "two concurrent calls cannot execute the handler twice" (inbound.ts),   *)
(* "any verbatim replay is short-circuited": until an execution fails, the *)
(* handler begins at most once for a key, whatever overlaps or crashes;    *)
(* for a signature, even after its row is purged, for an idempotency key,  *)
(* as long as the row is kept.                                             *)
ExecutesOnce ==
    \A k \in Keys \ failedOnce :
        SignedAt[k] # Null \/ k \notin purged => begun[k] <= 1

(* "we return 409 'no_context' and claim NOTHING, so a later retry [...]   *)
(* is not wrongly short-circuited as an already-seen replay": a replay is  *)
(* answered only for a call whose handler began, or whose claimant died.   *)
ReplayedWasClaimed ==
    \A c \in Calls :
        reply[c] = "replayed" => begun[keyOf[c]] > 0 \/ keyOf[c] \in orphaned

(* A key found done stays done: only its claimants write its row, so with  *)
(* none of them at work nothing but the purge may touch it.                *)
DoneIsFinal ==
    [][\A k \in Keys :
          rows[k].status = "done" /\ (\A c \in Calls : keyOf[c] = k => ~Executing(c))
             => rows'[k].status = "done" \/ Expired(k)]_vars

(* A call answered done has a handler that returned, and its row is done   *)
(* unless another execution failed after it or the row has been purged.    *)
DoneIsRecorded ==
    \A c \in Calls :
        reply[c] = "done" =>
            /\ keyOf[c] \in completed
            /\ rows[keyOf[c]].status = "done" \/ keyOf[c] \in failedOnce \union purged

-----------------------------------------------------------------------------
(* What comments of the repository say and the code does not do.           *)

(* inbound.ts: "ATOMIC claim before execution (anti-TOCTOU): two           *)
(* concurrent calls cannot execute the handler twice".                     *)
ConcurrentCallsExclude ==
    \A c, d \in Calls :
        keyOf[c] = keyOf[d] /\ pc[c] = "running" /\ pc[d] = "running" => c = d

=============================================================================

---------------------------- MODULE InboundProofs ----------------------------
(***************************************************************************)
(* Theorems about Inbound: for every set of calls and keys, every window   *)
(* of a signature and every retention that covers it.                      *)
(*                                                                         *)
(* The inductive invariant follows a key through its claims.  The row of a *)
(* signed key is made inside the window of the signature, so that the      *)
(* purge, which waits for the retention, only removes it when no call that *)
(* carries the signature is accepted any more; the second chance of claim  *)
(* ("extreme race") is therefore taken for idempotency keys only.          *)
(***************************************************************************)
EXTENDS Inbound, TLAPS

KeyInv(k) ==
    \* The row of a signature is younger than the window of the signature, and
    \* is purged only when that window is over.
    /\ SignedAt[k] # Null =>
           /\ rows[k] # NoRow => SignedAt[k] - Lead <= rows[k].at
           /\ k \in purged => SignedAt[k] + Tolerance < now
    \* Where there is or was a row, its handler began or its claimant died.
    /\ rows[k] # NoRow \/ k \in purged => begun[k] > 0 \/ k \in orphaned
    /\ begun[k] > 0 => rows[k] # NoRow \/ k \in purged
    /\ rows[k].status = "failed" => k \in failedOnce
    /\ k \notin failedOnce /\ (SignedAt[k] # Null \/ k \notin purged) => begun[k] <= 1

CallInv(c) ==
    /\ Verified(c) => InSignatureWindow(keyOf[c])
    \* A claim that lost the insertion saw a row; one on its second attempt
    \* saw the row vanish.
    /\ pc[c] = "reading" => rows[keyOf[c]] # NoRow \/ keyOf[c] \in purged
    /\ pc[c] \in {"reclaiming", "rereading"} => keyOf[c] \in purged
    \* What an execution will finish is the row it claimed.
    /\ Executing(c) => \/ keyOf[c] \in purged
                       \/ rows[keyOf[c]] # NoRow /\ rows[keyOf[c]].id = claimed[c]
    /\ pc[c] = "finishing" => keyOf[c] \in completed
    /\ pc[c] = "failing" => keyOf[c] \in failedOnce
    /\ reply[c] = "replayed" => begun[keyOf[c]] > 0 \/ keyOf[c] \in orphaned
    /\ reply[c] = "done" =>
           /\ keyOf[c] \in completed
           /\ rows[keyOf[c]].status = "done" \/ keyOf[c] \in failedOnce \union purged

InboundInv ==
    /\ TypeOK
    /\ \A k \in Keys : KeyInv(k)
    /\ \A c \in Calls : CallInv(c)

-----------------------------------------------------------------------------
(* Type correctness.                                                       *)

(* What is known of a row, and of one that has just been inserted.         *)
LEMMA RowTypes ==
    ASSUME TypeOK, NEW k \in Keys, NEW c \in Calls
    PROVE  /\ rows[k] = NoRow \/ rows[k] \in Row
           /\ rows[k] # NoRow => rows[k].id \in Calls /\ rows[k].at \in Nat
           /\ NoRow \notin Row
           /\ Inserted(k, c) \in [Keys -> Row \union {NoRow}]
           /\ Inserted(k, c)[k] # NoRow
           /\ Inserted(k, c)[k] = [id |-> c, status |-> "received", at |-> now]
BY CallsAssumption DEF TypeOK, Row, NoRow, Inserted

(* finish changes the status of the row with its id, and nothing else of   *)
(* any row.                                                                *)
LEMMA FinishTypes ==
    ASSUME TypeOK, NEW c \in Calls, NEW status \in {"done", "failed"}
    PROVE  /\ Finished(c, status) \in [Keys -> Row \union {NoRow}]
           /\ \A k \in Keys : k # keyOf[c] => Finished(c, status)[k] = rows[k]
           /\ \A k \in Keys : /\ rows[k] = NoRow <=> Finished(c, status)[k] = NoRow
                              /\ Finished(c, status)[k].id = rows[k].id
                              /\ Finished(c, status)[k].at = rows[k].at
           /\ Finished(c, status)[keyOf[c]].status =
                  IF rows[keyOf[c]].id = claimed[c] /\ rows[keyOf[c]] # NoRow
                  THEN status ELSE rows[keyOf[c]].status
<1>1. keyOf[c] \in Keys /\ rows \in [Keys -> Row \union {NoRow}]
  BY DEF TypeOK
<1>2. CASE rows[keyOf[c]].id = claimed[c] /\ rows[keyOf[c]] # NoRow
  <2>1. rows[keyOf[c]] \in Row
    BY <1>1, <1>2
  <2> QED
    BY <1>1, <1>2, <2>1, CallsAssumption DEF Finished, Row, NoRow
<1>3. CASE ~(rows[keyOf[c]].id = claimed[c] /\ rows[keyOf[c]] # NoRow)
  BY <1>1, <1>3 DEF Finished
<1> QED
  BY <1>2, <1>3

(* What a claim decides: execute, replay or refuse.                        *)
LEMMA DecideTypes ==
    ASSUME TypeOK, NEW c \in Calls, NEW fresh, NEW status, NEW id \in Calls \union {Null},
           Decide(c, fresh, status, id)
    PROVE  /\ pc' \in [Calls -> PCs] /\ reply' \in [Calls -> Replies]
           /\ claimed' \in [Calls -> Calls \union {Null}]
           /\ begun' \in [Keys -> Nat]
<1>1. keyOf[c] \in Keys /\ begun[keyOf[c]] + 1 \in Nat
  BY DEF TypeOK
<1>2. CASE fresh \/ status = "failed"
  BY <1>1, <1>2 DEF TypeOK, Decide, PCs
<1>3. CASE ~(fresh \/ status = "failed")
  BY <1>1, <1>3 DEF TypeOK, Decide, Answers, PCs, Replies
<1> QED
  BY <1>2, <1>3

(* A step of a call keeps the types.                                       *)
LEMMA StepTypes == ASSUME TypeOK, NEW c \in Calls, Step(c) PROVE TypeOK'
<1> USE DEF tableVars, historyVars
<1>0. keyOf[c] \in Keys /\ rows \in [Keys -> Row \union {NoRow}]
  BY DEF TypeOK
<1>1. CASE Refuse(c) \/ Accept(c) \/ FindPrior(c) \/ BuildContext(c) \/ ClaimConflict(c) \/ ReadVanished(c)
  BY <1>1 DEF TypeOK, Refuse, Accept, FindPrior, BuildContext, ClaimConflict, ReadVanished,
              Goes, Answers, PCs, Replies
<1>2. CASE ClaimFresh(c)
  <2>1. rows' \in [Keys -> Row \union {NoRow}]
    BY <1>0, <1>2, RowTypes DEF ClaimFresh
  <2> QED
    BY <1>2, <2>1, DecideTypes DEF TypeOK, ClaimFresh
<1>3. CASE ReadClaim(c)
  <2>1. rows[keyOf[c]].id \in Calls
    BY <1>0, <1>3, RowTypes DEF ReadClaim
  <2> QED
    BY <1>3, <2>1, DecideTypes DEF TypeOK, ReadClaim
<1>4. CASE Reread(c)
  <2>1. PICK id \in Calls \union {Null}, status \in {"received", rows[keyOf[c]].status} : Decide(c, claimed[c] # Null, status, id)
    BY <1>0, <1>4, RowTypes DEF Reread, TypeOK
  <2> QED
    BY <1>4, <2>1, DecideTypes DEF TypeOK, Reread
<1>8. CASE Reclaim(c)
  <2>3. rows' = Inserted(keyOf[c], c) \/ rows' = rows
    BY <1>8 DEF Reclaim
  <2>1. rows' \in [Keys -> Row \union {NoRow}]
    BY <1>0, <2>3, RowTypes
  <2>2. claimed' \in [Calls -> Calls \union {Null}] /\ pc' \in [Calls -> PCs]
    BY <1>8 DEF Reclaim, TypeOK, PCs
  <2> QED
    BY <1>8, <2>1, <2>2 DEF TypeOK, Reclaim
<1>5. CASE HandlerReturns(c) \/ HandlerThrows(c) \/ FinishThrows(c)
  BY <1>0, <1>5 DEF TypeOK, HandlerReturns, HandlerThrows, FinishThrows, Goes, PCs
<1>6. CASE FinishDone(c) \/ FinishFailed(c)
  <2>1. rows' \in [Keys -> Row \union {NoRow}]
    BY <1>6, FinishTypes DEF FinishDone, FinishFailed
  <2> QED
    BY <1>6, <2>1 DEF TypeOK, FinishDone, FinishFailed, Answers, PCs, Replies
<1>7. CASE StoreThrows(c)
  <2>1. rows' = rows \/ rows' = Inserted(keyOf[c], c)
    BY <1>7 DEF StoreThrows
  <2>2. rows' \in [Keys -> Row \union {NoRow}]
    BY <1>0, <2>1, RowTypes
  <2>3. pc' \in [Calls -> PCs] /\ reply' \in [Calls -> Replies] /\ claimed' = claimed
    BY <1>7 DEF TypeOK, StoreThrows, Answers, PCs, Replies
  <2>4. orphaned' \subseteq Keys
    BY <1>0, <1>7 DEF TypeOK, StoreThrows
  <2> QED
    BY <1>7, <2>2, <2>3, <2>4 DEF TypeOK, StoreThrows
<1> QED
  BY <1>1, <1>2, <1>3, <1>4, <1>5, <1>6, <1>7, <1>8 DEF Step

(* The types are inductive.                                                *)
LEMMA TypeNext == TypeOK /\ [Next]_vars => TypeOK'
<1> SUFFICES ASSUME TypeOK, [Next]_vars PROVE TypeOK'
  OBVIOUS
<1> USE DEF tableVars, callVars, historyVars
<1>1. CASE Tick
  BY <1>1, TimeAssumption DEF TypeOK, Tick
<1>4. CASE Activate
  BY <1>4 DEF TypeOK, Activate
<1>5. CASE UNCHANGED vars
  BY <1>5 DEF TypeOK, vars
<1>2. CASE Purge
  BY <1>2 DEF TypeOK, Purge
<1>3. CASE Crash
  BY <1>3 DEF TypeOK, Crash, PCs, Replies
<1> QED
  BY <1>1, <1>2, <1>3, <1>4, <1>5, StepTypes DEF Next, Settled

(* The table starts empty, and no call has begun.                          *)
LEMMA TypeInit == Init => TypeOK
BY CallsAssumption DEF Init, TypeOK, PCs, Replies

(* Every reachable state is well typed.                                    *)
THEOREM TypeCorrect == Spec => []TypeOK
BY TypeInit, TypeNext, PTL DEF Spec

-----------------------------------------------------------------------------
(* The claims.                                                             *)

(* What a step may do to a row: insert it, move its status, purge it.      *)
RowEvolves(k) ==
    \/ rows'[k] = rows[k]
    \/ rows[k] = NoRow /\ rows'[k] # NoRow
    \/ /\ rows[k] # NoRow /\ rows'[k] # NoRow /\ rows'[k].id = rows[k].id
       /\ rows[k].status = "done" => rows'[k].status = "done" \/ k \in failedOnce'
    \/ rows'[k] = NoRow /\ k \in purged'

HistoryGrows ==
    /\ keyOf' = keyOf
    /\ completed \subseteq completed' /\ failedOnce \subseteq failedOnce'
    /\ purged \subseteq purged' /\ orphaned \subseteq orphaned'
    /\ \A k \in Keys : begun[k] <= begun'[k]

(* A call that stands still keeps its invariant.                           *)
LEMMA CallStands ==
    ASSUME TypeOK, TypeOK', NEW c \in Calls, CallInv(c), HistoryGrows, RowEvolves(keyOf[c]),
           pc'[c] = pc[c], claimed'[c] = claimed[c], reply'[c] = reply[c],
           now' = now \/ ~Verified(c)
    PROVE  CallInv(c)'
<1>1. keyOf[c] \in Keys /\ keyOf'[c] = keyOf[c] /\ begun[keyOf[c]] \in Nat /\ begun'[keyOf[c]] \in Nat
  BY DEF TypeOK, HistoryGrows
<1>2. Verified(c)' => InSignatureWindow(keyOf[c])'
  BY <1>1 DEF CallInv, Verified, InSignatureWindow
<1>3. rows[keyOf[c]] # NoRow => rows'[keyOf[c]] # NoRow \/ keyOf[c] \in purged'
  BY DEF RowEvolves
<1>4. begun[keyOf[c]] > 0 => begun'[keyOf[c]] > 0
  BY <1>1 DEF HistoryGrows
<1> QED
  BY <1>1, <1>2, <1>3, <1>4 DEF CallInv, RowEvolves, HistoryGrows, Executing, NoRow

(* Key by key, a step that leaves the table and the counts alone.          *)
LEMMA KeyStands ==
    ASSUME TypeOK, NEW k \in Keys, KeyInv(k), now' = now,
           rows'[k] = rows[k], begun'[k] = begun[k], purged' = purged,
           orphaned \subseteq orphaned', failedOnce \subseteq failedOnce'
    PROVE  KeyInv(k)'
BY DEF KeyInv

(* The steps that only move a call: verification, lookup, context, a       *)
(* conflict that is met, a row that is found gone.                         *)
LEMMA QuietNext ==
    ASSUME InboundInv, NEW c \in Calls,
           Refuse(c) \/ Accept(c) \/ FindPrior(c) \/ BuildContext(c) \/ ClaimConflict(c) \/ ReadVanished(c)
    PROVE  InboundInv'
<1> USE DEF tableVars, historyVars
<1>0. TypeOK /\ TypeOK' /\ keyOf[c] \in Keys
  BY StepTypes DEF InboundInv, TypeOK, Step
<1>1. UNCHANGED <<keyOf, now, tableVars, historyVars, claimed>>
  BY DEF Refuse, Accept, FindPrior, BuildContext, ClaimConflict, ReadVanished, Goes, Answers
<1>2. \A d \in Calls \ {c} : pc'[d] = pc[d] /\ reply'[d] = reply[d]
  BY <1>0 DEF Refuse, Accept, FindPrior, BuildContext, ClaimConflict, ReadVanished, Goes, Answers, TypeOK
<1>3. HistoryGrows /\ \A k \in Keys : RowEvolves(k)
  BY <1>0, <1>1 DEF HistoryGrows, RowEvolves, TypeOK
<1>4. CallInv(c)'
  <2>1. pc \in [Calls -> PCs] /\ reply \in [Calls -> Replies] /\ CallInv(c) /\ KeyInv(keyOf[c])
    BY <1>0 DEF InboundInv, TypeOK
  <2>2. CASE Refuse(c) \/ Accept(c) \/ BuildContext(c)
    BY <1>1, <2>1, <2>2
    DEF CallInv, Refuse, Accept, BuildContext, Goes, Answers, InSignatureWindow, Executing, Verified
  <2>3. CASE FindPrior(c)
    BY <1>1, <2>1, <2>3
    DEF CallInv, KeyInv, FindPrior, Goes, Answers, InSignatureWindow, Executing, Verified, NoRow
  <2>4. CASE ClaimConflict(c) \/ ReadVanished(c)
    BY <1>1, <2>1, <2>4
    DEF CallInv, ClaimConflict, ReadVanished, Goes, InSignatureWindow, Executing, Verified
  <2> QED
    BY <2>2, <2>3, <2>4
<1> QED
  BY <1>0, <1>1, <1>2, <1>3, <1>4, CallStands, KeyStands DEF InboundInv, TypeOK
(* A claim that is decided, on the row it read or made.                    *)
LEMMA DecideKeeps ==
    ASSUME InboundInv, TypeOK', NEW c \in Calls, NEW fresh \in BOOLEAN, NEW status, NEW id,
           Verified(c), Decide(c, fresh, status, id), UNCHANGED <<keyOf, now, purged>>,
           UNCHANGED <<completed, failedOnce, orphaned>>,
           \A k \in Keys : k # keyOf[c] => rows'[k] = rows[k],
           RowEvolves(keyOf[c]),
           \* Where it executes, the row is the claimed one, or has vanished.
           fresh \/ status = "failed" =>
               \/ rows[keyOf[c]] = NoRow /\ rows' = Inserted(keyOf[c], c) /\ id = c
               \/ rows' = rows /\ keyOf[c] \in purged /\ SignedAt[keyOf[c]] = Null
               \/ rows' = rows /\ keyOf[c] \in failedOnce /\ rows[keyOf[c]] # NoRow /\ rows[keyOf[c]].id = id,
           \* Where it is a replay, there was a row.
           ~(fresh \/ status = "failed") =>
               rows' = rows /\ (rows[keyOf[c]] # NoRow \/ keyOf[c] \in purged)
    PROVE  InboundInv'
<1> DEFINE k == keyOf[c]
<1>0. /\ TypeOK /\ k \in Keys /\ KeyInv(k) /\ CallInv(c) /\ begun[k] \in Nat /\ now \in Nat
      /\ InSignatureWindow(k) /\ SignedAt[k] \in Nat \union {Null}
      /\ Tolerance \in Nat /\ Lead \in Nat
  BY CallsAssumption, TimeAssumption DEF InboundInv, TypeOK, CallInv
<1>1. \A d \in Calls \ {c} : pc'[d] = pc[d] /\ reply'[d] = reply[d] /\ claimed'[d] = claimed[d]
  BY <1>0 DEF Decide, Answers, TypeOK
<1>2. \A j \in Keys : begun[j] <= begun'[j] /\ (j # k => begun'[j] = begun[j])
  BY <1>0 DEF Decide, TypeOK
<1>3. HistoryGrows /\ \A j \in Keys : RowEvolves(j)
  BY <1>2 DEF HistoryGrows, RowEvolves
<1>4. ASSUME NEW d \in Calls \ {c} PROVE CallInv(d)'
  BY <1>0, <1>1, <1>3, CallStands DEF InboundInv, TypeOK
<1>5. ASSUME NEW j \in Keys, j # k PROVE KeyInv(j)'
  BY <1>0, <1>2, <1>5, KeyStands DEF InboundInv
<1>6. CASE fresh \/ status = "failed"
  <2>1. /\ begun'[k] = begun[k] + 1 /\ pc'[c] = "running" /\ claimed'[c] = id /\ reply'[c] = reply[c]
    BY <1>0, <1>6 DEF Decide, TypeOK
  <2>2. CASE rows[k] = NoRow /\ rows' = Inserted(k, c) /\ id = c
    <3>1. rows'[k] # NoRow /\ rows'[k] = [id |-> c, status |-> "received", at |-> now]
      BY <1>0, <2>2, RowTypes
    <3>2. KeyInv(k)'
      BY <1>0, <2>1, <2>2, <3>1 DEF KeyInv, InSignatureWindow
    <3>3. CallInv(c)'
      BY <1>0, <2>1, <2>2, <3>1 DEF CallInv, Verified, Executing, NoRow
    <3> QED
      BY <1>4, <1>5, <3>2, <3>3 DEF InboundInv, TypeOK
  <2>3. CASE rows' = rows /\ k \in purged /\ SignedAt[k] = Null
    BY <1>0, <1>4, <1>5, <2>1, <2>3 DEF KeyInv, CallInv, Verified, Executing, InboundInv
  <2>4. CASE rows' = rows /\ k \in failedOnce /\ rows[k] # NoRow /\ rows[k].id = id
    BY <1>0, <1>4, <1>5, <2>1, <2>4 DEF KeyInv, CallInv, Verified, Executing, InboundInv
  <2> QED
    BY <1>6, <2>2, <2>3, <2>4
<1>7. CASE ~(fresh \/ status = "failed")
  <2>1. pc'[c] = "over" /\ reply'[c] = "replayed" /\ claimed' = claimed /\ begun' = begun
    BY <1>7, <1>0 DEF Decide, Answers, TypeOK
  <2>2. CallInv(c)' /\ KeyInv(k)'
    BY <1>0, <1>7, <2>1 DEF KeyInv, CallInv, Verified, Executing
  <2> QED
    BY <1>4, <1>5, <2>2 DEF InboundInv
<1> QED
  BY <1>6, <1>7

(* A step of an execution: it writes its own row, if the row is there.     *)
LEMMA FinishKeeps ==
    ASSUME InboundInv, TypeOK', NEW c \in Calls, NEW status \in {"done", "failed"},
           \/ FinishDone(c) /\ status = "done"
           \/ FinishFailed(c) /\ status = "failed"
    PROVE  InboundInv'
<1> USE DEF historyVars
<1> DEFINE k == keyOf[c]
<1>0. TypeOK /\ k \in Keys /\ KeyInv(k) /\ CallInv(c)
  BY DEF InboundInv, TypeOK
<1>1. /\ UNCHANGED <<keyOf, now, ready, purged, historyVars, claimed>>
      /\ rows' = Finished(c, status) /\ Executing(c)
      /\ pc'[c] = "over" /\ (reply'[c] = "done" <=> status = "done") /\ reply'[c] # "replayed"
      /\ \A d \in Calls \ {c} : pc'[d] = pc[d] /\ reply'[d] = reply[d]
  BY <1>0 DEF FinishDone, FinishFailed, Answers, Executing, TypeOK
<1>2. /\ \A j \in Keys : j # k => rows'[j] = rows[j]
      /\ \A j \in Keys : /\ rows[j] = NoRow <=> rows'[j] = NoRow
                         /\ rows'[j].id = rows[j].id /\ rows'[j].at = rows[j].at
      /\ rows'[k].status = IF rows[k].id = claimed[c] /\ rows[k] # NoRow
                           THEN status ELSE rows[k].status
  BY <1>0, <1>1, FinishTypes
<1>3. status = "failed" => k \in failedOnce
  BY <1>0 DEF CallInv, FinishDone, FinishFailed
<1>4. HistoryGrows /\ \A j \in Keys : RowEvolves(j)
  BY <1>0, <1>1, <1>2, <1>3 DEF HistoryGrows, RowEvolves, TypeOK, NoRow
<1>5. ASSUME NEW d \in Calls \ {c} PROVE CallInv(d)'
  BY <1>0, <1>1, <1>4, CallStands DEF InboundInv, TypeOK
<1>6. ASSUME NEW j \in Keys, j # k PROVE KeyInv(j)'
  BY <1>0, <1>1, <1>2, <1>6, KeyStands DEF InboundInv
<1>7. KeyInv(k)'
  BY <1>0, <1>1, <1>2, <1>3 DEF KeyInv
<1>8. CallInv(c)'
  BY <1>0, <1>1, <1>2 DEF CallInv, Verified, Executing, FinishDone, FinishFailed
<1> QED
  BY <1>0, <1>1, <1>5, <1>6, <1>7, <1>8 DEF InboundInv

(* A handler that returns or throws has its outcome recorded before the    *)
(* call is answered; a finish that throws leaves the row as it was.        *)
LEMMA HandlerKeeps ==
    ASSUME InboundInv, TypeOK', NEW c \in Calls,
           HandlerReturns(c) \/ HandlerThrows(c) \/ FinishThrows(c)
    PROVE  InboundInv'
<1> USE DEF tableVars
<1>0. TypeOK /\ keyOf[c] \in Keys /\ CallInv(c)
  BY DEF InboundInv, TypeOK
<1>1. /\ UNCHANGED <<keyOf, now, rows, purged, claimed, reply, begun, orphaned>>
      /\ completed \subseteq completed' /\ failedOnce \subseteq failedOnce'
      /\ \A d \in Calls \ {c} : pc'[d] = pc[d]
  BY <1>0 DEF HandlerReturns, HandlerThrows, FinishThrows, Goes, TypeOK
<1>2. HistoryGrows /\ \A k \in Keys : RowEvolves(k)
  BY <1>0, <1>1 DEF HistoryGrows, RowEvolves, TypeOK
<1>3. ASSUME NEW d \in Calls \ {c} PROVE CallInv(d)'
  BY <1>0, <1>1, <1>2, CallStands DEF InboundInv, TypeOK
<1>4. CallInv(c)'
  BY <1>0, <1>1 DEF CallInv, HandlerReturns, HandlerThrows, FinishThrows, Goes, Verified, Executing, TypeOK
<1> QED
  BY <1>0, <1>1, <1>3, <1>4, KeyStands DEF InboundInv

(* A statement that throws may have been applied: a claim without an       *)
(* answer leaves a row that nobody executes.                               *)
LEMMA StoreThrowsKeeps ==
    ASSUME InboundInv, TypeOK', NEW c \in Calls, StoreThrows(c)
    PROVE  InboundInv'
<1> DEFINE k == keyOf[c]
<1>0. TypeOK /\ k \in Keys /\ KeyInv(k) /\ CallInv(c) /\ now \in Nat /\ Null \notin Calls
  BY CallsAssumption DEF InboundInv, TypeOK
<1>1. /\ UNCHANGED <<keyOf, now, purged, claimed, begun, completed, failedOnce>>
      /\ orphaned \subseteq orphaned'
      /\ pc'[c] = "over" /\ reply'[c] = "error"
      /\ \A d \in Calls \ {c} : pc'[d] = pc[d] /\ reply'[d] = reply[d]
  BY <1>0 DEF StoreThrows, Answers, TypeOK
<1>2. CASE rows' = rows
  <2>1. HistoryGrows /\ \A j \in Keys : RowEvolves(j)
    BY <1>0, <1>1, <1>2 DEF HistoryGrows, RowEvolves, TypeOK
  <2>2. CallInv(c)'
    BY <1>0, <1>1 DEF CallInv, Verified, Executing
  <2> QED
    BY <1>0, <1>1, <1>2, <2>1, <2>2, CallStands, KeyStands DEF InboundInv, TypeOK
<1>3. CASE Verified(c) /\ rows[k] = NoRow /\ rows' = Inserted(k, c)
  <2>1. /\ rows'[k] # NoRow /\ rows'[k] = [id |-> c, status |-> "received", at |-> now]
        /\ \A j \in Keys : j # k => rows'[j] = rows[j]
    BY <1>0, <1>3, RowTypes DEF Inserted, TypeOK
  <2>2. k \in orphaned'
    BY <1>0, <2>1 DEF StoreThrows
  <2>3. HistoryGrows /\ \A j \in Keys : RowEvolves(j)
    BY <1>0, <1>1, <1>3, <2>1 DEF HistoryGrows, RowEvolves, TypeOK
  <2>4. CallInv(c)'
    BY <1>0, <1>1 DEF CallInv, Verified, Executing
  <2>5. KeyInv(k)'
    BY <1>0, <1>1, <1>3, <2>1, <2>2 DEF KeyInv, CallInv, InSignatureWindow, NoRow
  <2>6. ASSUME NEW j \in Keys, j # k PROVE KeyInv(j)'
    BY <1>0, <1>1, <2>1, <2>6, KeyStands DEF InboundInv
  <2>7. ASSUME NEW d \in Calls \ {c} PROVE CallInv(d)'
    BY <1>0, <1>1, <2>3, CallStands DEF InboundInv, TypeOK
  <2> QED
    BY <1>0, <1>1, <2>4, <2>5, <2>6, <2>7 DEF InboundInv
<1> QED
  BY <1>2, <1>3 DEF StoreThrows, Verified

(* The second round of claim, which only a purge can have led to, inserts  *)
(* where there is no row.                                                  *)
LEMMA ReclaimKeeps ==
    ASSUME InboundInv, TypeOK', NEW c \in Calls, Reclaim(c)
    PROVE  InboundInv'
<1> USE DEF historyVars
<1> DEFINE k == keyOf[c]
<1>0. TypeOK /\ k \in Keys /\ KeyInv(k) /\ CallInv(c) /\ now \in Nat
  BY DEF InboundInv, TypeOK
<1>1. /\ UNCHANGED <<keyOf, now, purged, reply, historyVars>>
      /\ pc[c] = "reclaiming" /\ pc'[c] = "rereading" /\ k \in purged
      /\ rows' = rows \/ (rows[k] = NoRow /\ rows' = Inserted(k, c))
      /\ \A d \in Calls \ {c} : pc'[d] = pc[d]
  <2>1. pc \in [Calls -> PCs]
    BY <1>0 DEF TypeOK
  <2>2. pc[c] = "reclaiming" /\ pc'[c] = "rereading" /\ \A d \in Calls \ {c} : pc'[d] = pc[d]
    BY <2>1 DEF Reclaim
  <2>3. k \in purged
    BY <1>0, <2>2 DEF CallInv
  <2>4. UNCHANGED <<keyOf, now, purged, reply, historyVars>>
    BY DEF Reclaim
  <2>5. rows' = rows \/ (rows[k] = NoRow /\ rows' = Inserted(k, c))
    BY DEF Reclaim
  <2> QED
    BY <2>2, <2>3, <2>4, <2>5
<1>8. \A d \in Calls \ {c} : claimed'[d] = claimed[d]
  BY <1>0 DEF Reclaim, TypeOK
<1>9. \A j \in Keys : j # k => rows'[j] = rows[j]
  BY <1>0, <1>1 DEF Inserted, TypeOK
<1>2. \/ rows' = rows
      \/ rows[k] = NoRow /\ rows'[k] # NoRow /\ rows'[k] = [id |-> c, status |-> "received", at |-> now]
  BY <1>0, <1>1, RowTypes
<1>3. HistoryGrows /\ \A j \in Keys : RowEvolves(j)
  BY <1>0, <1>1, <1>2, <1>9 DEF HistoryGrows, RowEvolves, TypeOK
<1>4. CallInv(c)'
  BY <1>0, <1>1 DEF CallInv, Verified, Executing, InSignatureWindow
<1>5. KeyInv(k)'
  BY <1>0, <1>1, <1>2 DEF KeyInv, CallInv, Verified, InSignatureWindow, NoRow
<1>6. ASSUME NEW j \in Keys, j # k PROVE KeyInv(j)'
  BY <1>0, <1>1, <1>6, <1>9, KeyStands DEF InboundInv
<1>7. ASSUME NEW d \in Calls \ {c} PROVE CallInv(d)'
  BY <1>0, <1>1, <1>3, <1>8, CallStands DEF InboundInv, TypeOK
<1> QED
  BY <1>0, <1>1, <1>4, <1>5, <1>6, <1>7 DEF InboundInv
(* A claim that inserts a row begins the handler; one that reads a row     *)
(* replays its answer, or executes again what had failed.                  *)
LEMMA ClaimKeeps ==
    ASSUME InboundInv, TypeOK', NEW c \in Calls, ClaimFresh(c) \/ ReadClaim(c) \/ Reread(c)
    PROVE  InboundInv'
<1> USE DEF tableVars
<1>0. TypeOK /\ keyOf[c] \in Keys /\ KeyInv(keyOf[c]) /\ CallInv(c)
  BY DEF InboundInv, TypeOK
<1>1. CASE ClaimFresh(c)
  <2>1. \A k \in Keys : k # keyOf[c] => rows'[k] = rows[k]
    BY <1>0, <1>1 DEF ClaimFresh, Inserted, TypeOK
  <2>2. RowEvolves(keyOf[c])
    BY <1>0, <1>1, RowTypes DEF ClaimFresh, RowEvolves
  <2> QED
    <3>1. /\ Decide(c, TRUE, "received", c) /\ rows[keyOf[c]] = NoRow
          /\ rows' = Inserted(keyOf[c], c) /\ Verified(c)
          /\ UNCHANGED <<keyOf, now, purged>> /\ UNCHANGED <<completed, failedOnce, orphaned>>
      BY <1>1 DEF ClaimFresh, Verified
    <3> QED
      BY <2>1, <2>2, <3>1, DecideKeeps
<1>2. CASE ReadClaim(c)
  <2>1. rows[keyOf[c]].status = "failed" => keyOf[c] \in failedOnce
    BY <1>0 DEF KeyInv
  <2> QED
    <3> DEFINE row == rows[keyOf[c]]
    <3>1. /\ Decide(c, FALSE, row.status, row.id) /\ row # NoRow
          /\ rows' = rows /\ Verified(c) /\ RowEvolves(keyOf[c])
          /\ UNCHANGED <<keyOf, now, purged>> /\ UNCHANGED <<completed, failedOnce, orphaned>>
      BY <1>2 DEF ReadClaim, Verified, RowEvolves
    <3>2. PICK status, id : status = row.status /\ id = row.id
      OBVIOUS
    <3> QED
      BY <2>1, <3>1, <3>2, DecideKeeps
<1>3. CASE Reread(c)
  <2>1. PICK status, id : Decide(c, claimed[c] # Null, status, id)
    BY <1>3 DEF Reread
  <2>2. Verified(c) /\ keyOf[c] \in purged
    BY <1>0, <1>3 DEF Reread, CallInv, Verified
  <2>3. SignedAt[keyOf[c]] = Null
    BY <1>0, <2>2, CallsAssumption, TimeAssumption DEF KeyInv, CallInv, InSignatureWindow, TypeOK
  <2> QED
    BY <1>0, <1>3, <2>1, <2>2, <2>3, DecideKeeps DEF Reread, RowEvolves
<1> QED
  BY <1>1, <1>2, <1>3

-----------------------------------------------------------------------------
(* The steps of the world.                                                 *)

(* Only an expired row is purged, and then its signature has expired too.  *)
LEMMA PurgeKeeps ==
    ASSUME InboundInv, TypeOK', Purge
    PROVE  InboundInv'
<1> USE DEF callVars, historyVars
<1>0. TypeOK /\ now \in Nat
  BY DEF InboundInv, TypeOK
<1>1. ASSUME NEW k \in Keys PROVE KeyInv(k)'
  <2>1. KeyInv(k) /\ rows'[k] = (IF Expired(k) THEN NoRow ELSE rows[k])
        /\ (k \in purged' <=> k \in purged \/ Expired(k))
        /\ SignedAt[k] \in Nat \union {Null}
    BY <1>0, CallsAssumption DEF InboundInv, Purge, TypeOK
  <2>2. Expired(k) /\ SignedAt[k] # Null => SignedAt[k] + Tolerance < now
    BY <1>0, <2>1, RowTypes, TimeAssumption, RetentionAssumption, CallsAssumption
    DEF KeyInv, Expired, TypeOK, Row, NoRow
  <2> QED
    BY <2>1, <2>2 DEF KeyInv, Expired, NoRow, Purge
<1>2. HistoryGrows /\ \A k \in Keys : RowEvolves(k)
  BY <1>0 DEF HistoryGrows, RowEvolves, Purge, TypeOK
<1> QED
  BY <1>0, <1>1, <1>2, CallStands DEF InboundInv, Purge, TypeOK

(* The clock, the purge, an activation and a crash: what they take from    *)
(* the table is noted.                                                     *)
LEMMA WorldKeeps ==
    ASSUME InboundInv, TypeOK', Tick \/ Activate \/ Crash \/ UNCHANGED vars
    PROVE  InboundInv'
<1> USE DEF tableVars, callVars, historyVars
<1>0. TypeOK /\ now \in Nat
  BY DEF InboundInv, TypeOK
<1>1. CASE Tick
  <2>1. HistoryGrows /\ \A k \in Keys : RowEvolves(k)
    BY <1>0, <1>1 DEF HistoryGrows, RowEvolves, Tick, TypeOK
  <2>2. ASSUME NEW c \in Calls PROVE CallInv(c)'
    BY <1>0, <1>1, <2>1, CallStands DEF InboundInv, Tick, TypeOK
  <2>3. ASSUME NEW k \in Keys PROVE KeyInv(k)'
    BY <1>0, <1>1, CallsAssumption, TimeAssumption DEF InboundInv, KeyInv, Tick
  <2> QED
    BY <1>1, <2>2, <2>3 DEF InboundInv, Tick
<1>2. CASE Activate \/ UNCHANGED vars
  <2>1. HistoryGrows /\ \A k \in Keys : RowEvolves(k)
    BY <1>0, <1>2 DEF HistoryGrows, RowEvolves, Activate, vars, TypeOK
  <2> QED
    BY <1>0, <1>2, <2>1, CallStands, KeyStands DEF InboundInv, Activate, vars, TypeOK
<1>3. CASE Crash
  <2>1. HistoryGrows /\ \A k \in Keys : RowEvolves(k)
    BY <1>0, <1>3 DEF HistoryGrows, RowEvolves, Crash, TypeOK
  <2>2. ASSUME NEW c \in Calls, InFlight(c) PROVE CallInv(c)'
    BY <1>0, <1>3, <2>2 DEF CallInv, Crash, Verified, Executing, TypeOK
  <2>3. ASSUME NEW c \in Calls, ~InFlight(c) PROVE CallInv(c)'
    BY <1>0, <1>3, <2>1, <2>3, CallStands DEF InboundInv, Crash, TypeOK
  <2> QED
    BY <1>0, <1>3, <2>2, <2>3, KeyStands DEF InboundInv, Crash
<1> QED
  BY <1>1, <1>2, <1>3

(* No row, no execution, no answer.                                        *)
LEMMA InboundInit == Init => InboundInv
<1> SUFFICES ASSUME Init PROVE InboundInv
  OBVIOUS
<1>1. \A k \in Keys : rows[k] = NoRow /\ begun[k] = 0 /\ k \notin purged /\ rows[k].status = "none"
  BY DEF Init, NoRow
<1>2. \A c \in Calls : pc[c] = "new" /\ reply[c] = "none"
  BY DEF Init
<1> QED
  BY <1>1, <1>2, TypeInit DEF InboundInv, KeyInv, CallInv, Verified, Executing

(* The invariant is inductive.                                             *)
LEMMA InboundNext == InboundInv /\ [Next]_vars => InboundInv'
<1> SUFFICES ASSUME InboundInv, [Next]_vars PROVE InboundInv'
  OBVIOUS
<1>0. TypeOK'
  BY TypeNext DEF InboundInv
<1>1. ASSUME NEW c \in Calls, Step(c) PROVE InboundInv'
  <2>1. CASE FinishDone(c) \/ FinishFailed(c)
    <3>1. CASE FinishDone(c)
      BY <1>0, <3>1, FinishKeeps
    <3>2. CASE FinishFailed(c)
      BY <1>0, <3>2, FinishKeeps
    <3> QED
      BY <2>1, <3>1, <3>2
  <2>2. CASE ClaimFresh(c) \/ ReadClaim(c) \/ Reread(c)
    BY <1>0, <2>2, ClaimKeeps
  <2>3. CASE HandlerReturns(c) \/ HandlerThrows(c) \/ FinishThrows(c)
    BY <1>0, <2>3, HandlerKeeps
  <2>4. CASE Refuse(c) \/ Accept(c) \/ FindPrior(c) \/ BuildContext(c) \/ ClaimConflict(c) \/ ReadVanished(c)
    BY <2>4, QuietNext
  <2>5. CASE Reclaim(c)
    BY <1>0, <2>5, ReclaimKeeps
  <2>6. CASE StoreThrows(c)
    BY <1>0, <2>6, StoreThrowsKeeps
  <2> QED
    BY <1>1, <2>1, <2>2, <2>3, <2>4, <2>5, <2>6 DEF Step
<1> QED
  BY <1>0, <1>1, PurgeKeeps, WorldKeeps DEF Next, Settled

-----------------------------------------------------------------------------
(* Until an execution of it fails, a key is executed at most once, however *)
(* its calls overlap, wherever the process dies, and whatever is purged.   *)
THEOREM HandlerBeginsOnce == Spec => []ExecutesOnce
<1>1. InboundInv => ExecutesOnce
  BY DEF InboundInv, KeyInv, ExecutesOnce
<1> QED
  BY <1>1, InboundInit, InboundNext, PTL DEF Spec

(* No call is answered as a replay of one that never claimed.              *)
THEOREM ReplaysAreReplays == Spec => []ReplayedWasClaimed
<1>1. InboundInv => ReplayedWasClaimed
  BY DEF InboundInv, CallInv, ReplayedWasClaimed
<1> QED
  BY <1>1, InboundInit, InboundNext, PTL DEF Spec

(* What was answered done is recorded done.                                *)
THEOREM DoneStaysRecorded == Spec => []DoneIsRecorded
<1>1. InboundInv => DoneIsRecorded
  BY DEF InboundInv, CallInv, DoneIsRecorded
<1> QED
  BY <1>1, InboundInit, InboundNext, PTL DEF Spec

(* With no execution of it at work, a key found done stays done until it   *)
(* is purged.                                                              *)
THEOREM DoneRowsAreFinal == Spec => DoneIsFinal
<1>1. ASSUME TypeOK, [Next]_vars, NEW k \in Keys,
             rows[k].status = "done", \A c \in Calls : keyOf[c] = k => ~Executing(c)
      PROVE  rows'[k].status = "done" \/ Expired(k)
  <2> USE DEF tableVars, callVars, historyVars
  <2>1. rows[k] # NoRow /\ rows \in [Keys -> Row \union {NoRow}]
    BY <1>1 DEF NoRow, TypeOK
  <2>2. ASSUME NEW c \in Calls, Step(c) PROVE rows'[k] = rows[k]
    <3>1. keyOf[c] \in Keys
      BY <1>1 DEF TypeOK
    <3>2. CASE FinishDone(c) \/ FinishFailed(c)
      BY <1>1, <3>1, <3>2, FinishTypes DEF FinishDone, FinishFailed, Executing, Finished
    <3>3. CASE ClaimFresh(c) \/ Reclaim(c) \/ StoreThrows(c)
      BY <2>1, <3>1, <3>3 DEF ClaimFresh, Reclaim, StoreThrows, Inserted
    <3> QED
      BY <2>2, <3>2, <3>3
      DEF Step, Refuse, Accept, FindPrior, BuildContext, ClaimConflict, ReadClaim, ReadVanished,
          Reread, HandlerReturns, HandlerThrows, FinishThrows
  <2>3. CASE Purge
    BY <1>1, <2>3 DEF Purge
  <2> QED
    BY <1>1, <2>2, <2>3 DEF Next, Tick, Activate, Crash, Settled, vars
<1>2. TypeOK /\ [Next]_vars =>
          [\A k \in Keys :
              rows[k].status = "done" /\ (\A c \in Calls : keyOf[c] = k => ~Executing(c))
                 => rows'[k].status = "done" \/ Expired(k)]_vars
  BY <1>1
<1> QED
  BY <1>2, TypeInit, TypeNext, PTL DEF Spec, DoneIsFinal

=============================================================================

---------------------------- MODULE AdminProofs ----------------------------
(***************************************************************************)
(* The admin surface keeps its types and caps, its rate limiter gives what *)
(* the rate says, its sessions last as long as they should, and an effect  *)
(* is answered only when it is audited: for any number of requests,        *)
(* addresses, sessions and rows.                                           *)
(***************************************************************************)
EXTENDS Admin, FiniteSetTheorems, TLAPS

-----------------------------------------------------------------------------
(* The inductive invariant.                                                *)

Bucket == [tokens: 0..Capacity, last: 0..MaxTime]

LimiterInv ==
    /\ now \in 0..MaxTime
    /\ IsFiniteSet(DOMAIN buckets) /\ Cardinality(DOMAIN buckets) <= MaxKeys
    /\ DOMAIN buckets \subseteq IPs /\ buckets \in [DOMAIN buckets -> Bucket]
    /\ \A ip \in DOMAIN buckets : buckets[ip].last <= now
    /\ level \in [IPs -> 0..Capacity] /\ reset \subseteq IPs
    /\ AllowanceKept

(* A session is stamped with its last use, and is gone once it is ended.   *)
SessionInv ==
    /\ now \in 0..MaxTime
    /\ IsFiniteSet(DOMAIN sessions) /\ Cardinality(DOMAIN sessions) <= MaxSessions
    /\ sessions = [s \in DOMAIN sessions |-> lastUse[s]]
    /\ lastUse \in [Sids -> 0..MaxTime] /\ \A s \in Sids : lastUse[s] <= now
    /\ DOMAIN sessions \subseteq issued \ ended
    /\ ended \subseteq issued /\ issued \subseteq Sids

Ops == Mutations \union Reads \union {"none", "login", "login.failed"}

Requests == [at: {"idle", "acting", "auditing", "answered"}, op: Ops, target: SUBSET DOMAIN Rows,
             reply: {"none", "refused", "masked", "raw", "payload", "ok"}, audited: BOOLEAN]

RequestInv ==
    /\ rows \subseteq DOMAIN Rows /\ req \in [Slots -> Requests]
    /\ AnsweredIsAudited

AdminInv == LimiterInv /\ SessionInv /\ RequestInv

-----------------------------------------------------------------------------
(* The bucket.                                                             *)

(* The numbers that the limiter and the sessions are configured with.      *)
LEMMA BucketTypes ==
    /\ One \in Nat \ {0} /\ Capacity \in Nat /\ Refill \in Nat /\ Capacity >= One
    /\ MaxKeys \in Nat \ {0} /\ MaxSessions \in Nat \ {0} /\ Ttl \in Nat /\ MaxTime \in Nat
BY BucketAssumption, AdminAssumption

(* What a bucket gains in two spans of time is what it gains in their sum: *)
(* refilling on use loses nothing (rate-limiter.ts).                       *)
LEMMA Gained ==
    ASSUME NEW d \in Nat, NEW e \in Nat
    PROVE  /\ d * Refill \in Nat
           /\ (d + e) * Refill = d * Refill + e * Refill
BY BucketTypes

(* A refill keeps to the capacity.                                         *)
LEMMA RefillTypes ==
    ASSUME NEW b \in [tokens: 0..Capacity, last: Nat], NEW t \in Nat, b.last <= t
    PROVE  Refilled(b, t) \in 0..Capacity
<1>1. t - b.last \in Nat /\ b.tokens \in 0..Capacity /\ Capacity \in Nat
  BY BucketTypes
<1>2. (t - b.last) * Refill \in Nat
  BY <1>1, Gained
<1> QED
  BY <1>1, <1>2 DEF Refilled

(* Refilling when it is used gives what refilling all the time gives.      *)
LEMMA RefillComposes ==
    ASSUME NEW b \in [tokens: 0..Capacity, last: Nat], NEW t \in Nat, NEW u \in Nat, b.last <= t, t <= u
    PROVE  Refilled([tokens |-> Refilled(b, t), last |-> t], u) = Refilled(b, u)
<1> DEFINE d == t - b.last
           e == u - t
<1>1. d \in Nat /\ e \in Nat /\ u - b.last = d + e /\ b.tokens \in Nat /\ Capacity \in Nat
  BY BucketTypes
<1>2. /\ d * Refill \in Nat /\ e * Refill \in Nat
      /\ (d + e) * Refill = d * Refill + e * Refill
  BY <1>1, Gained
<1>3. Refilled(b, u) = IF b.tokens + (d + e) * Refill <= Capacity
                      THEN b.tokens + (d + e) * Refill ELSE Capacity
  BY <1>1 DEF Refilled
<1>4. Refilled(b, t) = IF b.tokens + d * Refill <= Capacity THEN b.tokens + d * Refill ELSE Capacity
  BY DEF Refilled
<1> DEFINE r == Refilled(b, t)
<1>5. Refilled([tokens |-> r, last |-> t], u) =
          IF r + e * Refill <= Capacity THEN r + e * Refill ELSE Capacity
  BY DEF Refilled
<1> DEFINE x == d * Refill
           y == e * Refill
<1>6. x \in Nat /\ y \in Nat /\ (d + e) * Refill = x + y
  BY <1>2
<1>7. r = IF b.tokens + x <= Capacity THEN b.tokens + x ELSE Capacity
  BY <1>4
<1> HIDE DEF x, y, r, d
<1>8. Refilled(b, u) = IF b.tokens + (x + y) <= Capacity THEN b.tokens + (x + y) ELSE Capacity
  BY <1>3, <1>6
<1>9. Refilled([tokens |-> r, last |-> t], u) = IF r + y <= Capacity THEN r + y ELSE Capacity
  BY <1>5 DEF y
<1>10. Refilled([tokens |-> r, last |-> t], u) = Refilled(b, u)
  BY <1>1, <1>6, <1>7, <1>8, <1>9
<1> QED
  BY <1>10 DEF r

(* What a call finds in the bucket of a key, and leaves in it.             *)
LEMMA OfferTypes ==
    ASSUME LimiterInv, NEW ip \in IPs
    PROVE  /\ Offer(buckets, ip, now) \in 0..Capacity
           /\ ip \in DOMAIN buckets => buckets[ip] \in [tokens: 0..Capacity, last: Nat]
                                       /\ buckets[ip] \in Bucket /\ buckets[ip].last <= now
<1>1. Capacity \in Nat /\ now \in Nat /\ MaxTime \in Nat
  BY BucketTypes DEF LimiterInv
<1>2. ip \in DOMAIN buckets =>
          /\ buckets[ip] \in Bucket /\ buckets[ip].last <= now
          /\ buckets[ip] \in [tokens: 0..Capacity, last: Nat]
  BY <1>1 DEF LimiterInv, Bucket
<1> QED
  BY <1>1, <1>2, RefillTypes DEF Offer

(* A table with room for a key has lost at most one other.                 *)
LEMMA RoomMade ==
    ASSUME LimiterInv, NEW ip \in IPs, NEW table \in WithRoom(buckets, ip)
    PROVE  /\ DOMAIN table \subseteq DOMAIN buckets
           /\ \A k \in DOMAIN table : table[k] = buckets[k]
           /\ ip \in DOMAIN table <=> ip \in DOMAIN buckets
           /\ ip \in DOMAIN buckets => table = buckets
           /\ IsFiniteSet(DOMAIN table \union {ip})
           /\ Cardinality(DOMAIN table \union {ip}) <= MaxKeys
<1>0. /\ IsFiniteSet(DOMAIN buckets) /\ Cardinality(DOMAIN buckets) \in Nat
      /\ Cardinality(DOMAIN buckets) <= MaxKeys /\ MaxKeys \in Nat
  BY FS_CardinalityType, BucketTypes DEF LimiterInv
<1>1. CASE ip \in DOMAIN buckets
  <2>1. table = buckets /\ DOMAIN table \union {ip} = DOMAIN buckets
    BY <1>1 DEF WithRoom
  <2> QED
    BY <1>0, <1>1, <2>1
<1>2. CASE ip \notin DOMAIN buckets /\ Cardinality(DOMAIN buckets) < MaxKeys
  <2>1. table = buckets
    BY <1>2 DEF WithRoom
  <2>2. Cardinality(DOMAIN buckets \union {ip}) = Cardinality(DOMAIN buckets) + 1
        /\ IsFiniteSet(DOMAIN buckets \union {ip})
    BY <1>0, <1>2, FS_AddElement
  <2> QED
    BY <1>0, <1>2, <2>1, <2>2
<1>3. CASE ip \notin DOMAIN buckets /\ ~(Cardinality(DOMAIN buckets) < MaxKeys)
  <2>1. PICK k \in Evictable(buckets) : table = Restrict(buckets, DOMAIN buckets \ {k})
    BY <1>3 DEF WithRoom
  <2>2. k \in DOMAIN buckets
    BY DEF Evictable
  <2>3. DOMAIN table = DOMAIN buckets \ {k} /\ \A j \in DOMAIN table : table[j] = buckets[j]
    BY <2>1 DEF Restrict
  <2> DEFINE kept == DOMAIN buckets \ {k}
  <2>4. IsFiniteSet(kept) /\ Cardinality(kept) = Cardinality(DOMAIN buckets) - 1 /\ ip \notin kept
    BY <1>0, <1>3, <2>2, FS_RemoveElement
  <2> HIDE DEF kept
  <2>5. IsFiniteSet(kept \union {ip}) /\ Cardinality(kept \union {ip}) = Cardinality(kept) + 1
    BY <2>4, FS_AddElement
  <2> QED
    BY <1>0, <1>3, <2>3, <2>4, <2>5 DEF kept
<1> QED
  BY <1>1, <1>2, <1>3

(* A call of the limiter, with both passes of evict: the bucket that is    *)
(* used stays in step with the level, one that is evicted was full or is   *)
(* noted.                                                                  *)
LEMMA CallLimiterStep ==
    ASSUME LimiterInv, NEW ip \in IPs, CallLimiter(ip), now' = now
    PROVE  LimiterInv'
<1>1. PICK table \in WithRoom(buckets, ip) :
        /\ buckets' = Called(table, ip, now)
        /\ reset' = (reset \union {k \in DOMAIN buckets \ DOMAIN table : level[k] < Capacity})
                        \ {k \in {ip} : Offer(buckets, k, now) = Capacity /\ level[k] = Capacity}
        /\ level' = [level EXCEPT ![ip] = Credit(ip)]
  BY DEF CallLimiter
<1>2. /\ DOMAIN table \subseteq DOMAIN buckets
      /\ \A k \in DOMAIN table : table[k] = buckets[k]
      /\ ip \in DOMAIN table <=> ip \in DOMAIN buckets
      /\ ip \in DOMAIN buckets => table = buckets
      /\ IsFiniteSet(DOMAIN table \union {ip})
      /\ Cardinality(DOMAIN table \union {ip}) <= MaxKeys
  BY RoomMade
<1>3. /\ Offer(table, ip, now) = Offer(buckets, ip, now) /\ Offer(buckets, ip, now) \in 0..Capacity
      /\ One \in Nat /\ Capacity \in Nat /\ One <= Capacity /\ now \in 0..MaxTime /\ MaxTime \in Nat
      /\ level[ip] \in 0..Capacity
  BY <1>2, OfferTypes, BucketTypes DEF Offer, LimiterInv
<1> DEFINE offer == Offer(buckets, ip, now)
           left == offer - (IF offer >= One THEN One ELSE 0)
<1>4. left \in 0..Capacity
  BY <1>3
<1>5. /\ DOMAIN buckets' = DOMAIN table \union {ip}
      /\ buckets'[ip] = [tokens |-> left, last |-> now]
      /\ \A k \in DOMAIN table \ {ip} : buckets'[k] = buckets[k]
      /\ buckets' = [k \in DOMAIN table \union {ip} |-> buckets'[k]]
  BY <1>1, <1>2, <1>3 DEF Called, Allows
<1>6. buckets'[ip] \in Bucket /\ buckets'[ip].last = now /\ buckets'[ip].tokens = left
  BY <1>3, <1>4, <1>5 DEF Bucket
<1> HIDE DEF left, offer
<1>7. ASSUME NEW k \in DOMAIN buckets' PROVE buckets'[k] \in Bucket /\ buckets'[k].last <= now
  BY <1>2, <1>3, <1>5, <1>6, <1>7 DEF LimiterInv
<1>8. /\ level' \in [IPs -> 0..Capacity] /\ level'[ip] = Credit(ip)
      /\ \A k \in IPs \ {ip} : level'[k] = level[k]
  BY <1>1, <1>3 DEF LimiterInv, Credit
<1>9. reset' \subseteq IPs
  BY <1>1 DEF LimiterInv
<1>10. ASSUME NEW k \in IPs \ reset' PROVE Offer(buckets', k, now) = level'[k]
  <2>1. CASE k = ip
    <3>1. offer = level[ip]
      BY <1>1, <1>3, <1>10, <2>1 DEF LimiterInv, AllowanceKept, offer
    <3>2. level'[ip] = left
      BY <1>8, <3>1 DEF Credit, left
    <3>3. Offer(buckets', ip, now) = Refilled(buckets'[ip], now)
      BY <1>5 DEF Offer
    <3>4. Refilled(buckets'[ip], now) = left
      BY <1>3, <1>4, <1>6, BucketTypes DEF Refilled
    <3> QED
      BY <2>1, <3>2, <3>3, <3>4
  <2>2. CASE k # ip
    <3>1. level'[k] = level[k]
      BY <1>8, <2>2
    <3>2. CASE k \in DOMAIN buckets \ DOMAIN table
      <4>1. Offer(buckets', k, now) = Capacity
        BY <1>5, <2>2, <3>2 DEF Offer
      <4>2. ~(level[k] < Capacity)
        BY <1>1, <1>10, <2>2, <3>2
      <4> QED
        BY <1>3, <3>1, <4>1, <4>2 DEF LimiterInv
    <3>3. CASE k \notin DOMAIN buckets \ DOMAIN table
      <4>1. k \in DOMAIN buckets' <=> k \in DOMAIN buckets
        BY <1>2, <1>5, <2>2, <3>3
      <4>2. k \in DOMAIN buckets => buckets'[k] = buckets[k]
        BY <1>5, <2>2, <3>3
      <4>3. k \notin reset
        BY <1>1, <1>10, <2>2
      <4> QED
        BY <3>1, <4>1, <4>2, <4>3 DEF Offer, LimiterInv, AllowanceKept
    <3> QED
      BY <3>2, <3>3
  <2> QED
    BY <2>1, <2>2
<1>11. AllowanceKept'
  BY <1>10 DEF AllowanceKept
<1> QED
  BY <1>2, <1>3, <1>5, <1>7, <1>8, <1>9, <1>11 DEF LimiterInv

(* Time fills the levels, and the buckets only when they are used next.    *)
LEMMA LimiterTick == ASSUME LimiterInv, Tick PROVE LimiterInv'
<1>1. /\ now' = now + 1 /\ now' \in 0..MaxTime /\ now \in Nat /\ Capacity \in Nat /\ Refill \in Nat
      /\ UNCHANGED <<buckets, reset>> /\ MaxTime \in Nat
      /\ level' = [ip \in IPs |-> Refilled([tokens |-> level[ip], last |-> now], now + 1)]
  BY BucketTypes DEF Tick, LimiterInv
<1>2. ASSUME NEW ip \in IPs PROVE level'[ip] \in 0..Capacity
  <2>1. [tokens |-> level[ip], last |-> now] \in [tokens: 0..Capacity, last: Nat]
    BY <1>1 DEF LimiterInv
  <2> QED
    BY <1>1, <2>1, RefillTypes
<1>3. ASSUME NEW ip \in IPs \ reset PROVE Offer(buckets, ip, now + 1) = level'[ip]
  <2>1. level[ip] = Offer(buckets, ip, now)
    BY DEF LimiterInv, AllowanceKept
  <2>2. level'[ip] = Refilled([tokens |-> Offer(buckets, ip, now), last |-> now], now + 1)
    BY <1>1, <2>1
  <2>3. CASE ip \in DOMAIN buckets
    BY <1>1, <2>2, <2>3, OfferTypes, RefillComposes DEF Offer
  <2>4. CASE ip \notin DOMAIN buckets
    BY <1>1, <2>2, <2>4, Gained DEF Offer, Refilled
  <2> QED
    BY <2>3, <2>4
<1>4. \A ip \in DOMAIN buckets : buckets[ip].last <= now + 1
  <2> TAKE ip \in DOMAIN buckets
  <2>1. buckets[ip].last \in Nat /\ buckets[ip].last <= now
    BY <1>1 DEF LimiterInv, Bucket
  <2> QED
    BY <1>1, <2>1
<1>5. level' \in [IPs -> 0..Capacity]
  BY <1>1, <1>2
<1>6. AllowanceKept'
  BY <1>1, <1>3 DEF AllowanceKept
<1> QED
  BY <1>1, <1>4, <1>5, <1>6 DEF LimiterInv

(* The limiter of a process that has just started.                         *)
LEMMA LimiterFresh ==
    ASSUME now \in 0..MaxTime, buckets = [ip \in {} |-> 0], level = Full, reset = {}
    PROVE  LimiterInv
<1>1. DOMAIN buckets = {} /\ Cardinality({}) = 0 /\ IsFiniteSet({})
  BY FS_EmptySet
<1>2. Capacity \in Nat /\ MaxKeys \in Nat
  BY BucketTypes
<1>3. level \in [IPs -> 0..Capacity] /\ \A ip \in IPs : level[ip] = Capacity
  BY <1>2 DEF Full
<1> QED
  BY <1>1, <1>2, <1>3 DEF LimiterInv, AllowanceKept, Offer

(* A restart empties the table, and every address has a full allowance     *)
(* again.                                                                  *)
LEMMA LimiterRestart == ASSUME LimiterInv, Restart PROVE LimiterInv'
<1>1. /\ now' \in 0..MaxTime /\ buckets' = [ip \in {} |-> 0] /\ level' = Full /\ reset' = {}
  BY DEF Restart, LimiterInv
<1>2. DOMAIN buckets' = {} /\ Cardinality({}) = 0 /\ IsFiniteSet({})
  BY <1>1, FS_EmptySet
<1>3. Capacity \in Nat /\ MaxKeys \in Nat
  BY BucketTypes
<1>4. level' \in [IPs -> 0..Capacity] /\ \A ip \in IPs : level'[ip] = Capacity
  BY <1>1, <1>3 DEF Full
<1> QED
  BY <1>1, <1>2, <1>3, <1>4 DEF LimiterInv, AllowanceKept, Offer

-----------------------------------------------------------------------------
(* The sessions.                                                           *)

SessionStep ==
    \/ UNCHANGED sessionVars
    \/ \E s \in issued : Check(s)
    \/ \E s \in issued \union {Null} : CheckFails(s)
    \/ \E s \in Sids \ issued : CreateSession(s)

(* What may have become of the sessions that are no longer there, and of   *)
(* the stamps.                                                             *)
Lasts ==
    /\ \A s \in DOMAIN sessions \ DOMAIN sessions' :
           \/ s \in ended'
           \/ now - lastUse[s] > Ttl
           \/ /\ Cardinality(DOMAIN sessions) = MaxSessions
              /\ issued' # issued
              /\ \A o \in DOMAIN sessions \intersect DOMAIN sessions' : lastUse[s] <= lastUse[o]
    /\ \A s \in issued : lastUse'[s] # lastUse[s] => s \notin ended /\ now - lastUse[s] <= Ttl

(* What the invariant says of each session that is there.                  *)
LEMMA SessionTypes ==
    ASSUME SessionInv
    PROVE  /\ now \in Nat /\ MaxTime \in Nat /\ Ttl \in Nat /\ MaxSessions \in Nat \ {0}
           /\ Cardinality(DOMAIN sessions) \in Nat
           /\ \A s \in DOMAIN sessions : /\ s \in Sids /\ s \in issued /\ s \notin ended
                                         /\ sessions[s] = lastUse[s] /\ sessions[s] \in 0..MaxTime
                                         /\ Expired(s) <=> now - lastUse[s] > Ttl
<1>1. /\ now \in 0..MaxTime /\ MaxTime \in Nat /\ Ttl \in Nat /\ MaxSessions \in Nat \ {0}
      /\ Cardinality(DOMAIN sessions) \in Nat
  BY FS_CardinalityType, BucketTypes DEF SessionInv
<1>2. ASSUME NEW s \in DOMAIN sessions
      PROVE  s \in Sids /\ s \in issued /\ s \notin ended /\ sessions[s] = lastUse[s]
  BY DEF SessionInv
<1> QED
  BY <1>1, <1>2 DEF SessionInv, Expired

(* A check that succeeds stamps the session, one that finds it expired     *)
(* deletes it: nothing else happens to any session.                        *)
LEMMA CheckStep ==
    ASSUME SessionInv, NEW s \in issued, Check(s), now' = now
    PROVE  SessionInv' /\ Lasts
<1>0. /\ s \in DOMAIN sessions /\ ~Expired(s) /\ s \in Sids /\ s \notin ended
      /\ sessions' = [sessions EXCEPT ![s] = now] /\ lastUse' = [lastUse EXCEPT ![s] = now]
      /\ UNCHANGED <<issued, ended>> /\ lastUse \in [Sids -> 0..MaxTime] /\ now \in 0..MaxTime
      /\ now - lastUse[s] <= Ttl /\ issued \subseteq Sids
  BY SessionTypes DEF Check, Seen, SessionInv
<1>1. DOMAIN sessions' = DOMAIN sessions /\ lastUse' \in [Sids -> 0..MaxTime]
  BY <1>0
<1>2. sessions' = [o \in DOMAIN sessions' |-> lastUse'[o]]
  BY <1>0, <1>1 DEF SessionInv
<1>3. \A o \in Sids : lastUse'[o] = IF o = s THEN now ELSE lastUse[o]
  BY <1>0
<1> QED
  BY <1>0, <1>1, <1>2, <1>3, SessionTypes DEF SessionInv, Lasts

(* A check of a cookie that is unknown, ended or expired changes at most   *)
(* the expired session.                                                    *)
LEMMA CheckFailsStep ==
    ASSUME SessionInv, NEW s \in issued \union {Null}, CheckFails(s), now' = now
    PROVE  SessionInv' /\ Lasts
<1>1. /\ DOMAIN sessions' = DOMAIN sessions \ {s} /\ UNCHANGED <<issued, ended, lastUse>>
      /\ sessions' = [o \in DOMAIN sessions \ {s} |-> sessions[o]]
      /\ s \in DOMAIN sessions => now - lastUse[s] > Ttl
  BY SessionTypes DEF CheckFails, Restrict
<1>2. IsFiniteSet(DOMAIN sessions') /\ Cardinality(DOMAIN sessions') <= MaxSessions
  <2>1. DOMAIN sessions' \in SUBSET DOMAIN sessions
    BY <1>1
  <2>2. IsFiniteSet(DOMAIN sessions') /\ Cardinality(DOMAIN sessions') <= Cardinality(DOMAIN sessions)
    BY <2>1, FS_Subset DEF SessionInv
  <2> QED
    BY <2>2, SessionTypes, FS_CardinalityType DEF SessionInv
<1>3. sessions' = [o \in DOMAIN sessions' |-> lastUse'[o]]
  BY <1>1, SessionTypes
<1> QED
  BY <1>1, <1>2, <1>3 DEF SessionInv, Lasts

(* A login makes room at the cap: expired sessions go first, then the one  *)
(* least recently used.                                                    *)
LEMMA CreateSessionStep ==
    ASSUME SessionInv, NEW s \in Sids \ issued, CreateSession(s), now' = now
    PROVE  SessionInv' /\ Lasts
<1> DEFINE live == {o \in DOMAIN sessions : ~Expired(o)}
<1>0. /\ DOMAIN Unexpired = live /\ \A o \in live : Unexpired[o] = sessions[o] /\ o \in issued
      /\ s \notin DOMAIN sessions /\ live \in SUBSET DOMAIN sessions
      /\ MaxSessions \in Nat \ {0} /\ now \in 0..MaxTime
      /\ lastUse \in [Sids -> 0..MaxTime] /\ issued \subseteq Sids /\ s \in Sids
  BY SessionTypes DEF Unexpired, Restrict, SessionInv
<1>1. /\ IsFiniteSet(live) /\ Cardinality(live) \in Nat
      /\ Cardinality(live) <= Cardinality(DOMAIN sessions)
      /\ Cardinality(DOMAIN sessions) <= MaxSessions /\ Cardinality(DOMAIN sessions) \in Nat
  BY <1>0, FS_Subset, FS_CardinalityType, SessionTypes DEF SessionInv
<1> HIDE DEF live
<1>2. PICK table \in IF Crowded(Unexpired)
                     THEN {Restrict(Unexpired, DOMAIN Unexpired \ {o}) : o \in Oldest(Unexpired)}
                     ELSE {Unexpired} :
          sessions' = [o \in DOMAIN table \union {s} |-> IF o = s THEN now ELSE table[o]]
  BY DEF CreateSession
<1>3. /\ issued' = issued \union {s} /\ lastUse' = [lastUse EXCEPT ![s] = now] /\ ended' = ended
  BY DEF CreateSession
<1>4. /\ DOMAIN table \subseteq live /\ \A o \in DOMAIN table : table[o] = sessions[o]
      /\ IsFiniteSet(DOMAIN table) /\ Cardinality(DOMAIN table) <= MaxSessions - 1
      /\ Cardinality(DOMAIN table) \in Nat
      /\ \A o \in live \ DOMAIN table :
             /\ Cardinality(DOMAIN sessions) = MaxSessions
             /\ \A t \in live : sessions[o] <= sessions[t]
  <2>1. CASE Crowded(Unexpired)
    <3>1. PICK o \in Oldest(Unexpired) : table = Restrict(Unexpired, DOMAIN Unexpired \ {o})
      BY <1>2, <2>1
    <3>2. o \in live /\ \A t \in live : sessions[o] <= sessions[t]
      BY <1>0, <3>1 DEF Oldest
    <3>3. DOMAIN table = live \ {o} /\ \A t \in live \ {o} : table[t] = sessions[t]
      BY <1>0, <3>1 DEF Restrict
    <3>4. IsFiniteSet(live \ {o}) /\ Cardinality(live \ {o}) = Cardinality(live) - 1
          /\ Cardinality(live \ {o}) \in Nat
      BY <1>1, <3>2, FS_RemoveElement, FS_CardinalityType
    <3>5. Cardinality(DOMAIN sessions) = MaxSessions
      BY <1>0, <1>1, <2>1 DEF Crowded
    <3> QED
      BY <1>0, <1>1, <3>2, <3>3, <3>4, <3>5
  <2>2. CASE ~Crowded(Unexpired)
    <3>1. table = Unexpired
      BY <1>2, <2>2
    <3>2. Cardinality(live) < MaxSessions
      BY <1>0, <1>1, <2>2 DEF Crowded
    <3> QED
      BY <1>0, <1>1, <3>1, <3>2
  <2> QED
    BY <2>1, <2>2
<1>5. /\ DOMAIN sessions' = DOMAIN table \union {s} /\ s \notin DOMAIN table
      /\ \A o \in DOMAIN table : sessions'[o] = sessions[o] /\ o \in DOMAIN sessions
  BY <1>0, <1>2, <1>4
<1>6. IsFiniteSet(DOMAIN sessions') /\ Cardinality(DOMAIN sessions') <= MaxSessions
  <2>1. /\ IsFiniteSet(DOMAIN table \union {s})
        /\ Cardinality(DOMAIN table \union {s}) = Cardinality(DOMAIN table) + 1
    BY <1>4, <1>5, FS_AddElement
  <2> QED
    BY <1>0, <1>4, <1>5, <2>1
<1>7. /\ lastUse' \in [Sids -> 0..MaxTime]
      /\ \A o \in Sids : lastUse'[o] = IF o = s THEN now ELSE lastUse[o]
  BY <1>0, <1>3
<1>8. sessions' = [o \in DOMAIN sessions' |-> lastUse'[o]]
  <2>1. \A o \in DOMAIN table \union {s} : (IF o = s THEN now ELSE table[o]) = lastUse'[o]
    BY <1>4, <1>5, <1>7, SessionTypes
  <2> QED
    BY <1>2, <1>5, <2>1
<1>9. SessionInv'
  BY <1>0, <1>3, <1>5, <1>6, <1>7, <1>8, SessionTypes DEF SessionInv
<1>10. ASSUME NEW d \in DOMAIN sessions \ DOMAIN sessions'
       PROVE  \/ now - lastUse[d] > Ttl
              \/ /\ Cardinality(DOMAIN sessions) = MaxSessions
                 /\ issued' # issued
                 /\ \A o \in DOMAIN sessions \intersect DOMAIN sessions' : lastUse[d] <= lastUse[o]
  <2>1. CASE d \notin live
    BY <2>1, SessionTypes DEF live
  <2>2. CASE d \in live
    <3>1. d \in live \ DOMAIN table
      BY <1>5, <2>2
    <3>2. \A o \in DOMAIN sessions \intersect DOMAIN sessions' : o \in live
      BY <1>0, <1>4, <1>5
    <3>3. \A o \in live : o \in DOMAIN sessions
      BY <1>0
    <3> QED
      BY <1>3, <1>4, <3>1, <3>2, <3>3, SessionTypes
  <2> QED
    BY <2>1, <2>2
<1>11. \A o \in issued : lastUse'[o] = lastUse[o]
  BY <1>0, <1>7
<1> QED
  BY <1>9, <1>10, <1>11 DEF Lasts

(* The three ways in which a request touches the sessions.                 *)
LEMMA SessionStepKeeps ==
    ASSUME SessionInv, SessionStep, now' = now
    PROVE  SessionInv' /\ Lasts
<1>1. CASE UNCHANGED sessionVars
  BY <1>1 DEF sessionVars, SessionInv, Lasts
<1> QED
  BY <1>1, CheckStep, CheckFailsStep, CreateSessionStep DEF SessionStep

(* A logout ends the session it names.                                     *)
LEMMA LogoutStep == ASSUME SessionInv, Logout PROVE SessionInv' /\ Lasts
<1>1. PICK s \in DOMAIN sessions :
          /\ sessions' = Restrict(sessions, DOMAIN sessions \ {s})
          /\ ended' = IF Expired(s) THEN ended ELSE ended \union {s}
  BY DEF Logout
<1>2. UNCHANGED <<now, issued, lastUse>>
  BY DEF Logout
<1>3. /\ DOMAIN sessions' = DOMAIN sessions \ {s}
      /\ sessions' = [o \in DOMAIN sessions \ {s} |-> sessions[o]]
      /\ s \in issued
  BY <1>1, SessionTypes DEF Restrict
<1>4. IsFiniteSet(DOMAIN sessions') /\ Cardinality(DOMAIN sessions') <= MaxSessions
  <2>1. DOMAIN sessions' \in SUBSET DOMAIN sessions
    BY <1>3
  <2>2. IsFiniteSet(DOMAIN sessions') /\ Cardinality(DOMAIN sessions') <= Cardinality(DOMAIN sessions)
    BY <2>1, FS_Subset DEF SessionInv
  <2> QED
    BY <2>2, SessionTypes, FS_CardinalityType DEF SessionInv
<1>5. sessions' = [o \in DOMAIN sessions' |-> lastUse'[o]]
  BY <1>2, <1>3, SessionTypes
<1>6. SessionInv'
  BY <1>1, <1>2, <1>3, <1>4, <1>5 DEF SessionInv
<1>7. \A o \in DOMAIN sessions \ DOMAIN sessions' : o \in ended' \/ now - lastUse[o] > Ttl
  BY <1>1, <1>3, SessionTypes
<1> QED
  BY <1>2, <1>6, <1>7 DEF Lasts

(* Time changes no session.                                                *)
LEMMA SessionTick == ASSUME SessionInv, Tick PROVE SessionInv' /\ Lasts
<1>1. /\ now' = now + 1 /\ now' \in 0..MaxTime /\ UNCHANGED sessionVars /\ now \in Nat
      /\ \A s \in Sids : lastUse[s] \in Nat /\ lastUse[s] <= now
  BY SessionTypes DEF Tick, SessionInv
<1> QED
  BY <1>1 DEF SessionInv, Lasts, sessionVars

(* A restart ends all sessions.                                            *)
LEMMA SessionRestart == ASSUME SessionInv, Restart PROVE SessionInv' /\ Lasts
<1>1. /\ sessions' = [s \in {} |-> 0] /\ ended' = issued /\ UNCHANGED <<now, issued, lastUse>>
  BY DEF Restart
<1>2. DOMAIN sessions' = {} /\ Cardinality({}) = 0 /\ IsFiniteSet({})
  BY <1>1, FS_EmptySet
<1>3. sessions' = [s \in DOMAIN sessions' |-> lastUse'[s]]
  BY <1>1, <1>2
<1>4. \A s \in DOMAIN sessions : s \in issued
  BY SessionTypes
<1> QED
  BY <1>1, <1>2, <1>3, <1>4, SessionTypes DEF SessionInv, Lasts

-----------------------------------------------------------------------------
(* The requests.                                                           *)

(* A request that goes on to another that is audited or was not answered.  *)
LEMMA RequestStep ==
    ASSUME RequestInv, NEW q \in Slots, NEW r \in Requests, Becomes(q, r),
           r.reply \in {"payload", "ok"} => r.audited, rows' \subseteq rows
    PROVE  RequestInv'
BY DEF RequestInv, AnsweredIsAudited, Becomes

(* The answers and the stages of a request are requests.                   *)
LEMMA RequestTypes ==
    /\ Idle \in Requests
    /\ \A at \in {"idle", "acting", "auditing", "answered"}, op \in Ops, target \in SUBSET DOMAIN Rows :
           [Idle EXCEPT !.at = at, !.op = op, !.target = target] \in Requests
    /\ \A reply \in {"none", "refused", "masked", "raw", "payload", "ok"}, b \in BOOLEAN :
           /\ [Idle EXCEPT !.at = "answered", !.reply = reply] \in Requests
           /\ [Idle EXCEPT !.at = "answered", !.audited = b, !.reply = reply] \in Requests
BY DEF Idle, Requests, Ops

(* What an operation is about are rows.                                    *)
LEMMA TargetTypes ==
    ASSUME NEW op \in Mutations \union Reads, NEW i \in Installations, NEW target \in Targets(op, i)
    PROVE  target \in SUBSET DOMAIN Rows
<1>1. CASE op = "purge"
  BY <1>1 DEF Targets, Of
<1>2. CASE op = "reveal"
  <2>1. PICK k \in (UNION {Of("rejected", o) : o \in Installations}) \union Of("webhook", i) : target = {k}
    BY <1>2 DEF Targets
  <2>2. \A table, o : Of(table, o) \subseteq DOMAIN Rows
    BY DEF Of
  <2>3. k \in DOMAIN Rows
    <3>1. k \in Of("webhook", i) \/ \E o \in Installations : k \in Of("rejected", o)
      BY <2>1
    <3> QED
      BY <2>2, <3>1
  <2> QED
    BY <2>1, <2>3
<1>3. CASE op \notin {"purge", "reveal"}
  BY <1>3 DEF Targets
<1> QED
  BY <1>1, <1>2, <1>3

(* Serving a request: the effect comes before the audit, and the audit     *)
(* before the answer.                                                      *)
LEMMA ServeRequest == ASSUME RequestInv, NEW q \in Slots, Serve(q) PROVE RequestInv'
<1>0. req[q] \in Requests /\ rows \subseteq DOMAIN Rows
  BY DEF RequestInv
<1>1. ASSUME NEW reply \in {"refused", "masked", "raw"}, Answers(q, reply), rows' \subseteq rows
      PROVE  RequestInv'
  <2> DEFINE r == [Idle EXCEPT !.at = "answered", !.reply = reply]
  <2>1. r \in Requests /\ r.reply = reply
    BY RequestTypes DEF Idle
  <2>2. Becomes(q, r)
    BY <1>1 DEF Answers
  <2> HIDE DEF r
  <2> QED
    BY <1>1, <2>1, <2>2, RequestStep
<1>2. ASSUME NEW at \in {"acting", "auditing"}, NEW op \in Ops, NEW target \in SUBSET DOMAIN Rows,
             Awaits(q, at, op, target), rows' = rows
      PROVE  RequestInv'
  <2> DEFINE r == [Idle EXCEPT !.at = at, !.op = op, !.target = target]
  <2>1. r \in Requests /\ r.reply = "none"
    BY RequestTypes DEF Idle
  <2>2. Becomes(q, r)
    BY <1>2 DEF Awaits
  <2> HIDE DEF r
  <2> QED
    BY <1>2, <2>1, <2>2, RequestStep
<1>3. ASSUME AfterEffect(q), rows' \subseteq rows PROVE RequestInv'
  <2> DEFINE r == [req[q] EXCEPT !.at = "auditing", !.target = {}]
  <2>1. r \in Requests /\ r.reply = req[q].reply /\ r.audited = req[q].audited
    BY <1>0 DEF Requests
  <2>2. Becomes(q, r) /\ (r.reply \in {"payload", "ok"} => r.audited)
    BY <1>3, <2>1 DEF AfterEffect, RequestInv, AnsweredIsAudited
  <2> HIDE DEF r
  <2> QED
    BY <1>3, <2>1, <2>2, RequestStep
<1>4. CASE \E op \in Mutations \union Reads : Enter(q, op)
  <2>1. PICK op \in Mutations \union Reads, i \in Installations : \E target \in Targets(op, i) :
            Awaits(q, "acting", op, target) /\ rows' = rows
    BY <1>4 DEF Enter
  <2>2. PICK target \in Targets(op, i) : Awaits(q, "acting", op, target) /\ rows' = rows
    BY <2>1
  <2> QED
    BY <1>2, <2>2, TargetTypes DEF Ops
<1>5. CASE Login(q)
  BY <1>2, <1>5 DEF Login, Ops
<1>6. CASE Read(q) \/ ActionThrows(q) \/ AuditThrows(q)
  <2>1. rows' \subseteq rows
    BY <1>6 DEF Read, ActionThrows, AuditThrows
  <2> QED
    BY <1>1, <1>6, <2>1 DEF Read, ActionThrows, AuditThrows, Shown
<1>7. CASE PurgeRejected(q) \/ Reveal(q) \/ RunJob(q)
  BY <1>1, <1>3, <1>7 DEF PurgeRejected, Reveal, RunJob
<1>8. CASE Audit(q)
  <2> DEFINE reply == CASE req[q].op = "login.failed" -> "refused"
                        [] req[q].op = "reveal" -> "payload"
                        [] OTHER -> "ok"
             r == [Idle EXCEPT !.at = "answered", !.audited = TRUE, !.reply = reply]
  <2>1. reply \in {"refused", "payload", "ok"}
    OBVIOUS
  <2>2. Becomes(q, r) /\ rows' = rows
    BY <1>8 DEF Audit
  <2> HIDE DEF reply
  <2>3. r \in Requests /\ r.audited = TRUE
    BY <2>1, RequestTypes DEF Idle
  <2> HIDE DEF r
  <2> QED
    BY <2>2, <2>3, RequestStep
<1>9. CASE Sent(q)
  BY <1>9, RequestStep, RequestTypes DEF Sent, Idle
<1> QED
  BY <1>4, <1>5, <1>6, <1>7, <1>8, <1>9 DEF Serve

-----------------------------------------------------------------------------
(* Every step is one of the limiter, one of the sessions and one of the    *)
(* requests.                                                               *)

LimiterMoves ==
    \/ UNCHANGED limiterVars
    \/ \E ip \in IPs : CallLimiter(ip)

(* Every step is the clock, a restart, or one move of the limiter and one  *)
(* of the sessions at a time.                                              *)
LEMMA StepMoves ==
    ASSUME Next
    PROVE  Tick \/ Restart \/ (now' = now /\ LimiterMoves /\ (SessionStep \/ Logout))
<1>1. ASSUME NEW q \in Slots, Serve(q) PROVE now' = now /\ LimiterMoves /\ SessionStep
  <2>1. CASE \E op \in Mutations \union Reads : Enter(q, op)
    BY <2>1 DEF Enter, LimiterMoves, SessionStep, Authorized, AdminOk
  <2>2. CASE Login(q)
    BY <2>2 DEF Login, LimiterMoves, SessionStep
  <2>3. CASE Read(q) \/ PurgeRejected(q) \/ Reveal(q) \/ RunJob(q) \/ ActionThrows(q)
             \/ Audit(q) \/ AuditThrows(q) \/ Sent(q)
    BY <2>3 DEF Read, PurgeRejected, Reveal, RunJob, ActionThrows, Audit, AuditThrows, Sent,
                LimiterMoves, SessionStep
  <2> QED
    BY <1>1, <2>1, <2>2, <2>3 DEF Serve
<1>2. CASE RateLimited \/ Unauthorized \/ Forged
  BY <1>2 DEF RateLimited, Unauthorized, Forged, LimiterMoves, SessionStep
<1>3. CASE Logout \/ Purge
  BY <1>3 DEF Logout, Purge, LimiterMoves, SessionStep
<1> QED
  BY <1>1, <1>2, <1>3 DEF Next

(* No step answers a request with success that has not been audited.       *)
LEMMA RequestMoves == RequestInv /\ [Next]_vars => RequestInv'
<1> SUFFICES ASSUME RequestInv, [Next]_vars PROVE RequestInv'
  OBVIOUS
<1>1. CASE UNCHANGED <<rows, req>>
  BY <1>1 DEF RequestInv, AnsweredIsAudited
<1>2. CASE Purge
  BY <1>2 DEF Purge, RequestInv, AnsweredIsAudited
<1>3. CASE Restart
  <2>1. \A q \in Slots : req'[q] = Idle
    BY <1>3 DEF Restart
  <2>2. req' = [q \in Slots |-> Idle] /\ rows' = rows /\ Idle \in Requests
    BY <1>3, RequestTypes DEF Restart
  <2> QED
    BY <2>1, <2>2 DEF RequestInv, AnsweredIsAudited, Idle
<1>4. CASE RateLimited \/ Unauthorized \/ Forged \/ Logout \/ Tick
  BY <1>1, <1>4 DEF RateLimited, Unauthorized, Forged, Logout, Tick
<1>5. CASE UNCHANGED vars
  BY <1>1, <1>5 DEF vars
<1> QED
  BY <1>2, <1>3, <1>4, <1>5, ServeRequest DEF Next

(* The invariant is inductive, and sessions go for a reason only.          *)
LEMMA AdminStep == AdminInv /\ [Next]_vars => AdminInv' /\ [Lasts]_vars
<1> SUFFICES ASSUME AdminInv, [Next]_vars PROVE AdminInv' /\ [Lasts]_vars
  OBVIOUS
<1>1. LimiterInv /\ SessionInv /\ RequestInv'
  BY RequestMoves DEF AdminInv
<1>2. CASE Next
  <2>1. CASE Tick
    BY <1>1, <2>1, LimiterTick, SessionTick DEF AdminInv
  <2>2. CASE Restart
    BY <1>1, <2>2, LimiterRestart, SessionRestart DEF AdminInv
  <2>3. CASE now' = now /\ LimiterMoves /\ (SessionStep \/ Logout)
    <3>1. LimiterInv'
      <4>1. CASE UNCHANGED limiterVars
        BY <1>1, <2>3, <4>1 DEF limiterVars, LimiterInv, AllowanceKept, Offer
      <4> QED
        BY <1>1, <2>3, <4>1, CallLimiterStep DEF LimiterMoves
    <3>2. SessionInv' /\ Lasts
      BY <1>1, <2>3, SessionStepKeeps, LogoutStep
    <3> QED
      BY <1>1, <3>1, <3>2 DEF AdminInv
  <2> QED
    BY <1>2, <2>1, <2>2, <2>3, StepMoves
<1>3. CASE UNCHANGED vars
  <2>1. LimiterInv'
    BY <1>1, <1>3 DEF vars, limiterVars, LimiterInv, AllowanceKept, Offer
  <2>2. SessionInv'
    BY <1>1, <1>3 DEF vars, sessionVars, SessionInv
  <2> QED
    BY <1>1, <1>3, <2>1, <2>2 DEF AdminInv
<1> QED
  BY <1>2, <1>3

(* The process starts with empty tables and full levels.                   *)
LEMMA AdminInit == Init => AdminInv
<1> SUFFICES ASSUME Init PROVE AdminInv
  OBVIOUS
<1>1. now \in 0..MaxTime /\ MaxTime \in Nat /\ MaxSessions \in Nat
  BY BucketTypes DEF Init
<1>2. LimiterInv
  BY <1>1, LimiterFresh DEF Init
<1>3. SessionInv
  <2>1. DOMAIN sessions = {} /\ Cardinality({}) = 0 /\ IsFiniteSet({})
    BY FS_EmptySet DEF Init
  <2>2. sessions = [s \in DOMAIN sessions |-> lastUse[s]]
    BY <2>1 DEF Init
  <2> QED
    BY <1>1, <2>1, <2>2 DEF Init, SessionInv
<1>4. RequestInv
  <2>1. \A q \in Slots : req[q] = Idle
    BY DEF Init
  <2> QED
    BY <2>1, RequestTypes DEF Init, RequestInv, AnsweredIsAudited, Idle
<1> QED
  BY <1>2, <1>3, <1>4 DEF AdminInv

-----------------------------------------------------------------------------
(* Every variable of the admin surface keeps its type, and the tables of   *)
(* buckets and of sessions keep to their caps.                             *)
THEOREM TypeCorrect == Spec => []TypeOK
<1>1. AdminInv => TypeOK
  <2> SUFFICES ASSUME AdminInv PROVE TypeOK
    OBVIOUS
  <2>1. \A ip \in DOMAIN buckets : buckets[ip].tokens \in 0..Capacity /\ buckets[ip].last \in 0..now
    BY BucketTypes DEF AdminInv, LimiterInv, Bucket
  <2>2. DOMAIN sessions \subseteq issued /\ \A s \in DOMAIN sessions : sessions[s] \in 0..now
    <3>1. SessionInv
      BY DEF AdminInv
    <3> QED
      BY <3>1, SessionTypes DEF SessionInv
  <2>3. \A q \in Slots : req[q].at \in {"idle", "acting", "auditing", "answered"}
    BY DEF AdminInv, RequestInv, Requests
  <2> QED
    BY <2>1, <2>2, <2>3 DEF AdminInv, LimiterInv, SessionInv, RequestInv, TypeOK
<1> QED
  BY <1>1, AdminInit, AdminStep, PTL DEF Spec

(* A bucket that is refilled when it is used, and comes and goes with the  *)
(* bounded table, gives what one refilled all the time would give, unless  *)
(* it was evicted while it was not full.                                   *)
THEOREM EvictionIsHarmless == Spec => []AllowanceKept
<1>1. AdminInv => AllowanceKept
  BY DEF AdminInv, LimiterInv
<1> QED
  BY <1>1, AdminInit, AdminStep, PTL DEF Spec

(* The payload of a reveal, and the success of a mutation or of a login,   *)
(* are answered only once they are in the audit trail.  Of the unmasked    *)
(* payloads in the listing of a dead letter, which is a read without an    *)
(* audit (Shown), nothing is said.                                         *)
THEOREM EffectsAreAudited == Spec => []AnsweredIsAudited
<1>1. AdminInv => AnsweredIsAudited
  BY DEF AdminInv, RequestInv
<1> QED
  BY <1>1, AdminInit, AdminStep, PTL DEF Spec

(* A session lasts until it is logged out, until nothing has come with it  *)
(* for the TTL, or until a login finds the table full and no session that  *)
(* was used less recently; and no longer.                                  *)
THEOREM SessionsEndForAReason == Spec => SessionsLast
<1>1. [Lasts]_vars => [Lasts]_vars
  OBVIOUS
<1> QED
  BY AdminInit, AdminStep, PTL DEF Spec, SessionsLast, Lasts

=============================================================================

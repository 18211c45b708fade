---------------------------- MODULE TokenBucket ----------------------------
(***************************************************************************)
(* createRateLimiter of src/runtime/rate-limiter.ts: a token bucket per    *)
(* key, refilled when it is next used, in a table of a bounded size.       *)
(***************************************************************************)
EXTENDS Integers, FiniteSets, Functions

CONSTANTS
    One,      \* what one call takes, in fractions of a token
    Capacity, \* capacity, in the same unit
    Refill,   \* refillPerSec, per unit of the clock
    MaxKeys   \* maxKeys

ASSUME BucketAssumption ==
    /\ One \in Nat \ {0} /\ Capacity \in Nat /\ Refill \in Nat
    /\ Capacity >= One
    /\ MaxKeys \in Nat \ {0}

(* The refill of a bucket at time t, all of it since it was last used.     *)
Refilled(bucket, t) ==
    LET tokens == bucket.tokens + (t - bucket.last) * Refill IN
    IF tokens <= Capacity THEN tokens ELSE Capacity

(* The two passes of evict: a bucket that was full when it was last used,  *)
(* or else one of those that were used least recently.                     *)
Evictable(table) ==
    LET full == {k \in DOMAIN table : table[k].tokens >= Capacity} IN
    IF full # {} THEN full
    ELSE {k \in DOMAIN table : \A j \in DOMAIN table : table[k].last <= table[j].last}

(* The tables in which a key has a place.                                  *)
WithRoom(table, key) ==
    IF key \in DOMAIN table \/ Cardinality(DOMAIN table) < MaxKeys THEN {table}
    ELSE {Restrict(table, DOMAIN table \ {k}) : k \in Evictable(table)}

Offer(table, key, t) == IF key \in DOMAIN table THEN Refilled(table[key], t) ELSE Capacity

Allows(table, key, t) == Offer(table, key, t) >= One

Mutant_Called_StampIfAllowed(table, key, t) ==
    LET left == Offer(table, key, t) - (IF Allows(table, key, t) THEN One ELSE 0) IN
    [k \in DOMAIN table \union {key} |->
        IF k # key THEN table[k]
        ELSE [tokens |-> left, last |-> IF Allows(table, key, t) THEN t ELSE table[k].last]]

Mutant_Called_LosesRefill(table, key, t) ==
    LET allowed == Allows(table, key, t) IN
    [k \in DOMAIN table \union {key} |->
        IF k # key THEN table[k]
        ELSE [tokens |-> IF allowed THEN Offer(table, key, t) - One ELSE table[key].tokens,
              last |-> t]]

(* The table after a call, allowed or refused.                             *)
Called(table, key, t) ==
    LET left == Offer(table, key, t) - (IF Allows(table, key, t) THEN One ELSE 0) IN
    [k \in DOMAIN table \union {key} |->
        IF k = key THEN [tokens |-> left, last |-> t] ELSE table[k]]

=============================================================================

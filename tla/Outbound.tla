------------------------------ MODULE Outbound ------------------------------
(***************************************************************************)
(* A step that pulls from a partner with the helpers of the kit, put       *)
(* together as their comments say: streamPages of src/sync/paginate.ts,    *)
(* each page mapped by mapWithConcurrency of src/sync/concurrency.ts, each *)
(* request behind makeOutboundLimiter and fetchWithRetry of                *)
(* src/runtime/outbound.ts.                                                *)
(*                                                                         *)
(* Time is counted from the present: a tick brings timers nearer and moves *)
(* the last use of the bucket further into the past.                       *)
(***************************************************************************)
EXTENDS TokenBucket, Sequences

CONSTANTS
    Limit,       \* concurrency limit of mapWithConcurrency
    MaxAttempts, \* maxAttempts, baseDelayMs and maxDelayMs of fetchWithRetry
    BaseDelay,
    MaxDelay,
    RetryAfters, \* what a Retry-After header may say
    Poll,        \* pollMs
    PageSize,    \* pageSize, which a shorter page ends the stream
    MaxPages,    \* MAX_PAGES
    Upstreams,   \* the numbers of rows the partner's pages may have
    Null

ASSUME OutboundAssumption ==
    /\ Limit \in Nat \ {0} /\ MaxAttempts \in Nat \ {0}
    /\ BaseDelay \in Nat /\ MaxDelay \in Nat /\ Poll \in Nat \ {0}
    /\ PageSize \in Nat \ {0} /\ MaxPages \in Nat \ {0}
    /\ RetryAfters \subseteq Nat /\ Null \notin Nat
    \* The bucket gets fuller, so that a waiting call gets its token.
    /\ Refill > 0
    /\ \A sizes \in Upstreams : sizes \in [1..(MaxPages + 1) -> 0..PageSize]

Workers == 1..Limit

VARIABLES
    upstream,  \* the sizes of the partner's pages
    caller,    \* where the loop over the pages is
    page,      \* the page it is at
    size,      \* the number of rows of the page being mapped
    cursor,    \* cursor of mapWithConcurrency
    results,   \* its results array: index -> the row that has been fetched
    worker,    \* its workers
    table,     \* the bucket of the limiter
    delivered, \* history: the results of the pages mapped so far
    notBefore  \* history: worker -> how long the partner told it to wait

callVars == <<caller, page, size, cursor, results, delivered>>
vars == <<upstream, callVars, worker, table, notBefore>>

Over == [at |-> "over", index |-> 0, attempt |-> 0, wait |-> 0]
Taking(i) == [at |-> "gating", index |-> i, attempt |-> 0, wait |-> 0]

Init ==
    /\ upstream \in Upstreams
    /\ caller = "paging" /\ page = 1 /\ size = 0 /\ cursor = 1 /\ results = <<>>
    /\ worker = [w \in Workers |-> Over]
    /\ table = [k \in {} |-> 0]
    /\ delivered = <<>>
    /\ notBefore = [w \in Workers |-> 0]

-----------------------------------------------------------------------------
(* streamPages.                                                            *)

(* Math.min(limit, items.length).                                          *)
Pool(n) == IF Limit <= n THEN Limit ELSE n

(* A full page may be followed by another one, a shorter one is the last.  *)
FetchPage ==
    /\ caller = "paging"
    /\ \/ /\ page > MaxPages /\ caller' = "threw"
          /\ UNCHANGED <<size, cursor, results, worker>>
       \/ /\ page <= MaxPages /\ upstream[page] = 0 /\ caller' = "returned"
          /\ UNCHANGED <<size, cursor, results, worker>>
       \/ /\ page <= MaxPages /\ upstream[page] # 0 /\ caller' = "mapping"
          /\ size' = upstream[page] /\ cursor' = Pool(upstream[page]) + 1
          /\ results' = [i \in 1..upstream[page] |-> 0]
          \* Each worker takes its first index before anything is awaited.
          /\ worker' = [w \in Workers |->
                 IF w <= Pool(upstream[page]) THEN Taking(w) ELSE Over]
    /\ UNCHANGED <<upstream, page, delivered, table, notBefore>>

FetchPageThrows ==
    /\ caller = "paging" /\ caller' = "threw"
    /\ UNCHANGED <<upstream, page, size, cursor, results, delivered, worker, table, notBefore>>

Mutant_LastPage_Full(n) == n <= PageSize

LastPage(n) == n < PageSize

(* Promise.all resolves, and the next page is asked for.                   *)
PageMapped ==
    /\ caller = "mapping" /\ \A w \in Workers : worker[w].at = "over"
    /\ delivered' = Append(delivered, results)
    /\ IF LastPage(size) THEN caller' = "returned" /\ UNCHANGED page
       ELSE caller' = "paging" /\ page' = page + 1
    /\ UNCHANGED <<upstream, size, cursor, results, worker, table, notBefore>>

-----------------------------------------------------------------------------
(* The workers of mapWithConcurrency.                                      *)

Works(w, locals) == worker' = [worker EXCEPT ![w] = locals]

(* fn has returned: the result is stored and the next index taken.         *)
NextItem(w) ==
    /\ results' = [results EXCEPT ![worker[w].index] = worker[w].index]
    /\ IF cursor > size THEN Works(w, Over) /\ UNCHANGED cursor
       ELSE Works(w, Taking(cursor)) /\ cursor' = cursor + 1
    /\ UNCHANGED <<caller, page, size, delivered>>

(* fn has thrown: Promise.all rejects at the first one, the others go on.  *)
Rejects(w) ==
    /\ Works(w, Over)
    /\ caller' = "threw"
    /\ UNCHANGED <<page, size, cursor, results, delivered>>

-----------------------------------------------------------------------------
(* makeOutboundLimiter.                                                    *)

(* tryTake, or another sleep of pollMs.                                    *)
PassLimiter(w) ==
    /\ worker[w].at = "gating" /\ worker[w].wait = 0
    /\ table' = Called(table, "default", 0)
    /\ Works(w, IF Allows(table, "default", 0) THEN [worker[w] EXCEPT !.at = "fetching"]
                ELSE [worker[w] EXCEPT !.wait = Poll])
    /\ UNCHANGED <<upstream, callVars, notBefore>>

-----------------------------------------------------------------------------
(* fetchWithRetry.                                                         *)

Mutant_IsLast_OneMore(w) == worker[w].attempt = MaxAttempts

IsLast(w) == worker[w].attempt = MaxAttempts - 1

AtMost(a, b) == IF a <= b THEN a ELSE b

Mutant_BackoffDelays_Jitter(attempt, retryAfter) ==
    LET exp == AtMost(BaseDelay * 2^attempt, MaxDelay) IN
    IF exp = 0 THEN {0} ELSE {d \in 0..MaxDelay : d < exp}

(* backoffDelayMs: what the partner says, or full jitter, both capped.     *)
BackoffDelays(attempt, retryAfter) ==
    LET exp == AtMost(BaseDelay * 2^attempt, MaxDelay) IN
    IF retryAfter # Null THEN {AtMost(retryAfter, MaxDelay)}
    ELSE IF exp = 0 THEN {0} ELSE {d \in 0..MaxDelay : d < exp}

SleepThenRetry(w, retryAfter) ==
    /\ \E delay \in BackoffDelays(worker[w].attempt, retryAfter) :
           Works(w, [worker[w] EXCEPT !.at = "gating", !.attempt = @ + 1, !.wait = delay])
    /\ notBefore' = [notBefore EXCEPT
           ![w] = IF retryAfter = Null THEN 0 ELSE AtMost(retryAfter, MaxDelay)]
    /\ UNCHANGED callVars

(* An answer, with a status that is not retried, or of the last attempt.   *)
Answered(w) ==
    /\ worker[w].at = "fetching"
    /\ NextItem(w)
    /\ UNCHANGED <<upstream, table, notBefore>>

(* 429 or 5xx, with or without a Retry-After header.                       *)
Refused(w) ==
    /\ worker[w].at = "fetching" /\ ~IsLast(w)
    /\ \E retryAfter \in RetryAfters \union {Null} : SleepThenRetry(w, retryAfter)
    /\ UNCHANGED <<upstream, table>>

NetworkError(w) ==
    /\ worker[w].at = "fetching"
    /\ IF IsLast(w) THEN Rejects(w) /\ UNCHANGED notBefore ELSE SleepThenRetry(w, Null)
    /\ UNCHANGED <<upstream, table>>

-----------------------------------------------------------------------------
Sooner(t) == IF t = 0 THEN 0 ELSE t - 1

(* A bucket that has not been used for Capacity ticks is full anyway.      *)
Tick ==
    /\ worker' = [w \in Workers |-> [worker[w] EXCEPT !.wait = Sooner(@)]]
    /\ notBefore' = [w \in Workers |-> Sooner(notBefore[w])]
    /\ table' = [k \in DOMAIN table |->
           [table[k] EXCEPT !.last = IF @ <= -Capacity THEN @ ELSE @ - 1]]
    /\ UNCHANGED <<upstream, callVars>>

Progress(w) == PassLimiter(w) \/ Answered(w) \/ Refused(w) \/ NetworkError(w)

Next ==
    \/ FetchPage \/ FetchPageThrows \/ PageMapped
    \/ \E w \in Workers : Progress(w)
    \/ Tick

(* Timers fire, and a request is answered or fails.                        *)
Fairness ==
    /\ WF_vars(Tick)
    /\ WF_vars(FetchPage \/ FetchPageThrows) /\ WF_vars(PageMapped)
    /\ \A w \in Workers : WF_vars(Progress(w))

Spec == Init /\ [][Next]_vars /\ Fairness

-----------------------------------------------------------------------------
(* Properties.                                                             *)

(* Every variable keeps its type; no attempt beyond maxAttempts and no     *)
(* wait beyond maxDelayMs or the poll interval.                            *)
TypeOK ==
    /\ upstream \in Upstreams
    /\ caller \in {"paging", "mapping", "returned", "threw"}
    /\ page \in 1..(MaxPages + 1) /\ size \in 0..PageSize /\ cursor \in 1..(PageSize + Limit + 1)
    /\ worker \in [Workers -> [at: {"over", "gating", "fetching"}, index: 0..PageSize,
                               attempt: 0..(MaxAttempts - 1),
                               wait: 0..(IF Poll <= MaxDelay THEN MaxDelay ELSE Poll)]]
    /\ DOMAIN table \subseteq {"default"}

(* "with result order preserved" (concurrency.ts), and "a shorter page     *)
(* ends the stream": a loop that returns has mapped every row of every     *)
(* page up to the first one that is not full, each result in its place.    *)
ReturnsEverything ==
    caller = "returned" =>
        LET pages == {p \in 1..MaxPages : \A o \in 1..(p - 1) : upstream[o] = PageSize} IN
        /\ \A p \in pages : upstream[p] > 0 => p \in DOMAIN delivered
        /\ \A p \in DOMAIN delivered : delivered[p] = [i \in 1..upstream[p] |-> i]

(* "honours a Retry-After header": no request goes out before the time the *)
(* partner gave, up to the cap on a single wait, whatever the limiter and  *)
(* the other workers do.                                                   *)
RetryAfterHonoured ==
    \A w \in Workers : worker[w].at = "fetching" => notBefore[w] = 0

(* The limiter, the retries and the pool let every pull end: the caller    *)
(* gets its answer, and the workers that go on unobserved after a          *)
(* rejection end too.                                                      *)
PullEnds == <>[](caller \in {"returned", "threw"} /\ \A w \in Workers : worker[w].at = "over")

=============================================================================

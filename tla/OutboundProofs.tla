--------------------------- MODULE OutboundProofs ---------------------------
(***************************************************************************)
(* A pull keeps its types, sends no request earlier than the partner       *)
(* allowed, and when its loop returns has mapped every row in its place:   *)
(* for every limit, page size, number of attempts and bucket.              *)
(***************************************************************************)
EXTENDS Outbound, SequenceTheorems, TLAPS

Ats == {"over", "gating", "fetching"}
MaxWait == IF Poll <= MaxDelay THEN MaxDelay ELSE Poll
Locals == [at: Ats, index: 0..PageSize, attempt: 0..(MaxAttempts - 1), wait: 0..MaxWait]

AtWork(w) == worker[w].at # "over"

(* A worker sleeps before it asks the limiter, at least as long as the     *)
(* partner told it to wait.                                                *)
WaitsEnough ==
    /\ notBefore \in [Workers -> Nat]
    /\ \A w \in Workers :
           /\ notBefore[w] <= worker[w].wait
           /\ worker[w].at # "gating" => worker[w].wait = 0

(* While a page is mapped, every index below the cursor is stored or at    *)
(* some worker, and a worker stops only when there is no index left.       *)
PageInvariant ==
    /\ page <= MaxPages /\ size = upstream[page] /\ size > 0
    /\ cursor \in 2..(size + 1)
    /\ results \in [1..size -> 0..PageSize]
    /\ \A w \in Workers : IF AtWork(w) THEN worker[w].index \in 1..(cursor - 1) ELSE cursor = size + 1
    /\ \A i \in 1..(cursor - 1) : results[i] = i \/ \E w \in Workers : AtWork(w) /\ worker[w].index = i

(* The pages before this one were full, and are delivered.                 *)
DeliveredInvariant ==
    /\ delivered \in Seq(Seq(0..PageSize))
    /\ \A p \in 1..(page - 1) : upstream[p] = PageSize
    /\ \A p \in 1..Len(delivered) : delivered[p] = [i \in 1..upstream[p] |-> i]
    /\ caller \in {"paging", "mapping"} => Len(delivered) = page - 1
    /\ caller = "returned" =>
           /\ page <= MaxPages
           /\ \/ upstream[page] = 0 /\ Len(delivered) = page - 1
              \/ upstream[page] < PageSize /\ Len(delivered) = page

PullInv ==
    /\ TypeOK /\ WaitsEnough
    /\ caller \in {"paging", "returned"} => \A w \in Workers : ~AtWork(w)
    /\ caller = "mapping" => PageInvariant
    /\ DeliveredInvariant

-----------------------------------------------------------------------------
(* The delays.                                                             *)

(* The smaller of two numbers.                                             *)
LEMMA LeastType ==
    ASSUME NEW a \in Nat, NEW b \in Nat
    PROVE  AtMost(a, b) \in Nat /\ AtMost(a, b) <= b
BY DEF AtMost

(* The wait before a retry is bounded, and covers what Retry-After asks    *)
(* for up to the cap on delays (outbound.ts).                              *)
LEMMA DelayTypes ==
    ASSUME NEW n \in 0..(MaxAttempts - 1), NEW r \in RetryAfters \union {Null},
           NEW delay \in BackoffDelays(n, r)
    PROVE  /\ delay \in 0..MaxWait
           /\ r # Null => delay = AtMost(r, MaxDelay) /\ delay \in Nat
<1>0. /\ MaxDelay \in Nat /\ BaseDelay \in Nat /\ Poll \in Nat /\ MaxAttempts \in Nat
      /\ r # Null => r \in Nat
  BY OutboundAssumption
<1>1. r # Null => AtMost(r, MaxDelay) \in Nat /\ AtMost(r, MaxDelay) <= MaxDelay
  BY <1>0, LeastType
<1> QED
  BY <1>0, <1>1 DEF BackoffDelays, MaxWait

(* The parts of a worker's frame.                                          *)
LEMMA WorkerTypes ==
    ASSUME TypeOK, NEW w \in Workers
    PROVE  /\ worker[w] \in Locals
           /\ worker[w].at \in Ats /\ worker[w].index \in 0..PageSize
           /\ worker[w].attempt \in 0..(MaxAttempts - 1) /\ worker[w].wait \in 0..MaxWait
BY DEF TypeOK, Locals, Ats, MaxWait

(* A worker that stops, or takes an index, has a frame.                    *)
LEMMA OverTypes == Over \in Locals /\ \A i \in 0..PageSize : Taking(i) \in Locals
BY OutboundAssumption DEF Over, Taking, Locals, Ats, MaxWait

-----------------------------------------------------------------------------
(* A pull starts with a full bucket and no worker.                         *)
LEMMA TypeInit == Init => TypeOK
<1> SUFFICES ASSUME Init PROVE TypeOK
  OBVIOUS
<1>1. worker \in [Workers -> Locals]
  BY OverTypes DEF Init
<1>2. page \in 1..(MaxPages + 1) /\ size \in 0..PageSize /\ cursor \in 1..(PageSize + Limit + 1)
  BY OutboundAssumption DEF Init
<1>3. DOMAIN table = {}
  BY DEF Init
<1> QED
  BY <1>1, <1>2, <1>3 DEF Init, TypeOK, Locals, Ats, MaxWait

(* The sleep of a retry.                                                   *)
LEMMA SleepMoves ==
    ASSUME TypeOK, NEW w \in Workers, worker[w].at = "fetching", ~IsLast(w),
           NEW r \in RetryAfters \union {Null}, SleepThenRetry(w, r)
    PROVE  /\ UNCHANGED callVars
           /\ worker' \in [Workers -> Locals]
           /\ \A v \in Workers \ {w} : worker'[v] = worker[v] /\ notBefore'[v] = notBefore[v]
           /\ worker'[w].at = "gating" /\ worker'[w].index = worker[w].index
           /\ notBefore \in [Workers -> Nat] =>
                  notBefore' \in [Workers -> Nat] /\ notBefore'[w] <= worker'[w].wait
<1>0. /\ worker \in [Workers -> Locals] /\ worker[w].attempt \in 0..(MaxAttempts - 1)
      /\ worker[w] \in Locals /\ MaxAttempts \in Nat /\ worker[w].index \in 0..PageSize
  BY WorkerTypes, OutboundAssumption DEF TypeOK, Locals, Ats, MaxWait
<1>1. PICK delay \in BackoffDelays(worker[w].attempt, r) :
          worker' = [worker EXCEPT ![w] = [worker[w] EXCEPT !.at = "gating", !.attempt = @ + 1, !.wait = delay]]
  BY DEF SleepThenRetry, Works
<1>2. /\ delay \in 0..MaxWait /\ MaxWait \in Nat
      /\ r # Null => delay = AtMost(r, MaxDelay) /\ delay \in Nat
  BY <1>0, DelayTypes, OutboundAssumption DEF MaxWait
<1> DEFINE new == [worker[w] EXCEPT !.at = "gating", !.attempt = @ + 1, !.wait = delay]
<1>3. worker[w].attempt + 1 \in 0..(MaxAttempts - 1)
  BY <1>0 DEF IsLast
<1>4. new \in Locals /\ new.at = "gating" /\ new.wait = delay /\ new.index = worker[w].index
  BY <1>0, <1>2, <1>3 DEF Locals, Ats
<1>5. worker' = [worker EXCEPT ![w] = new]
  BY <1>1
<1> HIDE DEF new
<1>6. UNCHANGED callVars
      /\ notBefore' = [notBefore EXCEPT ![w] = IF r = Null THEN 0 ELSE AtMost(r, MaxDelay)]
  BY DEF SleepThenRetry
<1>7. worker'[w] = new /\ \A v \in Workers \ {w} : worker'[v] = worker[v]
  BY <1>0, <1>5
<1>8. notBefore \in [Workers -> Nat] => notBefore' \in [Workers -> Nat] /\ notBefore'[w] <= delay
  BY <1>2, <1>6
<1>9. \A v \in Workers \ {w} : notBefore'[v] = notBefore[v]
  BY <1>6
<1> QED
  BY <1>0, <1>4, <1>5, <1>6, <1>7, <1>8, <1>9

-----------------------------------------------------------------------------
(* The steps of the pull.                                                  *)

(* The numbers that a pull is configured with.                             *)
LEMMA ParameterTypes ==
    /\ Limit \in Nat \ {0} /\ MaxAttempts \in Nat \ {0} /\ PageSize \in Nat \ {0}
    /\ MaxPages \in Nat \ {0} /\ MaxWait \in Nat /\ Poll \in 0..MaxWait
    /\ Workers = 1..Limit
BY OutboundAssumption DEF MaxWait, Workers

(* A page of the partner has no more rows than asked for.                  *)
LEMMA PageSizes ==
    ASSUME TypeOK, NEW p \in 1..(MaxPages + 1)
    PROVE  upstream[p] \in 0..PageSize
<1>1. upstream \in [1..(MaxPages + 1) -> 0..PageSize]
  BY OutboundAssumption DEF TypeOK
<1> QED
  BY <1>1

(* What a step that leaves the loop over the pages alone leaves true of it. *)
LEMMA LoopStands ==
    ASSUME PullInv, UNCHANGED <<upstream, callVars>>, caller \in {"mapping", "threw"},
           \A w \in Workers : AtWork(w)' = AtWork(w) /\ worker'[w].index = worker[w].index
    PROVE  /\ caller' \in {"paging", "returned"} => \A w \in Workers : ~AtWork(w)'
           /\ caller' = "mapping" => PageInvariant'
           /\ DeliveredInvariant'
<1>0. /\ UNCHANGED <<upstream, caller, page, size, cursor, results, delivered>>
      /\ DeliveredInvariant /\ (caller = "mapping" => PageInvariant)
  BY DEF PullInv, callVars
<1>1. DeliveredInvariant'
  BY <1>0 DEF DeliveredInvariant
<1>2. ASSUME PageInvariant PROVE PageInvariant'
  <2>1. \A w \in Workers : IF AtWork(w)' THEN worker'[w].index \in 1..(cursor - 1) ELSE cursor = size + 1
    BY <1>2 DEF PageInvariant
  <2>2. \A i \in 1..(cursor - 1) : results[i] = i \/ \E w \in Workers : AtWork(w)' /\ worker'[w].index = i
    BY <1>2 DEF PageInvariant
  <2> QED
    BY <1>0, <1>2, <2>1, <2>2 DEF PageInvariant
<1> QED
  BY <1>0, <1>1, <1>2

(* A page that comes back is mapped, unless it is empty: the workers start *)
(* at the first indices.                                                   *)
LEMMA FetchPageStep == ASSUME PullInv, FetchPage PROVE PullInv'
<1>0. /\ TypeOK /\ \A w \in Workers : ~AtWork(w) /\ notBefore[w] = 0 /\ worker[w].wait = 0
      /\ notBefore \in [Workers -> Nat] /\ caller = "paging" /\ page \in 1..(MaxPages + 1)
      /\ worker \in [Workers -> Locals]
      /\ UNCHANGED <<upstream, page, delivered, table, notBefore>>
  BY WorkerTypes DEF PullInv, WaitsEnough, FetchPage, AtWork, TypeOK, Locals, Ats, MaxWait
<1>1. CASE page > MaxPages
  <2>1. caller' = "threw" /\ UNCHANGED <<size, cursor, results, worker>>
    BY <1>0, <1>1, ParameterTypes DEF FetchPage
  <2> QED
    BY <1>0, <2>1 DEF PullInv, TypeOK, WaitsEnough, DeliveredInvariant
<1>2. CASE page <= MaxPages /\ upstream[page] = 0
  <2>1. caller' = "returned" /\ UNCHANGED <<size, cursor, results, worker>>
    BY <1>0, <1>2, ParameterTypes DEF FetchPage
  <2> QED
    BY <1>0, <1>2, <2>1 DEF PullInv, TypeOK, WaitsEnough, DeliveredInvariant, AtWork
<1>3. CASE page <= MaxPages /\ upstream[page] # 0
  <2> DEFINE n == upstream[page]
             workers == Pool(n)
  <2>0. n \in 1..PageSize /\ workers \in 1..n /\ workers <= Limit
        /\ Limit \in Nat /\ PageSize \in Nat /\ MaxPages \in Nat /\ MaxWait \in Nat
    BY <1>0, <1>3, PageSizes, ParameterTypes DEF Pool
  <2>1. /\ caller' = "mapping" /\ size' = n /\ cursor' = workers + 1
        /\ results' = [i \in 1..n |-> 0]
        /\ worker' = [w \in Workers |->
               IF w <= workers THEN Taking(w) ELSE Over]
    BY <1>0, <1>3, <2>0 DEF FetchPage
  <2> HIDE DEF n, workers
  <2>2. ASSUME NEW w \in Workers
        PROVE  /\ worker'[w] \in Locals /\ worker'[w].wait = 0
               /\ w <= workers => worker'[w].at = "gating" /\ worker'[w].index = w
               /\ w > workers => worker'[w].at = "over"
    <3>1. w \in Nat /\ w >= 1
      BY ParameterTypes
    <3>2. CASE w <= workers
      <4>1. worker'[w] = Taking(w) /\ w \in 0..PageSize
        BY <2>0, <2>1, <3>1, <3>2
      <4> QED
        BY <3>1, <3>2, <4>1, <2>0, OverTypes DEF Taking
    <3>3. CASE w > workers
      <4>1. worker'[w] = Over
        BY <2>0, <2>1, <3>1, <3>3
      <4> QED
        BY <3>1, <2>0, <3>3, <4>1, OverTypes DEF Over
    <3> QED
      BY <2>0, <3>1, <3>2, <3>3
  <2>3. worker' \in [Workers -> Locals]
    BY <2>1, <2>2
  <2>4. TypeOK'
    BY <1>0, <2>0, <2>1, <2>3 DEF TypeOK, Locals, Ats, MaxWait
  <2>5. WaitsEnough'
    BY <1>0, <2>2 DEF WaitsEnough
  <2>6. PageInvariant'
    <3>1. \A w \in Workers : IF AtWork(w)' THEN worker'[w].index \in 1..(cursor' - 1)
                             ELSE cursor' = size' + 1
      <4> TAKE w \in Workers
      <4>1. CASE w <= workers
        BY <2>0, <2>1, <2>2, <4>1, ParameterTypes DEF AtWork
      <4>2. CASE w > workers
        <5>1. workers = n
          BY <2>0, <4>2, ParameterTypes DEF workers, Pool
        <5> QED
          BY <2>0, <2>1, <2>2, <4>2, <5>1 DEF AtWork
      <4> QED
        BY <2>0, <4>1, <4>2, ParameterTypes
    <3>2. \A i \in 1..(cursor' - 1) : \E w \in Workers : AtWork(w)' /\ worker'[w].index = i
      <4> TAKE i \in 1..(cursor' - 1)
      <4>1. i \in Workers /\ i <= workers
        BY <2>0, <2>1, ParameterTypes
      <4> QED
        BY <2>2, <4>1 DEF AtWork
    <3>3. results' \in [1..size' -> 0..PageSize]
      BY <2>0, <2>1
    <3> QED
      BY <1>0, <1>3, <2>0, <2>1, <3>1, <3>2, <3>3 DEF PageInvariant, n
  <2> QED
    BY <1>0, <2>1, <2>4, <2>5, <2>6 DEF PullInv, DeliveredInvariant
<1> QED
  BY <1>0, <1>1, <1>2, <1>3, ParameterTypes

(* A page that does not come back ends the pull.                           *)
LEMMA FetchPageThrowsStep == ASSUME PullInv, FetchPageThrows PROVE PullInv'
BY DEF PullInv, TypeOK, WaitsEnough, DeliveredInvariant, FetchPageThrows

(* A page is delivered when every worker has stopped; one that is not full *)
(* is the last.                                                            *)
LEMMA PageMappedStep == ASSUME PullInv, PageMapped PROVE PullInv'
<1>0. /\ TypeOK /\ WaitsEnough /\ PageInvariant /\ DeliveredInvariant /\ caller = "mapping"
      /\ \A w \in Workers : ~AtWork(w)
      /\ delivered' = Append(delivered, results)
      /\ UNCHANGED <<upstream, size, cursor, results, worker, table, notBefore>>
  BY DEF PullInv, PageMapped, AtWork
<1>1. /\ 1 \in Workers /\ page \in 1..MaxPages /\ MaxPages \in Nat /\ PageSize \in Nat
      /\ size \in 1..PageSize /\ size = upstream[page]
      /\ results \in [1..size -> 0..PageSize]
  <2>1. /\ MaxPages \in Nat /\ PageSize \in Nat /\ 1 \in Workers
    BY ParameterTypes
  <2>2. page \in 1..(MaxPages + 1) /\ size \in 0..PageSize
    BY <1>0 DEF TypeOK
  <2>3. /\ page <= MaxPages /\ size = upstream[page] /\ size > 0
        /\ results \in [1..size -> 0..PageSize]
    BY <1>0 DEF PageInvariant
  <2> QED
    BY <2>1, <2>2, <2>3
<1>2. cursor = size + 1
  BY <1>0, <1>1 DEF PageInvariant
<1>3. results = [i \in 1..upstream[page] |-> i]
  <2>1. \A i \in 1..size : results[i] = i
    BY SMTT(30), <1>0, <1>1, <1>2 DEF PageInvariant
  <2> QED
    BY <1>1, <2>1
<1>4. results \in Seq(0..PageSize)
  BY <1>1
<1>5. /\ delivered' \in Seq(Seq(0..PageSize)) /\ Len(delivered') = page
      /\ \A p \in 1..(page - 1) : delivered'[p] = delivered[p]
      /\ delivered'[page] = results
  BY <1>0, <1>1, <1>4 DEF DeliveredInvariant
<1>6. \A p \in 1..page : delivered'[p] = [i \in 1..upstream[p] |-> i]
  <2>1. \A p \in 1..(page - 1) : delivered[p] = [i \in 1..upstream[p] |-> i]
    BY <1>0, <1>1 DEF DeliveredInvariant
  <2> TAKE p \in 1..page
  <2>2. CASE p = page
    BY <1>3, <1>5, <2>2
  <2>3. CASE p # page
    <3>1. p \in 1..(page - 1)
      BY <1>1, <2>3
    <3> QED
      BY <1>5, <2>1, <3>1
  <2> QED
    BY <2>2, <2>3
<1>7. CASE LastPage(size)
  <2>1. caller' = "returned" /\ page' = page
    BY <1>7 DEF PageMapped
  <2>2. upstream[page] < PageSize
    BY <1>1, <1>7 DEF LastPage
  <2>3. TypeOK' /\ WaitsEnough'
    BY <1>0, <2>1 DEF TypeOK, WaitsEnough
  <2>4. DeliveredInvariant'
    BY <1>0, <1>1, <1>5, <1>6, <2>1, <2>2 DEF DeliveredInvariant
  <2> QED
    BY <1>0, <2>1, <2>3, <2>4 DEF PullInv, AtWork
<1>8. CASE ~LastPage(size)
  <2>1. caller' = "paging" /\ page' = page + 1
    BY <1>8 DEF PageMapped
  <2>2. upstream[page] = PageSize
    BY <1>1, <1>8 DEF LastPage
  <2>3. TypeOK' /\ WaitsEnough'
    BY <1>0, <1>1, <2>1 DEF TypeOK, WaitsEnough
  <2>4. \A p \in 1..(page' - 1) : upstream[p] = PageSize
    BY <1>0, <1>1, <2>1, <2>2 DEF DeliveredInvariant
  <2>5. DeliveredInvariant'
    BY <1>0, <1>1, <1>5, <1>6, <2>1, <2>4 DEF DeliveredInvariant
  <2> QED
    BY <1>0, <2>1, <2>3, <2>5 DEF PullInv, AtWork
<1> QED
  BY <1>7, <1>8

(* A worker is at work only while a page is mapped, or after a rejection.  *)
LEMMA WorkingCaller ==
    ASSUME PullInv, NEW w \in Workers, AtWork(w)
    PROVE  caller \in {"mapping", "threw"}
BY DEF PullInv, TypeOK

(* The steps that leave a worker at work on its row.                       *)
LEMMA StaysAtWork ==
    ASSUME PullInv, NEW w \in Workers, AtWork(w), AtWork(w)', UNCHANGED <<upstream, callVars>>,
           worker' \in [Workers -> Locals], worker'[w].index = worker[w].index,
           DOMAIN table' \subseteq {"default"},
           \A v \in Workers \ {w} : worker'[v] = worker[v] /\ notBefore'[v] = notBefore[v],
           notBefore' \in [Workers -> Nat], notBefore'[w] <= worker'[w].wait,
           worker'[w].at # "gating" => worker'[w].wait = 0
    PROVE  PullInv'
<1>1. TypeOK'
  BY DEF PullInv, TypeOK, Locals, Ats, MaxWait, callVars
<1>2. WaitsEnough'
  BY DEF PullInv, WaitsEnough
<1>3. caller \in {"mapping", "threw"}
  BY WorkingCaller
<1>4. \A v \in Workers : AtWork(v)' = AtWork(v) /\ worker'[v].index = worker[v].index
  BY DEF AtWork
<1> QED
  BY <1>1, <1>2, <1>3, <1>4, LoopStands DEF PullInv

(* A worker that gets a token fetches at once; one that gets none sleeps   *)
(* until the next poll.                                                    *)
LEMMA PassLimiterStep == ASSUME PullInv, NEW w \in Workers, PassLimiter(w) PROVE PullInv'
<1>0. /\ TypeOK /\ WaitsEnough /\ worker[w].at = "gating" /\ worker[w].wait = 0
      /\ UNCHANGED <<upstream, callVars, notBefore>> /\ worker \in [Workers -> Locals]
      /\ worker[w] \in Locals
  BY WorkerTypes DEF PullInv, PassLimiter, TypeOK, Locals, Ats, MaxWait
<1>1. notBefore \in [Workers -> Nat] /\ notBefore[w] = 0
  BY <1>0 DEF WaitsEnough
<1>2. DOMAIN table' \subseteq {"default"}
  <2>1. table' = Called(table, "default", 0) /\ DOMAIN table \subseteq {"default"}
    BY <1>0 DEF PassLimiter, TypeOK
  <2>2. DOMAIN table' = DOMAIN table \union {"default"}
    BY <2>1 DEF Called
  <2> QED
    BY <2>1, <2>2
<1>3. CASE Allows(table, "default", 0)
  <2>1. worker' = [worker EXCEPT ![w] = [worker[w] EXCEPT !.at = "fetching"]]
    BY <1>3 DEF PassLimiter, Works
  <2>2. /\ worker' \in [Workers -> Locals] /\ worker'[w].at = "fetching" /\ worker'[w].wait = 0
        /\ worker'[w].index = worker[w].index
        /\ \A v \in Workers \ {w} : worker'[v] = worker[v]
    BY <1>0, <2>1 DEF Locals, Ats
  <2> QED
    BY <1>0, <1>1, <1>2, <2>2, StaysAtWork DEF AtWork
<1>4. CASE ~Allows(table, "default", 0)
  <2>1. worker' = [worker EXCEPT ![w] = [worker[w] EXCEPT !.wait = Poll]]
    BY <1>4 DEF PassLimiter, Works
  <2>2. /\ worker' \in [Workers -> Locals] /\ worker'[w].at = "gating" /\ worker'[w].wait = Poll
        /\ worker'[w].index = worker[w].index /\ Poll >= 0
        /\ \A v \in Workers \ {w} : worker'[v] = worker[v]
    <3>1. Poll \in Nat /\ Poll \in 0..MaxWait
      BY ParameterTypes
    <3>2. [worker[w] EXCEPT !.wait = Poll] \in Locals
      BY <1>0, <3>1 DEF Locals
    <3> QED
      BY <1>0, <2>1, <3>1, <3>2
  <2> QED
    BY <1>0, <1>1, <1>2, <2>2, StaysAtWork DEF AtWork
<1> QED
  BY <1>3, <1>4

(* A worker that is refused sleeps as long as it was told, then asks the   *)
(* limiter again.                                                          *)
LEMMA RetryStep ==
    ASSUME PullInv, NEW w \in Workers, worker[w].at = "fetching", ~IsLast(w),
           NEW r \in RetryAfters \union {Null}, SleepThenRetry(w, r), UNCHANGED <<upstream, table>>
    PROVE  PullInv'
<1>1. TypeOK /\ AtWork(w) /\ notBefore \in [Workers -> Nat] /\ DOMAIN table \subseteq {"default"}
  BY DEF PullInv, AtWork, WaitsEnough, TypeOK
<1> QED
  BY <1>1, SleepMoves, StaysAtWork DEF AtWork

(* A result that is stored, and the next index taken.                      *)
LEMMA AnsweredStep == ASSUME PullInv, NEW w \in Workers, Answered(w) PROVE PullInv'
<1> DEFINE i == worker[w].index
<1>0. /\ TypeOK /\ WaitsEnough /\ DeliveredInvariant /\ AtWork(w) /\ worker[w].at = "fetching"
      /\ worker[w].wait = 0 /\ notBefore[w] = 0 /\ notBefore \in [Workers -> Nat]
      /\ UNCHANGED <<upstream, table, notBefore, caller, page, size, delivered>>
      /\ worker \in [Workers -> Locals] /\ worker[w] \in Locals /\ i \in 0..PageSize
      /\ caller \in {"mapping", "threw"} /\ (caller = "mapping" => PageInvariant)
      /\ results' = [results EXCEPT ![i] = i]
      /\ size \in 0..PageSize /\ cursor \in 1..(PageSize + Limit + 1)
  BY WorkerTypes, WorkingCaller
  DEF PullInv, WaitsEnough, Answered, NextItem, AtWork, TypeOK, Locals, Ats, MaxWait
<1> HIDE DEF i
<1>1. /\ PageSize \in Nat /\ Limit \in Nat
      /\ cursor > size => worker' = [worker EXCEPT ![w] = Over] /\ cursor' = cursor
      /\ cursor <= size => worker' = [worker EXCEPT ![w] = Taking(cursor)] /\ cursor' = cursor + 1
  BY <1>0, ParameterTypes DEF Answered, NextItem, Works
<1>2. /\ worker' \in [Workers -> Locals] /\ worker'[w].wait = 0
      /\ \A v \in Workers \ {w} : worker'[v] = worker[v]
      /\ IF cursor > size THEN worker'[w].at = "over"
         ELSE worker'[w].at = "gating" /\ worker'[w].index = cursor
      /\ cursor' \in 1..(PageSize + Limit + 1)
  <2>1. CASE cursor > size
    BY <1>0, <1>1, <2>1, OverTypes DEF Over
  <2>2. CASE cursor <= size
    <3>1. Taking(cursor) \in Locals
      BY <1>0, <1>1, <2>2, OverTypes
    <3> QED
      BY <1>0, <1>1, <2>2, <3>1 DEF Taking
  <2> QED
    BY <1>0, <1>1, <2>1, <2>2
<1>3. TypeOK'
  BY <1>0, <1>2 DEF TypeOK, Locals, Ats, MaxWait
<1>4. WaitsEnough'
  BY <1>0, <1>2 DEF WaitsEnough
<1>5. DeliveredInvariant'
  BY <1>0 DEF DeliveredInvariant
<1>6. ASSUME PageInvariant PROVE PageInvariant'
  <2>0. /\ cursor \in 2..(size + 1) /\ i \in 1..(cursor - 1) /\ size \in 1..PageSize
        /\ results \in [1..size -> 0..PageSize]
        /\ page <= MaxPages /\ size = upstream[page]
    BY <1>0, <1>1, <1>6 DEF PageInvariant, i
  <2>1. /\ cursor' \in 2..(size + 1) /\ results' \in [1..size -> 0..PageSize]
        /\ results'[i] = i /\ \A j \in 1..size \ {i} : results'[j] = results[j]
    BY <1>0, <1>1, <2>0
  <2>2. ASSUME NEW v \in Workers
        PROVE  IF AtWork(v)' THEN worker'[v].index \in 1..(cursor' - 1) ELSE cursor' = size + 1
    <3>1. CASE v = w
      BY <1>1, <1>2, <2>0, <3>1 DEF AtWork
    <3>2. CASE v # w
      <4>1. worker'[v] = worker[v]
        BY <1>2, <3>2
      <4>2. IF AtWork(v) THEN worker[v].index \in 1..(cursor - 1) ELSE cursor = size + 1
        BY <1>6 DEF PageInvariant
      <4> QED
        BY <1>1, <2>0, <4>1, <4>2 DEF AtWork
    <3> QED
      BY <3>1, <3>2
  <2>3. ASSUME NEW j \in 1..(cursor' - 1)
        PROVE  results'[j] = j \/ \E v \in Workers : AtWork(v)' /\ worker'[v].index = j
    <3>1. CASE j = i
      BY <2>1, <3>1
    <3>2. CASE j = cursor /\ cursor <= size
      BY <1>1, <1>2, <3>2 DEF AtWork
    <3>3. CASE j # i /\ j \in 1..(cursor - 1)
      <4>1. results'[j] = results[j]
        BY <2>0, <2>1, <3>3
      <4>2. results[j] = j \/ \E v \in Workers : AtWork(v) /\ worker[v].index = j
        BY <1>6, <3>3 DEF PageInvariant
      <4>3. ASSUME NEW v \in Workers, AtWork(v), worker[v].index = j
            PROVE  AtWork(v)' /\ worker'[v].index = j
        BY <1>2, <3>3, <4>3 DEF AtWork, i
      <4> QED
        BY <4>1, <4>2, <4>3
    <3> QED
      BY <1>1, <2>0, <3>1, <3>2, <3>3
  <2> QED
    <3>1. page' <= MaxPages /\ size' = upstream'[page'] /\ size' > 0
      BY <1>0, <2>0
    <3>2. cursor' \in 2..(size' + 1) /\ results' \in [1..size' -> 0..PageSize]
      BY <1>0, <2>1
    <3>3. \A v \in Workers : IF AtWork(v)' THEN worker'[v].index \in 1..(cursor' - 1)
                             ELSE cursor' = size' + 1
      BY <1>0, <2>2
    <3> QED
      BY <2>3, <3>1, <3>2, <3>3 DEF PageInvariant
<1> QED
  BY <1>0, <1>3, <1>4, <1>5, <1>6 DEF PullInv

(* A fetch that fails is retried after its backoff, or ends the pull at    *)
(* the last attempt.                                                       *)
LEMMA NetworkErrorStep == ASSUME PullInv, NEW w \in Workers, NetworkError(w) PROVE PullInv'
<1>1. CASE IsLast(w)
  <2>1. /\ worker' = [worker EXCEPT ![w] = Over] /\ caller' = "threw" /\ worker[w].at = "fetching"
        /\ UNCHANGED <<upstream, table, notBefore, page, size, cursor, results, delivered>>
    BY <1>1 DEF NetworkError, Rejects, Works
  <2>2. /\ TypeOK /\ WaitsEnough /\ DeliveredInvariant /\ worker \in [Workers -> Locals]
        /\ notBefore[w] = 0
    BY <2>1, WorkerTypes DEF PullInv, WaitsEnough, TypeOK, Locals, Ats, MaxWait
  <2>3. /\ worker' \in [Workers -> Locals] /\ worker'[w].at = "over" /\ worker'[w].wait = 0
        /\ \A v \in Workers \ {w} : worker'[v] = worker[v]
    BY <2>1, <2>2, OverTypes DEF Over
  <2>4. TypeOK' /\ WaitsEnough' /\ DeliveredInvariant'
    BY <2>1, <2>2, <2>3 DEF TypeOK, WaitsEnough, DeliveredInvariant, Locals, Ats, MaxWait
  <2> QED
    BY <2>1, <2>4 DEF PullInv
<1>2. CASE ~IsLast(w)
  BY <1>2, RetryStep DEF NetworkError
<1> QED
  BY <1>1, <1>2

(* Time wakes the sleepers, and none before its time.                      *)
LEMMA TickStep == ASSUME PullInv, Tick PROVE PullInv'
<1>0. /\ TypeOK /\ WaitsEnough /\ worker \in [Workers -> Locals] /\ notBefore \in [Workers -> Nat]
      /\ UNCHANGED <<upstream, callVars>> /\ MaxWait \in Nat
      /\ DOMAIN table' = DOMAIN table /\ DOMAIN table \subseteq {"default"}
  BY ParameterTypes DEF PullInv, Tick, TypeOK, WaitsEnough, Locals, Ats, MaxWait
<1>1. ASSUME NEW w \in Workers
      PROVE  /\ worker'[w] \in Locals /\ worker'[w].at = worker[w].at
             /\ worker'[w].index = worker[w].index
             /\ worker'[w].wait = Sooner(worker[w].wait)
             /\ notBefore'[w] = Sooner(notBefore[w])
             /\ worker[w].wait \in Nat /\ notBefore[w] \in Nat
  <2>1. /\ worker'[w] = [worker[w] EXCEPT !.wait = Sooner(worker[w].wait)]
        /\ notBefore'[w] = Sooner(notBefore[w])
    BY DEF Tick
  <2>2. worker[w] \in Locals /\ Sooner(worker[w].wait) \in 0..MaxWait /\ worker[w].wait \in Nat
    BY <1>0 DEF Locals, Sooner
  <2> QED
    BY <1>0, <2>1, <2>2 DEF Locals
<1>2. worker' \in [Workers -> Locals] /\ notBefore' \in [Workers -> Nat]
  BY SMTT(30), <1>1 DEF Tick, Sooner
<1>3. TypeOK'
  BY <1>0, <1>2 DEF TypeOK, callVars, Locals, Ats, MaxWait
<1>4. WaitsEnough'
  <2>1. ASSUME NEW w \in Workers
        PROVE  notBefore'[w] <= worker'[w].wait /\ (worker'[w].at # "gating" => worker'[w].wait = 0)
    <3>1. notBefore[w] <= worker[w].wait /\ (worker[w].at # "gating" => worker[w].wait = 0)
      BY <1>0 DEF WaitsEnough
    <3> QED
      BY <1>1, <3>1 DEF Sooner
  <2> QED
    BY <1>2, <2>1 DEF WaitsEnough
<1>5. \A w \in Workers : AtWork(w)' = AtWork(w) /\ worker'[w].index = worker[w].index
  BY <1>1 DEF AtWork
<1>6. CASE caller \in {"mapping", "threw"}
  BY <1>0, <1>3, <1>4, <1>5, <1>6, LoopStands DEF PullInv
<1>7. CASE caller \notin {"mapping", "threw"}
  BY <1>0, <1>3, <1>4, <1>5, <1>7 DEF PullInv, callVars, DeliveredInvariant
<1> QED
  BY <1>6, <1>7

(* No page has been read, and none delivered.                              *)
LEMMA PullInit == Init => PullInv
<1> SUFFICES ASSUME Init PROVE PullInv
  OBVIOUS
<1>1. \A w \in Workers : worker[w] = Over
  BY DEF Init
<1>2. WaitsEnough /\ \A w \in Workers : ~AtWork(w)
  BY <1>1 DEF Init, WaitsEnough, AtWork, Over
<1>3. DeliveredInvariant
  BY DEF Init, DeliveredInvariant
<1> QED
  BY <1>2, <1>3, TypeInit DEF Init, PullInv

(* The invariant is inductive.                                             *)
LEMMA PullNext == PullInv /\ [Next]_vars => PullInv'
<1> SUFFICES ASSUME PullInv, [Next]_vars PROVE PullInv'
  OBVIOUS
<1>1. CASE UNCHANGED vars
  BY <1>1
  DEF vars, callVars, PullInv, TypeOK, WaitsEnough, PageInvariant, DeliveredInvariant, AtWork
<1>2. CASE \E w \in Workers : Refused(w)
  BY <1>2, RetryStep DEF Refused
<1> QED
  BY <1>1, <1>2, FetchPageStep, FetchPageThrowsStep, PageMappedStep, PassLimiterStep, AnsweredStep,
     NetworkErrorStep, TickStep
  DEF Next, Progress

-----------------------------------------------------------------------------
(* Every variable of a pull keeps its type: no attempt beyond maxAttempts  *)
(* and no wait beyond maxDelayMs or the poll interval.                     *)
THEOREM TypeCorrect == Spec => []TypeOK
<1>1. PullInv => TypeOK
  BY DEF PullInv
<1> QED
  BY <1>1, PullInit, PullNext, PTL DEF Spec

(* No request goes out before the time the partner gave in Retry-After, or *)
(* before maxDelayMs have passed where that is sooner: the cap that        *)
(* backoffDelayMs puts on what the partner asks for.                       *)
THEOREM PartnersAreHonoured == Spec => []RetryAfterHonoured
<1>1. PullInv => RetryAfterHonoured
  BY DEF PullInv, WaitsEnough, RetryAfterHonoured
<1> QED
  BY <1>1, PullInit, PullNext, PTL DEF Spec

(* A loop over the pages that returns has mapped every row of every page   *)
(* up to the first one that is not full, each result in its place.         *)
THEOREM NothingIsSkipped == Spec => []ReturnsEverything
<1>1. PullInv => ReturnsEverything
  <2> SUFFICES ASSUME PullInv, caller = "returned"
               PROVE  /\ \A p \in {q \in 1..MaxPages : \A o \in 1..(q - 1) : upstream[o] = PageSize} :
                             upstream[p] > 0 => p \in DOMAIN delivered
                      /\ \A p \in DOMAIN delivered : delivered[p] = [i \in 1..upstream[p] |-> i]
    BY DEF ReturnsEverything
  <2>1. /\ DeliveredInvariant /\ page \in 1..(MaxPages + 1)
        /\ MaxPages \in Nat /\ PageSize \in Nat \ {0} /\ upstream[page] \in 0..PageSize
    BY PageSizes, ParameterTypes DEF PullInv, TypeOK
  <2>2. DOMAIN delivered = 1..Len(delivered) /\ Len(delivered) \in Nat
    BY <2>1 DEF DeliveredInvariant
  <2>3. ASSUME NEW p \in 1..MaxPages, \A o \in 1..(p - 1) : upstream[o] = PageSize, upstream[p] > 0
        PROVE  p \in DOMAIN delivered
    <3>1. upstream[page] < PageSize
      BY <2>1 DEF DeliveredInvariant
    <3>2. page \notin 1..(p - 1)
      BY <2>1, <2>3, <3>1
    <3> QED
      <4>1. \/ upstream[page] = 0 /\ Len(delivered) = page - 1
            \/ upstream[page] < PageSize /\ Len(delivered) = page
        BY <2>1 DEF DeliveredInvariant
      <4>2. p <= page
        BY <2>1, <3>2
      <4>3. p = page => Len(delivered) = page
        BY <2>3, <4>1
      <4> QED
        <5>1. p \in Nat /\ page \in Nat /\ p >= 1 /\ p <= page /\ Len(delivered) \in Nat
          BY <2>1, <2>2, <4>2
        <5>2. p <= Len(delivered)
          BY <4>1, <4>3, <5>1
        <5> QED
          BY <2>2, <5>1, <5>2
  <2> QED
    BY <2>1, <2>2, <2>3 DEF DeliveredInvariant
<1> QED
  BY <1>1, PullInit, PullNext, PTL DEF Spec

=============================================================================

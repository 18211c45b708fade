------------------------------- MODULE Admin -------------------------------
(***************************************************************************)
(* The admin surface: the routes of src/http/admin-routes.ts behind their  *)
(* rate limiter, the sessions of src/http/admin-session.ts, and the        *)
(* actions and reads of src/runtime/admin-actions.ts and admin-data.ts     *)
(* over the dead letter and the webhook log, with the audit trail.         *)
(*                                                                         *)
(* An action is a handler up to its next await: the gate and the call of   *)
(* the store or of the runtime, its end, the end of the audit.  A slot     *)
(* serves one request after the other.                                     *)
(***************************************************************************)
EXTENDS TokenBucket

CONSTANTS
    Slots,       \* requests in progress at the same time
    IPs,         \* addresses they come from
    Sids,        \* session ids, each drawn once
    Rows,        \* row of the dead letter or of the webhook log -> its
                 \* [table, installation]
    MaxSessions, \* maxSessions
    Ttl,         \* ttlMs, in units of the clock
    MaxTime,     \* bound on the clock
    Null

Installations == {Rows[i].installation : i \in DOMAIN Rows}

ASSUME AdminAssumption ==
    /\ MaxSessions \in Nat \ {0} /\ Ttl \in Nat /\ MaxTime \in Nat
    /\ Null \notin Sids
    /\ \A i \in DOMAIN Rows : Rows[i].table \in {"rejected", "webhook"}

VARIABLES
    now,      \* the clock
    buckets,  \* the table of adminRateLimit
    sessions, \* session id -> lastSeen
    rows,     \* ids of the rows that have not been deleted
    req,      \* slot -> the request it serves
    issued,   \* history: the session ids drawn so far
    ended,    \* history: those that were logged out, or lost in a restart
    lastUse,  \* history: session id -> when a request last came with it
    level,    \* history: IP -> the tokens of a bucket that is never evicted
    reset     \* history: IPs whose bucket was evicted while it was not full

limiterVars == <<buckets, level, reset>>
sessionVars == <<sessions, issued, ended, lastUse>>
vars == <<now, limiterVars, sessionVars, rows, req>>

(* POST routes by what they do: a job is a sync or a reprovisioning, a     *)
(* reveal is that of a rejected item or of a webhook.                      *)
Mutations == {"purge", "reveal", "job"}

Idle == [at |-> "idle", op |-> "none", target |-> {}, reply |-> "none", audited |-> FALSE]

Full == [ip \in IPs |-> Capacity]

Init ==
    /\ now = 0
    /\ buckets = [ip \in {} |-> 0] /\ level = Full /\ reset = {}
    /\ sessions = [s \in {} |-> 0] /\ issued = {} /\ ended = {}
    /\ lastUse = [s \in Sids |-> 0]
    /\ rows = DOMAIN Rows
    /\ req = [q \in Slots |-> Idle]

-----------------------------------------------------------------------------
(* The rate limiter, which is asked first.                                 *)

Credit(ip) == level[ip] - (IF level[ip] >= One THEN One ELSE 0)

CallLimiter(ip) ==
    \E table \in WithRoom(buckets, ip) :
        /\ buckets' = Called(table, ip, now)
        /\ LET lost == {k \in DOMAIN buckets \ DOMAIN table : level[k] < Capacity}
               fresh == {k \in {ip} : Offer(buckets, k, now) = Capacity /\ level[k] = Capacity} IN
           reset' = (reset \union lost) \ fresh
        /\ level' = [level EXCEPT ![ip] = Credit(ip)]

Admitted(ip) == Allows(buckets, ip, now)

-----------------------------------------------------------------------------
(* Sessions.                                                               *)

Expired(s) == now - sessions[s] > Ttl

Mutant_Seen_NotSlid(s) == sessions

(* check on a cookie whose session is live: the sliding refresh.           *)
Seen(s) == [sessions EXCEPT ![s] = now]

Check(s) ==
    /\ s \in DOMAIN sessions /\ ~Expired(s)
    /\ sessions' = Seen(s) /\ lastUse' = [lastUse EXCEPT ![s] = now]
    /\ UNCHANGED <<issued, ended>>

(* check on any other cookie, the expired session of which is deleted.     *)
CheckFails(s) ==
    /\ s \in DOMAIN sessions => Expired(s)
    /\ sessions' = Restrict(sessions, DOMAIN sessions \ {s})
    /\ UNCHANGED <<issued, ended, lastUse>>

Mutant_Crowded_Late(table) == Cardinality(DOMAIN table) > MaxSessions

Crowded(table) == Cardinality(DOMAIN table) >= MaxSessions

Oldest(table) == {s \in DOMAIN table : \A o \in DOMAIN table : table[s] <= table[o]}

Unexpired == Restrict(sessions, {s \in DOMAIN sessions : ~Expired(s)})

(* create: evictExpired, then evictOldest until there is a place (one      *)
(* eviction is enough: the table has grown one session at a time).         *)
CreateSession(s) ==
    LET kept == IF Crowded(Unexpired)
                THEN {Restrict(Unexpired, DOMAIN Unexpired \ {o}) : o \in Oldest(Unexpired)}
                ELSE {Unexpired} IN
    /\ \E table \in kept :
           sessions' = [o \in DOMAIN table \union {s} |-> IF o = s THEN now ELSE table[o]]
    /\ issued' = issued \union {s} /\ lastUse' = [lastUse EXCEPT ![s] = now]
    /\ UNCHANGED ended

-----------------------------------------------------------------------------
(* The gate of a route, up to the first await.                             *)

Becomes(q, r) == req' = [req EXCEPT ![q] = r]

Awaits(q, at, op, target) == Becomes(q, [Idle EXCEPT !.at = at, !.op = op, !.target = target])

(* 429, 401 and 403 are answered at once, and the slot is free again.      *)
RateLimited ==
    /\ \E ip \in IPs : ~Admitted(ip) /\ CallLimiter(ip)
    /\ UNCHANGED <<now, sessionVars, rows, req>>

(* A request without the token, and with a cookie of no live session.      *)
Unauthorized ==
    /\ \E ip \in IPs : Admitted(ip) /\ CallLimiter(ip)
    /\ \E s \in issued \union {Null} : CheckFails(s)
    /\ UNCHANGED <<now, rows, req>>

(* deniedMutation: a live session, but not its CSRF token.                 *)
Forged ==
    /\ \E ip \in IPs : Admitted(ip) /\ CallLimiter(ip)
    /\ \E s \in issued : Check(s)
    /\ UNCHANGED <<now, rows, req>>

(* The token, or a live session (and its CSRF token, for a mutation).      *)
AdminOk == UNCHANGED sessionVars
Authorized == AdminOk \/ \E s \in issued : Check(s)

Of(table, installation) ==
    {i \in DOMAIN Rows : Rows[i] = [table |-> table, installation |-> installation]}

(* What a request may get at: purgeRejected is scoped by the statement,    *)
(* revealWebhook by the comparison with the row it has found, and          *)
(* revealRejected takes any id.                                            *)
Targets(op, installation) ==
    CASE op = "purge" -> (SUBSET Of("rejected", installation)) \ {{}}
      [] op = "reveal" -> {{i} : i \in (UNION {Of("rejected", o) : o \in Installations})
                                       \union Of("webhook", installation)}
      [] OTHER -> {{}}

Enter(q, op) ==
    /\ req[q].at = "idle"
    /\ \E ip \in IPs : Admitted(ip) /\ CallLimiter(ip)
    /\ Authorized
    /\ \E installation \in Installations : \E target \in Targets(op, installation) :
           Awaits(q, "acting", op, target)
    /\ UNCHANGED <<now, rows>>

(* POST /admin/session, with the right token or not.                       *)
Login(q) ==
    /\ req[q].at = "idle"
    /\ \E ip \in IPs : Admitted(ip) /\ CallLimiter(ip)
    /\ \/ \E s \in Sids \ issued : CreateSession(s) /\ Awaits(q, "auditing", "login", {})
       \/ UNCHANGED sessionVars /\ Awaits(q, "auditing", "login.failed", {})
    /\ UNCHANGED <<now, rows>>

(* DELETE /admin/session: no limiter, no CSRF token, no audit.             *)
Logout ==
    /\ \E s \in DOMAIN sessions :
           /\ sessions' = Restrict(sessions, DOMAIN sessions \ {s})
           /\ ended' = IF Expired(s) THEN ended ELSE ended \union {s}
    /\ UNCHANGED <<now, limiterVars, issued, lastUse, rows, req>>

-----------------------------------------------------------------------------
(* The handler of a request that has passed the gate.                      *)

Answers(q, reply) == Becomes(q, [Idle EXCEPT !.at = "answered", !.reply = reply])

Reads == {"read", "dead letter"}

(* The payloads are masked on their way out, but for those of the dead     *)
(* letter of one installation.                                             *)
Shown(op) == IF op = "read" THEN "masked" ELSE "raw"

Read(q) ==
    /\ req[q].at = "acting" /\ req[q].op \in Reads
    /\ Answers(q, Shown(req[q].op))
    /\ UNCHANGED <<now, limiterVars, sessionVars, rows>>

Mutant_AfterEffect_Answered(q) == Answers(q, "ok")

(* The effect has taken place: it is audited before it is answered.        *)
AfterEffect(q) == Becomes(q, [req[q] EXCEPT !.at = "auditing", !.target = {}])

PurgeRejected(q) ==
    /\ req[q].at = "acting" /\ req[q].op = "purge"
    /\ rows' = rows \ req[q].target
    /\ AfterEffect(q)
    /\ UNCHANGED <<now, limiterVars, sessionVars>>

(* The row is read; it may have been purged meanwhile.                     *)
Reveal(q) ==
    /\ req[q].at = "acting" /\ req[q].op = "reveal"
    /\ IF req[q].target \subseteq rows THEN AfterEffect(q) ELSE Answers(q, "refused")
    /\ UNCHANGED <<now, limiterVars, sessionVars, rows>>

(* runSyncForInstall and reprovision return (see Runtime).                 *)
RunJob(q) ==
    /\ req[q].at = "acting" /\ req[q].op = "job"
    /\ AfterEffect(q)
    /\ UNCHANGED <<now, limiterVars, sessionVars, rows>>

(* They throw, or the store does, which may have deleted the rows.         *)
ActionThrows(q) ==
    /\ req[q].at = "acting"
    /\ rows' \in {rows, IF req[q].op = "purge" THEN rows \ req[q].target ELSE rows}
    /\ Answers(q, "refused")
    /\ UNCHANGED <<now, limiterVars, sessionVars>>

(* audit.add, then the answer.                                             *)
Audit(q) ==
    /\ req[q].at = "auditing"
    /\ Becomes(q, [Idle EXCEPT !.at = "answered", !.audited = TRUE,
           !.reply = CASE req[q].op = "login.failed" -> "refused"
                       [] req[q].op = "reveal" -> "payload"
                       [] OTHER -> "ok"])
    /\ UNCHANGED <<now, limiterVars, sessionVars, rows>>

(* audit.add throws: what has been done stays done.                        *)
AuditThrows(q) ==
    /\ req[q].at = "auditing"
    /\ Answers(q, "refused")
    /\ UNCHANGED <<now, limiterVars, sessionVars, rows>>

Sent(q) ==
    /\ req[q].at = "answered"
    /\ Becomes(q, Idle)
    /\ UNCHANGED <<now, limiterVars, sessionVars, rows>>

-----------------------------------------------------------------------------
(* The world.                                                              *)

Tick ==
    /\ now < MaxTime
    /\ now' = now + 1
    /\ level' = [ip \in IPs |-> Refilled([tokens |-> level[ip], last |-> now], now + 1)]
    /\ UNCHANGED <<buckets, reset, sessionVars, rows, req>>

(* The retention purge of the two tables.                                  *)
Purge ==
    /\ \E i \in rows : rows' = rows \ {i}
    /\ UNCHANGED <<now, limiterVars, sessionVars, req>>

(* The tables are in memory: a restart invalidates every session.          *)
Restart ==
    /\ buckets' = [ip \in {} |-> 0] /\ level' = Full /\ reset' = {}
    /\ sessions' = [s \in {} |-> 0] /\ ended' = issued
    /\ req' = [q \in Slots |-> Idle]
    /\ UNCHANGED <<now, rows, issued, lastUse>>

Serve(q) ==
    \/ \E op \in Mutations \union Reads : Enter(q, op)
    \/ Login(q)
    \/ Read(q) \/ PurgeRejected(q) \/ Reveal(q) \/ RunJob(q) \/ ActionThrows(q)
    \/ Audit(q) \/ AuditThrows(q) \/ Sent(q)

Next ==
    \/ \E q \in Slots : Serve(q)
    \/ RateLimited \/ Unauthorized \/ Forged \/ Logout
    \/ Tick \/ Purge \/ Restart

Spec == Init /\ [][Next]_vars

-----------------------------------------------------------------------------
(* Properties.                                                             *)

(* Every variable keeps its type, and the two tables keep to their caps.   *)
TypeOK ==
    /\ now \in 0..MaxTime
    /\ DOMAIN buckets \subseteq IPs /\ Cardinality(DOMAIN buckets) <= MaxKeys
    /\ \A ip \in DOMAIN buckets :
           buckets[ip].tokens \in 0..Capacity /\ buckets[ip].last \in 0..now
    /\ DOMAIN sessions \subseteq issued /\ Cardinality(DOMAIN sessions) <= MaxSessions
    /\ \A s \in DOMAIN sessions : sessions[s] \in 0..now
    /\ issued \subseteq Sids /\ ended \subseteq issued
    /\ rows \subseteq DOMAIN Rows
    /\ \A q \in Slots : req[q].at \in {"idle", "acting", "auditing", "answered"}
    /\ level \in [IPs -> 0..Capacity] /\ reset \subseteq IPs

(* "Evicting a full bucket is harmless" (rate-limiter.ts): a bucket that   *)
(* is refilled when it is used, and comes and goes with the table, gives   *)
(* what one refilled all the time would give, unless it was evicted while  *)
(* it was not full, and until both are full again.                         *)
AllowanceKept ==
    \A ip \in IPs \ reset : Offer(buckets, ip, now) = level[ip]

(* "sliding 12h TTL and a hard cap of concurrent sessions with LRU         *)
(* eviction": a session lasts until it is logged out, until nothing has    *)
(* come with it for the TTL, or until a login finds the table full and no  *)
(* session that was used less recently; and no longer.                     *)
SessionsLast ==
    [][ /\ \A s \in DOMAIN sessions \ DOMAIN sessions' :
               \/ s \in ended'
               \/ now - lastUse[s] > Ttl
               \/ /\ Cardinality(DOMAIN sessions) = MaxSessions
                  /\ issued' # issued
                  /\ \A o \in DOMAIN sessions \intersect DOMAIN sessions' :
                         lastUse[s] <= lastUse[o]
        /\ \A s \in issued : lastUse'[s] # lastUse[s] =>
               s \notin ended /\ now - lastUse[s] <= Ttl ]_vars

(* "Every reveal / purge / reprovision is expected to be audited by the    *)
(* caller": the payload of a reveal, and the success of a mutation or of a *)
(* login, are answered only once they are in the audit trail.  The listing *)
(* of a dead letter answers unmasked payloads too ("raw"), unaudited.      *)
AnsweredIsAudited ==
    \A q \in Slots :
        req[q].reply \in {"payload", "ok"} => req[q].audited

=============================================================================

------------------------------- MODULE Throttle -------------------------------
(***************************************************************************)
(* What a request of one client passes before its handler: the limit of    *)
(* the whole API, which lets it through when its store is down, and the    *)
(* guard of a route, whose counter the replicas share in Redis, or the     *)
(* only one keeps in memory.  (Counters of different clients and routes    *)
(* have nothing in common.)                                                *)
(*                                                                         *)
(* A hit is one transaction of Redis, the time to live of a new counter a  *)
(* command of its own.  A tick is a part of the guard's window; it waits   *)
(* for the answers of Redis, which take no time next to a window.          *)
(***************************************************************************)
EXTENDS Naturals, FiniteSets

CONSTANTS
  Requests,
  Limit,      \* of the guard
  Window,     \* of the guard, in ticks
  MaxFailures \* bound on commands that Redis rejects and replicas that die

ASSUME ThrottleAssumption ==
  /\ IsFiniteSet(Requests)
  /\ Limit \in Nat \ {0} /\ Window \in Nat \ {0} /\ MaxFailures \in Nat

VARIABLES
  driver,   \* "redis" or "memory": where getThrottleStore keeps the counter
  count,    \* the counter, 0 when there is none
  ttl,      \* ticks it has to live; 0: none were given to it
  req,      \* each request
  failures,
  age,      \* history: ticks since the request was counted, Window + 1 at most
  stuck     \* history: the counter lost the command that was to end it

throttleVars == <<driver, count, ttl, req, failures, age, stuck>>

-----------------------------------------------------------------------------
(* Data *)

Stages ==
  {"new", "limited", "admitted", "counted", "serving", "served", "refused", "failed"}

\* n: the count it was told of; calls: how often the limit has called what comes after
\* it; passed: its own note that koa-ratelimit did; open: it calls that from its catch.
Request ==
  [stage : Stages, n : 0 .. Cardinality(Requests), calls : 0 .. 2,
   passed : BOOLEAN, open : BOOLEAN]

AtStage(r, stage) == req[r].stage = stage

Fails == failures < MaxFailures /\ failures' = failures + 1

Recent == {r \in Requests : age[r] <= Window}

\* The requests the guard has let through in less than a window.
Through == {r \in Requests : age[r] < Window /\ req[r].stage \in {"serving", "served"}}

\* Slip: every error but a 429 is taken for one of the limit's own store.
RethrownByStatus(q, status) == status = 429

\* What the catch does not take for an error of the limit's own store.
Rethrown(q, status) == q.passed \/ status = 429

\* An error that arrives at the limit ends the request, or is the reason to call what comes
\* next without koa-ratelimit.  Nothing catches the errors of that call.
Caught(q, status, end) ==
  IF q.open \/ Rethrown(q, status)
    THEN [q EXCEPT !.stage = end]
    ELSE [q EXCEPT !.stage = "admitted", !.calls = @ + 1, !.open = TRUE]

\* ThrottleGuard, whose 429 is thrown through the limit.
Judged(q) == IF q.n > Limit THEN Caught(q, 429, "refused") ELSE [q EXCEPT !.stage = "serving"]

-----------------------------------------------------------------------------
ThrottleInit ==
  /\ driver \in {"redis", "memory"}
  /\ count = 0 /\ ttl = 0
  /\ req = [r \in Requests |-> [stage |-> "new", n |-> 0, calls |-> 0,
                            passed |-> FALSE, open |-> FALSE]]
  /\ failures = 0
  /\ age = [r \in Requests |-> Window + 1]
  /\ stuck = FALSE

-----------------------------------------------------------------------------
(* createRateLimitMiddleware *)

\* koa-ratelimit calls what comes next.
Admit(r) ==
  /\ AtStage(r, "new")
  /\ req' = [req EXCEPT ![r].stage = "admitted", ![r].passed = TRUE, ![r].calls = @ + 1]
  /\ UNCHANGED <<driver, count, ttl, failures, age, stuck>>

\* Its store is down.
LimitFails(r) ==
  /\ AtStage(r, "new") /\ driver = "redis" /\ Fails
  /\ req' = [req EXCEPT ![r] = Caught(req[r], 500, "failed")]
  /\ UNCHANGED <<driver, count, ttl, age, stuck>>

\* Its 429, which it answers itself, or throws.
Refuse(r) ==
  /\ AtStage(r, "new")
  /\ \/ req' = [req EXCEPT ![r].stage = "limited"]
     \/ req' = [req EXCEPT ![r] = Caught(req[r], 429, "limited")]
  /\ UNCHANGED <<driver, count, ttl, failures, age, stuck>>

\* The handler, which may throw, a 429 of its own among others.
Handle(r) ==
  /\ AtStage(r, "serving")
  /\ \/ req' = [req EXCEPT ![r].stage = "served"]
     \/ \E status \in {429, 500} : req' = [req EXCEPT ![r] = Caught(req[r], status, "failed")]
  /\ UNCHANGED <<driver, count, ttl, failures, age, stuck>>

-----------------------------------------------------------------------------
(* RedisThrottleStore *)

\* Slip: whoever finds no time to live is the first.
FirstIsOne == IF ttl = 0 THEN 1 ELSE count + 1

\* INCR
Incremented == count + 1

\* Slip: every hit gives the counter a new time to live.
Always == TRUE

\* PTTL below 0
Unlimited == ttl = 0

\* MULTI INCR PTTL EXEC
HitRedis(r) ==
  /\ AtStage(r, "admitted") /\ driver = "redis"
  /\ count' = count + 1
  /\ age' = [age EXCEPT ![r] = 0]
  /\ LET q == [req[r] EXCEPT !.n = Incremented]
     IN  req' = [req EXCEPT ![r] = IF Unlimited THEN [q EXCEPT !.stage = "counted"] ELSE Judged(q)]
  /\ UNCHANGED <<driver, ttl, failures, stuck>>

\* The transaction is rejected; the guard does not let the request through.
HitRejected(r) ==
  /\ AtStage(r, "admitted") /\ driver = "redis" /\ Fails
  /\ req' = [req EXCEPT ![r] = Caught(req[r], 500, "failed")]
  /\ UNCHANGED <<driver, count, ttl, age, stuck>>

\* PEXPIRE, by everyone who saw no time to live
ExpireKey(r) ==
  /\ AtStage(r, "counted") /\ driver = "redis"
  /\ ttl' = Window
  /\ req' = [req EXCEPT ![r] = Judged(req[r])]
  /\ UNCHANGED <<driver, count, failures, age, stuck>>

\* PEXPIRE is rejected.
ExpireRejected(r) ==
  /\ AtStage(r, "counted") /\ driver = "redis" /\ Fails
  /\ req' = [req EXCEPT ![r] = Caught(req[r], 500, "failed")]
  /\ stuck' = TRUE
  /\ UNCHANGED <<driver, count, ttl, age>>

\* The replica dies after the transaction.
Die(r) ==
  /\ AtStage(r, "counted") /\ driver = "redis" /\ Fails
  /\ req' = [req EXCEPT ![r].stage = "failed"]
  /\ stuck' = TRUE
  /\ UNCHANGED <<driver, count, ttl, age>>

-----------------------------------------------------------------------------
(* MemoryThrottleStore *)

\* A record lives through the last millisecond of its window.
HitMemory(r) ==
  /\ AtStage(r, "admitted") /\ driver = "memory"
  /\ count' = count + 1
  /\ ttl' = IF count = 0 THEN Window + 1 ELSE ttl
  /\ age' = [age EXCEPT ![r] = 0]
  /\ req' = [req EXCEPT ![r].stage = "counted"]
  /\ UNCHANGED <<driver, failures, stuck>>

\* What is awaited is the record itself: hits that came in between are read as well.
ReadRecord(r) ==
  /\ AtStage(r, "counted") /\ driver = "memory"
  /\ req' = [req EXCEPT ![r] = Judged([req[r] EXCEPT !.n = count])]
  /\ UNCHANGED <<driver, count, ttl, failures, age, stuck>>

-----------------------------------------------------------------------------
(* Time, and the whole *)

ThrottleTick ==
  /\ \A r \in Requests : ~AtStage(r, "counted")
  /\ \/ count # 0
     \/ Recent # {}
  /\ age' = [r \in Requests |-> IF age[r] > Window THEN age[r] ELSE age[r] + 1]
  /\ ttl' = IF ttl = 0 THEN 0 ELSE ttl - 1
  /\ count' = IF ttl = 1 THEN 0 ELSE count
  /\ stuck' = (stuck /\ ttl # 1)
  /\ UNCHANGED <<driver, req, failures>>

ThrottleNext ==
  \/ \E r \in Requests :
       \/ Admit(r) \/ LimitFails(r) \/ Refuse(r) \/ Handle(r)
       \/ HitRedis(r) \/ HitRejected(r) \/ ExpireKey(r) \/ ExpireRejected(r) \/ Die(r)
       \/ HitMemory(r) \/ ReadRecord(r)
  \/ ThrottleTick

ThrottleSpec == ThrottleInit /\ [][ThrottleNext]_throttleVars

-----------------------------------------------------------------------------
(* Properties *)

ThrottleTypeOK ==
  /\ driver \in {"redis", "memory"}
  /\ count \in 0 .. Cardinality(Requests)
  /\ ttl \in 0 .. Window + 1
  /\ req \in [Requests -> Request]
  /\ failures \in 0 .. MaxFailures
  /\ age \in [Requests -> 0 .. Window + 1]
  /\ stuck \in BOOLEAN

\* Whatever fails, the store of the limit, the store of the guard or the handler, what
\* comes after the limit is called exactly once for a request that koa-ratelimit does not
\* refuse: none is handled twice, and none is dropped because the limit's store is down.
HandledOnce ==
  \A r \in Requests : req[r].calls = IF req[r].stage \in {"new", "limited"} THEN 0 ELSE 1

\* The window does not slide, and replicas that hit a new counter together each give it its
\* time to live: still no more than twice the limit get through in a window's time.
AtMostTwice == Cardinality(Through) <= 2 * Limit

\* The guard refuses a request only if others used the limit up in a window's time, the
\* refused ones not counted, unless the counter once lost the command that was to end it.
\* (Requests that read the record in memory together are all told of the last count.)
RefusedForCause ==
  [][\A r \in Requests :
       req[r].stage \in {"admitted", "counted"} /\ req'[r].stage = "refused" =>
         \/ stuck
         \/ Cardinality({s \in Recent \ {r} : driver = "redis" => req[s].n <= Limit}) >= Limit]_throttleVars
=============================================================================

----------------------------- MODULE AppLifecycle -----------------------------
(***************************************************************************)
(* One process of the application from its start to its exit: App in       *)
(* app.ts with the bootstrappers, the health monitor, the signal handlers  *)
(* of main.ts, and what they serve: requests sent by a balancer that reads *)
(* /ready, WebSocket clients, and jobs of the queue.                       *)
(*                                                                         *)
(* The clock counts from the signal.  Steps that only wait for a prompt    *)
(* answer take no time; what takes time is named in Waiting: the pause for *)
(* the balancer, requests, clients, jobs, and queries that hold the pool.  *)
(* The signal handlers are set when start has ended: a signal before that  *)
(* kills the process, like any other crash.                                *)
(***************************************************************************)
EXTENDS Naturals

CONSTANTS
  Requests, Clients, Jobs,
  Drain,        \* SHUTDOWN_DRAIN_MS
  Inflight,     \* SHUTDOWN_INFLIGHT_TIMEOUT_MS
  JobsTimeout,  \* JOBS_SHUTDOWN_TIMEOUT_MS
  ForceAfter,   \* SHUTDOWN_TIMEOUT_MS
  ProbeEvery    \* the balancer asks for /ready at least so often

ASSUME TimesAssumption ==
  /\ {Drain, Inflight, JobsTimeout, ForceAfter, ProbeEvery} \subseteq Nat
  /\ ProbeEvery < Drain
  /\ Drain + Inflight + JobsTimeout < ForceAfter

VARIABLES
  role,       \* APP_ROLE
  stage, exit,
  ready,      \* _isReady
  healthy,    \* the cached answer of the database
  checking,   \* SELECT 1 is under way
  pool, boss, bus, redis, http,   \* the parts of the process
  request, clients, job,          \* the work it does
  dbUp, schema, lock,             \* the database, its schema and the migrations lock
  balancer,   \* the balancer sends traffic
  probeIn,    \* time until the balancer asks again, at the latest
  since,      \* time since the signal
  deadline,   \* when the wait of this stage is given up
  waited      \* history: time spent in waits that have no limit of their own

process == <<role, stage, exit>>
health == <<healthy, checking>>
parts == <<pool, boss, bus, redis, http>>
work == <<request, clients, job>>
outside == <<dbUp, schema, lock, balancer, probeIn>>
timing == <<since, deadline, waited>>
vars == <<process, ready, health, parts, work, outside, timing>>

-----------------------------------------------------------------------------
(* Data *)

Starting == {"listen", "connect", "migrate", "check", "jobs", "users", "sockets"}
Stopping == {"draining", "closing", "cutting", "released", "stopping", "clearing", "ending"}
Stages == Starting \cup {"up"} \cup Stopping \cup {"exited"}

Running == {r \in Requests : request[r] = "running"}
Active == {j \in Jobs : job[j] = "active"}

\* Handlers that go on though their connection is cut or their job was given up.
Strays == {r \in Requests : request[r] = "orphan"} \cup {j \in Jobs : job[j] = "stray"}

\* GET /ready
Answers200 == ready /\ healthy /\ http = "open"

\* What happens to work when the process is gone; pg-boss returns its jobs to the queue.
Die(code) ==
  /\ stage' = "exited" /\ exit' = code
  /\ ready' = FALSE /\ healthy' = FALSE /\ checking' = FALSE
  /\ pool' = "none" /\ boss' = "off" /\ bus' = "off" /\ redis' = "off" /\ http' = "closed"
  /\ request' = [r \in Requests |-> IF request[r] \in {"running", "orphan"} THEN "cut" ELSE request[r]]
  /\ clients' = {}
  /\ job' = [j \in Jobs |-> IF job[j] \in {"active", "stray"} THEN "returned" ELSE job[j]]
  /\ lock' = IF lock = "mine" THEN "free" ELSE lock
  /\ UNCHANGED <<role, dbUp, schema, balancer, probeIn, timing>>

-----------------------------------------------------------------------------
Init ==
  /\ role \in {"api", "worker", "all"}
  /\ stage = "listen" /\ exit = "none"
  /\ ready = FALSE /\ healthy = FALSE /\ checking = FALSE
  /\ pool = "none" /\ boss = "off" /\ bus = "off" /\ redis = "on" /\ http = "closed"
  /\ request = [r \in Requests |-> "idle"]
  /\ clients = {}
  /\ job = [j \in Jobs |-> "queued"]
  /\ dbUp \in BOOLEAN
  /\ schema \in {"old", "new"} /\ lock = "free"
  /\ balancer = FALSE /\ probeIn = ProbeEvery
  /\ since = 0 /\ deadline = 0 /\ waited = 0

-----------------------------------------------------------------------------
(* Start *)

\* The probes are answered from now on; an error of listen ends the process.
Listen ==
  /\ stage = "listen"
  /\ stage' = "connect" /\ http' = "open"
  /\ UNCHANGED <<role, exit, ready, health, pool, boss, bus, redis, work, outside, timing>>

\* connectDatabase tries until it succeeds.
Connect ==
  /\ stage = "connect" /\ dbUp
  /\ stage' = "migrate" /\ pool' = "open"
  /\ UNCHANGED <<role, exit, ready, health, boss, bus, redis, http, work, outside, timing>>

LockMigrations ==
  /\ stage = "migrate" /\ lock = "free"
  /\ lock' = "mine"
  /\ UNCHANGED <<process, ready, health, parts, work, dbUp, schema, balancer, probeIn, timing>>

Migrate ==
  /\ stage = "migrate" /\ lock = "mine"
  /\ schema' = "new" /\ lock' = "free" /\ stage' = "check"
  /\ UNCHANGED <<role, exit, ready, health, parts, work, dbUp, balancer, probeIn, timing>>

\* With DB_MIGRATIONS_RUN=false pending migrations end the start.
SkipMigrations ==
  /\ stage = "migrate" /\ lock # "mine" /\ schema = "new"
  /\ stage' = "check"
  /\ UNCHANGED <<role, exit, ready, health, parts, work, outside, timing>>

\* The first check of the monitor, whose answer does not stop the start, and, at once,
\* the modules and routes.
FirstCheck ==
  /\ stage = "check"
  /\ healthy' \in {dbUp, FALSE}
  /\ stage' = "jobs"
  /\ UNCHANGED <<role, exit, ready, checking, parts, work, outside, timing>>

\* JobsBootstrap is critical; its workers take jobs from now on.
StartJobs ==
  /\ stage = "jobs" /\ dbUp
  /\ boss' = "on" /\ stage' = "users"
  /\ UNCHANGED <<role, exit, ready, health, pool, bus, redis, http, work, outside, timing>>

\* AdminBootstrap and SeedBootstrap are not.
SeedUsers ==
  /\ stage = "users"
  /\ stage' = "sockets"
  /\ UNCHANGED <<role, exit, ready, health, parts, work, outside, timing>>

\* SocketBootstrap registers the listeners, in every role; then start ends.
StartSockets ==
  /\ stage = "sockets"
  /\ bus' = "on" /\ ready' = TRUE /\ stage' = "up"
  /\ UNCHANGED <<role, exit, health, pool, boss, redis, http, work, outside, timing>>

\* The port is taken, a migration or a critical bootstrapper fails, the schema is behind.
FailStart ==
  /\ stage \in {"listen", "migrate", "jobs"}
  /\ Die("failed")

\* A crash, SIGKILL, or any signal before the handlers are set.
Kill ==
  /\ stage # "exited"
  /\ Die("killed")

-----------------------------------------------------------------------------
(* Stop *)

\* Slip: the process stays ready until its parts are closed.
SignalStillReady ==
  /\ stage = "up"
  /\ stage' = "draining"
  /\ since' = 0 /\ deadline' = Drain /\ waited' = 0
  /\ UNCHANGED <<role, exit, ready, health, parts, work, outside>>

\* SIGTERM, SIGINT or an uncaught exception; the next ones are ignored.
Signal ==
  /\ stage = "up"
  /\ stage' = "draining" /\ ready' = FALSE
  /\ since' = 0 /\ deadline' = Drain /\ waited' = 0
  /\ UNCHANGED <<role, exit, health, parts, work, outside>>

\* Slip: no pause for the balancer.
CloseHttpAtOnce ==
  /\ stage = "draining"
  /\ stage' = "closing" /\ http' = "closed"
  /\ deadline' = since + Inflight
  /\ UNCHANGED <<role, exit, ready, health, pool, boss, bus, redis, work, outside, since, waited>>

\* closeHttpServer: no new connections; those that work are waited for.
CloseHttp ==
  /\ stage = "draining" /\ since >= deadline
  /\ stage' = "closing" /\ http' = "closed"
  /\ deadline' = since + Inflight
  /\ UNCHANGED <<role, exit, ready, health, pool, boss, bus, redis, work, outside, since, waited>>

\* The server is closed once no connection is left, a WebSocket included.
HttpClosed ==
  /\ stage = "closing" /\ Running = {} /\ clients = {}
  /\ stage' = "released"
  /\ UNCHANGED <<role, exit, ready, health, parts, work, outside, timing>>

\* closeAllConnections: requests lose their connection, their handlers go on.  It knows
\* nothing of the connections that became WebSockets, and closed is awaited again.
Cut ==
  /\ stage = "closing" /\ since >= deadline
  /\ stage' = "cutting"
  /\ request' = [r \in Requests |-> IF r \in Running THEN "orphan" ELSE request[r]]
  /\ UNCHANGED <<role, exit, ready, health, parts, clients, job, outside, timing>>

CutClosed ==
  /\ stage = "cutting" /\ clients = {}
  /\ stage' = "released"
  /\ UNCHANGED <<role, exit, ready, health, parts, work, outside, timing>>

\* Slip: the listeners are removed before the jobs have ended.
StopUnheard ==
  /\ stage = "released"
  /\ stage' = "stopping" /\ clients' = {} /\ boss' = "stopping" /\ bus' = "off"
  /\ deadline' = since + JobsTimeout
  /\ UNCHANGED <<role, exit, ready, health, pool, redis, http, request, job, outside, since, waited>>

\* Slip: the jobs may take all the time there is.
StopUnlimited ==
  /\ stage = "released"
  /\ stage' = "stopping" /\ clients' = {} /\ boss' = "stopping"
  /\ deadline' = ForceAfter
  /\ UNCHANGED <<role, exit, ready, health, pool, bus, redis, http, request, job, outside, since, waited>>

\* The bootstrappers are destroyed, the last first: the sockets, then the queue, which
\* takes no more jobs and waits for those that run.  An error is logged.
StopParts ==
  /\ stage = "released"
  /\ stage' = "stopping" /\ clients' = {} /\ boss' = "stopping"
  /\ deadline' = since + JobsTimeout
  /\ UNCHANGED <<role, exit, ready, health, pool, bus, redis, http, request, job, outside, since, waited>>

\* Jobs that did not end in time are aborted and returned to the queue; a handler that
\* does not heed its signal goes on.  At once the subscriptions are removed.
JobsStopped ==
  /\ stage = "stopping"
  /\ Active = {} \/ since >= deadline
  /\ job' = [j \in Jobs |-> IF j \in Active THEN "stray" ELSE job[j]]
  /\ boss' = "off" /\ bus' = "off"
  /\ stage' = "clearing"
  /\ UNCHANGED <<role, exit, ready, health, pool, redis, http, request, clients, outside, timing>>

\* closeRedis, and the end of the monitor: a check under way still sets its answer.
CloseRedis ==
  /\ stage = "clearing"
  /\ redis' = "off" /\ healthy' = FALSE
  /\ stage' = "ending"
  /\ UNCHANGED <<role, exit, ready, checking, pool, boss, bus, http, work, outside, timing>>

\* dataSource.destroy waits for the queries of handlers that go on; then exit(0).
EndPool ==
  /\ stage = "ending"
  /\ Die("clean")

\* Slip: the timer is cleared when the connections are cut.
ForceUnlessCut ==
  /\ stage \in Stopping \ {"cutting"} /\ since = ForceAfter
  /\ Die("forced")

\* The timer of main.ts
ForceExit ==
  /\ stage \in Stopping /\ since = ForceAfter
  /\ Die("forced")

-----------------------------------------------------------------------------
(* The health monitor *)

CheckBegins ==
  /\ stage \in {"jobs", "users", "sockets", "up"} \cup (Stopping \ {"ending"})
  /\ ~checking
  /\ checking' = TRUE
  /\ UNCHANGED <<process, ready, healthy, parts, work, outside, timing>>

\* An answer, or the timeout of the check
CheckEnds ==
  /\ checking
  /\ checking' = FALSE
  /\ healthy' \in {dbUp, FALSE}
  /\ UNCHANGED <<process, ready, parts, work, outside, timing>>

-----------------------------------------------------------------------------
(* Work *)

Send(r) ==
  /\ balancer /\ request[r] = "idle"
  /\ request' = [request EXCEPT ![r] = IF http = "open" THEN "running" ELSE "refused"]
  /\ UNCHANGED <<process, ready, health, parts, clients, job, outside, timing>>

Answer(r) ==
  /\ request[r] \in {"running", "orphan"}
  /\ request' = [request EXCEPT ![r] = IF @ = "running" THEN "done" ELSE "cut"]
  /\ UNCHANGED <<process, ready, health, parts, clients, job, outside, timing>>

\* Socket.IO is attached to the HTTP server in every role; a worker has no handler for the
\* connections it gets.
Arrive(c) ==
  /\ balancer /\ http = "open" /\ c \notin clients
  /\ clients' = clients \cup {c}
  /\ UNCHANGED <<process, ready, health, parts, request, job, outside, timing>>

Leave(c) ==
  /\ c \in clients
  /\ clients' = clients \ {c}
  /\ UNCHANGED <<process, ready, health, parts, request, job, outside, timing>>

\* Only the roles with workers take jobs.
Take(j) ==
  /\ boss = "on" /\ role # "api" /\ job[j] = "queued"
  /\ job' = [job EXCEPT ![j] = "active"]
  /\ UNCHANGED <<process, ready, health, parts, request, clients, outside, timing>>

\* A failed job waits for its retry.
EndJob(j) ==
  /\ job[j] \in {"active", "stray"}
  /\ job' \in {[job EXCEPT ![j] = IF job[j] = "stray" THEN "returned" ELSE a] : a \in {"done", "queued"}}
  /\ UNCHANGED <<process, ready, health, parts, request, clients, outside, timing>>

-----------------------------------------------------------------------------
(* The surroundings *)

DatabaseFlips ==
  /\ dbUp' = ~dbUp
  /\ UNCHANGED <<process, ready, health, parts, work, schema, lock, balancer, probeIn, timing>>

\* Another replica that starts migrates the schema, or dies over it.
OtherLocks ==
  /\ lock = "free" /\ schema = "old"
  /\ lock' = "other"
  /\ UNCHANGED <<process, ready, health, parts, work, dbUp, schema, balancer, probeIn, timing>>

OtherUnlocks ==
  /\ lock = "other"
  /\ lock' = "free" /\ schema' \in {schema, "new"}
  /\ UNCHANGED <<process, ready, health, parts, work, dbUp, balancer, probeIn, timing>>

BalancerAsks ==
  /\ balancer' = Answers200
  /\ probeIn' = ProbeEvery
  /\ UNCHANGED <<process, ready, health, parts, work, dbUp, schema, lock, timing>>

\* What the process waits for
Waiting ==
  \/ stage = "draining" /\ since < deadline
  \/ stage = "closing" /\ since < deadline /\ (Running # {} \/ clients # {})
  \/ stage = "cutting" /\ clients # {}
  \/ stage = "stopping" /\ since < deadline /\ Active # {}
  \/ stage = "ending" /\ Strays # {}

Tick ==
  /\ Waiting /\ since < ForceAfter /\ probeIn > 0
  /\ since' = since + 1
  /\ probeIn' = probeIn - 1
  /\ waited' = IF stage \in {"cutting", "ending"} THEN waited + 1 ELSE waited
  /\ UNCHANGED <<process, ready, health, parts, work, dbUp, schema, lock, balancer, deadline>>

Start ==
  \/ Listen \/ Connect \/ LockMigrations \/ Migrate \/ SkipMigrations
  \/ FirstCheck \/ StartJobs \/ SeedUsers \/ StartSockets \/ FailStart

Stop ==
  \/ CloseHttp \/ HttpClosed \/ Cut \/ CutClosed \/ StopParts \/ JobsStopped
  \/ CloseRedis \/ EndPool \/ ForceExit

Next ==
  \/ Start \/ Kill \/ Signal \/ Stop \/ CheckBegins \/ CheckEnds
  \/ \E r \in Requests : Send(r) \/ Answer(r)
  \/ \E c \in Clients : Arrive(c) \/ Leave(c)
  \/ \E j \in Jobs : Take(j) \/ EndJob(j)
  \/ DatabaseFlips \/ OtherLocks \/ OtherUnlocks \/ BalancerAsks \/ Tick

\* The process and the clock go on; the balancer asks; nobody has to leave, to answer
\* or to end a job.
Spec ==
  /\ Init /\ [][Next]_vars
  /\ WF_vars(Stop) /\ WF_vars(Tick) /\ WF_vars(BalancerAsks)

-----------------------------------------------------------------------------
(* Properties *)

\* Every variable has the type of the state it stands for.
TypeOK ==
  /\ role \in {"api", "worker", "all"}
  /\ stage \in Stages /\ exit \in {"none", "failed", "killed", "clean", "forced"}
  /\ ready \in BOOLEAN /\ healthy \in BOOLEAN /\ checking \in BOOLEAN
  /\ pool \in {"none", "open"} /\ boss \in {"off", "on", "stopping"} /\ bus \in {"on", "off"}
  /\ redis \in {"on", "off"} /\ http \in {"open", "closed"}
  /\ request \in [Requests -> {"idle", "running", "orphan", "done", "cut", "refused"}]
  /\ clients \subseteq Clients
  /\ job \in [Jobs -> {"queued", "active", "stray", "returned", "done"}]
  /\ dbUp \in BOOLEAN /\ schema \in {"old", "new"} /\ lock \in {"free", "mine", "other"}
  /\ balancer \in BOOLEAN /\ probeIn \in Nat
  /\ since \in Nat /\ deadline \in Nat /\ waited \in Nat

\* While /ready answers 200 the schema is up to date, the queue works, the listeners of
\* all events are registered and the pool is open: no replica takes traffic half started,
\* and a check of the database that answers during the stop does not bring it back.
ReadyMeansUp ==
  Answers200 =>
    /\ stage = "up" /\ schema = "new"
    /\ pool = "open" /\ boss = "on" /\ bus = "on" /\ redis = "on"

\* A request that the balancer sends is never refused by a process that stops: when the
\* server is closed, the balancer has read the 503.
NoneRefused ==
  \A r \in Requests : request[r] = "refused" => exit = "killed"

\* What /ready says can be relied on, in both directions.
ReadyRight == ReadyMeansUp /\ NoneRefused

\* Requests with their connection, clients, and jobs the queue has not given up always
\* find the database, Redis and, the jobs of a process that starts apart, the listeners
\* of the events they emit.
WorkFindsParts ==
  /\ Running # {} \/ clients # {} => pool = "open" /\ redis = "on" /\ bus = "on"
  /\ Active # {} => pool = "open" /\ redis = "on" /\ (stage \in Starting \/ bus = "on")

\* The limits of the stages fit into the limit of the whole: where Redis, the queue and the
\* database answer the stop promptly, it is forced only when clients that stayed, or
\* handlers that were given up and still hold the pool, took time that has no limit.
ForcedOnlyHeld == exit = "forced" => waited > 0

\* A process that got the signal exits, whoever stays connected and whatever hangs.
Exits == stage = "draining" ~> stage = "exited"
=============================================================================

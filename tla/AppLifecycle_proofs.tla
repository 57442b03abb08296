--------------------------- MODULE AppLifecycle_proofs ---------------------------
(***************************************************************************)
(* Safety of two components, for every value of their constants: of        *)
(* AppLifecycle, for any requests, clients, jobs and times that satisfy    *)
(* TimesAssumption, and, from "The connections" on, of Sockets, for any    *)
(* sessions, connections and times that satisfy SocketTimesAssumption.     *)
(* The components have no state in common.                                 *)
(***************************************************************************)
EXTENDS AppLifecycle, Sockets, TLAPS

-----------------------------------------------------------------------------
(* The inductive invariant *)

\* From when to when each part is there, in the order of the stages.
PartsOf ==
  /\ http = "open" <=> stage \in (Starting \ {"listen"}) \cup {"up", "draining"}
  /\ pool = "open" <=> stage \notin {"listen", "connect", "exited"}
  /\ boss = "on" <=> stage \in {"users", "sockets", "up", "draining", "closing", "cutting", "released"}
  /\ bus = "on" <=> stage \in {"up", "draining", "closing", "cutting", "released", "stopping"}
  /\ redis = "on" <=> stage \notin {"ending", "exited"}
  /\ stage \notin {"listen", "connect", "migrate", "exited"} => schema = "new"
  /\ ready => stage = "up"
  /\ exit = "none" <=> stage # "exited"

\* When there can be work of each kind.
WorkOf ==
  /\ Running # {} => stage \in {"up", "draining", "closing"}
  /\ clients # {} => stage \in {"up", "draining", "closing", "cutting"}
  /\ Active # {} =>
       stage \in {"users", "sockets", "up", "draining", "closing", "cutting", "released", "stopping"}

\* A balancer that still sends has not asked since the signal, and will in time.
Balanced ==
  /\ probeIn <= ProbeEvery
  /\ balancer => stage \in {"up", "draining"} \/ exit = "killed"
  /\ stage = "draining" => deadline = Drain
  /\ stage = "draining" /\ balancer => since + probeIn <= ProbeEvery
  /\ NoneRefused

\* Without a wait that has no limit of its own every stage keeps its time.
Timely ==
  /\ waited = 0 /\ stage = "draining" => since <= deadline
  /\ waited = 0 /\ stage = "closing" => since <= deadline /\ deadline <= Drain + Inflight
  /\ waited = 0 /\ stage \in {"cutting", "released"} => since <= Drain + Inflight
  /\ waited = 0 /\ stage = "stopping" =>
       since <= deadline /\ deadline <= Drain + Inflight + JobsTimeout
  /\ waited = 0 /\ stage \in {"clearing", "ending"} => since <= Drain + Inflight + JobsTimeout
  /\ ForcedOnlyHeld

IInv == TypeOK /\ PartsOf /\ WorkOf /\ Balanced /\ Timely

-----------------------------------------------------------------------------
(* Steps *)

LEMMA Times ==
  /\ Drain \in Nat /\ Inflight \in Nat /\ JobsTimeout \in Nat /\ ForceAfter \in Nat
  /\ ProbeEvery \in Nat /\ ProbeEvery < Drain /\ Drain + Inflight + JobsTimeout < ForceAfter
  BY TimesAssumption

LEMMA DieType ==
  ASSUME TypeOK, NEW code \in {"failed", "killed", "clean", "forced"}, Die(code)
  PROVE  TypeOK'
  <1>1. request' \in [Requests -> {"idle", "running", "orphan", "done", "cut", "refused"}]
        /\ job' \in [Jobs -> {"queued", "active", "stray", "returned", "done"}]
    BY DEF Die, TypeOK
  <1>2. /\ lock' \in {"free", "mine", "other"} /\ clients' \subseteq Clients /\ stage' \in Stages
        /\ exit' \in {"none", "failed", "killed", "clean", "forced"}
        /\ ready' \in BOOLEAN /\ healthy' \in BOOLEAN /\ checking' \in BOOLEAN
        /\ pool' \in {"none", "open"} /\ boss' \in {"off", "on", "stopping"} /\ bus' \in {"on", "off"}
        /\ redis' \in {"on", "off"} /\ http' \in {"open", "closed"}
    BY DEF Die, TypeOK, Stages
  <1>3. UNCHANGED <<role, dbUp, schema, balancer, probeIn, timing>>
    BY DEF Die
  <1> QED
    BY <1>1, <1>2, <1>3 DEF TypeOK, timing

LEMMA InitTypeOK == Init => TypeOK
  <1> SUFFICES ASSUME Init PROVE TypeOK
    OBVIOUS
  <1>1. request \in [Requests -> {"idle", "running", "orphan", "done", "cut", "refused"}]
        /\ job \in [Jobs -> {"queued", "active", "stray", "returned", "done"}]
    BY DEF Init
  <1>2. probeIn \in Nat /\ since \in Nat /\ deadline \in Nat /\ waited \in Nat
    BY TimesAssumption DEF Init
  <1> QED
    BY <1>1, <1>2 DEF Init, TypeOK, Stages, Starting

LEMMA TypeStep == TypeOK /\ [Next]_vars => TypeOK'
  <1> SUFFICES ASSUME TypeOK, [Next]_vars PROVE TypeOK'
    OBVIOUS
  <1> USE Times DEF TypeOK, process, health, parts, work, outside, timing
  <1>0. CASE UNCHANGED vars
    BY <1>0 DEF vars
  <1>1. CASE Listen \/ Connect \/ LockMigrations \/ Migrate \/ SkipMigrations
    BY <1>1 DEF Listen, Connect, LockMigrations, Migrate, SkipMigrations, Stages, Starting
  <1>2. CASE FirstCheck \/ StartJobs \/ SeedUsers \/ StartSockets
    <2>1. healthy' \in BOOLEAN
      BY <1>2 DEF FirstCheck, StartJobs, SeedUsers, StartSockets
    <2> QED
      BY <1>2, <2>1 DEF FirstCheck, StartJobs, SeedUsers, StartSockets, Stages, Starting
  <1>3. CASE FailStart \/ Kill \/ EndPool \/ ForceExit
    BY <1>3, DieType DEF FailStart, Kill, EndPool, ForceExit
  <1>4. CASE Signal \/ CloseHttp \/ HttpClosed \/ CutClosed \/ StopParts
    <2>1. CASE Signal
      <3>1. ready' \in BOOLEAN /\ stage' \in Stages
        BY <2>1 DEF Signal, Stages, Stopping
      <3>2. since' \in Nat /\ deadline' \in Nat /\ waited' \in Nat
        BY <2>1 DEF Signal
      <3> QED
        BY <2>1, <3>1, <3>2 DEF Signal
    <2>4. CASE CloseHttp
      BY <2>4 DEF CloseHttp, Stages, Stopping
    <2>2. CASE HttpClosed \/ CutClosed
      BY <1>4, <2>2 DEF HttpClosed, CutClosed, Stages, Stopping
    <2>3. CASE StopParts
      BY <1>4, <2>3 DEF StopParts, Stages, Stopping
    <2> QED
      BY <1>4, <2>1, <2>2, <2>3, <2>4
  <1>5. CASE Cut
    BY <1>5 DEF Cut, Stages, Stopping
  <1>6. CASE JobsStopped \/ CloseRedis
    BY <1>6 DEF JobsStopped, CloseRedis, Stages, Stopping
  <1>7. CASE CheckBegins \/ CheckEnds
    <2>1. healthy' \in BOOLEAN /\ checking' \in BOOLEAN
      BY <1>7 DEF CheckBegins, CheckEnds
    <2> QED
      BY <1>7, <2>1 DEF CheckBegins, CheckEnds
  <1>8. ASSUME NEW r \in Requests, Send(r) \/ Answer(r) PROVE TypeOK'
    BY <1>8 DEF Send, Answer
  <1>9. ASSUME NEW c \in Clients, Arrive(c) \/ Leave(c) PROVE TypeOK'
    BY <1>9 DEF Arrive, Leave
  <1>10. ASSUME NEW j \in Jobs, Take(j) \/ EndJob(j) PROVE TypeOK'
    BY <1>10 DEF Take, EndJob
  <1>11. CASE DatabaseFlips \/ OtherLocks \/ OtherUnlocks \/ Tick
    <2>1. CASE DatabaseFlips
      <3>1. dbUp' \in BOOLEAN
        BY <2>1 DEF DatabaseFlips
      <3> QED
        BY <2>1, <3>1 DEF DatabaseFlips
    <2>2. CASE OtherLocks \/ OtherUnlocks
      BY <2>2 DEF OtherLocks, OtherUnlocks
    <2>3. CASE Tick
      BY <2>3 DEF Tick
    <2> QED
      BY <1>11, <2>1, <2>2, <2>3
  <1>12. CASE BalancerAsks
    <2>1. balancer' \in BOOLEAN
      BY <1>12 DEF BalancerAsks, Answers200
    <2> QED
      BY <1>12, <2>1 DEF BalancerAsks
  <1> QED
    BY <1>0, <1>1, <1>2, <1>3, <1>4, <1>5, <1>6, <1>7, <1>8, <1>9, <1>10, <1>11, <1>12 DEF Next, Start, Stop

\* A process that is gone stays gone.
LEMMA Gone ==
  ASSUME TypeOK, PartsOf, NEW code \in {"failed", "killed", "clean", "forced"}, Die(code)
  PROVE  PartsOf'
  BY DEF Die, PartsOf, TypeOK, Starting

LEMMA PartsStep == TypeOK /\ PartsOf /\ [Next]_vars => PartsOf'
  <1> SUFFICES ASSUME TypeOK, PartsOf, [Next]_vars PROVE PartsOf'
    OBVIOUS
  <1> USE DEF PartsOf, Starting
  <1>0. CASE UNCHANGED <<process, ready, parts, schema>>
    BY <1>0 DEF process, parts
  <1>1. CASE Listen \/ Connect
    BY <1>1 DEF Listen, Connect, work, outside, timing
  <1>2. CASE Migrate \/ SkipMigrations
    BY <1>2 DEF Migrate, SkipMigrations, parts, outside
  <1>3. CASE FirstCheck \/ SeedUsers
    <2>1. stage \in {"check", "users"} /\ stage' \in {"jobs", "sockets"}
          /\ (stage = "users" <=> stage' = "sockets")
          /\ UNCHANGED <<exit, ready, pool, boss, bus, redis, http, schema>>
      BY <1>3 DEF FirstCheck, SeedUsers, parts, outside
    <2> QED
      BY <2>1
  <1>4. CASE StartJobs
    BY <1>4 DEF StartJobs, outside
  <1>5. CASE StartSockets
    BY <1>5 DEF StartSockets, outside
  <1>6. CASE FailStart \/ Kill \/ EndPool \/ ForceExit
    BY <1>6, Gone DEF FailStart, Kill, EndPool, ForceExit
  <1>7. CASE Signal
    BY <1>7 DEF Signal, parts, outside
  <1>8. CASE CloseHttp
    BY <1>8 DEF CloseHttp, outside
  <1>9. CASE HttpClosed \/ Cut \/ CutClosed
    BY <1>9 DEF HttpClosed, Cut, CutClosed, parts, outside
  <1>10. CASE StopParts
    BY <1>10 DEF StopParts, outside
  <1>11. CASE JobsStopped
    BY <1>11 DEF JobsStopped, outside
  <1>12. CASE CloseRedis
    BY <1>12 DEF CloseRedis, outside
  <1>13. CASE OtherUnlocks
    BY <1>13 DEF OtherUnlocks, process, parts
  <1>14. CASE \/ LockMigrations \/ CheckBegins \/ CheckEnds
              \/ DatabaseFlips \/ OtherLocks \/ BalancerAsks \/ Tick
    BY <1>0, <1>14 DEF LockMigrations, CheckBegins, CheckEnds, DatabaseFlips, OtherLocks,
       BalancerAsks, Tick, outside
  <1>15. ASSUME NEW r \in Requests, Send(r) \/ Answer(r) PROVE PartsOf'
    BY <1>0, <1>15 DEF Send, Answer, outside
  <1>16. ASSUME NEW c \in Clients, Arrive(c) \/ Leave(c) PROVE PartsOf'
    BY <1>0, <1>16 DEF Arrive, Leave, outside
  <1>17. ASSUME NEW j \in Jobs, Take(j) \/ EndJob(j) PROVE PartsOf'
    BY <1>0, <1>17 DEF Take, EndJob, outside
  <1> QED
    BY <1>0, <1>1, <1>2, <1>3, <1>4, <1>5, <1>6, <1>7, <1>8, <1>9, <1>10, <1>11, <1>12, <1>13,
       <1>14, <1>15, <1>16, <1>17 DEF Next, Start, Stop, vars, outside

\* Work begins only in the stages WorkOf names, and has ended when they are left.
LEMMA WorkStep == TypeOK /\ PartsOf /\ Balanced /\ WorkOf /\ [Next]_vars => WorkOf'
  <1> SUFFICES ASSUME TypeOK, PartsOf, Balanced, WorkOf, [Next]_vars PROVE WorkOf'
    OBVIOUS
  <1>0. CASE UNCHANGED <<stage, work>>
    BY <1>0 DEF WorkOf, work, Running, Active
  <1>1. CASE \/ Listen \/ Connect \/ Migrate \/ SkipMigrations \/ FirstCheck \/ StartJobs
             \/ SeedUsers \/ StartSockets \/ Signal \/ CloseHttp \/ HttpClosed \/ CutClosed
             \/ CloseRedis
    BY <1>1 DEF Listen, Connect, Migrate, SkipMigrations, FirstCheck, StartJobs, SeedUsers,
       StartSockets, Signal, CloseHttp, HttpClosed, CutClosed, CloseRedis, WorkOf, work, Running,
       Active
  <1>2. CASE FailStart \/ Kill \/ EndPool \/ ForceExit
    <2>1. Running' = {} /\ clients' = {} /\ Active' = {}
      BY <1>2 DEF FailStart, Kill, EndPool, ForceExit, Die, Running, Active, TypeOK
    <2> QED
      BY <2>1 DEF WorkOf
  <1>3. CASE Cut
    <2>1. Running' = {} /\ Active' = Active /\ clients' = clients
      BY <1>3 DEF Cut, Running, Active, TypeOK
    <2> QED
      BY <1>3, <2>1 DEF Cut, WorkOf
  <1>4. CASE StopParts
    BY <1>4 DEF StopParts, WorkOf, Running, Active
  <1>5. CASE JobsStopped
    <2>1. Running' = Running /\ Active' = {} /\ clients' = clients
      BY <1>5 DEF JobsStopped, Running, Active, TypeOK
    <2> QED
      BY <1>5, <2>1 DEF JobsStopped, WorkOf
  <1>6. ASSUME NEW r \in Requests, Send(r) PROVE WorkOf'
    <2>1. CASE http = "open"
      <3>1. stage \in {"up", "draining"}
        BY <1>6, <2>1 DEF Send, Balanced, PartsOf, Starting
      <3> QED
        BY <1>6, <3>1 DEF Send, WorkOf, process, Running, Active
    <2>2. CASE http # "open"
      <3>1. Running' = Running
        BY <1>6, <2>2 DEF Send, Running, TypeOK
      <3> QED
        BY <1>6, <3>1 DEF Send, WorkOf, process, Active
    <2> QED
      BY <2>1, <2>2
  <1>7. ASSUME NEW r \in Requests, Answer(r) PROVE WorkOf'
    <2>1. Running' \subseteq Running
      BY <1>7 DEF Answer, Running, TypeOK
    <2> QED
      BY <1>7, <2>1 DEF Answer, WorkOf, process, Active
  <1>8. ASSUME NEW c \in Clients, Arrive(c) PROVE WorkOf'
    <2>1. stage \in {"up", "draining"}
      BY <1>8 DEF Arrive, Balanced, PartsOf, Starting
    <2> QED
      BY <1>8, <2>1 DEF Arrive, WorkOf, process, Running, Active
  <1>9. ASSUME NEW c \in Clients, Leave(c) PROVE WorkOf'
    BY <1>9 DEF Leave, WorkOf, process, Running, Active
  <1>10. ASSUME NEW j \in Jobs, Take(j) PROVE WorkOf'
    <2>1. stage \in {"users", "sockets", "up", "draining", "closing", "cutting", "released"}
      BY <1>10 DEF Take, PartsOf
    <2> QED
      BY <1>10, <2>1 DEF Take, WorkOf, process, Running, Active
  <1>11. ASSUME NEW j \in Jobs, EndJob(j) PROVE WorkOf'
    <2>1. Active' \subseteq Active
      BY <1>11 DEF EndJob, Active, TypeOK
    <2> QED
      BY <1>11, <2>1 DEF EndJob, WorkOf, process, Running
  <1>12. CASE \/ LockMigrations \/ CheckBegins \/ CheckEnds
              \/ DatabaseFlips \/ OtherLocks \/ OtherUnlocks \/ BalancerAsks \/ Tick
    BY <1>0, <1>12 DEF LockMigrations, CheckBegins, CheckEnds, DatabaseFlips, OtherLocks,
       OtherUnlocks, BalancerAsks, Tick, process
  <1> QED
    BY <1>0, <1>1, <1>2, <1>3, <1>4, <1>5, <1>6, <1>7, <1>8, <1>9, <1>10, <1>11, <1>12
       DEF Next, Start, Stop, vars, process

\* A process that stops is no longer asked for anything once it has closed its server.
LEMMA BalancedStep == TypeOK /\ PartsOf /\ Balanced /\ [Next]_vars => Balanced'
  <1> SUFFICES ASSUME TypeOK, PartsOf, Balanced, [Next]_vars PROVE Balanced'
    OBVIOUS
  <1> USE Times
  <1>0. CASE UNCHANGED <<process, request, balancer, probeIn, since, deadline>>
    BY <1>0 DEF Balanced, NoneRefused, process
  <1>1. CASE Start /\ ~ FailStart
    <2>1. stage \in Starting /\ stage' \notin {"draining"} /\ exit' = exit
          /\ UNCHANGED <<request, balancer, probeIn>>
      BY <1>1 DEF Start, Listen, Connect, LockMigrations, Migrate, SkipMigrations, FirstCheck,
         StartJobs, SeedUsers, StartSockets, Starting, work, outside, process
    <2>2. stage \notin {"up", "draining"}
      BY <2>1 DEF Starting
    <2> QED
      BY <2>1, <2>2 DEF Balanced, NoneRefused
  <1>2. ASSUME NEW code \in {"failed", "killed", "clean", "forced"}, Die(code), stage # "exited",
               code # "killed" => ~ balancer
        PROVE  Balanced'
    <2>1. \A r \in Requests : request'[r] # "refused"
      <3>1. exit = "none"
        BY <1>2 DEF PartsOf
      <3>2. \A r \in Requests : request[r] # "refused"
        BY <3>1 DEF Balanced, NoneRefused
      <3> QED
        BY <1>2, <3>2 DEF Die, TypeOK
    <2>2. exit' = code /\ stage' = "exited" /\ UNCHANGED <<balancer, probeIn>>
      BY <1>2 DEF Die
    <2> QED
      BY <1>2, <2>1, <2>2 DEF Balanced, NoneRefused
  <1>3. CASE FailStart \/ Kill
    <2>1. FailStart => ~ balancer /\ stage # "exited"
      BY DEF FailStart, Balanced, PartsOf
    <2> QED
      BY <1>2, <1>3, <2>1 DEF FailStart, Kill
  <1>4. CASE EndPool \/ ForceExit
    <2>1. stage # "exited"
      BY <1>4 DEF EndPool, ForceExit, Stopping
    <2>2. ~ balancer
      <3>1. exit = "none" /\ stage # "up"
        BY <1>4, <2>1 DEF PartsOf, EndPool, ForceExit, Stopping
      <3>2. CASE stage = "draining"
        <4>1. since = ForceAfter
          BY <1>4, <3>2 DEF EndPool, ForceExit
        <4> QED
          BY <3>2, <4>1 DEF Balanced, TypeOK
      <3> QED
        BY <3>1, <3>2 DEF Balanced
    <2> QED
      BY <1>2, <1>4, <2>1, <2>2 DEF EndPool, ForceExit
  <1>5. CASE Signal
    BY <1>5 DEF Signal, Balanced, NoneRefused, TypeOK, PartsOf, outside, work
  <1>6. CASE CloseHttp
    <2>1. ~ balancer
      BY <1>6 DEF CloseHttp, Balanced, PartsOf, TypeOK
    <2> QED
      BY <1>6, <2>1 DEF CloseHttp, Balanced, NoneRefused, outside, work
  <1>7. CASE HttpClosed \/ CutClosed \/ StopParts \/ JobsStopped \/ CloseRedis
    <2>1. /\ stage \notin {"up", "draining"} /\ stage' \notin {"up", "draining"}
          /\ UNCHANGED <<exit, request, balancer, probeIn>>
      BY <1>7 DEF HttpClosed, CutClosed, StopParts, JobsStopped, CloseRedis, work, outside
    <2> QED
      BY <2>1 DEF Balanced, NoneRefused
  <1>8. CASE Cut
    <2>1. \A r \in Requests : request'[r] = "refused" => request[r] = "refused"
      BY <1>8 DEF Cut, TypeOK
    <2> QED
      BY <1>8, <2>1 DEF Cut, Balanced, NoneRefused, outside
  <1>9. ASSUME NEW r \in Requests, Send(r) PROVE Balanced'
    <2>1. http = "open" \/ exit = "killed"
      BY <1>9 DEF Send, Balanced, PartsOf
    <2>2. \A s \in Requests : request'[s] = "refused" => request[s] = "refused" \/ exit = "killed"
      BY <1>9, <2>1 DEF Send, TypeOK
    <2> QED
      BY <1>9, <2>2 DEF Send, Balanced, NoneRefused, process, outside, timing
  <1>10. ASSUME NEW r \in Requests, Answer(r) PROVE Balanced'
    <2>1. \A s \in Requests : request'[s] = "refused" => request[s] = "refused"
      BY <1>10 DEF Answer, TypeOK
    <2> QED
      BY <1>10, <2>1 DEF Answer, Balanced, NoneRefused, process, outside, timing
  <1>11. CASE BalancerAsks
    <2>1. balancer' => stage = "up"
      BY <1>11 DEF BalancerAsks, Answers200, PartsOf
    <2>2. /\ probeIn' = ProbeEvery
          /\ UNCHANGED <<stage, exit, request, deadline, since>>
      BY <1>11 DEF BalancerAsks, process, work, timing
    <2> QED
      BY <2>1, <2>2 DEF Balanced, NoneRefused
  <1>12. CASE Tick
    <2>1. /\ probeIn' = probeIn - 1 /\ since' = since + 1
          /\ UNCHANGED <<stage, exit, request, deadline, balancer>>
      BY <1>12 DEF Tick, process, work
    <2> QED
      BY <2>1 DEF Balanced, NoneRefused, TypeOK
  <1>13. \/ CheckBegins \/ CheckEnds \/ DatabaseFlips \/ OtherLocks \/ OtherUnlocks
         \/ (\E c \in Clients : Arrive(c) \/ Leave(c)) \/ (\E j \in Jobs : Take(j) \/ EndJob(j))
         \/ UNCHANGED vars
         => UNCHANGED <<process, request, balancer, probeIn, since, deadline>>
    BY DEF CheckBegins, CheckEnds, DatabaseFlips, OtherLocks, OtherUnlocks, Arrive, Leave, Take,
       EndJob, vars, work, outside, timing, process
  <1> QED
    BY <1>0, <1>1, <1>3, <1>4, <1>5, <1>6, <1>7, <1>8, <1>9, <1>10, <1>11, <1>12, <1>13
       DEF Next, Start, Stop

\* The stages keep their time, but for the waits that have no limit of their own.
LEMMA TimelyStep == TypeOK /\ PartsOf /\ Balanced /\ Timely /\ [Next]_vars => Timely'
  <1> SUFFICES ASSUME TypeOK, PartsOf, Balanced, Timely, [Next]_vars PROVE Timely'
    OBVIOUS
  <1> USE Times DEF Timely, ForcedOnlyHeld, TypeOK
  <1>0. CASE UNCHANGED <<process, timing>>
    BY <1>0 DEF process, timing
  <1>1. CASE Start /\ ~ FailStart
    <2>1. stage \in Starting /\ stage' \in Starting \cup {"up"} /\ exit' = exit
          /\ UNCHANGED timing
      BY <1>1 DEF Start, Listen, Connect, LockMigrations, Migrate, SkipMigrations, FirstCheck,
         StartJobs, SeedUsers, StartSockets, Starting, timing, process
    <2> QED
      BY <2>1 DEF Starting, timing
  <1>2. CASE FailStart \/ Kill \/ EndPool
    BY <1>2 DEF FailStart, Kill, EndPool, Die, timing
  <1>3. CASE ForceExit
    <2>1. waited # 0
      BY <1>3 DEF ForceExit, Stopping, Balanced
    <2> QED
      BY <1>3, <2>1 DEF ForceExit, Die, timing
  <1>4. CASE Signal
    BY <1>4 DEF Signal, PartsOf
  <1>5. CASE CloseHttp
    BY <1>5 DEF CloseHttp, Balanced
  <1>6. CASE HttpClosed \/ Cut \/ CutClosed
    BY <1>6 DEF HttpClosed, Cut, CutClosed, timing
  <1>7. CASE StopParts
    BY <1>7 DEF StopParts
  <1>8. CASE JobsStopped
    BY <1>8 DEF JobsStopped, timing
  <1>9. CASE CloseRedis
    BY <1>9 DEF CloseRedis, timing
  <1>10. CASE Tick
    <2>1. since' = since + 1 /\ UNCHANGED <<deadline, stage, exit>>
      BY <1>10 DEF Tick, process
    <2>2. waited' = 0 => waited = 0 /\ stage \notin {"cutting", "ending"}
      BY <1>10 DEF Tick
    <2>3. waited' = 0 => stage \in {"draining", "closing", "stopping"} /\ since < deadline
      BY <1>10, <2>2 DEF Tick, Waiting
    <2>4. waited' = 0 \/ waited' > 0
      BY <1>10 DEF Tick
    <2>5. waited > 0 => waited' > 0
      BY <1>10 DEF Tick
    <2> QED
      BY <2>1, <2>2, <2>3, <2>4, <2>5
  <1>11. \/ CheckBegins \/ CheckEnds \/ DatabaseFlips \/ OtherLocks \/ OtherUnlocks \/ BalancerAsks
         \/ (\E r \in Requests : Send(r) \/ Answer(r))
         \/ (\E c \in Clients : Arrive(c) \/ Leave(c)) \/ (\E j \in Jobs : Take(j) \/ EndJob(j))
         \/ UNCHANGED vars
         => UNCHANGED <<process, timing>>
    BY DEF CheckBegins, CheckEnds, DatabaseFlips, OtherLocks, OtherUnlocks, BalancerAsks, Send,
       Answer, Arrive, Leave, Take, EndJob, vars, outside
  <1> QED
    BY <1>0, <1>1, <1>2, <1>3, <1>4, <1>5, <1>6, <1>7, <1>8, <1>9, <1>10, <1>11
       DEF Next, Start, Stop

-----------------------------------------------------------------------------
(* Theorems *)

LEMMA Invariance == Spec => []IInv
  <1>1. Init => IInv
    <2> SUFFICES ASSUME Init PROVE IInv
      OBVIOUS
    <2>1. Running = {} /\ Active = {} /\ clients = {}
      BY DEF Init, Running, Active
    <2>2. WorkOf
      BY <2>1 DEF WorkOf
    <2>3. PartsOf
      BY DEF Init, PartsOf, Starting
    <2>4. Balanced
      BY Times DEF Init, Balanced, NoneRefused
    <2>5. Timely
      BY Times DEF Init, Timely, ForcedOnlyHeld
    <2> QED
      BY <2>2, <2>3, <2>4, <2>5, InitTypeOK DEF IInv
  <1>2. IInv /\ [Next]_vars => IInv'
    BY TypeStep, PartsStep, WorkStep, BalancedStep, TimelyStep DEF IInv
  <1> QED
    BY <1>1, <1>2, PTL DEF Spec

\* Every variable keeps its type.
THEOREM TypeCorrect == Spec => []TypeOK
  <1>1. IInv => TypeOK
    BY DEF IInv
  <1> QED
    BY <1>1, Invariance, PTL

\* A process that says it is ready has all its parts, and one that stops refuses nobody.
THEOREM ReadyRightHolds == Spec => []ReadyRight
  <1>1. IInv => ReadyRight
    BY DEF IInv, ReadyRight, ReadyMeansUp, Answers200, Balanced, PartsOf
  <1> QED
    BY <1>1, Invariance, PTL

\* Work finds the parts of the process it needs.
THEOREM WorkFindsPartsHolds == Spec => []WorkFindsParts
  <1>1. IInv => WorkFindsParts
    BY DEF IInv, WorkFindsParts, WorkOf, PartsOf, Starting
  <1> QED
    BY <1>1, Invariance, PTL

\* A stop is forced only when something that has no limit of its own held it.
THEOREM ForcedOnlyHeldHolds == Spec => []ForcedOnlyHeld
  <1>1. IInv => ForcedOnlyHeld
    BY DEF IInv, Timely
  <1> QED
    BY <1>1, Invariance, PTL

-----------------------------------------------------------------------------
(* The connections (Sockets): what each is and waits for *)

\* Only a watched connection has timers, and a token on the way.
Watched(s) ==
  /\ conn[s].stage # "watched" =>
       conn[s].expiryAt = 0 /\ conn[s].graceAt = 0 /\ verified[s] = None
  /\ conn[s].room => conn[s].stage = "watched"
  /\ conn[s].member => Open(s) /\ conn[s].noted
  /\ s \in asking => Open(s)

\* When the timer set by _schedule is due
DueAt(c) == Later(c.exp, c.armed)

\* One timer of a watched connection runs, the second after the first, and none is late.
Timed(s) ==
  conn[s].stage = "watched" =>
    /\ conn[s].exp > 0
    /\ \/ conn[s].expiryAt = DueAt(conn[s]) /\ conn[s].graceAt = 0 /\ now <= conn[s].expiryAt
       \/ /\ conn[s].expiryAt = 0 /\ now <= conn[s].graceAt
          /\ conn[s].graceAt = DueAt(conn[s]) + Grace

\* The end of a token that may have been issued for a session
Issued(x, e) ==
  e > 0 /\ e <= now + TokenLife /\ (ended[x] # Never => e <= ended[x] + TokenLife)

Tokens(s) ==
  /\ Open(s) => Issued(SessionOf[s], conn[s].exp)
  /\ verified[s] # None => Issued(verified[s].session, verified[s].exp)

Sound(s) == Watched(s) /\ Timed(s) /\ Tokens(s)

TimeInv == SocketsTypeOK /\ \A s \in Sockets : Sound(s)

\* The verdict of a review is that of its check.
Undecided ==
  \A v \in Changes : review[v].step \in {"free", "wanted", "fetched"} => review[v].ok = FALSE

\* A review that will still look for the connection, or put it out.
Reviews(v, s) ==
  /\ review[v].of = Owner(s)
  /\ \/ review[v].step = "wanted"
     \/ review[v].step \in {"fetched", "decided"} /\ s \in review[v].found /\ review[v].ok = FALSE

Reviewed ==
  \A s \in Sockets :
    conn[s].member /\ Owner(s) \notin right => s \in late \/ \E v \in Changes : Reviews(v, s)

-----------------------------------------------------------------------------
(* What the steps make of the connections *)

LEMMA SocketTimes ==
  TokenLife \in Nat \ {0} /\ Grace \in Nat \ {0} /\ MaxTime \in Nat /\ MaxFailures \in Nat
BY SocketTimesAssumption

LEMMA AtType ==
  At("new") \in Conn /\ At("connected") \in Conn /\ At("closed") \in Conn
BY DEF At, Conn, SocketStages

LEMMA OwnerType == \A s \in Sockets : SessionOf[s] \in Sessions /\ Owner(s) \in Users
BY SocketsAssumption DEF Owner

\* One connection changes.
Changed(s, c) ==
  /\ conn' \in [Sockets -> Conn]
  /\ conn'[s] = c
  /\ \A t \in Sockets : t # s => conn'[t] = conn[t]

LEMMA OneChanges ==
  ASSUME SocketsTypeOK, NEW s \in Sockets, NEW c \in Conn, conn' = [conn EXCEPT ![s] = c]
  PROVE  Changed(s, c)
BY DEF SocketsTypeOK, Changed

LEMMA AcceptedIssued ==
  ASSUME SocketsTypeOK, NEW x \in Sessions, NEW e \in Accepted(x)
  PROVE  e \in Nat /\ Issued(x, e)
<1>1. now \in Nat
  BY SocketTimes DEF SocketsTypeOK
<1>2. QED
  BY <1>1, SocketTimes DEF Accepted, Issued

LEMMA HandshakeTurns ==
  ASSUME SocketsTypeOK, NEW s \in Sockets, Handshake(s)
  PROVE  \E e \in Nat :
           Issued(SessionOf[s], e) /\ Changed(s, [At("connected") EXCEPT !.exp = e])
<1>1. PICK e \in Accepted(SessionOf[s]) :
        conn' = [conn EXCEPT ![s] = [At("connected") EXCEPT !.exp = e]]
  BY DEF Handshake
<1>2. e \in Nat /\ Issued(SessionOf[s], e)
  BY AcceptedIssued, OwnerType
<1>3. [At("connected") EXCEPT !.exp = e] \in Conn
  BY <1>2, AtType DEF Conn
<1>4. QED
  BY <1>1, <1>2, <1>3, OneChanges

LEMMA EnterTurns ==
  ASSUME SocketsTypeOK, NEW s \in Sockets, Enter(s)
  PROVE  \E c \in Conn :
           /\ Changed(s, c) /\ c.exp = conn[s].exp
           /\ c.member = conn[s].member /\ c.noted = conn[s].noted
           /\ \/ /\ c.stage = "watched" /\ c.armed = now
                 /\ c.expiryAt = Later(c.exp, now) /\ c.graceAt = 0
              \/ /\ c.stage = "failed" /\ c.room = conn[s].room
                 /\ c.expiryAt = conn[s].expiryAt /\ c.graceAt = conn[s].graceAt
<1>1. conn[s] \in Conn /\ now \in Nat
  BY SocketTimes DEF SocketsTypeOK
<1>2. CASE conn' = [conn EXCEPT ![s] = [Armed(@) EXCEPT !.stage = "watched", !.room = TRUE]]
  <2> DEFINE c == [Armed(conn[s]) EXCEPT !.stage = "watched", !.room = TRUE]
  <2>1. c \in Conn
    BY <1>1 DEF Armed, Later, Conn, SocketStages
  <2>2. Changed(s, c)
    BY <1>2, <2>1, OneChanges
  <2>3. /\ c.exp = conn[s].exp /\ c.member = conn[s].member /\ c.noted = conn[s].noted
        /\ c.stage = "watched" /\ c.armed = now
        /\ c.expiryAt = Later(c.exp, now) /\ c.graceAt = 0
    BY <1>1 DEF Armed, Conn
  <2>4. QED
    BY <2>1, <2>2, <2>3
<1>3. CASE conn' = [conn EXCEPT ![s].stage = "failed"]
  <2> DEFINE c == [conn[s] EXCEPT !.stage = "failed"]
  <2>1. c \in Conn
    BY <1>1 DEF Conn, SocketStages
  <2>2. Changed(s, c)
    BY <1>3, <2>1, OneChanges
  <2>3. QED
    BY <1>1, <2>1, <2>2 DEF Conn
<1>4. QED
  BY <1>2, <1>3 DEF Enter

LEMMA ExpireTurns ==
  ASSUME SocketsTypeOK, NEW s \in Sockets, Expire(s)
  PROVE  Changed(s, [conn[s] EXCEPT !.expiryAt = 0, !.graceAt = now + Grace])
<1>1. conn[s] \in Conn /\ now \in Nat
  BY SocketTimes DEF SocketsTypeOK
<1>2. [conn[s] EXCEPT !.expiryAt = 0, !.graceAt = now + Grace] \in Conn
  <2>1. now + Grace \in Nat
    BY <1>1, SocketTimes
  <2>2. QED
    BY <1>1, <2>1 DEF Conn
<1>3. conn' = [conn EXCEPT ![s] = [conn[s] EXCEPT !.expiryAt = 0, !.graceAt = now + Grace]]
  BY <1>1 DEF Expire, SocketsTypeOK
<1>4. QED
  BY <1>2, <1>3, OneChanges

LEMMA RefreshTurns ==
  ASSUME SocketsTypeOK, NEW s \in Sockets, Refresh(s)
  PROVE  \/ conn' = conn
         \/ verified[s].session = SessionOf[s] /\ Changed(s, Refreshed(conn[s], verified[s]))
<1>1. conn[s] \in Conn /\ now \in Nat /\ verified[s].exp \in Nat
  BY SocketTimes DEF SocketsTypeOK, Refresh
<1>2. Refreshed(conn[s], verified[s]) \in Conn
  BY <1>1 DEF Refreshed, Armed, Later, Conn
<1>3. QED
  BY <1>2, OneChanges DEF Refresh, SameSession

LEMMA JoinTurns ==
  ASSUME SocketsTypeOK, NEW s \in Sockets, Join(s)
  PROVE  Changed(s, [conn[s] EXCEPT !.member = TRUE, !.noted = TRUE])
<1>1. conn[s] \in Conn
  BY DEF SocketsTypeOK
<1>2. [conn[s] EXCEPT !.member = TRUE, !.noted = TRUE] \in Conn
  BY <1>1 DEF Conn
<1>3. conn' = [conn EXCEPT ![s] = [conn[s] EXCEPT !.member = TRUE, !.noted = TRUE]]
  BY DEF Join, SocketsTypeOK
<1>4. QED
  BY <1>2, <1>3, OneChanges

LEMMA UnsubscribeTurns ==
  ASSUME SocketsTypeOK, NEW s \in Sockets, Unsubscribe(s)
  PROVE  Changed(s, [conn[s] EXCEPT !.member = FALSE, !.noted = FALSE])
<1>1. conn[s] \in Conn
  BY DEF SocketsTypeOK
<1>2. [conn[s] EXCEPT !.member = FALSE, !.noted = FALSE] \in Conn
  BY <1>1 DEF Conn
<1>3. conn' = [conn EXCEPT ![s] = [conn[s] EXCEPT !.member = FALSE, !.noted = FALSE]]
  BY DEF Unsubscribe, SocketsTypeOK
<1>4. QED
  BY <1>2, <1>3, OneChanges

\* What a closing leaves of each connection.
ClosesOrStays(s) ==
  \/ conn'[s] = conn[s] /\ verified'[s] = verified[s] /\ (s \in asking' => s \in asking)
  \/ conn'[s] = At("closed") /\ verified'[s] = None /\ s \notin asking'
  \/ conn'[s] = conn[s] /\ ~Open(s) /\ verified'[s] = None /\ s \notin asking'

LEMMA CloseTurns ==
  ASSUME SocketsTypeOK, NEW S \in SUBSET Sockets, NEW lost \in SUBSET Sockets, CloseBut(S, lost)
  PROVE  /\ conn' \in [Sockets -> Conn]
         /\ asking' \subseteq Sockets /\ late' \subseteq Sockets
         /\ verified' \in [Sockets -> [session : Sessions, exp : Nat] \cup {None}]
         /\ \A s \in Sockets : ClosesOrStays(s)
<1>1. \A s \in Sockets : conn[s] \in Conn
  BY DEF SocketsTypeOK
<1>2. conn' = [s \in Sockets |-> IF s \in S /\ Open(s) THEN At("closed") ELSE conn[s]]
  BY DEF CloseBut
<1>3. verified' = [s \in Sockets |-> IF s \in S THEN None ELSE verified[s]]
  BY DEF CloseBut
<1>4. conn' \in [Sockets -> Conn]
  BY <1>1, <1>2, AtType
<1>5. verified' \in [Sockets -> [session : Sessions, exp : Nat] \cup {None}]
  BY <1>3 DEF SocketsTypeOK
<1>6. asking' = asking \ S /\ late' = (late \cup lost) \ S
  BY DEF CloseBut
<1>7. ASSUME NEW s \in Sockets PROVE ClosesOrStays(s)
  BY <1>2, <1>3, <1>6 DEF ClosesOrStays
<1>8. QED
  BY <1>4, <1>5, <1>6, <1>7 DEF SocketsTypeOK

-----------------------------------------------------------------------------
(* The type of the connections *)

LEMMA SocketsTypeStep ==
  SocketsTypeOK /\ [SocketsNext]_socketsVars => SocketsTypeOK'
<1> SUFFICES ASSUME SocketsTypeOK, [SocketsNext]_socketsVars PROVE SocketsTypeOK'
  OBVIOUS
<1> USE DEF access, ends, rights
<1>1. now \in Nat /\ now <= MaxTime /\ failures \in 0..MaxFailures
  BY SocketTimes DEF SocketsTypeOK
<1>2. Fails => failures' \in 0..MaxFailures
  BY <1>1, SocketTimes DEF Fails
<1>3. ASSUME NEW s \in Sockets, Handshake(s) PROVE SocketsTypeOK'
  BY <1>3, HandshakeTurns DEF Handshake, Changed, SocketsTypeOK
<1>4. ASSUME NEW s \in Sockets, Enter(s) PROVE SocketsTypeOK'
  <2>1. failures' \in 0..MaxFailures
    BY <1>1, <1>2, <1>4 DEF Enter
  <2>2. QED
    BY <1>4, <2>1, EnterTurns DEF Enter, Changed, SocketsTypeOK
<1>5. ASSUME NEW s \in Sockets, Disconnect(s) \/ GraceOver(s) PROVE SocketsTypeOK'
  <2>1. CloseBut({s}, {}) /\ {s} \in SUBSET Sockets /\ {} \in SUBSET Sockets
    BY <1>5 DEF Disconnect, GraceOver, Close
  <2>2. UNCHANGED <<now, ends, rights, failures>>
    BY <1>5 DEF Disconnect, GraceOver
  <2>3. QED
    BY <2>1, <2>2, CloseTurns DEF SocketsTypeOK
<1>6. ASSUME NEW s \in Sockets, Expire(s) PROVE SocketsTypeOK'
  BY <1>6, ExpireTurns DEF Expire, Changed, SocketsTypeOK
<1>7. ASSUME NEW s \in Sockets, Verify(s) PROVE SocketsTypeOK'
  <2>1. PICK x \in Sessions : \E e \in Accepted(x) :
          verified' = [verified EXCEPT ![s] = [session |-> x, exp |-> e]]
    BY <1>7 DEF Verify
  <2>2. \A e \in Accepted(x) : e \in Nat
    BY AcceptedIssued
  <2>3. verified' \in [Sockets -> [session : Sessions, exp : Nat] \cup {None}]
    BY <2>1, <2>2 DEF SocketsTypeOK
  <2>4. QED
    BY <1>7, <2>3 DEF Verify, SocketsTypeOK
<1>8. ASSUME NEW s \in Sockets, Refresh(s) PROVE SocketsTypeOK'
  <2>1. conn' \in [Sockets -> Conn]
    BY <1>8, RefreshTurns DEF Changed, SocketsTypeOK
  <2>2. verified' \in [Sockets -> [session : Sessions, exp : Nat] \cup {None}]
    BY <1>8 DEF Refresh, SocketsTypeOK
  <2>3. QED
    BY <1>8, <2>1, <2>2 DEF Refresh, SocketsTypeOK
<1>9. ASSUME NEW x \in Sessions, EndSession(x) PROVE SocketsTypeOK'
  <2>1. ended' \in [Sessions -> Nat \cup {Never}]
    BY <1>1, <1>9 DEF EndSession, SocketsTypeOK
  <2>2. refused' \subseteq Sessions /\ telling' \subseteq Sessions
    BY <1>9 DEF EndSession, SocketsTypeOK
  <2>3. failures' \in 0..MaxFailures
    BY <1>1, <1>2, <1>9 DEF EndSession
  <2>4. QED
    BY <1>9, <2>1, <2>2, <2>3 DEF EndSession, SocketsTypeOK
<1>10. ASSUME NEW x \in Sessions, DisconnectSession(x) PROVE SocketsTypeOK'
  <2> DEFINE S == {s \in InRoom(UserOf[x]) : SessionOf[s] = x}
  <2>1. S \in SUBSET Sockets /\ {} \in SUBSET Sockets
    BY DEF InRoom, SocketsOf
  <2>2. /\ telling' \subseteq Sessions
        /\ UNCHANGED <<now, ended, refused, purging, deleted, rights>>
    BY <1>10 DEF DisconnectSession, SocketsTypeOK
  <2>3. CASE CloseBut(S, {}) /\ UNCHANGED failures
    BY <2>1, <2>2, <2>3, CloseTurns DEF SocketsTypeOK
  <2>4. CASE Fails /\ UNCHANGED <<conn, access, late>>
    BY <1>2, <2>2, <2>4 DEF SocketsTypeOK
  <2>5. QED
    BY <1>10, <2>3, <2>4 DEF DisconnectSession, Close
<1>11. ASSUME NEW u \in Users, DeleteUser(u) PROVE SocketsTypeOK'
  <2>1. ended' \in [Sessions -> Nat \cup {Never}]
    <3>1. ended' = [x \in Sessions |-> IF UserOf[x] = u /\ ended[x] = Never THEN now ELSE ended[x]]
      BY <1>11 DEF DeleteUser
    <3>2. \A x \in Sessions : ended[x] \in Nat \cup {Never}
      BY DEF SocketsTypeOK
    <3>3. QED
      BY <1>1, <3>1, <3>2
  <2>2. CloseBut(InRoom(u), Members(u)) /\ InRoom(u) \in SUBSET Sockets /\ Members(u) \in SUBSET Sockets
    BY <1>11 DEF DeleteUser, InRoom, Members, SocketsOf
  <2>3. purging' \subseteq deleted' /\ deleted' \subseteq Users /\ right' \subseteq Users
    BY <1>11 DEF DeleteUser, SocketsTypeOK
  <2>4. UNCHANGED <<now, refused, telling, review, failures>>
    BY <1>11 DEF DeleteUser
  <2>5. QED
    BY <2>1, <2>2, <2>3, <2>4, CloseTurns DEF SocketsTypeOK
<1>12. ASSUME NEW u \in Users, RevokeUser(u) PROVE SocketsTypeOK'
  <2>1. InRoom(u) \in SUBSET Sockets /\ {} \in SUBSET Sockets
    BY DEF InRoom, SocketsOf
  <2>2. /\ purging' \subseteq deleted
        /\ UNCHANGED <<now, ended, telling, deleted, rights>>
    BY <1>12 DEF RevokeUser, SocketsTypeOK
  <2>3. CASE /\ refused' = refused \cup {x \in Sessions : UserOf[x] = u}
             /\ CloseBut(InRoom(u), {}) /\ UNCHANGED failures
    BY <2>1, <2>2, <2>3, CloseTurns DEF SocketsTypeOK
  <2>4. CASE Fails /\ UNCHANGED <<conn, access, refused, late>>
    BY <1>2, <2>2, <2>4 DEF SocketsTypeOK
  <2>5. QED
    BY <1>12, <2>3, <2>4 DEF RevokeUser, Close
<1>13. ASSUME NEW s \in Sockets, Ask(s) PROVE SocketsTypeOK'
  BY <1>13 DEF Ask, SocketsTypeOK
<1>14. ASSUME NEW s \in Sockets, Join(s) PROVE SocketsTypeOK'
  BY <1>14, JoinTurns DEF Join, Changed, SocketsTypeOK
<1>15. ASSUME NEW s \in Sockets, Unsubscribe(s) PROVE SocketsTypeOK'
  BY <1>15, UnsubscribeTurns DEF Unsubscribe, Changed, SocketsTypeOK
<1>16. ASSUME NEW v \in Changes, ChangeRight(v) PROVE SocketsTypeOK'
  <2>1. review' \in [Changes -> Review]
    BY <1>16 DEF ChangeRight, Review, SocketsTypeOK
  <2>2. right' \subseteq Users
    BY <1>16 DEF ChangeRight, Review, SocketsTypeOK
  <2>3. QED
    BY <1>16, <2>1, <2>2 DEF ChangeRight, SocketsTypeOK
<1>17. ASSUME NEW v \in Changes, FetchSockets(v) PROVE SocketsTypeOK'
  <2> DEFINE members == Members(review[v].of)
             found == {s \in members : conn[s].room /\ conn[s].noted}
  <2>1. members \subseteq Sockets /\ found \subseteq Sockets
    BY DEF Members, SocketsOf
  <2>2. review' \in [Changes -> Review] /\ late' \subseteq Sockets /\ failures' \in 0..MaxFailures
    <3>1. CASE /\ review' = [review EXCEPT ![v].step = IF found = {} THEN "over" ELSE "fetched",
                                         ![v].found = found]
               /\ late' = late \cup {s \in members : ~conn[s].room}
               /\ UNCHANGED failures
      <4>1. review' \in [Changes -> Review]
        <5> DEFINE next == IF found = {} THEN "over" ELSE "fetched"
        <5>1. review[v] \in Review /\ next \in {"over", "fetched"}
          BY DEF SocketsTypeOK
        <5>2. [review[v] EXCEPT !.step = next, !.found = found] \in Review
          BY <2>1, <5>1 DEF Review
        <5>3. review' = [review EXCEPT ![v] = [review[v] EXCEPT !.step = next, !.found = found]]
          BY <3>1 DEF SocketsTypeOK
        <5>4. QED
          BY <5>2, <5>3 DEF SocketsTypeOK
      <4>2. QED
        BY <1>1, <2>1, <3>1, <4>1 DEF SocketsTypeOK
    <3>2. CASE /\ review' = [review EXCEPT ![v].step = "over"]
               /\ late' = late \cup members
               /\ Fails
      <4>1. review' \in [Changes -> Review]
        BY <3>2 DEF Review, SocketsTypeOK
      <4>2. QED
        BY <1>2, <2>1, <3>2, <4>1 DEF SocketsTypeOK
    <3>3. QED
      BY <1>17, <3>1, <3>2 DEF FetchSockets
  <2>3. QED
    BY <1>17, <2>2 DEF FetchSockets, SocketsTypeOK
<1>18. ASSUME NEW v \in Changes, Decide(v) PROVE SocketsTypeOK'
  <2>1. review' \in [Changes -> Review]
    BY <1>18 DEF Decide, Review, SocketsTypeOK
  <2>2. failures' \in 0..MaxFailures
    BY <1>1, <1>2, <1>18 DEF Decide
  <2>3. QED
    BY <1>18, <2>1, <2>2 DEF Decide, SocketsTypeOK
<1>19. ASSUME NEW v \in Changes, Revoke(v) PROVE SocketsTypeOK'
  <2>1. review' \in [Changes -> Review]
    <3>1. review \in [Changes -> Review]
      BY DEF SocketsTypeOK
    <3>2. [review[v] EXCEPT !.step = "over", !.found = {}, !.ok = FALSE] \in Review
      BY <3>1 DEF Review
    <3>3. review' = [review EXCEPT ![v] =
                       [review[v] EXCEPT !.step = "over", !.found = {}, !.ok = FALSE]]
      BY <1>19, <3>1 DEF Revoke
    <3>4. QED
      BY <3>1, <3>2, <3>3
  <2>2. conn' \in [Sockets -> Conn]
    <3>1. \A s \in Sockets : conn[s] \in Conn /\ Evicted(conn[s]) \in Conn
      BY DEF Conn, Evicted, SocketsTypeOK
    <3>2. QED
      BY <1>19, <3>1 DEF Revoke
  <2>3. QED
    BY <1>19, <2>1, <2>2 DEF Revoke, SocketsTypeOK
<1>20. CASE SocketsTick
  <2>1. now' \in 0..MaxTime
    BY <1>1, <1>20, SocketTimes DEF SocketsTick
  <2>2. QED
    BY <1>20, <2>1 DEF SocketsTick, SocketsTypeOK
<1>21. CASE UNCHANGED socketsVars
  BY <1>21 DEF socketsVars, SocketsTypeOK
<1>22. QED
  BY <1>3, <1>4, <1>5, <1>6, <1>7, <1>8, <1>9, <1>10, <1>11, <1>12, <1>13, <1>14,
     <1>15, <1>16, <1>17, <1>18, <1>19, <1>20, <1>21 DEF SocketsNext

-----------------------------------------------------------------------------
(* Timers and tokens *)

\* No time passes, and what ends does so now.
SameTime ==
  /\ now' = now
  /\ \A x \in Sessions : ended'[x] \in {ended[x], now, Never}

StillIssued(x, e) ==
  e > 0 /\ e <= now' + TokenLife /\ (ended'[x] # Never => e <= ended'[x] + TokenLife)

LEMMA IssuedStays ==
  ASSUME SocketsTypeOK, NEW x \in Sessions, NEW e, Issued(x, e), SameTime
  PROVE  StillIssued(x, e)
BY DEF Issued, StillIssued, SameTime

LEMMA SoundStays ==
  ASSUME SocketsTypeOK, NEW s \in Sockets, Sound(s), SameTime,
         conn'[s] = conn[s], verified'[s] = verified[s],
         s \in asking' => s \in asking \/ Open(s)
  PROVE  Sound(s)'
<1>1. SessionOf[s] \in Sessions /\ (verified[s] # None => verified[s].session \in Sessions)
  BY OwnerType DEF SocketsTypeOK
<1>2. Tokens(s)'
  <2>1. Open(s) => StillIssued(SessionOf[s], conn[s].exp)
    BY <1>1, IssuedStays DEF Sound, Tokens
  <2>2. verified[s] # None => StillIssued(verified[s].session, verified[s].exp)
    BY <1>1, IssuedStays DEF Sound, Tokens
  <2>3. QED
    BY <2>1, <2>2 DEF Tokens, Open, Issued, StillIssued
<1>3. Watched(s)'
  BY DEF Sound, Watched, Open
<1>4. Timed(s)'
  BY DEF Sound, Timed, SameTime
<1>5. QED
  BY <1>2, <1>3, <1>4 DEF Sound

LEMMA SoundClosed ==
  ASSUME NEW s \in Sockets, conn'[s] = At("closed"), verified'[s] = None, s \notin asking'
  PROVE  Sound(s)'
BY DEF Sound, Watched, Timed, Tokens, Open, At

LEMMA SoundCloses ==
  ASSUME SocketsTypeOK, NEW s \in Sockets, Sound(s), SameTime, ClosesOrStays(s)
  PROVE  Sound(s)'
<1>1. CASE conn'[s] = conn[s] /\ verified'[s] = verified[s] /\ (s \in asking' => s \in asking)
  BY <1>1, SoundStays
<1>2. CASE conn'[s] = At("closed") /\ verified'[s] = None /\ s \notin asking'
  BY <1>2, SoundClosed
<1>3. CASE conn'[s] = conn[s] /\ ~Open(s) /\ verified'[s] = None /\ s \notin asking'
  BY <1>3 DEF Sound, Watched, Timed, Tokens, Open
<1>4. QED
  BY <1>1, <1>2, <1>3 DEF ClosesOrStays

\* What one connection does leaves the others sound.
LEMMA SoundOthers ==
  ASSUME TimeInv, NEW s \in Sockets, SameTime,
         \A t \in Sockets : t # s =>
           conn'[t] = conn[t] /\ verified'[t] = verified[t] /\ (t \in asking' => t \in asking),
         Sound(s)'
  PROVE  \A t \in Sockets : Sound(t)'
<1> SUFFICES ASSUME NEW t \in Sockets, t # s PROVE Sound(t)'
  OBVIOUS
<1>1. SocketsTypeOK /\ Sound(t)
  BY DEF TimeInv
<1>2. QED
  BY <1>1, SoundStays

LEMMA SoundStep ==
  TimeInv /\ [SocketsNext]_socketsVars => \A s \in Sockets : Sound(s)'
<1> SUFFICES ASSUME TimeInv, [SocketsNext]_socketsVars PROVE \A s \in Sockets : Sound(s)'
  OBVIOUS
<1> USE DEF access, ends, rights
<1>1. SocketsTypeOK /\ \A s \in Sockets : Sound(s)
  BY DEF TimeInv
<1>2. now \in Nat /\ \A s \in Sockets : conn[s] \in Conn
  BY <1>1, SocketTimes DEF SocketsTypeOK
<1>3. ASSUME NEW s \in Sockets, Handshake(s) PROVE \A t \in Sockets : Sound(t)'
  <2>1. SameTime /\ conn[s].stage = "new" /\ verified' = verified /\ asking' = asking
    BY <1>3 DEF Handshake, SameTime
  <2>2. PICK e \in Nat : Issued(SessionOf[s], e) /\ Changed(s, [At("connected") EXCEPT !.exp = e])
    BY <1>1, <1>3, HandshakeTurns
  <2>3. StillIssued(SessionOf[s], e)
    BY <1>1, <2>1, <2>2, IssuedStays, OwnerType
  <2>4. /\ conn'[s].stage = "connected" /\ conn'[s].exp = e
        /\ conn'[s].expiryAt = 0 /\ conn'[s].graceAt = 0
        /\ conn'[s].room = FALSE /\ conn'[s].member = FALSE
    BY <2>2 DEF Changed, At
  <2>5. verified[s] = None /\ s \notin asking
    BY <1>1, <2>1 DEF Sound, Watched, Open
  <2>6. Sound(s)'
    <3>1. Tokens(s)'
      BY <2>1, <2>3, <2>4, <2>5 DEF Tokens, Issued, StillIssued
    <3>2. Watched(s)' /\ Timed(s)'
      BY <2>1, <2>4, <2>5 DEF Watched, Timed
    <3>3. QED
      BY <3>1, <3>2 DEF Sound
  <2>7. QED
    BY <2>1, <2>2, <2>6, SoundOthers DEF Changed
<1>4. ASSUME NEW s \in Sockets, Enter(s) PROVE \A t \in Sockets : Sound(t)'
  <2>1. SameTime /\ conn[s].stage = "connected" /\ verified' = verified /\ asking' = asking
    BY <1>4 DEF Enter, SameTime
  <2>2. PICK c \in Conn :
          /\ Changed(s, c) /\ c.exp = conn[s].exp
          /\ c.member = conn[s].member /\ c.noted = conn[s].noted
          /\ \/ /\ c.stage = "watched" /\ c.armed = now
                /\ c.expiryAt = Later(c.exp, now) /\ c.graceAt = 0
             \/ /\ c.stage = "failed" /\ c.room = conn[s].room
                /\ c.expiryAt = conn[s].expiryAt /\ c.graceAt = conn[s].graceAt
    BY <1>1, <1>4, EnterTurns
  <2>3. Issued(SessionOf[s], c.exp) /\ StillIssued(SessionOf[s], c.exp)
    BY <1>1, <2>1, <2>2, IssuedStays, OwnerType DEF Sound, Tokens, Open
  <2>4. verified[s] = None /\ conn[s].expiryAt = 0 /\ conn[s].graceAt = 0
        /\ ~conn[s].room /\ (c.member => c.noted)
    BY <1>1, <2>1, <2>2 DEF Sound, Watched
  <2>5. conn'[s] = c
    BY <2>2 DEF Changed
  <2>6. Tokens(s)'
    BY <2>1, <2>3, <2>4, <2>5 DEF Tokens, Issued, StillIssued
  <2>7. Watched(s)'
    BY <2>1, <2>2, <2>4, <2>5 DEF Watched, Open
  <2>8. Timed(s)'
    <3>1. CASE c.stage = "watched"
      <4>1. now <= Later(c.exp, now) /\ c.exp > 0
        BY <1>2, <2>2, <2>3 DEF Later, Issued, Conn
      <4>2. c.expiryAt = DueAt(c) /\ c.graceAt = 0 /\ now <= c.expiryAt
        BY <2>2, <3>1, <4>1 DEF DueAt
      <4>3. now' = now
        BY <2>1 DEF SameTime
      <4>4. QED
        BY <2>5, <4>1, <4>2, <4>3 DEF Timed, DueAt
    <3>2. CASE c.stage = "failed"
      BY <2>5, <3>2 DEF Timed
    <3>3. QED
      BY <2>2, <3>1, <3>2
  <2>9. QED
    BY <2>1, <2>2, <2>6, <2>7, <2>8, SoundOthers DEF Changed, Sound
<1>5. ASSUME NEW s \in Sockets, Expire(s) PROVE \A t \in Sockets : Sound(t)'
  <2>1. SameTime /\ Due(conn[s].expiryAt) /\ verified' = verified /\ asking' = asking
    BY <1>5 DEF Expire, SameTime
  <2>2. Changed(s, [conn[s] EXCEPT !.expiryAt = 0, !.graceAt = now + Grace])
    BY <1>1, <1>5, ExpireTurns
  <2>3. /\ conn'[s].stage = conn[s].stage /\ conn'[s].room = conn[s].room
        /\ conn'[s].member = conn[s].member /\ conn'[s].noted = conn[s].noted
        /\ conn'[s].exp = conn[s].exp /\ conn'[s].armed = conn[s].armed
        /\ conn'[s].expiryAt = 0 /\ conn'[s].graceAt = now + Grace
    BY <1>2, <2>2 DEF Changed, Conn
  <2>4. conn[s].stage = "watched" /\ conn[s].expiryAt = DueAt(conn[s]) /\ now = conn[s].expiryAt
    <3>1. conn[s].expiryAt # 0 /\ conn[s].expiryAt <= now /\ conn[s].expiryAt \in Nat
      BY <1>2, <2>1 DEF Due, Conn
    <3>2. conn[s].stage = "watched"
      BY <1>1, <3>1 DEF Sound, Watched
    <3>3. conn[s].expiryAt = DueAt(conn[s]) /\ now <= conn[s].expiryAt
      BY <1>1, <3>1, <3>2 DEF Sound, Timed
    <3>4. QED
      BY <1>2, <3>1, <3>2, <3>3
  <2>5. Watched(s)'
    BY <1>1, <2>1, <2>3, <2>4 DEF Sound, Watched, Open
  <2>6. Timed(s)'
    <3>1. now + Grace = DueAt(conn[s]) + Grace /\ now <= now + Grace /\ conn[s].exp > 0
      BY <1>1, <1>2, <2>4, SocketTimes DEF Sound, Timed
    <3>2. now' = now /\ DueAt(conn[s])' = DueAt(conn[s])
      BY <2>1, <2>3 DEF SameTime, DueAt
    <3>3. QED
      BY <2>3, <3>1, <3>2 DEF Timed
  <2>7. Tokens(s)'
    <3>1. StillIssued(SessionOf[s], conn[s].exp)
      BY <1>1, <2>1, <2>4, IssuedStays, OwnerType DEF Sound, Tokens, Open
    <3>2. verified[s] # None => StillIssued(verified[s].session, verified[s].exp)
      BY <1>1, <2>1, IssuedStays DEF Sound, Tokens, SocketsTypeOK
    <3>3. QED
      BY <2>1, <2>3, <3>1, <3>2 DEF Tokens, Issued, StillIssued
  <2>8. QED
    BY <2>1, <2>2, <2>5, <2>6, <2>7, SoundOthers DEF Changed, Sound
<1>6. ASSUME NEW s \in Sockets, Verify(s) PROVE \A t \in Sockets : Sound(t)'
  <2>1. SameTime /\ conn[s].stage = "watched" /\ conn' = conn /\ asking' = asking
    BY <1>6 DEF Verify, SameTime
  <2>2. PICK x \in Sessions : \E e \in Accepted(x) :
          verified' = [verified EXCEPT ![s] = [session |-> x, exp |-> e]]
    BY <1>6 DEF Verify
  <2>3. PICK e \in Accepted(x) : verified' = [verified EXCEPT ![s] = [session |-> x, exp |-> e]]
    BY <2>2
  <2>4. Issued(x, e) /\ StillIssued(x, e)
    BY <1>1, <2>1, AcceptedIssued, IssuedStays
  <2>5. /\ verified'[s] = [session |-> x, exp |-> e]
        /\ \A t \in Sockets : t # s => verified'[t] = verified[t]
    BY <1>1, <2>3 DEF SocketsTypeOK
  <2>6. StillIssued(SessionOf[s], conn[s].exp)
    BY <1>1, <2>1, IssuedStays, OwnerType DEF Sound, Tokens, Open
  <2>7. Tokens(s)'
    BY <2>1, <2>4, <2>5, <2>6 DEF Tokens, Issued, StillIssued
  <2>8. Watched(s)' /\ Timed(s)'
    BY <1>1, <2>1 DEF Sound, Watched, Timed, Open, SameTime
  <2>9. QED
    BY <2>1, <2>5, <2>7, <2>8, SoundOthers DEF Sound
<1>7. ASSUME NEW s \in Sockets, Refresh(s) PROVE \A t \in Sockets : Sound(t)'
  <2>1. SameTime /\ verified[s] # None /\ asking' = asking
    BY <1>7 DEF Refresh, SameTime
  <2>2. verified'[s] = None /\ \A t \in Sockets : t # s => verified'[t] = verified[t]
    BY <1>1, <1>7 DEF Refresh, SocketsTypeOK
  <2>3. conn[s].stage = "watched"
    BY <1>1, <2>1 DEF Sound, Watched
  <2>4. CASE conn' = conn
    <3>1. StillIssued(SessionOf[s], conn[s].exp)
      BY <1>1, <2>1, <2>3, IssuedStays, OwnerType DEF Sound, Tokens, Open
    <3>2. Tokens(s)'
      BY <2>2, <2>4, <3>1 DEF Tokens, Issued, StillIssued
    <3>3. Watched(s)' /\ Timed(s)'
      BY <1>1, <2>1, <2>2, <2>3, <2>4 DEF Sound, Watched, Timed, Open, SameTime
    <3>4. QED
      BY <2>1, <2>2, <2>4, <3>2, <3>3, SoundOthers DEF Sound
  <2>5. CASE verified[s].session = SessionOf[s] /\ Changed(s, Refreshed(conn[s], verified[s]))
    <3> DEFINE e == verified[s].exp
    <3>1. Issued(SessionOf[s], e) /\ StillIssued(SessionOf[s], e) /\ e \in Nat
      BY <1>1, <2>1, <2>5, IssuedStays, OwnerType DEF Sound, Tokens, SocketsTypeOK
    <3>2. /\ conn'[s].stage = "watched" /\ conn'[s].room = conn[s].room
          /\ conn'[s].member = conn[s].member /\ conn'[s].noted = conn[s].noted
          /\ conn'[s].exp = e /\ conn'[s].armed = now
          /\ conn'[s].expiryAt = Later(e, now) /\ conn'[s].graceAt = 0
      BY <1>2, <2>3, <2>5 DEF Changed, Refreshed, Armed, Conn
    <3>3. Tokens(s)'
      BY <2>2, <3>1, <3>2 DEF Tokens, Issued, StillIssued
    <3>4. Watched(s)'
      BY <1>1, <2>1, <2>2, <2>3, <3>2 DEF Sound, Watched, Open
    <3>5. Timed(s)'
      <4>1. now <= Later(e, now) /\ e > 0
        BY <1>2, <3>1 DEF Later, Issued
      <4>2. now' = now /\ DueAt(conn[s])' = Later(e, now)
        BY <2>1, <3>2 DEF SameTime, DueAt
      <4>3. QED
        BY <3>2, <4>1, <4>2 DEF Timed
    <3>6. QED
      BY <2>1, <2>2, <2>5, <3>3, <3>4, <3>5, SoundOthers DEF Changed, Sound
  <2>6. QED
    BY <1>1, <1>7, <2>4, <2>5, RefreshTurns
<1>8. ASSUME NEW S \in SUBSET Sockets, NEW lost \in SUBSET Sockets, CloseBut(S, lost), SameTime
      PROVE  \A t \in Sockets : Sound(t)'
  BY <1>1, <1>8, CloseTurns, SoundCloses
<1>9. ASSUME NEW s \in Sockets, Disconnect(s) \/ GraceOver(s) PROVE \A t \in Sockets : Sound(t)'
  <2>1. SameTime /\ CloseBut({s}, {}) /\ {s} \in SUBSET Sockets /\ {} \in SUBSET Sockets
    BY <1>9 DEF Disconnect, GraceOver, Close, SameTime
  <2>2. QED
    BY <1>8, <2>1
<1>10. ASSUME SameTime, conn' = conn, verified' = verified,
              \A s \in Sockets : s \in asking' => s \in asking \/ Open(s)
       PROVE  \A t \in Sockets : Sound(t)'
  BY <1>1, <1>10, SoundStays
<1>11. ASSUME NEW x \in Sessions, EndSession(x) PROVE \A t \in Sockets : Sound(t)'
  <2>1. SameTime
    BY <1>1, <1>11 DEF EndSession, SameTime, SocketsTypeOK
  <2>2. QED
    BY <1>10, <1>11, <2>1 DEF EndSession
<1>12. ASSUME NEW x \in Sessions, DisconnectSession(x) PROVE \A t \in Sockets : Sound(t)'
  <2> DEFINE S == {s \in InRoom(UserOf[x]) : SessionOf[s] = x}
  <2>1. SameTime /\ S \in SUBSET Sockets /\ {} \in SUBSET Sockets
    BY <1>12 DEF DisconnectSession, SameTime, InRoom, SocketsOf
  <2>2. CASE CloseBut(S, {})
    BY <1>8, <2>1, <2>2
  <2>3. CASE UNCHANGED <<conn, access, late>>
    BY <1>10, <2>1, <2>3
  <2>4. QED
    BY <1>12, <2>2, <2>3 DEF DisconnectSession, Close
<1>13. ASSUME NEW u \in Users, DeleteUser(u) PROVE \A t \in Sockets : Sound(t)'
  <2>1. SameTime
    <3>1. ended' = [x \in Sessions |-> IF UserOf[x] = u /\ ended[x] = Never THEN now ELSE ended[x]]
      BY <1>13 DEF DeleteUser
    <3>2. now' = now
      BY <1>13 DEF DeleteUser
    <3>3. QED
      BY <3>1, <3>2 DEF SameTime
  <2>2. CloseBut(InRoom(u), Members(u)) /\ InRoom(u) \in SUBSET Sockets /\ Members(u) \in SUBSET Sockets
    BY <1>13 DEF DeleteUser, InRoom, Members, SocketsOf
  <2>3. QED
    BY <1>8, <2>1, <2>2
<1>14. ASSUME NEW u \in Users, RevokeUser(u) PROVE \A t \in Sockets : Sound(t)'
  <2>1. SameTime /\ InRoom(u) \in SUBSET Sockets /\ {} \in SUBSET Sockets
    BY <1>14 DEF RevokeUser, SameTime, InRoom, SocketsOf
  <2>2. CASE CloseBut(InRoom(u), {})
    BY <1>8, <2>1, <2>2
  <2>3. CASE UNCHANGED <<conn, access, refused, late>>
    BY <1>10, <2>1, <2>3
  <2>4. QED
    BY <1>14, <2>2, <2>3 DEF RevokeUser, Close
<1>15. ASSUME NEW s \in Sockets, Ask(s) PROVE \A t \in Sockets : Sound(t)'
  BY <1>10, <1>15 DEF Ask, SameTime
<1>16. ASSUME SameTime, verified' = verified,
              \A s \in Sockets :
                /\ s \in asking' => s \in asking
                /\ conn'[s] = conn[s] \/ \E m, n \in BOOLEAN :
                     /\ conn'[s] = [conn[s] EXCEPT !.member = m, !.noted = n]
                     /\ m => n /\ Open(s)
       PROVE  \A t \in Sockets : Sound(t)'
  <2> SUFFICES ASSUME NEW s \in Sockets PROVE Sound(s)'
    OBVIOUS
  <2>1. CASE conn'[s] = conn[s]
    BY <1>1, <1>16, <2>1, SoundStays
  <2>2. ASSUME NEW m \in BOOLEAN, NEW n \in BOOLEAN, m => n /\ Open(s),
               conn'[s] = [conn[s] EXCEPT !.member = m, !.noted = n]
        PROVE  Sound(s)'
    <3>1. /\ conn'[s].stage = conn[s].stage /\ conn'[s].room = conn[s].room
          /\ conn'[s].member = m /\ conn'[s].noted = n
          /\ conn'[s].exp = conn[s].exp /\ conn'[s].armed = conn[s].armed
          /\ conn'[s].expiryAt = conn[s].expiryAt /\ conn'[s].graceAt = conn[s].graceAt
      BY <1>2, <2>2 DEF Conn
    <3>2. Watched(s)'
      BY <1>1, <1>16, <2>2, <3>1 DEF Sound, Watched, Open
    <3>3. Timed(s)'
      <4>1. now' = now /\ DueAt(conn[s])' = DueAt(conn[s])
        BY <1>16, <3>1 DEF SameTime, DueAt
      <4>2. QED
        BY <1>1, <3>1, <4>1 DEF Sound, Timed
    <3>4. Tokens(s)'
      <4>1. Open(s) => StillIssued(SessionOf[s], conn[s].exp)
        BY <1>1, <1>16, IssuedStays, OwnerType DEF Sound, Tokens
      <4>2. verified[s] # None => StillIssued(verified[s].session, verified[s].exp)
        BY <1>1, <1>16, IssuedStays DEF Sound, Tokens, SocketsTypeOK
      <4>3. QED
        BY <1>16, <3>1, <4>1, <4>2 DEF Tokens, Issued, StillIssued, Open
    <3>5. QED
      BY <3>2, <3>3, <3>4 DEF Sound
  <2>3. QED
    BY <1>16, <2>1, <2>2
<1>17. ASSUME NEW s \in Sockets, Join(s) PROVE \A t \in Sockets : Sound(t)'
  <2>1. SameTime /\ verified' = verified /\ asking' = asking \ {s} /\ s \in asking
    BY <1>17 DEF Join, SameTime
  <2>2. Changed(s, [conn[s] EXCEPT !.member = TRUE, !.noted = TRUE])
    BY <1>1, <1>17, JoinTurns
  <2>3. Open(s)
    BY <1>1, <2>1 DEF Sound, Watched
  <2>4. QED
    BY <1>16, <2>1, <2>2, <2>3 DEF Changed
<1>18. ASSUME NEW s \in Sockets, Unsubscribe(s) PROVE \A t \in Sockets : Sound(t)'
  <2>1. SameTime /\ verified' = verified /\ asking' = asking
    BY <1>18 DEF Unsubscribe, SameTime
  <2>2. Changed(s, [conn[s] EXCEPT !.member = FALSE, !.noted = FALSE])
    BY <1>1, <1>18, UnsubscribeTurns
  <2>3. QED
    BY <1>16, <2>1, <2>2 DEF Changed
<1>19. ASSUME NEW v \in Changes, ChangeRight(v) \/ FetchSockets(v) \/ Decide(v)
       PROVE  \A t \in Sockets : Sound(t)'
  BY <1>10, <1>19 DEF ChangeRight, FetchSockets, Decide, SameTime
<1>20. ASSUME NEW v \in Changes, Revoke(v) PROVE \A t \in Sockets : Sound(t)'
  <2>1. SameTime /\ verified' = verified /\ asking' = asking
    BY <1>20 DEF Revoke, SameTime
  <2>2. \A s \in Sockets : conn'[s] = conn[s] \/ conn'[s] = [conn[s] EXCEPT !.member = FALSE]
    BY <1>20 DEF Revoke, Evicted
  <2>3. \A s \in Sockets :
          [conn[s] EXCEPT !.member = FALSE] = [conn[s] EXCEPT !.member = FALSE, !.noted = conn[s].noted]
          /\ conn[s].noted \in BOOLEAN
    BY <1>2 DEF Conn
  <2>4. QED
    BY <1>16, <2>1, <2>2, <2>3
<1>21. CASE SocketsTick
  <2>1. /\ conn' = conn /\ verified' = verified /\ asking' = asking /\ ended' = ended
        /\ now' = now + 1
        /\ \A s \in Sockets : ~Due(conn[s].expiryAt) /\ ~Due(conn[s].graceAt)
    BY <1>21 DEF SocketsTick
  <2> SUFFICES ASSUME NEW s \in Sockets PROVE Sound(s)'
    OBVIOUS
  <2>2. Watched(s)'
    BY <1>1, <2>1 DEF Sound, Watched, Open
  <2>3. ASSUME NEW x \in Sessions, NEW e \in Nat, Issued(x, e) PROVE StillIssued(x, e)
    <3>1. e <= now + 1 + TokenLife
      BY <1>2, <2>3, SocketTimes DEF Issued
    <3>2. QED
      BY <2>1, <2>3, <3>1 DEF Issued, StillIssued
  <2>4. Tokens(s)'
    <3>1. Open(s) => StillIssued(SessionOf[s], conn[s].exp)
      BY <1>1, <1>2, <2>3, OwnerType DEF Sound, Tokens, Conn
    <3>2. verified[s] # None => StillIssued(verified[s].session, verified[s].exp)
      BY <1>1, <2>3 DEF Sound, Tokens, SocketsTypeOK
    <3>3. QED
      BY <2>1, <3>1, <3>2 DEF Tokens, Issued, StillIssued, Open
  <2>5. Timed(s)'
    <3> SUFFICES ASSUME conn[s].stage = "watched" PROVE Timed(s)'
      BY <2>1 DEF Timed
    <3>1. conn[s].exp \in Nat /\ conn[s].armed \in Nat /\ conn[s].exp > 0
      BY <1>1, <1>2 DEF Sound, Timed, Conn
    <3>2. DueAt(conn[s]) \in Nat /\ DueAt(conn[s]) > 0
      BY <3>1 DEF DueAt, Later
    <3>3. ASSUME NEW d \in Nat, d > 0, ~Due(d) PROVE now + 1 <= d
      BY <1>2, <3>3 DEF Due
    <3>4. CASE conn[s].expiryAt = DueAt(conn[s]) /\ conn[s].graceAt = 0
      <4>1. now + 1 <= conn[s].expiryAt
        BY <2>1, <3>2, <3>3, <3>4
      <4>2. QED
        BY <2>1, <3>1, <3>4, <4>1 DEF Timed, DueAt
    <3>5. CASE conn[s].expiryAt = 0 /\ conn[s].graceAt = DueAt(conn[s]) + Grace
      <4>1. conn[s].graceAt \in Nat /\ conn[s].graceAt > 0
        BY <3>2, <3>5, SocketTimes
      <4>2. now + 1 <= conn[s].graceAt
        BY <2>1, <3>3, <4>1
      <4>3. QED
        BY <2>1, <3>1, <3>5, <4>2 DEF Timed, DueAt
    <3>6. QED
      BY <1>1, <3>4, <3>5 DEF Sound, Timed
  <2>6. QED
    BY <2>2, <2>4, <2>5 DEF Sound
<1>22. CASE UNCHANGED socketsVars
  BY <1>10, <1>22 DEF socketsVars, SameTime
<1>23. QED
  BY <1>3, <1>4, <1>5, <1>6, <1>7, <1>9, <1>11, <1>12, <1>13, <1>14,
     <1>15, <1>17, <1>18, <1>19, <1>20, <1>21, <1>22 DEF SocketsNext

LEMMA InitTimeInv == SocketsInit => TimeInv
<1> SUFFICES ASSUME SocketsInit PROVE TimeInv
  OBVIOUS
<1>1. now = 0 /\ failures = 0 /\ now \in 0..MaxTime /\ failures \in 0..MaxFailures
  BY SocketTimes DEF SocketsInit
<1>2. review \in [Changes -> Review]
  BY DEF SocketsInit
<1>3. conn \in [Sockets -> Conn]
  BY AtType DEF SocketsInit
<1>4. verified \in [Sockets -> [session : Sessions, exp : Nat] \cup {None}]
  BY DEF SocketsInit
<1>5. SocketsTypeOK
  BY <1>1, <1>2, <1>3, <1>4 DEF SocketsInit, SocketsTypeOK
<1>6. ASSUME NEW s \in Sockets PROVE Sound(s)
  <2>1. conn[s] = At("new") /\ verified[s] = None /\ s \notin asking
    BY DEF SocketsInit
  <2>2. QED
    BY <2>1 DEF At, Sound, Watched, Timed, Tokens, Open
<1>7. QED
  BY <1>5, <1>6 DEF TimeInv

LEMMA TimeInvStep == TimeInv /\ [SocketsNext]_socketsVars => TimeInv'
BY SocketsTypeStep, SoundStep DEF TimeInv

LEMMA TimeInvariant == SocketsSpec => []TimeInv
BY InitTimeInv, TimeInvStep, PTL DEF SocketsSpec

\* Every variable of Sockets has the type of the state it stands for, for any connections,
\* sessions, users and changes.
THEOREM SocketsTypeCorrect == SocketsSpec => []SocketsTypeOK
<1>1. TimeInv => SocketsTypeOK
  BY DEF TimeInv
<1>2. QED
  BY TimeInvariant, <1>1, PTL

\* The timers close a watched connection of an ended session at the latest when its
\* longest token has expired and the grace has passed, whatever the listeners, Redis and
\* the refreshes on the way do.
THEOREM EndedConnectionsClose == SocketsSpec => []EndedSocketsClose
<1>1. TimeInv => EndedSocketsClose
  <2> SUFFICES ASSUME TimeInv, NEW s \in Sockets, conn[s].stage = "watched",
                      ended[SessionOf[s]] # Never
      PROVE  now <= Later(ended[SessionOf[s]] + TokenLife, conn[s].armed) + Grace
    BY DEF EndedSocketsClose
  <2> DEFINE end == ended[SessionOf[s]] + TokenLife
             exp == conn[s].exp
             armed == conn[s].armed
  <2>1. exp \in Nat /\ armed \in Nat /\ end \in Nat /\ now \in Nat
    BY SocketTimes, OwnerType DEF TimeInv, SocketsTypeOK, Conn
  <2>2. exp <= end
    BY DEF TimeInv, Sound, Tokens, Issued, Open
  <2>3. now <= Later(exp, armed) + Grace
    <3>1. Later(exp, armed) \in Nat
      BY <2>1 DEF Later
    <3>2. CASE now <= Later(exp, armed)
      BY <2>1, <3>1, <3>2, SocketTimes
    <3>3. CASE ~(now <= Later(exp, armed))
      BY <3>3 DEF TimeInv, Sound, Timed, DueAt
    <3>4. QED
      BY <3>2, <3>3
  <2>4. Later(exp, armed) <= Later(end, armed) /\ Later(exp, armed) \in Nat /\ Later(end, armed) \in Nat
    BY <2>1, <2>2 DEF Later
  <2> HIDE DEF exp, armed, end
  <2>5. now <= Later(end, armed) + Grace
    BY <2>1, <2>3, <2>4, SocketTimes
  <2>6. QED
    BY <2>5 DEF end, armed
<1>2. QED
  BY TimeInvariant, <1>1, PTL

-----------------------------------------------------------------------------
(* The list room *)

LEMMA UndecidedStep ==
  SocketsTypeOK /\ Undecided /\ [SocketsNext]_socketsVars => Undecided'
<1> SUFFICES ASSUME SocketsTypeOK, Undecided, [SocketsNext]_socketsVars PROVE Undecided'
  OBVIOUS
<1>1. ASSUME review' = review PROVE Undecided'
  BY <1>1 DEF Undecided
<1>2. ASSUME NEW v \in Changes, NEW r \in Review,
             review' = [review EXCEPT ![v] = r],
             r.step \in {"free", "wanted", "fetched"} => r.ok = FALSE
      PROVE  Undecided'
  BY <1>2 DEF Undecided, SocketsTypeOK
<1>3. \A v \in Changes : review[v] \in Review
  BY DEF SocketsTypeOK
<1>4. ASSUME NEW v \in Changes, ChangeRight(v) PROVE Undecided'
  <2> DEFINE r == [review[v] EXCEPT !.step = "wanted"]
  <2>1. r \in Review /\ r.ok = FALSE
    BY <1>3, <1>4 DEF ChangeRight, Undecided, Review
  <2>2. review' = [review EXCEPT ![v] = r]
    BY <1>4 DEF ChangeRight, SocketsTypeOK
  <2>3. QED
    BY <1>2, <2>1, <2>2
<1>5. ASSUME NEW v \in Changes, FetchSockets(v) PROVE Undecided'
  <2>1. \A w \in Changes : review'[w].ok = review[w].ok
    BY <1>5 DEF FetchSockets, SocketsTypeOK, Review
  <2>2. \A w \in Changes : w # v => review'[w] = review[w]
    BY <1>5 DEF FetchSockets, SocketsTypeOK
  <2>3. review[v].step = "wanted"
    BY <1>5 DEF FetchSockets
  <2>4. QED
    BY <2>1, <2>2, <2>3 DEF Undecided
<1>6. ASSUME NEW v \in Changes, Decide(v) PROVE Undecided'
  <2>1. review'[v].step = "decided" /\ \A w \in Changes : w # v => review'[w] = review[w]
    BY <1>6 DEF Decide, SocketsTypeOK, Review
  <2>2. QED
    BY <2>1 DEF Undecided
<1>7. ASSUME NEW v \in Changes, Revoke(v) PROVE Undecided'
  <2>1. review'[v].step = "over" /\ \A w \in Changes : w # v => review'[w] = review[w]
    BY <1>7 DEF Revoke, SocketsTypeOK, Review
  <2>2. QED
    BY <2>1 DEF Undecided
<1>8. ASSUME NEW s \in Sockets,
             \/ Handshake(s) \/ Enter(s) \/ Disconnect(s)
             \/ Expire(s) \/ GraceOver(s) \/ Verify(s) \/ Refresh(s)
             \/ Ask(s) \/ Join(s) \/ Unsubscribe(s)
      PROVE  Undecided'
  <2>1. review' = review
    BY <1>8 DEF Handshake, Enter, Disconnect, Expire, GraceOver, Verify, Refresh,
                Ask, Join, Unsubscribe, rights
  <2>2. QED
    BY <1>1, <2>1
<1>9. ASSUME NEW x \in Sessions, EndSession(x) \/ DisconnectSession(x) PROVE Undecided'
  BY <1>1, <1>9 DEF EndSession, DisconnectSession, rights
<1>10. ASSUME NEW u \in Users, DeleteUser(u) \/ RevokeUser(u) PROVE Undecided'
  BY <1>1, <1>10 DEF DeleteUser, RevokeUser, rights
<1>11. CASE SocketsTick \/ UNCHANGED socketsVars
  BY <1>1, <1>11 DEF SocketsTick, socketsVars, rights
<1>12. QED
  BY <1>4, <1>5, <1>6, <1>7, <1>8, <1>9, <1>10, <1>11 DEF SocketsNext

\* A member without the right stays accounted for.
Accounted(s) ==
  conn'[s].member /\ Owner(s) \notin right' =>
    \/ s \in late'
    \/ /\ conn[s].member /\ Owner(s) \notin right /\ s \notin late
       /\ \A v \in Changes : Reviews(v, s) => \E w \in Changes : Reviews(w, s)'
    \/ \E v \in Changes : Reviews(v, s)'

LEMMA ReviewedBy ==
  ASSUME Reviewed, \A s \in Sockets : Accounted(s)
  PROVE  Reviewed'
<1> SUFFICES ASSUME NEW s \in Sockets, conn'[s].member, Owner(s) \notin right'
    PROVE  s \in late' \/ \E v \in Changes : Reviews(v, s)'
  BY DEF Reviewed, Owner
<1>1. Accounted(s)
  OBVIOUS
<1>2. QED
  BY <1>1 DEF Accounted, Reviewed

\* Of a step that is none of a review.
LEMMA ReviewedStays ==
  ASSUME Reviewed, NEW s \in Sockets, review' = review,
         conn'[s].member /\ Owner(s) \notin right' =>
           s \in late' \/ (conn[s].member /\ Owner(s) \notin right /\ s \notin late)
  PROVE  Accounted(s)
<1>1. \A v \in Changes : Reviews(v, s) => Reviews(v, s)'
  BY DEF Reviews, Owner
<1>2. QED
  BY <1>1 DEF Accounted

\* Of a closing: who is still a member is accounted for as before, or among the lost.
LEMMA CloseMembers ==
  ASSUME SocketsTypeOK, NEW s \in Sockets, Watched(s), NEW S \in SUBSET Sockets,
         NEW lost \in SUBSET Sockets, CloseBut(S, lost), conn'[s].member
  PROVE  /\ conn[s].member /\ s \notin S
         /\ s \in late \cup lost => s \in late'
<1>1. conn'[s] = IF s \in S /\ Open(s) THEN At("closed") ELSE conn[s]
  BY DEF CloseBut
<1>2. At("closed").member = FALSE
  BY DEF At
<1>3. conn'[s] = conn[s] /\ ~(s \in S /\ Open(s))
  BY <1>1, <1>2
<1>4. conn[s].member /\ Open(s)
  BY <1>3 DEF Watched
<1>5. late' = (late \cup lost) \ S
  BY DEF CloseBut
<1>6. QED
  BY <1>3, <1>4, <1>5

LEMMA ReviewedStep ==
  TimeInv /\ Undecided /\ Reviewed /\ [SocketsNext]_socketsVars => Reviewed'
<1> SUFFICES ASSUME TimeInv, Undecided, Reviewed, [SocketsNext]_socketsVars PROVE Reviewed'
  OBVIOUS
<1> USE DEF access, ends, rights
<1>1. SocketsTypeOK /\ \A s \in Sockets : Watched(s)
  BY DEF TimeInv, Sound
<1>2. \A s \in Sockets : conn[s] \in Conn
  BY <1>1 DEF SocketsTypeOK
<1>3. ASSUME review' = review, right' = right,
             \A s \in Sockets : conn'[s].member /\ Owner(s) \notin right =>
               s \in late' \/ (conn[s].member /\ s \notin late)
      PROVE  Reviewed'
  <2>1. \A s \in Sockets : Accounted(s)
    BY <1>3, ReviewedStays
  <2>2. QED
    BY <2>1, ReviewedBy
<1>4. ASSUME review' = review, right' = right, late' = late,
             \A s \in Sockets : conn'[s].member => conn[s].member
      PROVE  Reviewed'
  BY <1>3, <1>4
<1>5. ASSUME NEW S \in SUBSET Sockets, CloseBut(S, {}), review' = review, right' = right
      PROVE  Reviewed'
  <2>1. ASSUME NEW s \in Sockets, conn'[s].member
        PROVE  conn[s].member /\ (s \in late => s \in late')
    <3>1. {} \in SUBSET Sockets
      OBVIOUS
    <3>2. QED
      BY <1>1, <1>5, <2>1, <3>1, CloseMembers
  <2>2. QED
    BY <1>3, <1>5, <2>1
<1>6. ASSUME NEW s \in Sockets, Handshake(s) PROVE Reviewed'
  <2>1. review' = review /\ right' = right /\ late' = late
    BY <1>6 DEF Handshake
  <2>2. PICK e \in Nat : Changed(s, [At("connected") EXCEPT !.exp = e])
    BY <1>1, <1>6, HandshakeTurns
  <2>3. conn'[s].member = FALSE
    BY <2>2 DEF Changed, At
  <2>4. QED
    BY <1>4, <2>1, <2>2, <2>3 DEF Changed
<1>7. ASSUME NEW s \in Sockets, Enter(s) PROVE Reviewed'
  <2>1. review' = review /\ right' = right /\ late' = late
    BY <1>7 DEF Enter
  <2>2. PICK c \in Conn : Changed(s, c) /\ c.member = conn[s].member
    BY <1>1, <1>7, EnterTurns
  <2>3. QED
    BY <1>4, <2>1, <2>2 DEF Changed
<1>8. ASSUME NEW s \in Sockets, Disconnect(s) \/ GraceOver(s) PROVE Reviewed'
  <2>1. CloseBut({s}, {}) /\ review' = review /\ right' = right /\ {s} \in SUBSET Sockets
    BY <1>8 DEF Disconnect, GraceOver, Close
  <2>2. QED
    BY <1>5, <2>1
<1>9. ASSUME NEW s \in Sockets, Expire(s) PROVE Reviewed'
  <2>1. review' = review /\ right' = right /\ late' = late
    BY <1>9 DEF Expire
  <2>2. Changed(s, [conn[s] EXCEPT !.expiryAt = 0, !.graceAt = now + Grace])
    BY <1>1, <1>9, ExpireTurns
  <2>3. conn'[s].member = conn[s].member
    BY <1>2, <2>2 DEF Changed, Conn
  <2>4. QED
    BY <1>4, <2>1, <2>2, <2>3 DEF Changed
<1>10. ASSUME NEW s \in Sockets, Verify(s) \/ Ask(s) PROVE Reviewed'
  BY <1>4, <1>10 DEF Verify, Ask
<1>11. ASSUME NEW s \in Sockets, Refresh(s) PROVE Reviewed'
  <2>1. review' = review /\ right' = right /\ late' = late
    BY <1>11 DEF Refresh
  <2>2. CASE conn' = conn
    BY <1>4, <2>1, <2>2
  <2>3. CASE Changed(s, Refreshed(conn[s], verified[s]))
    <3>1. conn'[s].member = conn[s].member
      BY <1>2, <2>3 DEF Changed, Refreshed, Armed, Conn
    <3>2. QED
      BY <1>4, <2>1, <2>3, <3>1 DEF Changed
  <2>4. QED
    BY <1>1, <1>11, <2>2, <2>3, RefreshTurns
<1>12. ASSUME NEW s \in Sockets, Join(s) PROVE Reviewed'
  <2>1. review' = review /\ right' = right
    BY <1>12 DEF Join
  <2>2. late' = IF Owner(s) \in right THEN late ELSE late \cup {s}
    BY <1>12 DEF Join
  <2>3. \A t \in Sockets : t # s => conn'[t] = conn[t]
    BY <1>1, <1>12, JoinTurns DEF Changed
  <2>4. QED
    BY <1>3, <2>1, <2>2, <2>3
<1>13. ASSUME NEW s \in Sockets, Unsubscribe(s) PROVE Reviewed'
  <2>1. review' = review /\ right' = right /\ late' = late \ {s}
    BY <1>13 DEF Unsubscribe
  <2>2. Changed(s, [conn[s] EXCEPT !.member = FALSE, !.noted = FALSE])
    BY <1>1, <1>13, UnsubscribeTurns
  <2>3. conn'[s].member = FALSE
    BY <1>2, <2>2 DEF Changed, Conn
  <2>4. QED
    BY <1>3, <2>1, <2>2, <2>3 DEF Changed
<1>14. ASSUME NEW x \in Sessions, EndSession(x) PROVE Reviewed'
  BY <1>4, <1>14 DEF EndSession
<1>15. ASSUME NEW x \in Sessions, DisconnectSession(x) PROVE Reviewed'
  <2> DEFINE S == {s \in InRoom(UserOf[x]) : SessionOf[s] = x}
  <2>1. S \in SUBSET Sockets /\ review' = review /\ right' = right
    BY <1>15 DEF DisconnectSession, InRoom, SocketsOf
  <2>2. CASE CloseBut(S, {})
    BY <1>5, <2>1, <2>2
  <2>3. CASE UNCHANGED <<conn, access, late>>
    BY <1>4, <2>1, <2>3
  <2>4. QED
    BY <1>15, <2>2, <2>3 DEF DisconnectSession, Close
<1>16. ASSUME NEW u \in Users, RevokeUser(u) PROVE Reviewed'
  <2>1. InRoom(u) \in SUBSET Sockets /\ review' = review /\ right' = right
    BY <1>16 DEF RevokeUser, InRoom, SocketsOf
  <2>2. CASE CloseBut(InRoom(u), {})
    BY <1>5, <2>1, <2>2
  <2>3. CASE UNCHANGED <<conn, access, refused, late>>
    BY <1>4, <2>1, <2>3
  <2>4. QED
    BY <1>16, <2>2, <2>3 DEF RevokeUser, Close
<1>17. ASSUME NEW u \in Users, DeleteUser(u) PROVE Reviewed'
  <2>1. /\ CloseBut(InRoom(u), Members(u)) /\ review' = review /\ right' = right \ {u}
        /\ InRoom(u) \in SUBSET Sockets /\ Members(u) \in SUBSET Sockets
    BY <1>17 DEF DeleteUser, InRoom, Members, SocketsOf
  <2>2. ASSUME NEW s \in Sockets, conn'[s].member, Owner(s) \notin right'
        PROVE  s \in late' \/ (conn[s].member /\ Owner(s) \notin right /\ s \notin late)
    <3>1. conn[s].member /\ (s \in late \cup Members(u) => s \in late')
      BY <1>1, <2>1, <2>2, CloseMembers
    <3>2. CASE Owner(s) = u
      BY <3>1, <3>2 DEF Members, SocketsOf
    <3>3. CASE Owner(s) # u
      BY <2>1, <2>2, <3>1, <3>3
    <3>4. QED
      BY <3>2, <3>3
  <2>3. \A s \in Sockets : Accounted(s)
    BY <2>1, <2>2, ReviewedStays
  <2>4. QED
    BY <2>3, ReviewedBy
<1>18. ASSUME NEW v \in Changes, ChangeRight(v) PROVE Reviewed'
  <2>1. conn' = conn /\ late' = late /\ review[v].step = "free"
    BY <1>18 DEF ChangeRight
  <2>2. /\ review'[v].step = "wanted" /\ review'[v].of = review[v].of
        /\ \A w \in Changes : w # v => review'[w] = review[w]
    BY <1>1, <1>18 DEF ChangeRight, SocketsTypeOK, Review
  <2>3. right' = IF review[v].of \in right THEN right \ {review[v].of} ELSE right \cup {review[v].of}
    BY <1>18 DEF ChangeRight
  <2>4. ASSUME NEW s \in Sockets PROVE Accounted(s)
    <3>1. \A w \in Changes : Reviews(w, s) => Reviews(w, s)'
      BY <2>1, <2>2 DEF Reviews, Owner
    <3>2. Owner(s) = review[v].of => Reviews(v, s)'
      BY <2>2 DEF Reviews, Owner
    <3>3. Owner(s) # review[v].of => (Owner(s) \in right' <=> Owner(s) \in right)
      BY <2>3
    <3>4. QED
      BY <2>1, <3>1, <3>2, <3>3 DEF Accounted
  <2>5. QED
    BY <2>4, ReviewedBy
<1>19. ASSUME NEW v \in Changes, FetchSockets(v) PROVE Reviewed'
  <2> DEFINE members == Members(review[v].of)
             found == {s \in members : conn[s].room /\ conn[s].noted}
  <2>1. conn' = conn /\ right' = right /\ review[v].step = "wanted"
    BY <1>19 DEF FetchSockets
  <2>2. /\ late \subseteq late'
        /\ \A w \in Changes : w # v => review'[w] = review[w]
    BY <1>1, <1>19 DEF FetchSockets, SocketsTypeOK
  <2>3. review[v].ok = FALSE
    BY <2>1 DEF Undecided
  <2>4. ASSUME NEW s \in Sockets, conn[s].member, Owner(s) = review[v].of
        PROVE  s \in late' \/ Reviews(v, s)'
    <3>1. s \in members /\ conn[s].noted
      BY <1>1, <2>4 DEF Members, SocketsOf, Watched
    <3>2. CASE late' = late \cup members
      BY <3>1, <3>2
    <3>3. CASE /\ review' = [review EXCEPT ![v].step = IF found = {} THEN "over" ELSE "fetched",
                                         ![v].found = found]
               /\ late' = late \cup {t \in members : ~conn[t].room}
      <4>1. CASE ~conn[s].room
        BY <3>1, <3>3, <4>1
      <4>2. CASE conn[s].room
        <5>1. s \in found
          BY <3>1, <4>2
        <5>2. /\ review'[v].step = "fetched" /\ review'[v].found = found
              /\ review'[v].of = review[v].of /\ review'[v].ok = review[v].ok
          <6> HIDE DEF found
          <6>1. review[v] \in Review
            BY <1>1 DEF SocketsTypeOK
          <6>2. found # {}
            BY <5>1
          <6>3. review'[v] = [review[v] EXCEPT !.step = "fetched", !.found = found]
            BY <1>1, <3>3, <6>2 DEF SocketsTypeOK
          <6>4. QED
            BY <6>1, <6>3 DEF Review
        <5>3. QED
          BY <2>3, <2>4, <5>1, <5>2 DEF Reviews, Owner
      <4>3. QED
        BY <4>1, <4>2
    <3>4. QED
      BY <1>19, <3>2, <3>3 DEF FetchSockets
  <2>5. ASSUME NEW s \in Sockets PROVE Accounted(s)
    <3>1. \A w \in Changes : Reviews(w, s) /\ w # v => Reviews(w, s)'
      BY <2>2 DEF Reviews, Owner
    <3>2. Reviews(v, s) => Owner(s) = review[v].of
      BY DEF Reviews
    <3>3. QED
      BY <2>1, <2>2, <2>4, <3>1, <3>2 DEF Accounted
  <2>6. QED
    BY <2>5, ReviewedBy
<1>20. ASSUME NEW v \in Changes, Decide(v) PROVE Reviewed'
  <2>1. conn' = conn /\ right' = right /\ late' = late /\ review[v].step = "fetched"
    BY <1>20 DEF Decide
  <2>2. review[v].ok = FALSE
    BY <2>1 DEF Undecided
  <2>3. /\ review'[v].step = "decided" /\ review'[v].of = review[v].of
        /\ review'[v].found = review[v].found
        /\ review'[v].ok => review[v].of \in right
        /\ review'[v].ok \in BOOLEAN
        /\ \A w \in Changes : w # v => review'[w] = review[w]
    BY <1>1, <1>20, <2>2 DEF Decide, SocketsTypeOK, Review
  <2>4. ASSUME NEW s \in Sockets PROVE Accounted(s)
    <3>1. \A w \in Changes : Reviews(w, s) /\ w # v => Reviews(w, s)'
      BY <2>3 DEF Reviews, Owner
    <3>2. Reviews(v, s) /\ Owner(s) \notin right => Reviews(v, s)'
      BY <2>1, <2>3 DEF Reviews, Owner
    <3>3. QED
      BY <2>1, <3>1, <3>2 DEF Accounted
  <2>5. QED
    BY <2>4, ReviewedBy
<1>21. ASSUME NEW v \in Changes, Revoke(v) PROVE Reviewed'
  <2> DEFINE out == IF review[v].ok THEN {} ELSE review[v].found
  <2>1. /\ right' = right /\ late' = late \ out /\ review[v].step = "decided"
        /\ conn' = [s \in Sockets |-> IF s \in out THEN Evicted(conn[s]) ELSE conn[s]]
    BY <1>21 DEF Revoke
  <2>2. \A w \in Changes : w # v => review'[w] = review[w]
    BY <1>1, <1>21 DEF Revoke, SocketsTypeOK
  <2>3. ASSUME NEW s \in Sockets, conn'[s].member PROVE s \notin out /\ conn[s].member
    BY <1>2, <2>1, <2>3 DEF Evicted, Conn
  <2>4. ASSUME NEW s \in Sockets PROVE Accounted(s)
    <3> SUFFICES ASSUME conn'[s].member, Owner(s) \notin right', s \notin late'
        PROVE  /\ conn[s].member /\ Owner(s) \notin right /\ s \notin late
               /\ \A w \in Changes : Reviews(w, s) => \E y \in Changes : Reviews(y, s)'
      BY DEF Accounted
    <3>1. s \notin out /\ conn[s].member /\ s \notin late
      BY <2>1, <2>3
    <3>2. ~Reviews(v, s)
      BY <2>1, <3>1 DEF Reviews
    <3>3. \A w \in Changes : Reviews(w, s) => Reviews(w, s)'
      BY <2>2, <3>2 DEF Reviews, Owner
    <3>4. QED
      BY <2>1, <3>1, <3>3
  <2>5. QED
    BY <2>4, ReviewedBy
<1>22. CASE SocketsTick
  BY <1>4, <1>22 DEF SocketsTick
<1>23. CASE UNCHANGED socketsVars
  BY <1>4, <1>23 DEF socketsVars
<1>24. QED
  BY <1>6, <1>7, <1>8, <1>9, <1>10, <1>11, <1>12, <1>13, <1>14, <1>15, <1>16, <1>17,
     <1>18, <1>19, <1>20, <1>21, <1>22, <1>23 DEF SocketsNext

\* A user who has lost the right of the list room sits in it, once the reviews are over,
\* only on connections that no review had to find.
THEOREM RevokedMembersLeave == SocketsSpec => []RevokedLeave
<1>1. SocketsInit => TimeInv /\ Undecided /\ Reviewed
  <2> SUFFICES ASSUME SocketsInit PROVE TimeInv /\ Undecided /\ Reviewed
    OBVIOUS
  <2>1. \A v \in Changes : review[v].ok = FALSE
    <3>1. \A v \in Changes : review[v] \in Review /\ ~review[v].ok
      BY DEF SocketsInit
    <3>2. QED
      BY <3>1 DEF Review
  <2>2. \A s \in Sockets : Owner(s) \in right
    BY OwnerType DEF SocketsInit
  <2>3. QED
    BY <2>1, <2>2, InitTimeInv DEF Undecided, Reviewed
<1>2. TimeInv /\ Undecided /\ Reviewed /\ [SocketsNext]_socketsVars
        => (TimeInv /\ Undecided /\ Reviewed)'
  BY TimeInvStep, UndecidedStep, ReviewedStep DEF TimeInv
<1>3. Reviewed => RevokedLeave
  BY DEF Reviewed, Reviews, RevokedLeave
<1>4. QED
  BY <1>1, <1>2, <1>3, PTL DEF SocketsSpec
=============================================================================

------------------------------- MODULE Presence -------------------------------
(***************************************************************************)
(* Which users are online: the connections of one user, spread over the    *)
(* replicas of the server, the set of their ids that the replicas keep in  *)
(* Redis under a key with a time to live, and the events that tell others  *)
(* of it.  (Keys of different users have nothing in common.)               *)
(*                                                                         *)
(* The connection handler asks whether the user is online, registers the   *)
(* connection, tells of it, and only then listens to its disconnection;    *)
(* that listener removes the connection, asks again, and tells of the      *)
(* last one.  Every question to Redis is a step of its own.  A command of  *)
(* a replica is executed when it is sent, its answer may be read later.    *)
(* A heartbeat is due at every tick, and ticks wait for it.                *)
(***************************************************************************)
EXTENDS Naturals, FiniteSets

CONSTANTS
  Sockets, Replicas,
  Ttl,         \* PRESENCE_TTL_SECONDS, in heartbeats
  MaxFailures  \* bound on commands that Redis rejects

ASSUME PresenceAssumption ==
  /\ Ttl \in Nat \ {0} /\ MaxFailures \in Nat

VARIABLES
  conn,      \* each connection
  replica,   \* each replica
  local,     \* SocketClientRegistry._local: the connections a replica knows
  store,     \* the set presence:<user>; Redis drops an empty one
  ttl,       \* its time to live
  due,       \* replicas whose heartbeat is due
  told,      \* the last event about the user that was emitted
  failures,
  astray,    \* history: connections no listener will remove
  gone,      \* history: ticks since a replica knew a connection
  lost,      \* history: a replica went down with something left to do
  overtaken  \* history: an offline event came after the user was back

redis == <<store, ttl>>
history == <<astray, gone, lost, overtaken>>
presenceVars == <<conn, replica, local, redis, due, told, failures, history>>

-----------------------------------------------------------------------------
(* Data *)

Stages ==
  {"new", "asking", "asked", "entered", "announced", "listening",
   "leaving", "left", "telling", "over"}

Nowhere == "nowhere"

\* at: its replica; open: the client has not gone; first: nobody was online when asked.
Conn == [stage : Stages, at : Replicas \cup {Nowhere}, open : BOOLEAN, first : BOOLEAN]

Up(r) == replica[r] \in {"up", "stopping", "stopped"}

Beating(r) == replica[r] \in {"up", "stopping"}

\* The connection handler, or its listener, still has something to do.
Busy(s) == conn[s].stage \notin {"new", "listening", "over"}

Entered(s) == conn[s].stage \in {"entered", "announced", "listening"}

Open(s) == conn[s].open

On(r) == {s \in Sockets : conn[s].at = r}

\* Redis rejects a command: as often as the bound allows.
Fails == failures < MaxFailures /\ failures' = failures + 1

\* SADD and EXPIRE
Added(s) == store' = store \cup {s} /\ ttl' = Ttl

\* SREM
Removed(S) == store' = store \ S /\ ttl' = IF store \subseteq S THEN 0 ELSE ttl

\* Slip: the user is forgotten with his first connection that leaves.
Forgotten(r, s) == local' = [local EXCEPT ![r] = {}]

\* unregister, what the replica knows
Forget(r, s) == local' = [local EXCEPT ![r] = @ \ {s}]

-----------------------------------------------------------------------------
PresenceInit ==
  /\ conn = [s \in Sockets |-> [stage |-> "new", at |-> Nowhere, open |-> FALSE, first |-> FALSE]]
  /\ replica = [r \in Replicas |-> "up"]
  /\ local = [r \in Replicas |-> {}]
  /\ store = {} /\ ttl = 0
  /\ due = {}
  /\ told = "offline"
  /\ failures = 0
  /\ astray = {} /\ gone = 0 /\ lost = FALSE /\ overtaken = FALSE

-----------------------------------------------------------------------------
(* The connection handler *)

Connect(s, r) ==
  /\ conn[s].stage = "new" /\ replica[r] = "up"
  /\ conn' = [conn EXCEPT ![s] = [stage |-> "asking", at |-> r, open |-> TRUE, first |-> FALSE]]
  /\ UNCHANGED <<replica, local, redis, due, told, failures, history>>

\* isOnline; a rejection ends the handler.
Ask(s) ==
  /\ conn[s].stage = "asking" /\ Up(conn[s].at)
  /\ \/ /\ conn' = [conn EXCEPT ![s].stage = "asked", ![s].first = (store = {})]
        /\ UNCHANGED failures
     \/ /\ conn' = [conn EXCEPT ![s].stage = "over"]
        /\ Fails
  /\ UNCHANGED <<replica, local, redis, due, told, history>>

\* register: the replica knows the connection even if Redis rejects it, and that ends
\* the handler.
Register(s) ==
  /\ conn[s].stage = "asked" /\ Up(conn[s].at)
  /\ local' = [local EXCEPT ![conn[s].at] = @ \cup {s}]
  /\ \/ /\ conn' = [conn EXCEPT ![s].stage = "entered"]
        /\ Added(s)
        /\ UNCHANGED <<failures, astray>>
     \/ /\ conn' = [conn EXCEPT ![s].stage = "over"]
        /\ astray' = astray \cup {s}
        /\ Fails
        /\ UNCHANGED redis
  /\ gone' = 0
  /\ UNCHANGED <<replica, due, told, lost, overtaken>>

\* The rooms of the modules are joined, and the first connection is told of.
Announce(s) ==
  /\ conn[s].stage = "entered" /\ Up(conn[s].at)
  /\ conn' = [conn EXCEPT ![s].stage = "announced", ![s].first = FALSE]
  /\ told' = IF conn[s].first THEN "online" ELSE told
  /\ overtaken' = (overtaken /\ ~conn[s].first)
  /\ UNCHANGED <<replica, local, redis, due, failures, astray, gone, lost>>

\* The handlers of the modules have answered.  Nobody hears of a disconnection that
\* came before.
Listen(s) ==
  /\ conn[s].stage = "announced" /\ Up(conn[s].at)
  /\ conn' = [conn EXCEPT ![s].stage = IF Open(s) THEN "listening" ELSE "over"]
  /\ astray' = IF Open(s) THEN astray ELSE astray \cup {s}
  /\ UNCHANGED <<replica, local, redis, due, told, failures, gone, lost, overtaken>>

-----------------------------------------------------------------------------
(* The disconnection *)

\* The client leaves or its connection breaks; the listener forgets it at once.
Disconnect(s) ==
  /\ Open(s) /\ replica[conn[s].at] = "up"
  /\ IF conn[s].stage = "listening"
     THEN /\ conn' = [conn EXCEPT ![s].open = FALSE, ![s].stage = "leaving"]
          /\ Forget(conn[s].at, s)
     ELSE /\ conn' = [conn EXCEPT ![s].open = FALSE]
          /\ UNCHANGED local
  /\ UNCHANGED <<replica, redis, due, told, failures, history>>

\* Slip: nothing is removed while the replica has other connections of the user.
UnregisterLast(s) ==
  /\ conn[s].stage = "leaving" /\ Up(conn[s].at)
  /\ conn' = [conn EXCEPT ![s].stage = "left"]
  /\ IF local[conn[s].at] = {} THEN Removed({s}) ELSE UNCHANGED redis
  /\ UNCHANGED <<replica, local, due, told, failures, history>>

\* unregister, what Redis knows; a rejection ends the listener.
Unregister(s) ==
  /\ conn[s].stage = "leaving" /\ Up(conn[s].at)
  /\ \/ /\ conn' = [conn EXCEPT ![s].stage = "left"]
        /\ Removed({s})
        /\ UNCHANGED <<failures, astray>>
     \/ /\ conn' = [conn EXCEPT ![s].stage = "over"]
        /\ astray' = astray \cup {s}
        /\ Fails
        /\ UNCHANGED redis
  /\ UNCHANGED <<replica, local, due, told, gone, lost, overtaken>>

\* Slip: the connections of the replica are asked instead of the set.
NoneLeftHere(s) == local[conn[s].at] = {}

NoneLeft(s) == store = {}

\* isOnline
AskAgain(s) ==
  /\ conn[s].stage = "left" /\ Up(conn[s].at)
  /\ \/ /\ conn' = [conn EXCEPT ![s].stage = IF NoneLeft(s) THEN "telling" ELSE "over",
                              ![s].first = (store = {})]
        /\ UNCHANGED <<failures, astray>>
     \/ /\ conn' = [conn EXCEPT ![s].stage = "over"]
        /\ astray' = astray \cup {s}
        /\ Fails
  /\ UNCHANGED <<replica, local, redis, due, told, gone, lost, overtaken>>

\* The answer is acted on, though another connection may have been registered since, or
\* been told, before this one was removed, that the user was online.
Tell(s) ==
  /\ conn[s].stage = "telling" /\ Up(conn[s].at)
  /\ conn' = [conn EXCEPT ![s].stage = "over", ![s].first = FALSE]
  /\ told' = "offline"
  /\ overtaken' = (conn[s].first
       /\ \E t \in Sockets : t \in store \/ (conn[t].stage = "asked" /\ ~conn[t].first))
  /\ UNCHANGED <<replica, local, redis, due, failures, astray, gone, lost>>

-----------------------------------------------------------------------------
(* Replicas *)

\* SocketServerService.close: the listeners of the connections begin.
Stop(r) ==
  /\ replica[r] = "up"
  /\ replica' = [replica EXCEPT ![r] = "stopping"]
  /\ conn' = [s \in Sockets |->
       IF s \notin On(r) THEN conn[s]
       ELSE [conn[s] EXCEPT !.open = FALSE,
                            !.stage = IF @ = "listening" THEN "leaving" ELSE @]]
  /\ local' = [local EXCEPT ![r] = @ \ {s \in On(r) : conn[s].stage = "listening"}]
  /\ UNCHANGED <<redis, due, told, failures, history>>

\* SocketClientRegistry.stop: no more heartbeats, and what is left here is removed, its
\* users untold.  If Redis rejects some of it, the replica does not forget it either.
StopRegistry(r) ==
  /\ replica[r] = "stopping"
  /\ replica' = [replica EXCEPT ![r] = "stopped"]
  /\ \/ /\ Removed(local[r])
        /\ local' = [local EXCEPT ![r] = {}]
        /\ UNCHANGED failures
     \/ /\ \E S \in SUBSET local[r] : S # local[r] /\ Removed(S)
        /\ Fails
        /\ UNCHANGED local
  /\ due' = due \ {r}
  /\ lost' = (lost \/ local[r] # {})
  /\ UNCHANGED <<conn, told, astray, gone, overtaken>>

\* The client of Redis is closed and the process ends, whatever handlers are under way.
Exit(r) ==
  /\ replica[r] = "stopped"
  /\ replica' = [replica EXCEPT ![r] = "exited"]
  /\ conn' = [s \in Sockets |-> IF s \in On(r) THEN [conn[s] EXCEPT !.stage = "over"] ELSE conn[s]]
  /\ local' = [local EXCEPT ![r] = {}]
  /\ lost' = (lost \/ \E s \in On(r) : Busy(s))
  /\ astray' = astray \cup {s \in On(r) : Busy(s)}
  /\ UNCHANGED <<redis, due, told, failures, gone, overtaken>>

\* A replica dies, with what its handlers had left to do.
Crash(r) ==
  /\ Up(r)
  /\ replica' = [replica EXCEPT ![r] = "dead"]
  /\ conn' = [s \in Sockets |->
       IF s \in On(r) THEN [conn[s] EXCEPT !.open = FALSE, !.stage = "over"] ELSE conn[s]]
  /\ local' = [local EXCEPT ![r] = {}]
  /\ due' = due \ {r}
  /\ lost' = (lost \/ local[r] # {} \/ \E s \in On(r) : Busy(s))
  /\ UNCHANGED <<redis, told, failures, astray, gone, overtaken>>

Known == UNION {local[r] : r \in Replicas}

\* The heartbeat: EXPIRE of the keys of the users known here; of a missing key it does nothing.
Touched == ttl' = IF store = {} THEN 0 ELSE Ttl

Beat(r) ==
  /\ r \in due
  /\ due' = due \ {r}
  /\ \/ /\ IF local[r] = {} THEN UNCHANGED ttl ELSE Touched
        /\ UNCHANGED failures
     \/ /\ local[r] # {}
        /\ Fails
        /\ UNCHANGED ttl
  /\ UNCHANGED <<conn, replica, local, store, told, history>>

\* Redis counts down; the key goes with all that is in it.
KeyAges ==
  /\ store' = IF ttl <= 1 THEN {} ELSE store
  /\ ttl' = IF ttl = 0 THEN 0 ELSE ttl - 1

Tick ==
  /\ due = {}
  /\ due' = {r \in Replicas : Beating(r)}
  /\ KeyAges
  /\ gone' = IF Known # {} THEN 0 ELSE IF gone = Ttl THEN gone ELSE gone + 1
  /\ UNCHANGED <<conn, replica, local, told, failures, astray, lost, overtaken>>

PresenceNext ==
  \/ \E s \in Sockets :
       \/ \E r \in Replicas : Connect(s, r)
       \/ Ask(s) \/ Register(s) \/ Announce(s) \/ Listen(s)
       \/ Disconnect(s) \/ Unregister(s) \/ AskAgain(s) \/ Tell(s)
  \/ \E r \in Replicas : Stop(r) \/ StopRegistry(r) \/ Exit(r) \/ Crash(r) \/ Beat(r)
  \/ Tick

PresenceSpec == PresenceInit /\ [][PresenceNext]_presenceVars

-----------------------------------------------------------------------------
(* Properties *)

\* Every variable has the type of the state it stands for.
PresenceTypeOK ==
  /\ conn \in [Sockets -> Conn]
  /\ replica \in [Replicas -> {"up", "stopping", "stopped", "exited", "dead"}]
  /\ local \in [Replicas -> SUBSET Sockets]
  /\ store \subseteq Sockets /\ ttl \in 0..Ttl /\ (store = {} <=> ttl = 0)
  /\ due \subseteq Replicas
  /\ told \in {"online", "offline"}
  /\ failures \in 0..MaxFailures
  /\ astray \subseteq Sockets /\ gone \in 0..Ttl
  /\ lost \in BOOLEAN /\ overtaken \in BOOLEAN

\* A connected user stays online: the entry of a registered connection is not lost while
\* its replica lives, whichever connections leave, replicas die and single heartbeats fail.
ConnectedStayOnline ==
  \A s \in Sockets : Entered(s) /\ Open(s) => s \in store

\* A user of whom no replica knows a connection any more is offline within the time to
\* live, whatever the replicas that died left behind.
EntriesExpire == store # {} => gone < Ttl

\* The entry of a connection that closed on a living replica is removed: left are those
\* whose handler or listener has not ended, was refused by Redis, or came too late to
\* hear of the disconnection.  What is left there stays while its replica knows it and
\* beats.
ClosedLeave ==
  \A s \in store :
    ~Open(s) /\ replica[conn[s].at] # "dead" => Busy(s) \/ s \in astray

\* An entry goes with its connection, or when no replica knows the user any more.
EntriesLeave == EntriesExpire /\ ClosedLeave

\* When all handlers have ended, what others were told last of the user is right, however
\* his connections to different replicas came and went at once: unless an offline event
\* was overtaken by his return, no handler was lost with its replica, and none went astray.
ToldRight ==
  (\A s \in Sockets : ~Busy(s)) /\ ~lost /\ astray = {} =>
    /\ store = {} => told = "offline"
    /\ store # {} /\ ~overtaken => told = "online"
=============================================================================

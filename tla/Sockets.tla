------------------------------ MODULE Sockets ------------------------------
(***************************************************************************)
(* The connections of the socket server: which of them outlive their       *)
(* access token or their session, and which sit in a room that needs a     *)
(* right their user has lost.                                              *)
(*                                                                         *)
(* A connection is authenticated by its handshake, but only later, after   *)
(* the connection handler has awaited Redis, does it join the room of its  *)
(* user, by which the listeners find it, and is its token watched.  The    *)
(* client subscribes to rooms from the first moment, refreshes its token   *)
(* and leaves; checks of tokens and rights are answered after a while.     *)
(*                                                                         *)
(* A connection that comes back is another one.  There is one list room.   *)
(* Timers fire on time: the clock waits for them.  The answer to a check   *)
(* is that of the moment it is made; what the caches of other replicas     *)
(* add to it is the matter of RevocationList.                              *)
(***************************************************************************)
EXTENDS Integers

CONSTANTS
  Sockets, Sessions, Users,
  SessionOf,   \* the session of the handshake token of a connection
  UserOf,      \* the user of a session
  Changes,     \* changes of the rights of a user, each made once
  TokenLife,   \* life of an access token
  Grace,       \* SOCKET_AUTH_GRACE_MS
  MaxTime,     \* bound of the clock
  MaxFailures  \* bound on rejected calls to Redis and the database

ASSUME SocketsAssumption ==
  /\ SessionOf \in [Sockets -> Sessions]
  /\ UserOf \in [Sessions -> Users]

ASSUME SocketTimesAssumption ==
  /\ TokenLife \in Nat \ {0} /\ Grace \in Nat \ {0}
  /\ MaxTime \in Nat /\ MaxFailures \in Nat

VARIABLES
  now,        \* the clock
  conn,       \* each connection
  asking,     \* connections with a granted room:subscribe on the way
  verified,   \* the token of an auth:refresh on the way, if any
  ended,      \* when the row of a session was deleted: it gets no token after
  refused,    \* sessions whose access tokens are refused
  telling,    \* ended sessions whose connections are still to be closed
  purging,    \* deleted users whose tokens are still to be refused
  deleted,    \* deleted users
  right,      \* users with the right of the room
  review,     \* the listener of each change of rights
  late,       \* history: members no review had to find
  failures

access == <<asking, verified>>
ends == <<ended, refused, telling, purging, deleted>>
rights == <<right, review>>
socketsVars == <<now, conn, access, ends, rights, late, failures>>

-----------------------------------------------------------------------------
(* Data *)

Never == -1
None == [session |-> "none", exp |-> 0]

SocketStages == {"new", "connected", "watched", "failed", "closed"}

\* room: in the room of its user; member: in the list room; noted: with the
\* subscription on record; timers at 0 are not set; armed: when _schedule ran.
Conn ==
  [stage : SocketStages, room : BOOLEAN, member : BOOLEAN, noted : BOOLEAN,
   exp : Nat, expiryAt : Nat, graceAt : Nat, armed : Nat]

At(stage) ==
  [stage |-> stage, room |-> FALSE, member |-> FALSE, noted |-> FALSE,
   exp |-> 0, expiryAt |-> 0, graceAt |-> 0, armed |-> 0]

\* A change: of whose rights, how far its listener is, the connections found, the verdict.
Review ==
  [step : {"free", "wanted", "fetched", "decided", "over"},
   of : Users, found : SUBSET Sockets, ok : BOOLEAN]

Later(a, b) == IF a >= b THEN a ELSE b

Owner(s) == UserOf[SessionOf[s]]

SocketsOf(u) == {s \in Sockets : Owner(s) = u}

Open(s) == conn[s].stage \in {"connected", "watched", "failed"}

Members(u) == {s \in SocketsOf(u) : conn[s].member}

\* When a token of a session that verifyAccess accepts now may expire: none was issued
\* before the clock began.
Accepted(x) ==
  {e \in (now + 1)..(now + TokenLife) :
     /\ x \notin refused /\ e >= TokenLife
     /\ ended[x] # Never => e <= ended[x] + TokenLife}

\* A call to Redis or the database is rejected: as often as the bound allows.
Fails == failures < MaxFailures /\ failures' = failures + 1

-----------------------------------------------------------------------------
(* Steps several handlers share *)

\* _schedule
Armed(c) == [c EXCEPT !.expiryAt = Later(c.exp, now), !.graceAt = 0, !.armed = now]

\* The connections S close: out of every room, and neither their timers nor the
\* answers on the way find anything left to change.  Lost are members who from now on
\* lack the right, and whom nobody will look for.
CloseBut(S, lost) ==
  /\ conn' = [s \in Sockets |-> IF s \in S /\ Open(s) THEN At("closed") ELSE conn[s]]
  /\ asking' = asking \ S
  /\ verified' = [s \in Sockets |-> IF s \in S THEN None ELSE verified[s]]
  /\ late' = (late \cup lost) \ S

Close(S) == CloseBut(S, {})

\* The connections in the room of a user
InRoom(u) == {s \in SocketsOf(u) : conn[s].room}

-----------------------------------------------------------------------------
SocketsInit ==
  /\ now = 0
  /\ conn = [s \in Sockets |-> At("new")]
  /\ asking = {}
  /\ verified = [s \in Sockets |-> None]
  /\ ended = [x \in Sessions |-> Never]
  /\ refused = {} /\ telling = {} /\ purging = {} /\ deleted = {}
  /\ right = Users
  /\ review \in [Changes -> {v \in Review : v.step = "free" /\ v.found = {} /\ ~v.ok}]
  /\ late = {}
  /\ failures = 0

-----------------------------------------------------------------------------
(* The connection and its token *)

\* SocketAuthMiddleware.handle: only a valid token gets in.
Handshake(s) ==
  /\ conn[s].stage = "new"
  /\ \E e \in Accepted(SessionOf[s]) :
       conn' = [conn EXCEPT ![s] = [At("connected") EXCEPT !.exp = e]]
  /\ UNCHANGED <<now, access, ends, rights, late, failures>>

\* isOnline and register have answered.  A rejection ends the connection handler,
\* nobody catches it, and the process only logs it.
Enter(s) ==
  /\ conn[s].stage = "connected"
  /\ \/ /\ conn' = [conn EXCEPT ![s] = [Armed(@) EXCEPT !.stage = "watched", !.room = TRUE]]
        /\ UNCHANGED failures
     \/ /\ conn' = [conn EXCEPT ![s].stage = "failed"]
        /\ Fails
  /\ UNCHANGED <<now, access, ends, rights, late>>

\* The client leaves, the network breaks, the process stops or dies.
Disconnect(s) ==
  /\ Open(s)
  /\ Close({s})
  /\ UNCHANGED <<now, ends, rights, failures>>

Due(at) == at # 0 /\ at <= now

\* auth:expired
Expire(s) ==
  /\ Due(conn[s].expiryAt)
  /\ conn' = [conn EXCEPT ![s].expiryAt = 0, ![s].graceAt = now + Grace]
  /\ UNCHANGED <<now, access, ends, rights, late, failures>>

GraceOver(s) ==
  /\ Due(conn[s].graceAt)
  /\ Close({s})
  /\ UNCHANGED <<now, ends, rights, failures>>

\* auth:refresh: verifyAccess says yes to a token, of whichever session.  One at a time.
Verify(s) ==
  /\ conn[s].stage = "watched" /\ verified[s] = None
  /\ \E x \in Sessions : \E e \in Accepted(x) :
       verified' = [verified EXCEPT ![s] = [session |-> x, exp |-> e]]
  /\ UNCHANGED <<now, conn, asking, ends, rights, late, failures>>

\* Slip: any session of the user will do.
SameUser(s, token) == UserOf[token.session] = Owner(s)

\* A token of the same session and user
SameSession(s, token) == token.session = SessionOf[s]

\* Slip: the data of the connection is replaced by the context of the token.
RefreshedBare(c, token) == Armed([c EXCEPT !.exp = token.exp, !.noted = FALSE])

\* The subscriptions stay those of the moment.
Refreshed(c, token) == Armed([c EXCEPT !.exp = token.exp])

Refresh(s) ==
  /\ verified[s] # None
  /\ verified' = [verified EXCEPT ![s] = None]
  /\ conn' = IF SameSession(s, verified[s])
             THEN [conn EXCEPT ![s] = Refreshed(@, verified[s])]
             ELSE conn
  /\ UNCHANGED <<now, asking, ends, rights, late, failures>>

-----------------------------------------------------------------------------
(* Ends of sessions and users *)

\* The row is deleted, the tokens are refused, if Redis does not fail, and the event
\* is emitted all the same.
EndSession(x) ==
  /\ ended[x] = Never
  /\ ended' = [ended EXCEPT ![x] = now]
  /\ telling' = telling \cup {x}
  /\ \/ refused' = refused \cup {x} /\ UNCHANGED failures
     \/ Fails /\ UNCHANGED refused
  /\ UNCHANGED <<now, conn, access, purging, deleted, rights, late>>

\* disconnectSession; an error is logged.
DisconnectSession(x) ==
  /\ x \in telling
  /\ telling' = telling \ {x}
  /\ \/ /\ Close({s \in InRoom(UserOf[x]) : SessionOf[s] = x})
        /\ UNCHANGED failures
     \/ Fails /\ UNCHANGED <<conn, access, late>>
  /\ UNCHANGED <<now, ended, refused, purging, deleted, rights>>

\* The rows are deleted, and the first listener of the event closes the connections.
DeleteUser(u) ==
  /\ u \notin deleted
  /\ deleted' = deleted \cup {u}
  /\ purging' = purging \cup {u}
  /\ ended' = [x \in Sessions |-> IF UserOf[x] = u /\ ended[x] = Never THEN now ELSE ended[x]]
  /\ right' = right \ {u}
  /\ CloseBut(InRoom(u), Members(u))
  /\ UNCHANGED <<now, refused, telling, review, failures>>

\* The second has the tokens refused first; an error is logged.
RevokeUser(u) ==
  /\ u \in purging
  /\ purging' = purging \ {u}
  /\ \/ /\ refused' = refused \cup {x \in Sessions : UserOf[x] = u}
        /\ Close(InRoom(u))
        /\ UNCHANGED failures
     \/ Fails /\ UNCHANGED <<conn, access, refused, late>>
  /\ UNCHANGED <<now, ended, telling, deleted, rights>>

-----------------------------------------------------------------------------
(* The list room *)

\* room:subscribe: canJoin says yes.
Ask(s) ==
  /\ Open(s) /\ s \notin asking
  /\ Owner(s) \in right
  /\ asking' = asking \cup {s}
  /\ UNCHANGED <<now, conn, verified, ends, rights, late, failures>>

\* The answer is acted on, whatever happened since.
Join(s) ==
  /\ s \in asking
  /\ asking' = asking \ {s}
  /\ conn' = [conn EXCEPT ![s].member = TRUE, ![s].noted = TRUE]
  /\ late' = IF Owner(s) \in right THEN late ELSE late \cup {s}
  /\ UNCHANGED <<now, verified, ends, rights, failures>>

Unsubscribe(s) ==
  /\ Open(s) /\ conn[s].noted
  /\ conn' = [conn EXCEPT ![s].member = FALSE, ![s].noted = FALSE]
  /\ late' = late \ {s}
  /\ UNCHANGED <<now, access, ends, rights, failures>>

\* A user gains or loses the right, and the event is emitted.
ChangeRight(v) ==
  /\ review[v].step = "free" /\ review[v].of \notin deleted
  /\ right' = IF review[v].of \in right THEN right \ {review[v].of} ELSE right \cup {review[v].of}
  /\ review' = [review EXCEPT ![v].step = "wanted"]
  /\ UNCHANGED <<now, conn, access, ends, late, failures>>

\* revalidateUser: the connections found by the room of the user; an error is logged.
FetchSockets(v) ==
  LET members == Members(review[v].of)
      found == {s \in members : conn[s].room /\ conn[s].noted}
  IN
  /\ review[v].step = "wanted"
  /\ \/ /\ review' = [review EXCEPT ![v].step = IF found = {} THEN "over" ELSE "fetched",
                                  ![v].found = found]
        /\ late' = late \cup {s \in members : ~conn[s].room}
        /\ UNCHANGED failures
     \/ /\ review' = [review EXCEPT ![v].step = "over"]
        /\ late' = late \cup members
        /\ Fails
  /\ UNCHANGED <<now, conn, access, ends, right>>

\* canJoin, once for the room; an error is a refusal.
Decide(v) ==
  /\ review[v].step = "fetched"
  /\ \/ /\ review' = [review EXCEPT ![v].step = "decided", ![v].ok = (review[v].of \in right)]
        /\ UNCHANGED failures
     \/ /\ review' = [review EXCEPT ![v].step = "decided"]
        /\ Fails
  /\ UNCHANGED <<now, conn, access, ends, right, late>>

Evicted(c) == [c EXCEPT !.member = FALSE]

\* Out of the room; the subscription stays on record.
Revoke(v) ==
  LET out == IF review[v].ok THEN {} ELSE review[v].found IN
  /\ review[v].step = "decided"
  /\ review' = [review EXCEPT ![v].step = "over", ![v].found = {}, ![v].ok = FALSE]
  /\ conn' = [s \in Sockets |-> IF s \in out THEN Evicted(conn[s]) ELSE conn[s]]
  /\ late' = late \ out
  /\ UNCHANGED <<now, access, ends, right, failures>>

-----------------------------------------------------------------------------
SocketsTick ==
  /\ now < MaxTime
  /\ \A s \in Sockets : ~Due(conn[s].expiryAt) /\ ~Due(conn[s].graceAt)
  /\ now' = now + 1
  /\ UNCHANGED <<conn, access, ends, rights, late, failures>>

SocketsNext ==
  \/ \E s \in Sockets :
       \/ Handshake(s) \/ Enter(s) \/ Disconnect(s)
       \/ Expire(s) \/ GraceOver(s) \/ Verify(s) \/ Refresh(s)
       \/ Ask(s) \/ Join(s) \/ Unsubscribe(s)
  \/ \E x \in Sessions : EndSession(x) \/ DisconnectSession(x)
  \/ \E u \in Users : DeleteUser(u) \/ RevokeUser(u)
  \/ \E v \in Changes : ChangeRight(v) \/ FetchSockets(v) \/ Decide(v) \/ Revoke(v)
  \/ SocketsTick

SocketsSpec == SocketsInit /\ [][SocketsNext]_socketsVars

-----------------------------------------------------------------------------
(* Properties *)

\* Every variable has the type of the state it stands for.
SocketsTypeOK ==
  /\ now \in 0..MaxTime
  /\ conn \in [Sockets -> Conn]
  /\ asking \subseteq Sockets
  /\ verified \in [Sockets -> [session : Sessions, exp : Nat] \cup {None}]
  /\ ended \in [Sessions -> Nat \cup {Never}]
  /\ refused \subseteq Sessions /\ telling \subseteq Sessions
  /\ purging \subseteq deleted /\ deleted \subseteq Users
  /\ right \subseteq Users
  /\ review \in [Changes -> Review]
  /\ late \subseteq Sockets
  /\ failures \in 0..MaxFailures

\* A watched connection whose session has ended is closed when the longest token of
\* the session has expired and the grace has passed, though the listener that was to
\* close it failed, or came before the connection was in the room of its user, or the
\* write that has the tokens refused failed.  Only an auth:refresh checked before that
\* time may rearm the timers after it.
EndedSocketsClose ==
  \A s \in Sockets :
    conn[s].stage = "watched" /\ ended[SessionOf[s]] # Never =>
      now <= Later(ended[SessionOf[s]] + TokenLife, conn[s].armed) + Grace

\* Once the reviews are over, a user without the right sits in the list room only on
\* connections that no review could find: they joined on an answer given before the
\* right was lost, were not in the room of the user when it was searched, or the search
\* failed.  No auth:refresh, unsubscription or other review hides a subscription from it.
RevokedLeave ==
  \A s \in Sockets :
    /\ conn[s].member /\ Owner(s) \notin right
    /\ \A v \in Changes : review[v].of = Owner(s) => review[v].step \in {"free", "over"}
    => s \in late
=============================================================================

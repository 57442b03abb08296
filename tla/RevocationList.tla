--------------------------- MODULE RevocationList ---------------------------
(***************************************************************************)
(* SessionRevocationList: how a mark that ends a session, a user or a set  *)
(* of rights, written by one replica, comes to refuse access tokens on the *)
(* others.  Every replica keeps its own marks in memory and a short cache  *)
(* of what Redis answered; Redis keeps the marks of all.                   *)
(*                                                                         *)
(* A replica has one connection to Redis, so its commands are served, and  *)
(* their replies read, in the order sent; commands of different replicas   *)
(* are served in any order.  All marks concern one user: users share       *)
(* nothing but the size of the cache.  Clocks are taken to agree.          *)
(***************************************************************************)
EXTENDS Naturals, Sequences

CONSTANTS
  Replicas, Sessions,
  Calls,       \* calls, each made once on a replica of its own choice
  AccessTtl,   \* life of an access token
  MarkTtl,     \* accessTokenTtlMs(), life of a mark
  CacheTtl,    \* cacheTtlMs
  Second,      \* ticks in a second, the unit of iat
  Latency,     \* longest time Redis takes to answer, unless it fails
  MaxTime      \* bound of the clock

ASSUME TimesAssumption ==
  /\ AccessTtl \in Nat /\ MarkTtl \in Nat /\ CacheTtl \in Nat /\ MaxTime \in Nat
  /\ Latency \in Nat \ {0} /\ Second \in Nat \ {0}
  /\ AccessTtl <= MarkTtl

VARIABLES
  now,        \* the clock
  local,      \* _local: the marks in the memory of each replica
  shared,     \* the marks in Redis
  cache,      \* _cache: what Redis said of each session
  toRedis,    \* commands on the way to Redis, by replica
  fromRedis,  \* replies on the way back
  call,       \* the state of each call
  past        \* history: see Init

marks == <<local, shared>>
wires == <<toRedis, fromRedis>>
vars == <<now, marks, cache, wires, call, past>>

-----------------------------------------------------------------------------
(* Data *)

\* What a mark is about: one session, all tokens of the user, or his rights.
Subjects == Sessions \cup {"user", "privileges"}

Mark == [of : Subjects, at : Nat, until : Nat]

Token == [session : Sessions, pat : Nat]

Verdicts == {"revoked", "privileges-changed", "valid"}

InSeconds(t) == t \div Second

\* A key holds one value: the last one written.
Put(known, m) == {k \in known : k.of # m.of} \cup {m}

\* lookup
InForce(known) == {m \in known : now < m.until}

Revokes(m, token) ==
  \/ m.of = token.session
  \/ m.of = "user" /\ InSeconds(token.pat) <= InSeconds(m.at)

Verdict(state, token) ==
  CASE \E m \in state : Revokes(m, token) -> "revoked"
    [] \E m \in state : m.of = "privileges" /\ token.pat <= m.at
                        /\ ~\E k \in state : Revokes(k, token) -> "privileges-changed"
    [] OTHER -> "valid"

\* Slip: what Redis says replaces what the replica knows.
SharedOnly(mine, theirs) == theirs

\* The answer of check: revoked wins, the replica's own marks come first.
Combined(mine, theirs) ==
  IF theirs = "revoked" \/ mine = "valid" THEN theirs ELSE mine

Fresh(entry) == now < entry.until

NoEntry == [state |-> {}, until |-> 0]

At(c, pc) == call[c].pc = pc

Running(c) == call[c].pc \notin {"new", "answered", "done"}

Goto(c, state) == call' = [call EXCEPT ![c] = state]

\* "past" is history for the properties: the marks made by each replica since it
\* started, and the marks Redis has taken, with the time it did.
Init ==
  /\ now = 0
  /\ local = [r \in Replicas |-> {}]
  /\ shared = {}
  /\ cache = [r \in Replicas |-> [s \in Sessions |-> NoEntry]]
  /\ toRedis = [r \in Replicas |-> <<>>]
  /\ fromRedis = [r \in Replicas |-> <<>>]
  /\ call = [c \in Calls |-> [pc |-> "new"]]
  /\ past = [own |-> [r \in Replicas |-> {}], taken |-> {}]

\* Redis answers in time; what waits for no more than a promise of the process
\* itself takes none.
Tick ==
  /\ now < MaxTime
  /\ \A c \in Calls :
       /\ call[c].pc \notin {"consult", "publish"}
       /\ call[c].pc \in {"lookup", "set"} => now < call[c].sent + Latency
  /\ now' = now + 1
  /\ UNCHANGED <<marks, cache, wires, call, past>>

-----------------------------------------------------------------------------
(* What the properties expect of a check that starts now *)

Covers(m, token) ==
  /\ token.pat <= m.at
  /\ m.of \in {token.session, "user", "privileges"}

\* A mark that counts by its time, in whose place Redis may have put an earlier one: it
\* keeps the mark written last, and two replicas may write in the other order.
Overtaken(m) ==
  \E k \in past.taken :
    m.of \in {"user", "privileges"} /\ k.of = m.of /\ k.at < m.at /\ k.since >= m.since

\* The promises made for a token: "own" by the replica itself; "shared" by a mark that
\* Redis took long enough ago, if the token outlives the check.
Owed(r, token) ==
  {"own" : m \in {k \in past.own[r] : Covers(k, token)}}
    \cup {"shared" : m \in {k \in past.taken : /\ Covers(k, token) /\ ~Overtaken(k)
                                               /\ k.since + CacheTtl + Latency <= now
                                               /\ now + Latency < token.pat + AccessTtl}}

-----------------------------------------------------------------------------
(* check *)

Answered(c, verdict, failed) ==
  Goto(c, [pc |-> "answered", verdict |-> verdict, failed |-> failed,
           owed |-> call[c].owed])

\* verifyAccess found the token unexpired; the replica looks at its own marks.
Begin(c) ==
  /\ At(c, "new")
  /\ \E r \in Replicas, s \in Sessions, pat \in 0..now :
       LET token == [session |-> s, pat |-> pat]
           mine == Verdict(InForce(local[r]), token)
           owed == Owed(r, token)
       IN /\ now < pat + AccessTtl
          /\ Goto(c, IF mine = "revoked"
                     THEN [pc |-> "answered", verdict |-> mine, failed |-> FALSE,
                           owed |-> owed]
                     ELSE [pc |-> "consult", on |-> r, token |-> token, mine |-> mine,
                           owed |-> owed])
  /\ UNCHANGED <<now, marks, cache, wires, past>>

\* _lookupShared: a fresh entry of the cache, or a command to Redis.
Consult(c) ==
  /\ At(c, "consult")
  /\ LET me == call[c]
         entry == cache[me.on][me.token.session]
     IN IF Fresh(entry)
        THEN /\ Answered(c, Combined(me.mine, Verdict(entry.state, me.token)), FALSE)
             /\ UNCHANGED toRedis
        ELSE /\ Goto(c, [pc |-> "lookup", on |-> me.on, token |-> me.token,
                         mine |-> me.mine, owed |-> me.owed, sent |-> now, state |-> {}])
             /\ toRedis' = [toRedis EXCEPT ![me.on] = Append(@, c)]
  /\ UNCHANGED <<now, marks, cache, fromRedis, past>>

\* Slip: the entry lives one tick too long.
RememberLonger(entries, s, state) ==
  [entries EXCEPT ![s] = [state |-> state, until |-> now + CacheTtl + 1]]

\* _remember
Remember(entries, s, state) ==
  [entries EXCEPT ![s] = [state |-> state, until |-> now + CacheTtl]]

-----------------------------------------------------------------------------
(* revokeSessions, revokeUser, markPrivilegesChanged *)

MarkLocally(r, m) == [local EXCEPT ![r] = Put(@, m)]

\* The replica's own memory first.
Write(c) ==
  /\ At(c, "new")
  /\ \E r \in Replicas, subject \in Subjects :
       LET m == [of |-> subject, at |-> now, until |-> now + MarkTtl] IN
       /\ local' = MarkLocally(r, m)
       /\ past' = [past EXCEPT !.own[r] = @ \cup {[of |-> subject, at |-> now]}]
       /\ Goto(c, [pc |-> "publish", on |-> r, of |-> subject, at |-> now])
  /\ UNCHANGED <<now, shared, cache, wires>>

\* The entries of the cache the mark may concern are dropped, and Redis is told.
Publish(c) ==
  /\ At(c, "publish")
  /\ LET me == call[c] IN
       /\ cache' = [cache EXCEPT ![me.on] =
                      [s \in Sessions |-> IF me.of \in Sessions \ {s} THEN @[s] ELSE NoEntry]]
       /\ toRedis' = [toRedis EXCEPT ![me.on] = Append(@, c)]
       /\ Goto(c, [pc |-> "set", on |-> me.on, of |-> me.of, at |-> me.at, sent |-> now])
  /\ UNCHANGED <<now, marks, fromRedis, past>>

-----------------------------------------------------------------------------
(* Redis *)

\* MGET, or SET with PX: the mark lives from the time it is written.
Serve(r) ==
  /\ toRedis[r] # <<>>
  /\ LET c == Head(toRedis[r])
         me == call[c]
     IN IF At(c, "lookup")
        THEN /\ call' = [call EXCEPT ![c].state = InForce(shared)]
             /\ UNCHANGED <<shared, past>>
        ELSE /\ shared' = Put(shared, [of |-> me.of, at |-> me.at,
                                       until |-> now + MarkTtl])
             /\ past' = [past EXCEPT !.taken = @ \cup
                           {[of |-> me.of, at |-> me.at, since |-> now]}]
             /\ UNCHANGED call
  /\ toRedis' = [toRedis EXCEPT ![r] = Tail(@)]
  /\ fromRedis' = [fromRedis EXCEPT ![r] = Append(@, Head(toRedis[r]))]
  /\ UNCHANGED <<now, local, cache>>

\* The reply: the state is remembered and the check answered, or the mark is made.
Receive(r) ==
  /\ fromRedis[r] # <<>>
  /\ LET c == Head(fromRedis[r])
         me == call[c]
     IN IF At(c, "lookup")
        THEN /\ cache' = [cache EXCEPT ![r] = Remember(@, me.token.session, me.state)]
             /\ Answered(c, Combined(me.mine, Verdict(me.state, me.token)), FALSE)
        ELSE /\ Goto(c, [pc |-> "done"])
             /\ UNCHANGED cache
  /\ fromRedis' = [fromRedis EXCEPT ![r] = Tail(@)]
  /\ UNCHANGED <<now, marks, toRedis, past>>

\* Redis cannot be reached: a check goes by what the replica knows (fail-open), the
\* mark stays in its memory only.
Fail(r) ==
  /\ toRedis[r] # <<>>
  /\ LET c == Head(toRedis[r]) IN
       IF At(c, "lookup") THEN Answered(c, call[c].mine, TRUE)
                          ELSE Goto(c, [pc |-> "done"])
  /\ toRedis' = [toRedis EXCEPT ![r] = Tail(@)]
  /\ UNCHANGED <<now, marks, cache, fromRedis, past>>

\* A replica restarts with an empty memory; what it was doing is lost.
Restart(r) ==
  /\ local' = [local EXCEPT ![r] = {}]
  /\ cache' = [cache EXCEPT ![r] = [s \in Sessions |-> NoEntry]]
  /\ toRedis' = [toRedis EXCEPT ![r] = <<>>]
  /\ fromRedis' = [fromRedis EXCEPT ![r] = <<>>]
  /\ call' = [c \in Calls |->
                IF Running(c) /\ call[c].on = r THEN [pc |-> "done"] ELSE call[c]]
  /\ past' = [past EXCEPT !.own[r] = {}]
  /\ UNCHANGED <<now, shared>>

-----------------------------------------------------------------------------

Next ==
  \/ Tick
  \/ \E c \in Calls : Begin(c) \/ Consult(c) \/ Write(c) \/ Publish(c)
  \/ \E r \in Replicas : Serve(r) \/ Receive(r) \/ Fail(r) \/ Restart(r)

Spec == Init /\ [][Next]_vars

-----------------------------------------------------------------------------
(* Properties *)

Promises == SUBSET {"own", "shared"}

State == SUBSET Mark

Own == [of : Subjects, at : Nat]

Taken == [of : Subjects, at : Nat, since : Nat]

Call ==
  [pc : {"new", "done"}]
    \cup [pc : {"answered"}, verdict : Verdicts, failed : BOOLEAN, owed : Promises]
    \cup [pc : {"consult"}, on : Replicas, token : Token, mine : Verdicts, owed : Promises]
    \cup [pc : {"lookup"}, on : Replicas, token : Token, mine : Verdicts, owed : Promises,
          sent : Nat, state : State]
    \cup [pc : {"publish"}, on : Replicas, of : Subjects, at : Nat]
    \cup [pc : {"set"}, on : Replicas, of : Subjects, at : Nat, sent : Nat]

\* At most one mark for each key.
Keyed(known) == \A m, k \in known : m.of = k.of => m = k

TypeOK ==
  /\ now \in Nat
  /\ local \in [Replicas -> State] /\ \A r \in Replicas : Keyed(local[r])
  /\ shared \in State /\ Keyed(shared)
  /\ cache \in [Replicas -> [Sessions -> [state : State, until : Nat]]]
  /\ toRedis \in [Replicas -> Seq(Calls)]
  /\ fromRedis \in [Replicas -> Seq(Calls)]
  /\ call \in [Calls -> Call]
  /\ past \in [own : [Replicas -> SUBSET Own], taken : SUBSET Taken]

\* An answered check that let its token pass.
Passed(c) == At(c, "answered") /\ call[c].verdict = "valid"

\* The replica that made a mark refuses at once, and until they expire, the tokens the
\* mark is about, whatever Redis says or fails to say.
OwnMarksHonoured == \A c \in Calls : Passed(c) => "own" \notin call[c].owed

\* Once Redis has the mark of an ended session, a deleted user or a change of rights,
\* every replica that can reach it refuses the tokens, from a cache life and one answer
\* of Redis on (the class comment, session-revocation.ts:226, forgets the answer under
\* way), unless the mark of an earlier change was written over it.
MarksReachReplicas ==
  \A c \in Calls : Passed(c) /\ ~call[c].failed => "shared" \notin call[c].owed
=============================================================================

------------------------ MODULE RevocationList_proofs ------------------------
(***************************************************************************)
(* Safety of the two components whose state the replicas share in Redis:   *)
(* of RevocationList for any replicas, sessions, calls and times, and,     *)
(* from "The guard of a route" on, of Throttle for any requests, limit and *)
(* window.  The components have no state in common.                        *)
(***************************************************************************)
EXTENDS RevocationList, Throttle, FiniteSetTheorems, TLAPS

-----------------------------------------------------------------------------
(* Times *)

LEMMA Times ==
  /\ AccessTtl \in Nat /\ MarkTtl \in Nat /\ CacheTtl \in Nat /\ MaxTime \in Nat
  /\ Latency \in Nat /\ Latency > 0 /\ Second \in Nat /\ Second > 0
  /\ AccessTtl <= MarkTtl
  BY TimesAssumption

LEMMA SecondsGrow ==
  ASSUME NEW s \in Nat, NEW t \in Nat, s <= t
  PROVE  InSeconds(s) <= InSeconds(t)
  BY Times, Z3 DEF InSeconds

-----------------------------------------------------------------------------
(* Types *)

\* What a call has at hand at each program point.
LEMMA Shape ==
  ASSUME TypeOK, NEW c \in Calls
  PROVE  /\ call[c].pc \in {"consult", "lookup"} =>
              /\ call[c].on \in Replicas /\ call[c].token \in Token
              /\ call[c].mine \in Verdicts /\ call[c].owed \in Promises
         /\ At(c, "lookup") => call[c].sent \in Nat /\ call[c].state \in State
         /\ call[c].pc \in {"publish", "set"} =>
              call[c].on \in Replicas /\ call[c].of \in Subjects /\ call[c].at \in Nat
         /\ At(c, "set") => call[c].sent \in Nat
         /\ At(c, "answered") =>
              call[c].verdict \in Verdicts /\ call[c].failed \in BOOLEAN /\ call[c].owed \in Promises
  BY DEF TypeOK, Call, At

LEMMA GotoType ==
  ASSUME TypeOK, NEW c \in Calls, NEW state \in Call, Goto(c, state)
  PROVE  call' \in [Calls -> Call]
  BY DEF TypeOK, Goto

LEMMA VerdictType ==
  ASSUME NEW state, NEW token
  PROVE  Verdict(state, token) \in Verdicts
  BY DEF Verdict, Verdicts

LEMMA CombinedType ==
  ASSUME NEW mine \in Verdicts, NEW theirs \in Verdicts
  PROVE  Combined(mine, theirs) \in Verdicts
  BY DEF Combined

LEMMA AnsweredType ==
  ASSUME TypeOK, NEW c \in Calls, call[c].pc \in {"consult", "lookup"},
         NEW verdict \in Verdicts, NEW failed \in BOOLEAN, Answered(c, verdict, failed)
  PROVE  call' \in [Calls -> Call]
  <1>1. [pc |-> "answered", verdict |-> verdict, failed |-> failed, owed |-> call[c].owed] \in Call
    BY Shape DEF Call
  <1> QED
    BY <1>1, GotoType DEF Answered

LEMMA OwedType ==
  ASSUME NEW r, NEW token
  PROVE  Owed(r, token) \in Promises
  BY DEF Owed, Promises

LEMMA InForceType ==
  ASSUME NEW state \in State
  PROVE  InForce(state) \in State
  BY DEF InForce, State

LEMMA PutType ==
  ASSUME NEW state \in State, Keyed(state), NEW m \in Mark
  PROVE  Put(state, m) \in State /\ Keyed(Put(state, m))
  BY DEF Put, State, Keyed

LEMMA WireType ==
  ASSUME TypeOK, NEW r \in Replicas
  PROVE  /\ toRedis[r] \in Seq(Calls) /\ fromRedis[r] \in Seq(Calls)
         /\ toRedis[r] # <<>> => Head(toRedis[r]) \in Calls /\ Tail(toRedis[r]) \in Seq(Calls)
         /\ fromRedis[r] # <<>> => Head(fromRedis[r]) \in Calls /\ Tail(fromRedis[r]) \in Seq(Calls)
         /\ \A c \in Calls : Append(toRedis[r], c) \in Seq(Calls) /\ Append(fromRedis[r], c) \in Seq(Calls)
  BY DEF TypeOK

\* The wires of a replica carry what waits for Redis there.
Waits(c, r) == call[c].pc \in {"lookup", "set"} /\ call[c].on = r

Waiting ==
  \A r \in Replicas :
    /\ \A i \in 1..Len(toRedis[r]) : Waits(toRedis[r][i], r)
    /\ \A i \in 1..Len(fromRedis[r]) : Waits(fromRedis[r][i], r)

LEMMA InitTypeOK == Init => TypeOK
  <1> SUFFICES ASSUME Init PROVE TypeOK
    OBVIOUS
  <1>1. call \in [Calls -> Call] /\ NoEntry \in [state : State, until : Nat]
    BY DEF Init, Call, NoEntry, State
  <1>2. {} \in State /\ Keyed({}) /\ now \in Nat
    BY DEF Init, State, Keyed
  <1>3. past \in [own : [Replicas -> SUBSET Own], taken : SUBSET Taken]
    BY DEF Init
  <1>4. <<>> \in Seq(Calls)
    OBVIOUS
  <1> QED
    BY <1>1, <1>2, <1>3, <1>4 DEF Init, TypeOK

LEMMA HeadWaits ==
  ASSUME TypeOK, Waiting, NEW r \in Replicas
  PROVE  /\ toRedis[r] # <<>> => Waits(Head(toRedis[r]), r)
         /\ fromRedis[r] # <<>> => Waits(Head(fromRedis[r]), r)
  <1>1. toRedis[r] # <<>> => Head(toRedis[r]) = toRedis[r][1] /\ 1 \in 1..Len(toRedis[r])
    BY WireType
  <1>2. fromRedis[r] # <<>> => Head(fromRedis[r]) = fromRedis[r][1] /\ 1 \in 1..Len(fromRedis[r])
    BY WireType
  <1> QED
    BY <1>1, <1>2 DEF Waiting

LEMMA TypeStep == TypeOK /\ Waiting /\ [Next]_vars => TypeOK'
  <1> SUFFICES ASSUME TypeOK, Waiting, [Next]_vars PROVE TypeOK'
    OBVIOUS
  <1>0. CASE UNCHANGED vars
    BY <1>0 DEF vars, marks, wires, TypeOK
  <1>1. CASE Tick
    BY <1>1 DEF Tick, marks, wires, TypeOK
  <1>2. ASSUME NEW c \in Calls, Begin(c) PROVE TypeOK'
    <2>1. PICK r \in Replicas, s \in Sessions, pat \in 0..now :
            LET token == [session |-> s, pat |-> pat]
                mine == Verdict(InForce(local[r]), token)
                owed == Owed(r, token)
            IN Goto(c, IF mine = "revoked"
                       THEN [pc |-> "answered", verdict |-> mine, failed |-> FALSE,
                             owed |-> owed]
                       ELSE [pc |-> "consult", on |-> r, token |-> token, mine |-> mine,
                             owed |-> owed])
      BY <1>2 DEF Begin
    <2> DEFINE token == [session |-> s, pat |-> pat]
               mine == Verdict(InForce(local[r]), token)
               owed == Owed(r, token)
    <2>2. mine \in Verdicts /\ owed \in Promises /\ token \in Token
      BY VerdictType, OwedType DEF Token, TypeOK
    <2> HIDE DEF mine, owed, token
    <2>3. /\ [pc |-> "answered", verdict |-> mine, failed |-> FALSE, owed |-> owed] \in Call
          /\ [pc |-> "consult", on |-> r, token |-> token, mine |-> mine, owed |-> owed] \in Call
      BY <2>2 DEF Call
    <2>4. call' \in [Calls -> Call]
      BY <2>1, <2>3, GotoType DEF mine, owed, token
    <2> QED
      BY <1>2, <2>4 DEF Begin, marks, wires, TypeOK
  <1>3. ASSUME NEW c \in Calls, Consult(c) PROVE TypeOK'
    <2> DEFINE me == call[c]
               entry == cache[me.on][me.token.session]
    <2>1. /\ me.on \in Replicas /\ me.token \in Token /\ me.mine \in Verdicts
          /\ me.owed \in Promises /\ me.pc = "consult"
      BY <1>3, Shape DEF Consult, At
    <2>2. CASE /\ Answered(c, Combined(me.mine, Verdict(entry.state, me.token)), FALSE)
               /\ UNCHANGED toRedis
      <3>1. Combined(me.mine, Verdict(entry.state, me.token)) \in Verdicts
        BY <2>1, VerdictType, CombinedType
      <3>2. call' \in [Calls -> Call]
        BY <2>1, <2>2, <3>1, AnsweredType
      <3> QED
        BY <1>3, <2>2, <3>2 DEF Consult, marks, TypeOK
    <2>3. CASE /\ Goto(c, [pc |-> "lookup", on |-> me.on, token |-> me.token,
                           mine |-> me.mine, owed |-> me.owed, sent |-> now, state |-> {}])
               /\ toRedis' = [toRedis EXCEPT ![me.on] = Append(@, c)]
      <3>1. [pc |-> "lookup", on |-> me.on, token |-> me.token, mine |-> me.mine,
             owed |-> me.owed, sent |-> now, state |-> {}] \in Call
        BY <2>1 DEF Call, State, TypeOK
      <3>2. call' \in [Calls -> Call]
        BY <2>3, <3>1, GotoType
      <3>3. toRedis' \in [Replicas -> Seq(Calls)]
        BY <2>1, <2>3, WireType DEF TypeOK
      <3> QED
        BY <1>3, <3>2, <3>3 DEF Consult, marks, TypeOK
    <2> QED
      BY <1>3, <2>2, <2>3 DEF Consult
  <1>4. ASSUME NEW c \in Calls, Write(c) PROVE TypeOK'
    <2>1. PICK r \in Replicas, subject \in Subjects :
            LET m == [of |-> subject, at |-> now, until |-> now + MarkTtl] IN
            /\ local' = MarkLocally(r, m)
            /\ past' = [past EXCEPT !.own[r] = @ \cup {[of |-> subject, at |-> now]}]
            /\ Goto(c, [pc |-> "publish", on |-> r, of |-> subject, at |-> now])
      BY <1>4 DEF Write
    <2> DEFINE m == [of |-> subject, at |-> now, until |-> now + MarkTtl]
    <2>2. m \in Mark /\ [of |-> subject, at |-> now] \in Own
      BY Times DEF Mark, Own, TypeOK
    <2>3. local' \in [Replicas -> State] /\ \A q \in Replicas : Keyed(local'[q])
      <3>1. local' = [local EXCEPT ![r] = Put(local[r], m)]
        BY <2>1 DEF MarkLocally
      <3> HIDE DEF m
      <3>2. Put(local[r], m) \in State /\ Keyed(Put(local[r], m))
        BY <2>2, PutType DEF TypeOK
      <3> QED
        BY <3>1, <3>2 DEF TypeOK
    <2>4. [pc |-> "publish", on |-> r, of |-> subject, at |-> now] \in Call
      BY DEF Call, TypeOK
    <2>5. call' \in [Calls -> Call]
      BY <2>1, <2>4, GotoType
    <2>6. past' \in [own : [Replicas -> SUBSET Own], taken : SUBSET Taken]
      BY <2>1, <2>2 DEF TypeOK
    <2> QED
      BY <1>4, <2>3, <2>5, <2>6 DEF Write, wires, TypeOK
  <1>5. ASSUME NEW c \in Calls, Publish(c) PROVE TypeOK'
    <2> DEFINE me == call[c]
    <2>1. me.on \in Replicas /\ me.of \in Subjects /\ me.at \in Nat
      BY <1>5, Shape DEF Publish, At
    <2>2. [pc |-> "set", on |-> me.on, of |-> me.of, at |-> me.at, sent |-> now] \in Call
      BY <2>1 DEF Call, TypeOK
    <2>3. call' \in [Calls -> Call]
      BY <1>5, <2>2, GotoType DEF Publish
    <2>4. toRedis' \in [Replicas -> Seq(Calls)]
      BY <1>5, <2>1, WireType DEF Publish, TypeOK
    <2>5. NoEntry \in [state : State, until : Nat]
      BY DEF NoEntry, State
    <2>6. cache' \in [Replicas -> [Sessions -> [state : State, until : Nat]]]
      BY <1>5, <2>1, <2>5 DEF Publish, TypeOK
    <2> QED
      BY <1>5, <2>3, <2>4, <2>6 DEF Publish, marks, TypeOK
  <1>6. ASSUME NEW r \in Replicas, Serve(r) PROVE TypeOK'
    <2> DEFINE c == Head(toRedis[r])
               me == call[c]
    <2>1. c \in Calls /\ me.pc \in {"lookup", "set"} /\ me.on = r
      BY <1>6, WireType, HeadWaits DEF Serve, Waits
    <2>2. toRedis' \in [Replicas -> Seq(Calls)] /\ fromRedis' \in [Replicas -> Seq(Calls)]
      BY <1>6, <2>1, WireType DEF Serve, TypeOK
    <2>3. CASE me.pc = "lookup"
      <3>1. call' = [call EXCEPT ![c].state = InForce(shared)] /\ UNCHANGED <<shared, past>>
        BY <1>6, <2>3 DEF Serve, At
      <3>2. InForce(shared) \in State
        BY InForceType DEF TypeOK
      <3>3. [me EXCEPT !.state = InForce(shared)] \in Call
        <4> DEFINE L == [pc : {"lookup"}, on : Replicas, token : Token, mine : Verdicts,
                         owed : Promises, sent : Nat, state : State]
        <4>1. me \in L
          BY <2>1, <2>3 DEF TypeOK, Call
        <4>2. [me EXCEPT !.state = InForce(shared)] \in L
          BY <3>2, <4>1
        <4> QED
          BY <4>2 DEF Call
      <3>4. call' \in [Calls -> Call]
        BY <2>1, <3>1, <3>3 DEF TypeOK
      <3> QED
        BY <1>6, <2>2, <3>1, <3>4 DEF Serve, TypeOK
    <2>4. CASE me.pc = "set"
      <3> DEFINE m == [of |-> me.of, at |-> me.at, until |-> now + MarkTtl]
                 k == [of |-> me.of, at |-> me.at, since |-> now]
      <3>1. me.of \in Subjects /\ me.at \in Nat
        BY <2>1, <2>4, Shape
      <3>2. m \in Mark /\ k \in Taken
        BY <3>1, Times DEF Mark, Taken, TypeOK
      <3>3. shared' = Put(shared, m) /\ past' = [past EXCEPT !.taken = @ \cup {k}] /\ UNCHANGED call
        BY <1>6, <2>4 DEF Serve, At
      <3> HIDE DEF m, k
      <3>4. shared' \in State /\ Keyed(shared')
        BY <3>2, <3>3, PutType DEF TypeOK
      <3>5. past' \in [own : [Replicas -> SUBSET Own], taken : SUBSET Taken]
        BY <3>2, <3>3 DEF TypeOK
      <3> QED
        BY <1>6, <2>2, <3>3, <3>4, <3>5 DEF Serve, TypeOK
    <2> QED
      BY <2>1, <2>3, <2>4
  <1>7. ASSUME NEW r \in Replicas, Receive(r) PROVE TypeOK'
    <2>0. PICK c \in Calls : c = Head(fromRedis[r])
      BY <1>7, WireType DEF Receive
    <2> DEFINE me == call[c]
    <2>1. me.pc \in {"lookup", "set"} /\ me.on = r
      BY <1>7, <2>0, HeadWaits DEF Receive, Waits
    <2>2. fromRedis' \in [Replicas -> Seq(Calls)]
      BY <1>7, <2>1, WireType DEF Receive, TypeOK
    <2>3. CASE me.pc = "lookup"
      <3>1. /\ cache' = [cache EXCEPT ![r] = Remember(@, me.token.session, me.state)]
            /\ Answered(c, Combined(me.mine, Verdict(me.state, me.token)), FALSE)
        BY <1>7, <2>0, <2>3 DEF Receive, At
      <3>2. me.token \in Token /\ me.mine \in Verdicts /\ me.state \in State
        BY <2>1, <2>3, Shape DEF At
      <3>3. Combined(me.mine, Verdict(me.state, me.token)) \in Verdicts
        BY <3>2, VerdictType, CombinedType
      <3>4. call' \in [Calls -> Call]
        <4> DEFINE verdict == Combined(me.mine, Verdict(me.state, me.token))
        <4>1. verdict \in Verdicts /\ Answered(c, verdict, FALSE)
          BY <3>1, <3>3
        <4>2. call[c].pc \in {"consult", "lookup"}
          BY <2>3
        <4> HIDE DEF verdict
        <4> QED
          BY <2>0, <4>1, <4>2, AnsweredType
      <3>5. cache' \in [Replicas -> [Sessions -> [state : State, until : Nat]]]
        BY <3>1, <3>2, Times DEF Remember, Token, TypeOK
      <3> QED
        BY <1>7, <2>2, <3>4, <3>5 DEF Receive, marks, TypeOK
    <2>4. CASE me.pc = "set"
      <3>1. Goto(c, [pc |-> "done"]) /\ UNCHANGED cache
        BY <1>7, <2>0, <2>4 DEF Receive, At
      <3>2. [pc |-> "done"] \in Call
        BY DEF Call
      <3>3. call' \in [Calls -> Call]
        BY <2>1, <3>1, <3>2, GotoType
      <3> QED
        BY <1>7, <2>2, <3>1, <3>3 DEF Receive, marks, TypeOK
    <2> QED
      BY <2>1, <2>3, <2>4
  <1>8. ASSUME NEW r \in Replicas, Fail(r) PROVE TypeOK'
    <2>0. PICK c \in Calls : c = Head(toRedis[r])
      BY <1>8, WireType DEF Fail
    <2>1. call[c].pc \in {"lookup", "set"}
      BY <1>8, <2>0, HeadWaits DEF Fail, Waits
    <2>2. toRedis' \in [Replicas -> Seq(Calls)]
      BY <1>8, <2>1, WireType DEF Fail, TypeOK
    <2>3. call' \in [Calls -> Call]
      <3>1. CASE call[c].pc = "lookup"
        <4>1. Answered(c, call[c].mine, TRUE)
          BY <1>8, <2>0, <3>1 DEF Fail, At
        <4>2. call[c].mine \in Verdicts
          BY <2>1, <3>1, Shape
        <4> QED
          BY <2>0, <2>1, <3>1, <4>1, <4>2, AnsweredType
      <3>2. CASE call[c].pc = "set"
        <4>1. [pc |-> "done"] \in Call
          BY DEF Call
        <4> QED
          BY <1>8, <2>0, <2>1, <3>2, <4>1, GotoType DEF Fail, At
      <3> QED
        BY <2>1, <3>1, <3>2
    <2> QED
      BY <1>8, <2>2, <2>3 DEF Fail, marks, TypeOK
  <1>9. ASSUME NEW r \in Replicas, Restart(r) PROVE TypeOK'
    <2>1. [pc |-> "done"] \in Call /\ NoEntry \in [state : State, until : Nat]
      BY DEF Call, NoEntry, State
    <2>2. call' \in [Calls -> Call]
      BY <1>9, <2>1 DEF Restart, TypeOK
    <2>3. {} \in State /\ Keyed({}) /\ <<>> \in Seq(Calls)
      BY DEF State, Keyed
    <2>4. past' \in [own : [Replicas -> SUBSET Own], taken : SUBSET Taken]
      BY <1>9 DEF Restart, TypeOK
    <2> QED
      BY <1>9, <2>1, <2>2, <2>3, <2>4 DEF Restart, TypeOK
  <1> QED
    BY <1>0, <1>1, <1>2, <1>3, <1>4, <1>5, <1>6, <1>7, <1>8, <1>9 DEF Next

-----------------------------------------------------------------------------
(* The wires *)

\* No call is on the wires of a replica twice.
Apart ==
  \A r \in Replicas :
    /\ \A i, j \in 1..Len(toRedis[r]) : toRedis[r][i] = toRedis[r][j] => i = j
    /\ \A i, j \in 1..Len(fromRedis[r]) : fromRedis[r][i] = fromRedis[r][j] => i = j
    /\ \A i \in 1..Len(toRedis[r]), j \in 1..Len(fromRedis[r]) : toRedis[r][i] # fromRedis[r][j]

Wired == Waiting /\ Apart

\* What the wires are after a command is sent, served, answered or lost.
LEMMA AppendIndex ==
  ASSUME NEW S, NEW w \in Seq(S), NEW e \in S
  PROVE  /\ Append(w, e) \in Seq(S) /\ Len(Append(w, e)) = Len(w) + 1 /\ Len(w) \in Nat
         /\ \A i \in 1..Len(w) : Append(w, e)[i] = w[i]
         /\ Append(w, e)[Len(w) + 1] = e
  OBVIOUS

LEMMA TailIndex ==
  ASSUME NEW S, NEW w \in Seq(S), w # <<>>
  PROVE  /\ Tail(w) \in Seq(S) /\ Len(Tail(w)) = Len(w) - 1 /\ Len(w) \in Nat /\ Len(w) > 0
         /\ \A i \in 1..Len(w) - 1 : Tail(w)[i] = w[i + 1]
         /\ Head(w) = w[1]
  OBVIOUS

LEMMA HeadElsewhere ==
  ASSUME TypeOK, Wired, NEW r \in Replicas
  PROVE  /\ toRedis[r] # <<>> =>
              /\ \A i \in 1..Len(Tail(toRedis[r])) : Tail(toRedis[r])[i] # Head(toRedis[r])
              /\ \A i \in 1..Len(fromRedis[r]) : fromRedis[r][i] # Head(toRedis[r])
         /\ fromRedis[r] # <<>> =>
              /\ \A i \in 1..Len(Tail(fromRedis[r])) : Tail(fromRedis[r])[i] # Head(fromRedis[r])
              /\ \A i \in 1..Len(toRedis[r]) : toRedis[r][i] # Head(fromRedis[r])
  <1>1. ASSUME toRedis[r] # <<>>
        PROVE  /\ \A i \in 1..Len(Tail(toRedis[r])) : Tail(toRedis[r])[i] # Head(toRedis[r])
               /\ \A i \in 1..Len(fromRedis[r]) : fromRedis[r][i] # Head(toRedis[r])
    BY <1>1, WireType, TailIndex DEF Wired, Apart
  <1>2. ASSUME fromRedis[r] # <<>>
        PROVE  /\ \A i \in 1..Len(Tail(fromRedis[r])) : Tail(fromRedis[r])[i] # Head(fromRedis[r])
               /\ \A i \in 1..Len(toRedis[r]) : toRedis[r][i] # Head(fromRedis[r])
    BY <1>2, WireType, TailIndex DEF Wired, Apart
  <1> QED
    BY <1>1, <1>2

\* The wires of the other replicas carry other calls.
LEMMA OthersWait ==
  ASSUME Waiting, NEW q \in Replicas, NEW r \in Replicas, q # r, NEW c, call[c].on = r
  PROVE  /\ \A i \in 1..Len(toRedis[q]) : toRedis[q][i] # c
         /\ \A i \in 1..Len(fromRedis[q]) : fromRedis[q][i] # c
  BY DEF Waiting, Waits

\* A call that does not wait is on no wire.
LEMMA OffWires ==
  ASSUME Waiting, NEW q \in Replicas, NEW c, call[c].pc \notin {"lookup", "set"}
  PROVE  /\ \A i \in 1..Len(toRedis[q]) : toRedis[q][i] # c
         /\ \A i \in 1..Len(fromRedis[q]) : fromRedis[q][i] # c
  BY DEF Waiting, Waits

\* Wires stay sound when the calls on them still wait where they did.
LEMMA WiredSame ==
  ASSUME TypeOK, Wired, UNCHANGED wires,
         \A q \in Replicas :
           /\ \A i \in 1..Len(toRedis[q]) : Waits(toRedis[q][i], q)'
           /\ \A i \in 1..Len(fromRedis[q]) : Waits(fromRedis[q][i], q)'
  PROVE  Wired'
  BY DEF Wired, Waiting, Apart, wires

LEMMA SentWired ==
  ASSUME TypeOK, Wired, NEW c \in Calls, NEW r \in Replicas, NEW state, Goto(c, state),
         call[c].pc \notin {"lookup", "set"}, state.pc \in {"lookup", "set"}, state.on = r,
         toRedis' = [toRedis EXCEPT ![r] = Append(@, c)], UNCHANGED fromRedis
  PROVE  Wired'
  <1>1. call'[c] = state /\ \A d \in Calls \ {c} : call'[d] = call[d]
    BY DEF Goto, TypeOK
  <1>2. \A q \in Replicas : /\ \A i \in 1..Len(toRedis[q]) : toRedis[q][i] \in Calls \ {c}
                            /\ \A i \in 1..Len(fromRedis[q]) : fromRedis[q][i] \in Calls \ {c}
    BY OffWires, WireType DEF Wired
  <1> SUFFICES ASSUME NEW q \in Replicas
               PROVE  /\ \A i \in 1..Len(toRedis'[q]) : Waits(toRedis[q][i], q)'
                      /\ \A i \in 1..Len(fromRedis[q]) : Waits(fromRedis[q][i], q)'
                      /\ \A i, j \in 1..Len(toRedis'[q]) : toRedis'[q][i] = toRedis'[q][j] => i = j
                      /\ \A i, j \in 1..Len(fromRedis[q]) : fromRedis[q][i] = fromRedis[q][j] => i = j
                      /\ \A i \in 1..Len(toRedis'[q]), j \in 1..Len(fromRedis[q]) : toRedis'[q][i] # fromRedis[q][j]
    BY DEF Wired, Waiting, Apart
  <1>3. /\ \A i \in 1..Len(fromRedis[q]) : Waits(fromRedis[q][i], q)'
        /\ \A i \in 1..Len(toRedis[q]) : call'[toRedis[q][i]] = call[toRedis[q][i]]
    BY <1>1, <1>2 DEF Wired, Waiting, Waits
  <1>4. /\ \A i \in 1..Len(toRedis[q]) : Waits(toRedis[q][i], q)
        /\ \A i, j \in 1..Len(toRedis[q]) : toRedis[q][i] = toRedis[q][j] => i = j
        /\ \A i, j \in 1..Len(fromRedis[q]) : fromRedis[q][i] = fromRedis[q][j] => i = j
        /\ \A i \in 1..Len(toRedis[q]), j \in 1..Len(fromRedis[q]) : toRedis[q][i] # fromRedis[q][j]
    BY DEF Wired, Waiting, Apart
  <1>5. CASE q # r
    <2>1. toRedis'[q] = toRedis[q]
      BY <1>5 DEF TypeOK
    <2>2. ASSUME NEW i \in 1..Len(toRedis'[q]) PROVE Waits(toRedis[q][i], q)'
      <3>1. i \in 1..Len(toRedis[q]) /\ toRedis'[q][i] = toRedis[q][i]
        BY <2>1
      <3>2. call'[toRedis[q][i]] = call[toRedis[q][i]] /\ Waits(toRedis[q][i], q)
        BY <1>3, <1>4, <3>1
      <3> QED
        BY <3>1, <3>2 DEF Waits
    <2>3. \A i, j \in 1..Len(toRedis'[q]) : toRedis'[q][i] = toRedis'[q][j] => i = j
      <3>1. \A i, j \in 1..Len(toRedis[q]) : toRedis[q][i] = toRedis[q][j] => i = j
        BY <1>4
      <3> QED
        BY <2>1, <3>1
    <2>4. \A i \in 1..Len(toRedis'[q]), j \in 1..Len(fromRedis[q]) : toRedis'[q][i] # fromRedis[q][j]
      <3>1. \A i \in 1..Len(toRedis[q]), j \in 1..Len(fromRedis[q]) : toRedis[q][i] # fromRedis[q][j]
        BY <1>4
      <3> QED
        BY <2>1, <3>1
    <2> QED
      BY <1>3, <1>4, <2>2, <2>3, <2>4
  <1>6. CASE q = r
    <2> DEFINE w == toRedis[r]
    <2>1. w \in Seq(Calls) /\ toRedis'[r] = Append(w, c)
      BY WireType DEF TypeOK
    <2>2. /\ Len(toRedis'[r]) = Len(w) + 1 /\ Len(w) \in Nat
          /\ \A i \in 1..Len(w) : toRedis'[r][i] = w[i]
          /\ toRedis'[r][Len(w) + 1] = c
      BY <2>1, AppendIndex
    <2>3. \A i \in 1..Len(w) : w[i] # c /\ call'[w[i]].pc \in {"lookup", "set"} /\ call'[w[i]].on = r
      BY <1>2, <1>3, <1>4, <1>6 DEF Waits
    <2>4. \A i \in 1..Len(fromRedis[r]) : fromRedis[r][i] # c
      BY <1>2
    <2> HIDE DEF w
    <2>5. \A i \in 1..Len(toRedis'[r]) : i \in 1..Len(w) \/ i = Len(w) + 1
      BY <2>2
    <2>6. \A i \in 1..Len(toRedis'[r]) : Waits(toRedis[r][i], r)'
      BY <1>1, <2>2, <2>3, <2>5 DEF Waits
    <2>7. \A i, j \in 1..Len(toRedis'[r]) : toRedis'[r][i] = toRedis'[r][j] => i = j
      BY <1>4, <1>6, <2>2, <2>3, <2>5 DEF w
    <2>8. \A i \in 1..Len(toRedis'[r]), j \in 1..Len(fromRedis[r]) : toRedis'[r][i] # fromRedis[r][j]
      BY <1>4, <1>6, <2>2, <2>4, <2>5 DEF w
    <2> QED
      BY <1>3, <1>4, <1>6, <2>6, <2>7, <2>8
  <1> QED
    BY <1>5, <1>6

LEMMA WiredStep == TypeOK /\ Wired /\ [Next]_vars => Wired'
  <1> SUFFICES ASSUME TypeOK, Wired, [Next]_vars PROVE Wired'
    OBVIOUS
  <1>a. Waiting /\ Apart
    BY DEF Wired
  <1>b. ASSUME UNCHANGED <<wires, call>> PROVE Wired'
    BY <1>a, <1>b, WiredSame DEF wires, Waiting, Waits
  <1>c. ASSUME NEW c \in Calls, NEW state, call[c].pc \notin {"lookup", "set"}, Goto(c, state), UNCHANGED wires
        PROVE  Wired'
    <2>1. \A d \in Calls \ {c} : call'[d] = call[d]
      BY <1>c DEF Goto, TypeOK
    <2>2. \A q \in Replicas : /\ \A i \in 1..Len(toRedis[q]) : toRedis[q][i] \in Calls \ {c}
                              /\ \A i \in 1..Len(fromRedis[q]) : fromRedis[q][i] \in Calls \ {c}
      BY <1>a, <1>c, OffWires, WireType
    <2> QED
      BY <1>a, <1>c, <2>1, <2>2, WiredSame DEF wires, Waiting, Waits
  <1>0. CASE UNCHANGED vars
    BY <1>0, <1>b DEF vars
  <1>1. CASE Tick
    BY <1>1, <1>b DEF Tick
  <1>2. ASSUME NEW c \in Calls, Begin(c) PROVE Wired'
    BY <1>2, <1>c DEF Begin, At
  <1>3. ASSUME NEW c \in Calls, Consult(c) PROVE Wired'
    <2> DEFINE me == call[c]
               entry == cache[me.on][me.token.session]
    <2>1. call[c].pc = "consult" /\ me.on \in Replicas
      BY <1>3, Shape DEF Consult, At
    <2>2. CASE /\ Answered(c, Combined(me.mine, Verdict(entry.state, me.token)), FALSE)
               /\ UNCHANGED toRedis
      BY <1>3, <2>1, <2>2, <1>c DEF Answered, Consult, wires
    <2>3. CASE /\ Goto(c, [pc |-> "lookup", on |-> me.on, token |-> me.token,
                           mine |-> me.mine, owed |-> me.owed, sent |-> now, state |-> {}])
               /\ toRedis' = [toRedis EXCEPT ![me.on] = Append(@, c)]
      BY <1>3, <2>1, <2>3, SentWired DEF Consult
    <2> QED
      BY <1>3, <2>2, <2>3 DEF Consult
  <1>4. ASSUME NEW c \in Calls, Write(c) PROVE Wired'
    BY <1>4, <1>c DEF Write, At
  <1>5. ASSUME NEW c \in Calls, Publish(c) PROVE Wired'
    <2> DEFINE me == call[c]
    <2>1. call[c].pc = "publish" /\ me.on \in Replicas
      BY <1>5, Shape DEF Publish, At
    <2> QED
      BY <1>5, <2>1, SentWired DEF Publish
  <1>6. ASSUME NEW r \in Replicas, Serve(r) PROVE Wired'
    <2>0. PICK c \in Calls : c = Head(toRedis[r])
      BY <1>6, WireType DEF Serve
    <2>1. \A d \in Calls : call'[d].pc = call[d].pc /\ (call[d].pc \in {"lookup", "set"} => call'[d].on = call[d].on)
      <3>1. call[c].pc \in {"lookup", "set"}
        BY <1>a, <1>6, <2>0, HeadWaits DEF Serve, Waits
      <3>2. call[c].pc = "lookup" => call[c] \in [pc : {"lookup"}, on : Replicas, token : Token,
                                     mine : Verdicts, owed : Promises, sent : Nat, state : State]
        BY DEF TypeOK, Call
      <3>3. CASE call[c].pc = "lookup"
        <4>1. call' = [call EXCEPT ![c].state = InForce(shared)]
          BY <1>6, <2>0, <3>3 DEF Serve, At
        <4>2. call'[c].pc = "lookup" /\ call'[c].on = call[c].on
          BY <3>2, <3>3, <4>1 DEF TypeOK
        <4>3. \A d \in Calls \ {c} : call'[d] = call[d]
          BY <4>1 DEF TypeOK
        <4> QED
          BY <3>3, <4>2, <4>3
      <3>4. CASE call[c].pc = "set"
        BY <1>6, <2>0, <3>4 DEF Serve, At
      <3> QED
        BY <3>1, <3>3, <3>4
    <2> DEFINE w == toRedis[r]
               f == fromRedis[r]
    <2>2. w \in Seq(Calls) /\ f \in Seq(Calls) /\ w # <<>> /\ Head(w) = c
          /\ toRedis'[r] = Tail(w) /\ fromRedis'[r] = Append(f, c)
      BY <1>6, <2>0, WireType DEF Serve, TypeOK
    <2>3. \A q \in Replicas \ {r} : toRedis'[q] = toRedis[q] /\ fromRedis'[q] = fromRedis[q]
      BY <1>6 DEF Serve, TypeOK
    <2>4. /\ Len(Tail(w)) = Len(w) - 1 /\ Len(w) \in Nat /\ Len(w) > 0 /\ w[1] = c
          /\ \A i \in 1..Len(w) - 1 : Tail(w)[i] = w[i + 1]
          /\ Len(Append(f, c)) = Len(f) + 1 /\ Len(f) \in Nat
          /\ \A i \in 1..Len(f) : Append(f, c)[i] = f[i]
          /\ Append(f, c)[Len(f) + 1] = c
      BY <2>2, TailIndex, AppendIndex
    <2>5. \A i \in 1..Len(f) : f[i] # c
      BY <1>a, <2>2, HeadElsewhere
    <2>6. /\ \A i \in 1..Len(w) : w[i] \in Calls /\ Waits(w[i], r)
          /\ \A i \in 1..Len(f) : f[i] \in Calls /\ Waits(f[i], r)
      BY <1>a, WireType DEF Waiting
    <2>7. ASSUME NEW q \in Replicas \ {r}
          PROVE  /\ \A i \in 1..Len(toRedis[q]) : toRedis[q][i] \in Calls /\ Waits(toRedis[q][i], q)
                 /\ \A i \in 1..Len(fromRedis[q]) : fromRedis[q][i] \in Calls /\ Waits(fromRedis[q][i], q)
      BY <1>a, WireType DEF Waiting
    <2>8. Waiting'
      <3> SUFFICES ASSUME NEW q \in Replicas
                   PROVE  /\ \A i \in 1..Len(toRedis'[q]) :
                               call'[toRedis'[q][i]].pc \in {"lookup", "set"} /\ call'[toRedis'[q][i]].on = q
                          /\ \A i \in 1..Len(fromRedis'[q]) :
                               call'[fromRedis'[q][i]].pc \in {"lookup", "set"} /\ call'[fromRedis'[q][i]].on = q
        BY DEF Waiting, Waits
      <3>1. CASE q # r
        BY <2>1, <2>3, <2>7, <3>1 DEF Waits
      <3>2. CASE q = r
        <4> HIDE DEF w, f
        <4>1. \A i \in 1..Len(Tail(w)) : i + 1 \in 1..Len(w) /\ Tail(w)[i] = w[i + 1]
          BY <2>4
        <4>2. \A i \in 1..Len(Append(f, c)) : i \in 1..Len(f) \/ i = Len(f) + 1
          BY <2>4
        <4>3. \A i \in 1..Len(Tail(w)) :
                call'[Tail(w)[i]].pc \in {"lookup", "set"} /\ call'[Tail(w)[i]].on = r
          BY <2>1, <2>6, <4>1 DEF Waits
        <4>4. call'[c].pc \in {"lookup", "set"} /\ call'[c].on = r
          BY <2>1, <2>4, <2>6 DEF Waits
        <4>5. \A i \in 1..Len(Append(f, c)) :
                call'[Append(f, c)[i]].pc \in {"lookup", "set"} /\ call'[Append(f, c)[i]].on = r
          BY <2>1, <2>4, <2>6, <4>2, <4>4 DEF Waits
        <4> QED
          BY <2>2, <3>2, <4>3, <4>5
      <3> QED
        BY <3>1, <3>2
    <2>9. Apart'
      <3> SUFFICES ASSUME NEW q \in Replicas
                   PROVE  /\ \A i, j \in 1..Len(toRedis'[q]) : toRedis'[q][i] = toRedis'[q][j] => i = j
                          /\ \A i, j \in 1..Len(fromRedis'[q]) : fromRedis'[q][i] = fromRedis'[q][j] => i = j
                          /\ \A i \in 1..Len(toRedis'[q]), j \in 1..Len(fromRedis'[q]) :
                               toRedis'[q][i] # fromRedis'[q][j]
        BY DEF Apart
      <3>1. CASE q # r
        BY <1>a, <2>3, <3>1 DEF Apart
      <3>2. CASE q = r
        <4>1. /\ \A i, j \in 1..Len(w) : w[i] = w[j] => i = j
              /\ \A i, j \in 1..Len(f) : f[i] = f[j] => i = j
              /\ \A i \in 1..Len(w), j \in 1..Len(f) : w[i] # f[j]
          BY <1>a DEF Apart
        <4> HIDE DEF w, f
        <4>2. \A i \in 1..Len(Tail(w)) : i + 1 \in 1..Len(w) /\ i + 1 # 1 /\ Tail(w)[i] = w[i + 1]
          BY <2>4
        <4>3. \A i \in 1..Len(Append(f, c)) : i \in 1..Len(f) \/ i = Len(f) + 1
          BY <2>4
        <4>4. \A i, j \in 1..Len(Tail(w)) : Tail(w)[i] = Tail(w)[j] => i = j
          BY <4>1, <4>2
        <4>5. \A i, j \in 1..Len(Append(f, c)) : Append(f, c)[i] = Append(f, c)[j] => i = j
          BY <2>4, <2>5, <4>1, <4>3
        <4>6. \A i \in 1..Len(Tail(w)) : Tail(w)[i] # c
          BY <2>4, <4>1, <4>2
        <4>7. \A i \in 1..Len(Tail(w)), j \in 1..Len(Append(f, c)) : Tail(w)[i] # Append(f, c)[j]
          BY <2>4, <4>1, <4>2, <4>3, <4>6
        <4> QED
          <5>1. toRedis'[q] = Tail(w) /\ fromRedis'[q] = Append(f, c)
            BY <2>2, <3>2
          <5> QED
            BY <4>4, <4>5, <4>7, <5>1
      <3> QED
        BY <3>1, <3>2
    <2> QED
      BY <2>8, <2>9 DEF Wired
  <1>7. ASSUME NEW r \in Replicas, NEW c \in Calls, NEW w, NEW f,
               toRedis' = [toRedis EXCEPT ![r] = w], fromRedis' = [fromRedis EXCEPT ![r] = f],
               \/ toRedis[r] # <<>> /\ c = Head(toRedis[r]) /\ w = Tail(toRedis[r]) /\ f = fromRedis[r]
               \/ fromRedis[r] # <<>> /\ c = Head(fromRedis[r]) /\ f = Tail(fromRedis[r]) /\ w = toRedis[r],
               NEW state, Goto(c, state)
        PROVE  Wired'
    <2>1. \A d \in Calls \ {c} : call'[d] = call[d]
      BY <1>7 DEF Goto, TypeOK
    <2>2. /\ toRedis'[r] = w /\ fromRedis'[r] = f
          /\ \A q \in Replicas \ {r} : toRedis'[q] = toRedis[q] /\ fromRedis'[q] = fromRedis[q]
      BY <1>7 DEF TypeOK
    <2>3. call[c].on = r
      BY <1>a, <1>7, HeadWaits DEF Waits
    <2>4. /\ \A i \in 1..Len(toRedis[r]) : toRedis[r][i] \in Calls /\ Waits(toRedis[r][i], r)
          /\ \A i \in 1..Len(fromRedis[r]) : fromRedis[r][i] \in Calls /\ Waits(fromRedis[r][i], r)
      BY <1>a, WireType DEF Waiting
    <2>5. /\ \A i \in 1..Len(w) : w[i] # c /\ \E j \in 1..Len(toRedis[r]) : w[i] = toRedis[r][j]
          /\ \A i \in 1..Len(f) : f[i] # c /\ \E j \in 1..Len(fromRedis[r]) : f[i] = fromRedis[r][j]
          /\ \A i, j \in 1..Len(w) : w[i] = w[j] => i = j
          /\ \A i, j \in 1..Len(f) : f[i] = f[j] => i = j
      <3>0. /\ \A i, j \in 1..Len(toRedis[r]) : toRedis[r][i] = toRedis[r][j] => i = j
            /\ \A i, j \in 1..Len(fromRedis[r]) : fromRedis[r][i] = fromRedis[r][j] => i = j
        BY <1>a DEF Apart
      <3>1. CASE toRedis[r] # <<>> /\ c = Head(toRedis[r]) /\ w = Tail(toRedis[r]) /\ f = fromRedis[r]
        <4>1. /\ Len(w) = Len(toRedis[r]) - 1 /\ Len(toRedis[r]) \in Nat
              /\ \A i \in 1..Len(w) : i + 1 \in 1..Len(toRedis[r]) /\ w[i] = toRedis[r][i + 1]
          BY <3>1, WireType, TailIndex
        <4>2. /\ \A i \in 1..Len(w) : w[i] # c
              /\ \A i \in 1..Len(f) : f[i] # c
          BY <1>a, <3>1, HeadElsewhere
        <4> QED
          BY <3>0, <3>1, <4>1, <4>2
      <3>2. CASE fromRedis[r] # <<>> /\ c = Head(fromRedis[r]) /\ f = Tail(fromRedis[r]) /\ w = toRedis[r]
        <4>1. /\ Len(f) = Len(fromRedis[r]) - 1 /\ Len(fromRedis[r]) \in Nat
              /\ \A i \in 1..Len(f) : i + 1 \in 1..Len(fromRedis[r]) /\ f[i] = fromRedis[r][i + 1]
          BY <3>2, WireType, TailIndex
        <4>2. /\ \A i \in 1..Len(w) : w[i] # c
              /\ \A i \in 1..Len(f) : f[i] # c
          BY <1>a, <3>2, HeadElsewhere
        <4> QED
          BY <3>0, <3>2, <4>1, <4>2
      <3> QED
        BY <1>7, <3>1, <3>2
    <2>6. \A i \in 1..Len(w), j \in 1..Len(f) : w[i] # f[j]
      BY <1>a, <2>5 DEF Apart
    <2>7. Apart'
      <3> SUFFICES ASSUME NEW q \in Replicas
                   PROVE  /\ \A i, j \in 1..Len(toRedis'[q]) : toRedis'[q][i] = toRedis'[q][j] => i = j
                          /\ \A i, j \in 1..Len(fromRedis'[q]) : fromRedis'[q][i] = fromRedis'[q][j] => i = j
                          /\ \A i \in 1..Len(toRedis'[q]), j \in 1..Len(fromRedis'[q]) :
                               toRedis'[q][i] # fromRedis'[q][j]
        BY DEF Apart
      <3>1. CASE q = r
        <4>1. toRedis'[q] = w /\ fromRedis'[q] = f
          BY <2>2, <3>1
        <4> QED
          BY <2>5, <2>6, <4>1
      <3>2. CASE q # r
        <4>1. toRedis'[q] = toRedis[q] /\ fromRedis'[q] = fromRedis[q]
          BY <2>2, <3>2
        <4> QED
          BY <1>a, <4>1 DEF Apart
      <3> QED
        BY <3>1, <3>2
    <2>8. Waiting'
      <3> SUFFICES ASSUME NEW q \in Replicas
                   PROVE  /\ \A i \in 1..Len(toRedis'[q]) :
                               call'[toRedis'[q][i]].pc \in {"lookup", "set"} /\ call'[toRedis'[q][i]].on = q
                          /\ \A i \in 1..Len(fromRedis'[q]) :
                               call'[fromRedis'[q][i]].pc \in {"lookup", "set"} /\ call'[fromRedis'[q][i]].on = q
        BY DEF Waiting, Waits
      <3>1. CASE q = r
        <4>1. toRedis'[q] = w /\ fromRedis'[q] = f
          BY <2>2, <3>1
        <4>2. ASSUME NEW i \in 1..Len(w)
              PROVE  call'[w[i]].pc \in {"lookup", "set"} /\ call'[w[i]].on = r
          <5>1. PICK j \in 1..Len(toRedis[r]) : w[i] = toRedis[r][j] /\ w[i] # c
            BY <2>5
          <5>2. w[i] \in Calls /\ Waits(w[i], r)
            BY <2>4, <5>1
          <5> QED
            BY <2>1, <5>1, <5>2 DEF Waits
        <4>3. ASSUME NEW i \in 1..Len(f)
              PROVE  call'[f[i]].pc \in {"lookup", "set"} /\ call'[f[i]].on = r
          <5>1. PICK j \in 1..Len(fromRedis[r]) : f[i] = fromRedis[r][j] /\ f[i] # c
            BY <2>5
          <5>2. f[i] \in Calls /\ Waits(f[i], r)
            BY <2>4, <5>1
          <5> QED
            BY <2>1, <5>1, <5>2 DEF Waits
        <4> QED
          BY <3>1, <4>1, <4>2, <4>3
      <3>2. CASE q # r
        <4>1. /\ \A i \in 1..Len(toRedis[q]) : toRedis[q][i] \in Calls \ {c} /\ Waits(toRedis[q][i], q)
              /\ \A i \in 1..Len(fromRedis[q]) : fromRedis[q][i] \in Calls \ {c} /\ Waits(fromRedis[q][i], q)
          <5>1. /\ \A i \in 1..Len(toRedis[q]) : toRedis[q][i] \in Calls /\ Waits(toRedis[q][i], q)
                /\ \A i \in 1..Len(fromRedis[q]) : fromRedis[q][i] \in Calls /\ Waits(fromRedis[q][i], q)
            BY <1>a, WireType DEF Waiting
          <5> QED
            BY <2>3, <3>2, <5>1 DEF Waits
        <4> QED
          BY <2>1, <2>2, <3>2, <4>1 DEF Waits
      <3> QED
        BY <3>1, <3>2
    <2> QED
      BY <2>7, <2>8 DEF Wired
  <1>8. ASSUME NEW r \in Replicas, Receive(r) PROVE Wired'
    <2>1. PICK c \in Calls : c = Head(fromRedis[r])
      BY <1>8, WireType DEF Receive
    <2>2. \E state : Goto(c, state)
      BY <1>8, <2>1 DEF Receive, Answered
    <2>3. toRedis' = [toRedis EXCEPT ![r] = toRedis[r]]
      BY <1>8 DEF Receive, TypeOK
    <2> QED
      BY <1>7, <1>8, <2>1, <2>2, <2>3 DEF Receive
  <1>9. ASSUME NEW r \in Replicas, Fail(r) PROVE Wired'
    <2>1. PICK c \in Calls : c = Head(toRedis[r])
      BY <1>9, WireType DEF Fail
    <2>2. \E state : Goto(c, state)
      BY <1>9, <2>1 DEF Fail, Answered
    <2>3. fromRedis' = [fromRedis EXCEPT ![r] = fromRedis[r]]
      BY <1>9 DEF Fail, TypeOK
    <2> QED
      BY <1>7, <1>9, <2>1, <2>2, <2>3 DEF Fail
  <1>10. ASSUME NEW r \in Replicas, Restart(r) PROVE Wired'
    <2>1. /\ toRedis'[r] = <<>> /\ fromRedis'[r] = <<>>
          /\ \A q \in Replicas \ {r} : toRedis'[q] = toRedis[q] /\ fromRedis'[q] = fromRedis[q]
      BY <1>10 DEF Restart, TypeOK
    <2>2. \A d \in Calls : call[d].on # r => call'[d] = call[d]
      BY <1>10 DEF Restart
    <2>3. Apart'
      BY <1>a, <2>1 DEF Apart
    <2>4. Waiting'
      <3> SUFFICES ASSUME NEW q \in Replicas
                   PROVE  /\ \A i \in 1..Len(toRedis'[q]) :
                               call'[toRedis'[q][i]].pc \in {"lookup", "set"} /\ call'[toRedis'[q][i]].on = q
                          /\ \A i \in 1..Len(fromRedis'[q]) :
                               call'[fromRedis'[q][i]].pc \in {"lookup", "set"} /\ call'[fromRedis'[q][i]].on = q
        BY DEF Waiting, Waits
      <3>1. CASE q = r
        BY <2>1, <3>1
      <3>2. CASE q # r
        <4>1. /\ \A i \in 1..Len(toRedis[q]) : toRedis[q][i] \in Calls /\ Waits(toRedis[q][i], q)
              /\ \A i \in 1..Len(fromRedis[q]) : fromRedis[q][i] \in Calls /\ Waits(fromRedis[q][i], q)
          BY <1>a, WireType DEF Waiting
        <4> QED
          BY <2>1, <2>2, <3>2, <4>1 DEF Waits
      <3> QED
        BY <3>1, <3>2
    <2> QED
      BY <2>3, <2>4 DEF Wired
  <1> QED
    BY <1>0, <1>1, <1>2, <1>3, <1>4, <1>5, <1>6, <1>8, <1>9, <1>10 DEF Next

LEMMA InitWired == Init => Wired
  BY DEF Init, Wired, Waiting, Apart

\* Every variable keeps its type, and the wires carry what waits, once.
THEOREM TypeCorrect == Spec => [](TypeOK /\ Wired)
  <1>1. TypeOK /\ Wired /\ [Next]_vars => (TypeOK /\ Wired)'
    BY TypeStep, WiredStep DEF Wired
  <1> QED
    BY <1>1, InitTypeOK, InitWired, PTL DEF Spec

-----------------------------------------------------------------------------
(* The marks a replica made itself *)

Held(r, m) ==
  \E k \in local[r] : k.of = m.of /\ m.at <= k.at /\ k.at <= now /\ k.until = k.at + MarkTtl

OwnKnown == \A r \in Replicas : \A m \in past.own[r] : m.at <= now /\ Held(r, m)

\* A check that was promised a refusal starts with it, and keeps it.
OwnAnswers ==
  \A c \in Calls :
    /\ call[c].pc \in {"consult", "lookup"} /\ "own" \in call[c].owed => call[c].mine # "valid"
    /\ Passed(c) => "own" \notin call[c].owed

OwnInv == OwnKnown /\ OwnAnswers

\* A mark that covers a token refuses it.
LEMMA MarkRefuses ==
  ASSUME NEW state, NEW m \in state, NEW token \in Token, m.at \in Nat,
         m.of \in {token.session, "user", "privileges"}, m.of # token.session => token.pat <= m.at
  PROVE  Verdict(state, token) # "valid"
  <1>1. CASE m.of = token.session
    BY <1>1 DEF Verdict, Revokes
  <1>2. CASE m.of = "user" /\ m.of # token.session
    <2>1. InSeconds(token.pat) <= InSeconds(m.at)
      BY <1>2, SecondsGrow DEF Token
    <2> QED
      BY <1>2, <2>1 DEF Verdict, Revokes
  <1>3. CASE m.of = "privileges" /\ m.of # token.session
    BY <1>3 DEF Verdict
  <1> QED
    BY <1>1, <1>2, <1>3

LEMMA CombinedRefuses ==
  ASSUME NEW mine, NEW theirs
  PROVE  /\ mine # "valid" => Combined(mine, theirs) # "valid"
         /\ theirs # "valid" => Combined(mine, theirs) # "valid"
  BY DEF Combined

LEMMA CallsOf ==
  ASSUME TypeOK, NEW c \in Calls, NEW state, Goto(c, state)
  PROVE  call'[c] = state /\ \A d \in Calls \ {c} : call'[d] = call[d]
  BY DEF Goto, TypeOK

\* A step of one call keeps the answers when it keeps that one's.
LEMMA OwnAnswersKept ==
  ASSUME TypeOK, OwnAnswers, NEW c \in Calls, NEW state, Goto(c, state),
         state.pc \in {"consult", "lookup"} /\ "own" \in state.owed => state.mine # "valid",
         state.pc = "answered" /\ state.verdict = "valid" => "own" \notin state.owed
  PROVE  OwnAnswers'
  <1> SUFFICES ASSUME NEW d \in Calls
               PROVE  /\ call'[d].pc \in {"consult", "lookup"} /\ "own" \in call'[d].owed
                           => call'[d].mine # "valid"
                      /\ call'[d].pc = "answered" /\ call'[d].verdict = "valid" => "own" \notin call'[d].owed
    BY DEF OwnAnswers, Passed, At
  <1>1. CASE d = c
    BY <1>1, CallsOf
  <1>2. CASE d # c
    BY <1>2, CallsOf DEF OwnAnswers, Passed, At
  <1> QED
    BY <1>1, <1>2

LEMMA OwnKnownKept ==
  ASSUME TypeOK, OwnKnown, UNCHANGED <<local, past>>, now' \in Nat, now <= now'
  PROVE  OwnKnown'
  <1> SUFFICES ASSUME NEW r \in Replicas, NEW m \in past.own[r]
               PROVE  m.at <= now' /\ \E k \in local[r] : k.of = m.of /\ m.at <= k.at /\ k.at <= now'
                                                         /\ k.until = k.at + MarkTtl
    BY DEF OwnKnown, Held
  <1>1. PICK k \in local[r] : k.of = m.of /\ m.at <= k.at /\ k.at <= now /\ k.until = k.at + MarkTtl
    BY DEF OwnKnown, Held
  <1>2. m.at \in Nat /\ m.at <= now /\ k.at \in Nat /\ now \in Nat
    BY DEF OwnKnown, TypeOK, Own, State, Mark
  <1> QED
    BY <1>1, <1>2

LEMMA OwnStep == TypeOK /\ Wired /\ OwnInv /\ [Next]_vars => OwnInv'
  <1> SUFFICES ASSUME TypeOK, Wired, OwnKnown, OwnAnswers, [Next]_vars PROVE OwnKnown' /\ OwnAnswers'
    BY DEF OwnInv
  <1>a. now \in Nat
    BY DEF TypeOK
  <1>b. ASSUME UNCHANGED <<local, past, now>> PROVE OwnKnown'
    BY <1>a, <1>b, OwnKnownKept
  <1>0. CASE UNCHANGED vars
    <2>1. OwnKnown'
      BY <1>0, <1>b DEF vars, marks
    <2> QED
      BY <1>0, <2>1 DEF vars, OwnAnswers, Passed, At
  <1>1. CASE Tick
    <2>1. OwnKnown'
      BY <1>1, <1>a, OwnKnownKept DEF Tick, marks
    <2> QED
      BY <1>1, <2>1 DEF Tick, OwnAnswers, Passed, At
  <1>2. ASSUME NEW c \in Calls, Begin(c) PROVE OwnKnown' /\ OwnAnswers'
    <2>1. PICK r \in Replicas, s \in Sessions, pat \in 0..now :
            LET token == [session |-> s, pat |-> pat]
                mine == Verdict(InForce(local[r]), token)
                owed == Owed(r, token)
            IN /\ now < pat + AccessTtl
               /\ Goto(c, IF mine = "revoked"
                          THEN [pc |-> "answered", verdict |-> mine, failed |-> FALSE,
                                owed |-> owed]
                          ELSE [pc |-> "consult", on |-> r, token |-> token, mine |-> mine,
                                owed |-> owed])
      BY <1>2 DEF Begin
    <2> DEFINE token == [session |-> s, pat |-> pat]
               mine == Verdict(InForce(local[r]), token)
               owed == Owed(r, token)
    <2>2. "own" \in owed => mine # "valid"
      <3> SUFFICES ASSUME "own" \in owed PROVE mine # "valid"
        OBVIOUS
      <3>1. PICK m \in past.own[r] : Covers(m, token)
        BY DEF Owed
      <3>2. PICK k \in local[r] : k.of = m.of /\ m.at <= k.at /\ k.at <= now /\ k.until = k.at + MarkTtl
        BY DEF OwnKnown, Held
      <3>3. m.at \in Nat /\ k.at \in Nat /\ token \in Token /\ pat <= m.at
        BY <3>1, <1>a DEF TypeOK, Own, State, Mark, Token, Covers
      <3>4. now < k.until
        BY <1>a, <2>1, <3>2, <3>3, Times
      <3>5. k \in InForce(local[r])
        BY <3>4 DEF InForce
      <3>6. k.of \in {token.session, "user", "privileges"} /\ token.pat <= k.at
        BY <3>1, <3>2, <3>3 DEF Covers
      <3> QED
        BY <3>3, <3>5, <3>6, MarkRefuses
    <2>3. CASE Goto(c, [pc |-> "answered", verdict |-> mine, failed |-> FALSE, owed |-> owed])
               /\ mine = "revoked"
      <3> HIDE DEF mine, owed, token
      <3> QED
        BY <1>2, <1>b, <2>3, OwnAnswersKept DEF Begin, marks
    <2>4. CASE Goto(c, [pc |-> "consult", on |-> r, token |-> token, mine |-> mine, owed |-> owed])
      <3> HIDE DEF mine, owed, token
      <3> QED
        BY <1>2, <1>b, <2>2, <2>4, OwnAnswersKept DEF Begin, marks
    <2> QED
      BY <2>1, <2>3, <2>4
  <1>3. ASSUME NEW c \in Calls, NEW verdict, NEW failed, Answered(c, verdict, failed),
               call[c].pc \in {"consult", "lookup"}, call[c].mine # "valid" => verdict # "valid"
        PROVE  OwnAnswers'
    <2>1. "own" \in call[c].owed => verdict # "valid"
      BY <1>3 DEF OwnAnswers
    <2> QED
      BY <1>3, <2>1, OwnAnswersKept DEF Answered
  <1>4. ASSUME NEW c \in Calls, Consult(c) PROVE OwnKnown' /\ OwnAnswers'
    <2> DEFINE me == call[c]
               entry == cache[me.on][me.token.session]
    <2>1. OwnKnown'
      BY <1>4, <1>b DEF Consult, marks
    <2>2. CASE Answered(c, Combined(me.mine, Verdict(entry.state, me.token)), FALSE)
      BY <1>3, <1>4, <2>1, <2>2, CombinedRefuses DEF Consult, At
    <2>3. CASE Goto(c, [pc |-> "lookup", on |-> me.on, token |-> me.token,
                        mine |-> me.mine, owed |-> me.owed, sent |-> now, state |-> {}])
      <3>1. "own" \in me.owed => me.mine # "valid"
        BY <1>4 DEF Consult, At, OwnAnswers
      <3> QED
        BY <2>1, <2>3, <3>1, OwnAnswersKept
    <2> QED
      BY <1>4, <2>2, <2>3 DEF Consult
  <1>5. ASSUME NEW c \in Calls, Write(c) PROVE OwnKnown' /\ OwnAnswers'
    <2>1. PICK r \in Replicas, subject \in Subjects :
            LET m == [of |-> subject, at |-> now, until |-> now + MarkTtl] IN
            /\ local' = MarkLocally(r, m)
            /\ past' = [past EXCEPT !.own[r] = @ \cup {[of |-> subject, at |-> now]}]
            /\ Goto(c, [pc |-> "publish", on |-> r, of |-> subject, at |-> now])
      BY <1>5 DEF Write
    <2> DEFINE n == [of |-> subject, at |-> now, until |-> now + MarkTtl]
    <2>2. OwnAnswers'
      BY <2>1, OwnAnswersKept
    <2>3. /\ local'[r] = Put(local[r], n)
          /\ past'.own[r] = past.own[r] \cup {[of |-> subject, at |-> now]}
          /\ \A q \in Replicas \ {r} : local'[q] = local[q] /\ past'.own[q] = past.own[q]
      BY <2>1 DEF MarkLocally, TypeOK
    <2>4. OwnKnown'
      <3> SUFFICES ASSUME NEW q \in Replicas, NEW m \in past'.own[q]
                   PROVE  m.at <= now /\ \E k \in local'[q] : /\ k.of = m.of /\ m.at <= k.at /\ k.at <= now
                                                             /\ k.until = k.at + MarkTtl
        BY <1>5 DEF Write, OwnKnown, Held
      <3>1. ASSUME m \in past.own[q]
            PROVE  m.at <= now /\ m.at \in Nat /\ \E k \in local[q] : /\ k.of = m.of /\ m.at <= k.at /\ k.at <= now
                                                        /\ k.until = k.at + MarkTtl
        BY <3>1 DEF OwnKnown, Held, TypeOK, Own
      <3>2. CASE q # r
        BY <2>3, <3>1, <3>2
      <3>3. CASE q = r
        <4>1. n \in local'[q] /\ n.at = now /\ n.until = n.at + MarkTtl /\ n.of = subject
          BY <2>3, <3>3 DEF Put
        <4>2. CASE m = [of |-> subject, at |-> now]
          BY <1>a, <4>1, <4>2
        <4>3. CASE m \in past.own[q] /\ m.of = subject
          BY <1>a, <3>1, <4>1, <4>3
        <4>4. CASE m \in past.own[q] /\ m.of # subject
          <5>1. PICK k \in local[q] : k.of = m.of /\ m.at <= k.at /\ k.at <= now /\ k.until = k.at + MarkTtl
            BY <3>1, <4>4
          <5>2. k \in local'[q]
            BY <2>3, <3>3, <4>4, <5>1 DEF Put
          <5> QED
            BY <3>1, <4>4, <5>1, <5>2
        <4> QED
          BY <2>3, <3>3, <4>2, <4>3, <4>4
      <3> QED
        BY <3>2, <3>3
    <2> QED
      BY <2>2, <2>4
  <1>6. ASSUME NEW c \in Calls, Publish(c) PROVE OwnKnown' /\ OwnAnswers'
    BY <1>6, <1>b, OwnAnswersKept DEF Publish, marks
  <1>7. ASSUME NEW r \in Replicas, Serve(r) PROVE OwnKnown' /\ OwnAnswers'
    <2>0. PICK c \in Calls : c = Head(toRedis[r])
      BY <1>7, WireType DEF Serve
    <2>1. call[c].pc \in {"lookup", "set"}
      BY <1>7, <2>0, HeadWaits DEF Serve, Waits, Wired
    <2>2. UNCHANGED <<local, now>> /\ past'.own = past.own
      BY <1>7 DEF Serve, TypeOK
    <2>3. OwnKnown'
      BY <2>2 DEF OwnKnown, Held
    <2>4. CASE call[c].pc = "lookup"
      <3>1. call' = [call EXCEPT ![c].state = InForce(shared)]
        BY <1>7, <2>0, <2>4 DEF Serve, At
      <3>2. call[c] \in [pc : {"lookup"}, on : Replicas, token : Token,
                         mine : Verdicts, owed : Promises, sent : Nat, state : State]
        BY <2>4 DEF TypeOK, Call
      <3>3. call'[c].pc = "lookup" /\ call'[c].mine = call[c].mine /\ call'[c].owed = call[c].owed
        BY <3>1, <3>2 DEF TypeOK
      <3>4. \A d \in Calls \ {c} : call'[d] = call[d]
        BY <3>1 DEF TypeOK
      <3>5. ASSUME NEW d \in Calls
            PROVE  /\ call'[d].pc = call[d].pc
                   /\ call[d].pc \in {"consult", "lookup"} => call'[d].owed = call[d].owed /\ call'[d].mine = call[d].mine
                   /\ call[d].pc = "answered" => call'[d] = call[d]
        BY <2>4, <3>3, <3>4
      <3> QED
        BY <2>3, <3>5 DEF OwnAnswers, Passed, At
    <2>5. CASE call[c].pc = "set"
      <3>1. UNCHANGED call
        BY <1>7, <2>0, <2>5 DEF Serve, At
      <3> QED
        BY <2>3, <3>1 DEF OwnAnswers, Passed, At
    <2> QED
      BY <2>1, <2>4, <2>5
  <1>8. ASSUME NEW r \in Replicas, Receive(r) PROVE OwnKnown' /\ OwnAnswers'
    <2>0. PICK c \in Calls : c = Head(fromRedis[r])
      BY <1>8, WireType DEF Receive
    <2>1. OwnKnown'
      BY <1>8, <1>b DEF Receive, marks
    <2>2. CASE At(c, "lookup")
      BY <1>3, <1>8, <2>0, <2>1, <2>2, CombinedRefuses DEF Receive, At
    <2>3. CASE ~At(c, "lookup")
      <3>1. Goto(c, [pc |-> "done"])
        BY <1>8, <2>0, <2>3 DEF Receive
      <3> QED
        BY <2>0, <2>1, <3>1, OwnAnswersKept
    <2> QED
      BY <2>2, <2>3
  <1>9. ASSUME NEW r \in Replicas, Fail(r) PROVE OwnKnown' /\ OwnAnswers'
    <2>0. PICK c \in Calls : c = Head(toRedis[r])
      BY <1>9, WireType DEF Fail
    <2>1. OwnKnown'
      BY <1>9, <1>b DEF Fail, marks
    <2>2. CASE At(c, "lookup")
      BY <1>3, <1>9, <2>0, <2>1, <2>2 DEF Fail, At
    <2>3. CASE ~At(c, "lookup")
      <3>1. Goto(c, [pc |-> "done"])
        BY <1>9, <2>0, <2>3 DEF Fail
      <3> QED
        BY <2>0, <2>1, <3>1, OwnAnswersKept
    <2> QED
      BY <2>2, <2>3
  <1>10. ASSUME NEW r \in Replicas, Restart(r) PROVE OwnKnown' /\ OwnAnswers'
    <2>1. /\ past'.own[r] = {}
          /\ \A q \in Replicas \ {r} : local'[q] = local[q] /\ past'.own[q] = past.own[q]
      BY <1>10 DEF Restart, TypeOK
    <2>2. OwnKnown'
      BY <1>10, <2>1 DEF Restart, OwnKnown, Held
    <2>3. \A d \in Calls : call'[d] = [pc |-> "done"] \/ call'[d] = call[d]
      BY <1>10 DEF Restart
    <2> QED
      BY <2>2, <2>3 DEF OwnAnswers, Passed, At
  <1> QED
    BY <1>0, <1>1, <1>2, <1>4, <1>5, <1>6, <1>7, <1>8, <1>9, <1>10 DEF Next

\* The replica that made a mark refuses the tokens it is about, whatever Redis says.
THEOREM OwnMarksHonouredHolds == Spec => []OwnMarksHonoured
  <1>1. Init => OwnInv
    BY DEF Init, OwnInv, OwnKnown, OwnAnswers, Passed, At
  <1>2. OwnInv => OwnMarksHonoured
    BY DEF OwnInv, OwnAnswers, OwnMarksHonoured
  <1>3. TypeOK /\ Wired /\ OwnInv /\ [Next]_vars => (TypeOK /\ Wired /\ OwnInv)'
    BY TypeStep, WiredStep, OwnStep DEF Wired
  <1> QED
    BY <1>1, <1>2, <1>3, InitTypeOK, InitWired, PTL DEF Spec

-----------------------------------------------------------------------------
(* Times and the marks Redis has taken *)

\* At time t: a mark is published in the tick it was made in, Redis answers in time.
Punctual(s, t) ==
  /\ s.pc = "publish" => s.at = t
  /\ s.pc = "set" => s.at = s.sent
  /\ s.pc \in {"lookup", "set"} => s.sent <= t /\ t <= s.sent + Latency

Timely ==
  /\ \A c \in Calls : Punctual(call[c], now)
  /\ \A k \in past.taken : k.at <= k.since /\ k.since <= now
  /\ \A r \in Replicas, s \in Sessions : cache[r][s].until <= now + CacheTtl

LEMMA InitTimely == Init => Timely
  BY Times DEF Init, Timely, Punctual, NoEntry

\* The command at the head of a wire.
LEMMA HeadCall ==
  ASSUME TypeOK, Wired, NEW r \in Replicas
  PROVE  /\ toRedis[r] # <<>> => Head(toRedis[r]) \in Calls /\ Waits(Head(toRedis[r]), r)
         /\ fromRedis[r] # <<>> => Head(fromRedis[r]) \in Calls /\ Waits(Head(fromRedis[r]), r)
  BY WireType, HeadWaits DEF Wired

\* What Redis does with a command: a call whose state is filled, or a mark taken.
LEMMA Served ==
  ASSUME TypeOK, Wired, NEW r \in Replicas, Serve(r), NEW c \in Calls, c = Head(toRedis[r])
  PROVE  /\ \A d \in Calls \ {c} : call'[d] = call[d]
         /\ \/ /\ call[c].pc = "lookup" /\ call'[c].pc = "lookup"
               /\ call'[c].token = call[c].token /\ call'[c].owed = call[c].owed
               /\ call'[c].sent = call[c].sent /\ call'[c].state = InForce(shared)
               /\ UNCHANGED <<shared, past>>
            \/ /\ call[c].pc = "set" /\ UNCHANGED call /\ past'.own = past.own
               /\ shared' = Put(shared, [of |-> call[c].of, at |-> call[c].at, until |-> now + MarkTtl])
               /\ past'.taken = past.taken \cup {[of |-> call[c].of, at |-> call[c].at, since |-> now]}
  <1>1. call[c].pc \in {"lookup", "set"}
    BY HeadCall DEF Serve, Waits
  <1>2. CASE call[c].pc = "lookup"
    <2>1. call' = [call EXCEPT ![c].state = InForce(shared)] /\ UNCHANGED <<shared, past>>
      BY <1>2 DEF Serve, At
    <2>2. call[c] \in [pc : {"lookup"}, on : Replicas, token : Token,
                       mine : Verdicts, owed : Promises, sent : Nat, state : State]
      BY <1>2 DEF TypeOK, Call
    <2> QED
      BY <1>2, <2>1, <2>2 DEF TypeOK
  <1>3. CASE call[c].pc = "set"
    BY <1>3 DEF Serve, At, TypeOK
  <1> QED
    BY <1>1, <1>2, <1>3

\* One call after a step of its own, the others as before.
LEMMA PunctualKept ==
  ASSUME TypeOK, \A d \in Calls : Punctual(call[d], now), NEW c \in Calls, NEW state,
         Goto(c, state), Punctual(state, now)
  PROVE  \A d \in Calls : Punctual(call'[d], now)
  BY CallsOf

LEMMA TimelyStep == TypeOK /\ Wired /\ Timely /\ [Next]_vars => Timely'
  <1> SUFFICES ASSUME TypeOK, Wired, Timely, [Next]_vars PROVE Timely'
    OBVIOUS
  <1>a. now \in Nat /\ CacheTtl \in Nat /\ Latency \in Nat
    BY Times DEF TypeOK
  <1>b. ASSUME now' = now, \A d \in Calls : Punctual(call'[d], now),
               \A k \in past'.taken : k \in past.taken \/ (k.since = now /\ k.at <= now),
               \A r \in Replicas, s \in Sessions :
                 \/ cache'[r][s] = cache[r][s] \/ cache'[r][s] = NoEntry
                 \/ cache'[r][s].until = now + CacheTtl
        PROVE  Timely'
    <2>1. \A k \in past'.taken : k.at <= k.since /\ k.since <= now
      BY <1>a, <1>b DEF Timely
    <2>2. \A r \in Replicas, s \in Sessions : cache'[r][s].until <= now + CacheTtl
      BY <1>a, <1>b DEF Timely, NoEntry
    <2> QED
      BY <1>b, <2>1, <2>2 DEF Timely
  <1>c. ASSUME NEW c \in Calls, NEW state, Goto(c, state), Punctual(state, now),
               now' = now, past'.taken = past.taken,
               \A r \in Replicas, s \in Sessions :
                 \/ cache'[r][s] = cache[r][s] \/ cache'[r][s] = NoEntry
                 \/ cache'[r][s].until = now + CacheTtl
        PROVE  Timely'
    BY <1>b, <1>c, PunctualKept DEF Timely
  <1>d. \A verdict, failed, owed :
          Punctual([pc |-> "answered", verdict |-> verdict, failed |-> failed, owed |-> owed], now)
    BY DEF Punctual
  <1>0. CASE UNCHANGED vars
    BY <1>0, <1>b DEF vars, Timely
  <1>1. CASE Tick
    <2>1. ASSUME NEW c \in Calls PROVE Punctual(call[c], now + 1)
      <3>1. Punctual(call[c], now) /\ call[c].pc \notin {"consult", "publish"}
            /\ (call[c].pc \in {"lookup", "set"} => now < call[c].sent + Latency)
        BY <1>1 DEF Tick, Timely
      <3>2. call[c].pc \in {"lookup", "set"} => call[c].sent \in Nat
        BY Shape DEF At
      <3> QED
        BY <1>a, <3>1, <3>2 DEF Punctual
    <2>2. \A k \in past.taken : k.since \in Nat
      BY DEF TypeOK, Taken
    <2>3. \A r \in Replicas, s \in Sessions : cache[r][s].until \in Nat
      BY DEF TypeOK
    <2>4. now' = now + 1 /\ UNCHANGED <<cache, call, past>>
      BY <1>1 DEF Tick
    <2>5. \A k \in past'.taken : k.at <= k.since /\ k.since <= now'
      BY <1>a, <2>2, <2>4 DEF Timely
    <2>6. \A r \in Replicas, s \in Sessions : cache'[r][s].until <= now' + CacheTtl
      BY <1>a, <2>3, <2>4 DEF Timely
    <2> QED
      BY <2>1, <2>4, <2>5, <2>6 DEF Timely
  <1>2. ASSUME NEW c \in Calls, Begin(c) PROVE Timely'
    <2>1. \E verdict, owed, r, token, mine :
            Goto(c, [pc |-> "answered", verdict |-> verdict, failed |-> FALSE, owed |-> owed])
            \/ Goto(c, [pc |-> "consult", on |-> r, token |-> token, mine |-> mine, owed |-> owed])
      BY <1>2 DEF Begin
    <2>2. \A r, token, mine, owed :
            Punctual([pc |-> "consult", on |-> r, token |-> token, mine |-> mine, owed |-> owed], now)
      BY DEF Punctual
    <2> QED
      BY <1>2, <1>c, <1>d, <2>1, <2>2 DEF Begin
  <1>3. ASSUME NEW c \in Calls, Consult(c) PROVE Timely'
    <2>1. (\E verdict : Answered(c, verdict, FALSE))
          \/ Goto(c, [pc |-> "lookup", on |-> call[c].on, token |-> call[c].token, mine |-> call[c].mine,
                      owed |-> call[c].owed, sent |-> now, state |-> {}])
      BY <1>3 DEF Consult
    <2>2. Punctual([pc |-> "lookup", on |-> call[c].on, token |-> call[c].token, mine |-> call[c].mine,
                    owed |-> call[c].owed, sent |-> now, state |-> {}], now)
      BY <1>a DEF Punctual
    <2> QED
      BY <1>3, <1>c, <1>d, <2>1, <2>2 DEF Consult, Answered
  <1>4. ASSUME NEW c \in Calls, Write(c) PROVE Timely'
    <2>1. PICK r \in Replicas, subject \in Subjects :
            /\ past' = [past EXCEPT !.own[r] = @ \cup {[of |-> subject, at |-> now]}]
            /\ Goto(c, [pc |-> "publish", on |-> r, of |-> subject, at |-> now])
      BY <1>4 DEF Write
    <2>2. Punctual([pc |-> "publish", on |-> r, of |-> subject, at |-> now], now)
      BY DEF Punctual
    <2>3. past'.taken = past.taken
      BY <2>1 DEF TypeOK
    <2> QED
      BY <1>4, <1>c, <2>1, <2>2, <2>3 DEF Write
  <1>5. ASSUME NEW c \in Calls, Publish(c) PROVE Timely'
    <2> DEFINE state == [pc |-> "set", on |-> call[c].on, of |-> call[c].of, at |-> call[c].at, sent |-> now]
    <2>1. call[c].at = now
      BY <1>5 DEF Publish, At, Timely, Punctual
    <2>2. Punctual(state, now) /\ Goto(c, state)
      BY <1>5, <1>a, <2>1 DEF Punctual, Publish
    <2>3. call[c].on \in Replicas
      BY <1>5, Shape DEF Publish, At
    <2>4. \A r \in Replicas, s \in Sessions : cache'[r][s] = cache[r][s] \/ cache'[r][s] = NoEntry
      BY <1>5, <2>3 DEF Publish, TypeOK
    <2> HIDE DEF state
    <2> QED
      BY <1>5, <1>c, <2>2, <2>4 DEF Publish
  <1>6. ASSUME NEW r \in Replicas, Serve(r) PROVE Timely'
    <2>0. PICK c \in Calls : c = Head(toRedis[r])
      BY <1>6, HeadCall DEF Serve
    <2>1. ASSUME NEW d \in Calls PROVE Punctual(call'[d], now)
      <3>1. Punctual(call[d], now)
        BY DEF Timely
      <3>2. CASE d # c
        BY <1>6, <2>0, <3>1, <3>2, Served
      <3>3. CASE d = c /\ call[c].pc = "lookup"
        <4>1. call'[c].pc = "lookup" /\ call'[c].sent = call[c].sent
          BY <1>6, <2>0, <3>3, Served
        <4> QED
          BY <3>1, <3>3, <4>1 DEF Punctual
      <3>4. CASE d = c /\ call[c].pc # "lookup"
        BY <1>6, <2>0, <3>1, <3>4, Served
      <3> QED
        BY <3>2, <3>3, <3>4
    <2>2. call[c].pc = "set" => call[c].at <= now
      BY DEF Timely, Punctual
    <2>3. \A k \in past'.taken : k \in past.taken \/ (k.since = now /\ k.at <= now)
      <3>1. CASE UNCHANGED past
        BY <3>1
      <3>2. CASE call[c].pc = "set"
               /\ past'.taken = past.taken \cup {[of |-> call[c].of, at |-> call[c].at, since |-> now]}
        BY <2>2, <3>2
      <3> QED
        BY <1>6, <2>0, <3>1, <3>2, Served
    <2> QED
      BY <1>6, <1>b, <2>1, <2>3 DEF Serve
  <1>7. ASSUME NEW r \in Replicas, Receive(r) PROVE Timely'
    <2>0. PICK c \in Calls : c = Head(fromRedis[r])
      BY <1>7, HeadCall DEF Receive
    <2>1. (\E verdict : Answered(c, verdict, FALSE)) \/ Goto(c, [pc |-> "done"])
      BY <1>7, <2>0 DEF Receive
    <2>2. Punctual([pc |-> "done"], now)
      BY DEF Punctual
    <2>3. \A q \in Replicas, s \in Sessions :
            cache'[q][s] = cache[q][s] \/ cache'[q][s].until = now + CacheTtl
      <3>1. CASE UNCHANGED cache
        BY <3>1
      <3>2. CASE At(c, "lookup")
        <4>1. cache' = [cache EXCEPT ![r] = Remember(cache[r], call[c].token.session, call[c].state)]
          BY <1>7, <2>0, <3>2 DEF Receive
        <4>2. cache[r] \in [Sessions -> [state : State, until : Nat]]
          BY DEF TypeOK
        <4>3. \A s \in Sessions : cache'[r][s] = cache[r][s] \/ cache'[r][s].until = now + CacheTtl
          BY <4>1, <4>2 DEF Remember, TypeOK
        <4>4. \A q \in Replicas \ {r} : cache'[q] = cache[q]
          BY <4>1 DEF TypeOK
        <4> QED
          BY <4>3, <4>4
      <3> QED
        BY <1>7, <2>0, <3>1, <3>2 DEF Receive
    <2> QED
      BY <1>7, <1>c, <1>d, <2>0, <2>1, <2>2, <2>3 DEF Receive, Answered
  <1>8. ASSUME NEW r \in Replicas, Fail(r) PROVE Timely'
    <2>0. PICK c \in Calls : c = Head(toRedis[r])
      BY <1>8, HeadCall DEF Fail
    <2>1. (\E verdict : Answered(c, verdict, TRUE)) \/ Goto(c, [pc |-> "done"])
      BY <1>8, <2>0 DEF Fail
    <2>2. Punctual([pc |-> "done"], now)
      BY DEF Punctual
    <2> QED
      BY <1>8, <1>c, <1>d, <2>0, <2>1, <2>2 DEF Fail, Answered
  <1>9. ASSUME NEW r \in Replicas, Restart(r) PROVE Timely'
    <2>1. \A d \in Calls : call'[d] = [pc |-> "done"] \/ call'[d] = call[d]
      BY <1>9 DEF Restart
    <2>2. Punctual([pc |-> "done"], now)
      BY DEF Punctual
    <2>3. \A d \in Calls : Punctual(call'[d], now)
      BY <2>1, <2>2 DEF Timely
    <2>4. \A q \in Replicas, s \in Sessions : cache'[q][s] = cache[q][s] \/ cache'[q][s] = NoEntry
      BY <1>9 DEF Restart, TypeOK
    <2>5. past'.taken = past.taken
      BY <1>9 DEF Restart, TypeOK
    <2> QED
      BY <1>9, <1>b, <2>3, <2>4, <2>5 DEF Restart
  <1> QED
    BY <1>0, <1>1, <1>2, <1>3, <1>4, <1>5, <1>6, <1>7, <1>8, <1>9 DEF Next

-----------------------------------------------------------------------------
(* The marks of all replicas *)

\* The mark m does for the tokens k covers what k does.
Backs(m, k) == m.of = k.of /\ (k.of \in {"user", "privileges"} => k.at <= m.at)

\* A state read since Redis took k tells of it.
Tells(state, k) ==
  Overtaken(k) \/ k.since + MarkTtl <= now \/ \E m \in state : Backs(m, k)

SharedKnown ==
  \A k \in past.taken :
    Overtaken(k) \/ \E m \in shared : Backs(m, k) /\ k.since + MarkTtl <= m.until

CacheKnown ==
  \A r \in Replicas, s \in Sessions, k \in past.taken :
    k.since + CacheTtl + Latency < cache[r][s].until => Tells(cache[r][s].state, k)

\* The reply under way to the call with state s.
Informed(s) == \A k \in past.taken : k.since < s.sent => Tells(s.state, k)

RepliesKnown ==
  \A r \in Replicas : \A i \in 1..Len(fromRedis[r]) :
    At(fromRedis[r][i], "lookup") => Informed(call[fromRedis[r][i]])

\* At time t, k is a mark on which a check of the token that starts then may rely.
Binds(k, token, t) ==
  /\ Covers(k, token) /\ ~Overtaken(k)
  /\ k.since + CacheTtl + Latency <= t
  /\ t + Latency < token.pat + AccessTtl

Bound(token, t) == \E k \in past.taken : Binds(k, token, t)

SharedAnswers ==
  \A c \in Calls :
    /\ At(c, "consult") /\ "shared" \in call[c].owed => Bound(call[c].token, now)
    /\ At(c, "lookup") /\ "shared" \in call[c].owed => Bound(call[c].token, call[c].sent)
    /\ Passed(c) /\ ~call[c].failed => "shared" \notin call[c].owed

SharedInv == SharedKnown /\ CacheKnown /\ RepliesKnown /\ SharedAnswers

\* What every step does to the history: a mark is taken now, or none.
LEMMA PastStep ==
  ASSUME TypeOK, Wired, Timely, [Next]_vars
  PROVE  /\ now' \in Nat /\ now <= now' /\ past.taken \subseteq past'.taken
         /\ \/ past'.taken = past.taken
            \/ /\ now' = now
               /\ \E c \in Calls : /\ call[c].pc = "set"
                                   /\ past'.taken = past.taken \cup
                                        {[of |-> call[c].of, at |-> call[c].at, since |-> now]}
  <1>a. now \in Nat
    BY DEF TypeOK
  <1>0. CASE UNCHANGED <<now, past>>
    BY <1>0, <1>a
  <1>1. CASE Tick
    BY <1>1, <1>a DEF Tick
  <1>2. ASSUME NEW c \in Calls, Write(c) PROVE past'.taken = past.taken /\ now' = now
    BY <1>2 DEF Write, TypeOK
  <1>3. ASSUME NEW r \in Replicas, Serve(r)
        PROVE  /\ now' = now
               /\ \/ past'.taken = past.taken
                  \/ \E c \in Calls : /\ call[c].pc = "set"
                                      /\ past'.taken = past.taken \cup
                                           {[of |-> call[c].of, at |-> call[c].at, since |-> now]}
    <2>1. PICK c \in Calls : c = Head(toRedis[r])
      BY <1>3, HeadCall DEF Serve
    <2> QED
      BY <1>3, <2>1, Served DEF Serve
  <1>4. ASSUME NEW r \in Replicas, Restart(r) PROVE past'.taken = past.taken /\ now' = now
    BY <1>4 DEF Restart, TypeOK
  <1>5. (\E c \in Calls : Begin(c) \/ Consult(c) \/ Publish(c)) \/ (\E r \in Replicas : Receive(r) \/ Fail(r))
          => UNCHANGED <<now, past>>
    BY DEF Begin, Consult, Publish, Receive, Fail
  <1>6. UNCHANGED vars => UNCHANGED <<now, past>>
    BY DEF vars
  <1> QED
    BY <1>a, <1>0, <1>1, <1>2, <1>3, <1>4, <1>5, <1>6 DEF Next

LEMMA OvertakenStays ==
  ASSUME TypeOK, Wired, Timely, [Next]_vars, NEW k, Overtaken(k)
  PROVE  Overtaken(k)'
  BY PastStep DEF Overtaken

\* A mark that an earlier one has not overtaken by the time it binds never is.
LEMMA BoundStays ==
  ASSUME TypeOK, Wired, Timely, [Next]_vars, NEW token, NEW t, Bound(token, t), t \in Nat, t <= now
  PROVE  Bound(token, t)'
  <1>1. PICK k \in past.taken : Binds(k, token, t)
    BY DEF Bound
  <1>2. k.at \in Nat /\ k.since \in Nat /\ now \in Nat /\ CacheTtl \in Nat /\ Latency \in Nat
    BY Times DEF TypeOK, Taken
  <1>3. k.at <= k.since /\ k.since + Latency <= now
    BY <1>1, <1>2 DEF Timely, Binds
  <1>4. ASSUME NEW c \in Calls, call[c].pc = "set" PROVE k.at <= call[c].at
    <2>1. call[c].at = call[c].sent /\ now <= call[c].sent + Latency /\ call[c].at \in Nat
      BY <1>4, Shape DEF Timely, Punctual
    <2> QED
      BY <1>2, <1>3, <2>1
  <1>5. ~Overtaken(k)'
    <2> SUFFICES ASSUME NEW n \in past'.taken, k.of \in {"user", "privileges"}, n.of = k.of,
                        n.at < k.at, n.since >= k.since
                 PROVE  FALSE
      BY DEF Overtaken
    <2>1. n \notin past.taken
      BY <1>1 DEF Binds, Overtaken
    <2>2. PICK c \in Calls : call[c].pc = "set" /\ n.at = call[c].at
      BY <2>1, PastStep
    <2>3. call[c].at \in Nat
      BY <2>2, Shape
    <2> QED
      BY <1>2, <1>4, <2>2, <2>3
  <1>6. k \in past'.taken
    BY PastStep
  <1> QED
    BY <1>1, <1>5, <1>6 DEF Bound, Binds

LEMMA TellsStays ==
  ASSUME TypeOK, Wired, Timely, [Next]_vars, NEW state, NEW k \in past.taken, Tells(state, k)
  PROVE  Tells(state, k)'
  <1>1. k.since + MarkTtl <= now => k.since + MarkTtl <= now'
    BY PastStep, Times DEF TypeOK, Taken
  <1> QED
    BY <1>1, OvertakenStays DEF Tells

LEMMA InformedStays ==
  ASSUME TypeOK, Wired, Timely, [Next]_vars, NEW s, Informed(s), s.sent \in Nat, s.sent <= now
  PROVE  Informed(s)'
  <1> SUFFICES ASSUME NEW k \in past'.taken, k.since < s.sent PROVE Tells(s.state, k)'
    BY DEF Informed
  <1>1. k \in past.taken
    BY PastStep DEF TypeOK
  <1> QED
    BY <1>1, TellsStays DEF Informed

\* What Redis knows when it serves a lookup.
LEMMA ReadTells ==
  ASSUME TypeOK, SharedKnown, NEW k \in past.taken
  PROVE  Tells(InForce(shared), k)
  <1>1. CASE Overtaken(k)
    BY <1>1 DEF Tells
  <1>2. CASE \E m \in shared : Backs(m, k) /\ k.since + MarkTtl <= m.until
    <2>1. PICK m \in shared : Backs(m, k) /\ k.since + MarkTtl <= m.until
      BY <1>2
    <2>2. m.until \in Nat /\ k.since \in Nat /\ now \in Nat /\ MarkTtl \in Nat
      BY Times DEF TypeOK, Taken, State, Mark
    <2>3. CASE now < m.until
      BY <2>1, <2>3 DEF InForce, Tells
    <2>4. CASE m.until <= now
      BY <2>1, <2>2, <2>4 DEF Tells
    <2> QED
      BY <2>2, <2>3, <2>4
  <1> QED
    BY <1>1, <1>2 DEF SharedKnown

\* A state that tells of a binding mark refuses the token, as long as that lives.
LEMMA ToldRefuses ==
  ASSUME TypeOK, Timely, NEW state \in State, NEW token \in Token, NEW t \in Nat,
         NEW k \in past.taken, Binds(k, token, t), Tells(state, k), now <= t + Latency
  PROVE  Verdict(state, token) # "valid"
  <1>1. /\ k.at \in Nat /\ k.since \in Nat /\ now \in Nat /\ MarkTtl \in Nat /\ Latency \in Nat
        /\ AccessTtl \in Nat /\ AccessTtl <= MarkTtl /\ token.pat \in Nat
    BY Times DEF TypeOK, Taken, Token
  <1>2. token.pat <= k.at /\ k.at <= k.since /\ t + Latency < token.pat + AccessTtl /\ ~Overtaken(k)
    BY DEF Binds, Covers, Timely
  <1>3. ~(k.since + MarkTtl <= now)
    BY <1>1, <1>2
  <1>4. PICK m \in state : Backs(m, k)
    BY <1>2, <1>3 DEF Tells
  <1>5. m.at \in Nat /\ k.of \in {token.session, "user", "privileges"} /\ m.of = k.of
    BY <1>4 DEF State, Mark, Binds, Covers, Backs
  <1>6. m.of # token.session => token.pat <= m.at
    BY <1>1, <1>2, <1>4, <1>5 DEF Backs
  <1> QED
    BY <1>5, <1>6, MarkRefuses

LEMMA SharedKnownStep == TypeOK /\ Wired /\ Timely /\ SharedKnown /\ [Next]_vars => SharedKnown'
  <1> SUFFICES ASSUME TypeOK, Wired, Timely, SharedKnown, [Next]_vars PROVE SharedKnown'
    OBVIOUS
  <1>0. CASE shared' = shared /\ past'.taken = past.taken
    BY <1>0 DEF SharedKnown, Overtaken
  <1>1. ASSUME NEW r \in Replicas, Serve(r) PROVE SharedKnown'
    <2>0. PICK c \in Calls : c = Head(toRedis[r])
      BY <1>1, HeadCall DEF Serve
    <2>1. CASE UNCHANGED <<shared, past>>
      BY <1>0, <2>1
    <2>2. CASE /\ call[c].pc = "set"
               /\ shared' = Put(shared, [of |-> call[c].of, at |-> call[c].at, until |-> now + MarkTtl])
               /\ past'.taken = past.taken \cup {[of |-> call[c].of, at |-> call[c].at, since |-> now]}
      <3> DEFINE m == [of |-> call[c].of, at |-> call[c].at, until |-> now + MarkTtl]
                 n == [of |-> call[c].of, at |-> call[c].at, since |-> now]
      <3>1. call[c].at \in Nat /\ now \in Nat /\ MarkTtl \in Nat
        BY <2>2, Shape, Times DEF TypeOK
      <3>2. /\ m.of = call[c].of /\ m.at = call[c].at /\ m.until = now + MarkTtl
            /\ n.of = call[c].of /\ n.at = call[c].at /\ n.since = now
        OBVIOUS
      <3>3. m \in shared' /\ n \in past'.taken /\ \A j \in shared : j.of # m.of => j \in shared'
        BY <2>2 DEF Put
      <3> HIDE DEF m, n
      <3> SUFFICES ASSUME NEW k \in past'.taken, ~Overtaken(k)'
                   PROVE  \E j \in shared' : Backs(j, k) /\ k.since + MarkTtl <= j.until
        BY DEF SharedKnown
      <3>4. CASE k = n
        BY <3>1, <3>2, <3>3, <3>4 DEF Backs
      <3>5. CASE k \in past.taken
        <4>1. k.since \in Nat /\ k.at \in Nat /\ k.since <= now
          BY <3>5 DEF TypeOK, Taken, Timely
        <4>2. CASE k.of = m.of
          <5>1. k.of \in {"user", "privileges"} => k.at <= n.at
            BY <3>1, <3>2, <3>3, <4>1, <4>2 DEF Overtaken
          <5> QED
            BY <3>1, <3>2, <3>3, <4>1, <4>2, <5>1 DEF Backs
        <4>3. CASE k.of # m.of
          <5>1. ~Overtaken(k)
            BY OvertakenStays
          <5>2. PICK j \in shared : Backs(j, k) /\ k.since + MarkTtl <= j.until
            BY <3>5, <5>1 DEF SharedKnown
          <5> QED
            BY <3>3, <4>3, <5>2 DEF Backs
        <4> QED
          BY <4>2, <4>3
      <3> QED
        BY <2>2, <3>4, <3>5 DEF n
    <2> QED
      BY <1>1, <2>0, <2>1, <2>2, Served
  <1>2. ASSUME NEW c \in Calls, Write(c) PROVE SharedKnown'
    BY <1>0, <1>2 DEF Write, TypeOK
  <1>3. ASSUME NEW r \in Replicas, Restart(r) PROVE SharedKnown'
    BY <1>0, <1>3 DEF Restart, TypeOK
  <1>4. (\E c \in Calls : Begin(c) \/ Consult(c) \/ Publish(c)) \/ (\E r \in Replicas : Receive(r) \/ Fail(r))
          \/ Tick \/ UNCHANGED vars => shared' = shared /\ past' = past
    BY DEF Begin, Consult, Publish, Receive, Fail, Tick, vars, marks
  <1> QED
    BY <1>0, <1>1, <1>2, <1>3, <1>4 DEF Next

\* What every step does to an entry of the cache: it stays, goes or is filled by a reply.
LEMMA CacheStep ==
  ASSUME TypeOK, Wired, [Next]_vars, NEW r \in Replicas, NEW s \in Sessions
  PROVE  \/ cache'[r][s] = cache[r][s]
         \/ cache'[r][s] = NoEntry
         \/ /\ fromRedis[r] # <<>> /\ At(Head(fromRedis[r]), "lookup") /\ UNCHANGED <<now, past>>
            /\ cache'[r][s] = [state |-> call[Head(fromRedis[r])].state, until |-> now + CacheTtl]
  <1>1. ASSUME NEW c \in Calls, Publish(c)
        PROVE  cache'[r][s] = cache[r][s] \/ cache'[r][s] = NoEntry
    <2>1. call[c].on \in Replicas
      BY <1>1, Shape DEF Publish, At
    <2> QED
      BY <1>1, <2>1 DEF Publish, TypeOK
  <1>2. ASSUME NEW q \in Replicas, Receive(q)
        PROVE  \/ cache'[r][s] = cache[r][s]
               \/ /\ fromRedis[r] # <<>> /\ At(Head(fromRedis[r]), "lookup") /\ UNCHANGED <<now, past>>
                  /\ cache'[r][s] = [state |-> call[Head(fromRedis[r])].state, until |-> now + CacheTtl]
    <2>0. UNCHANGED <<now, past>> /\ fromRedis[q] # <<>>
      BY <1>2 DEF Receive
    <2>1. CASE UNCHANGED cache
      BY <2>1
    <2>2. CASE At(Head(fromRedis[q]), "lookup")
      <3> DEFINE me == call[Head(fromRedis[q])]
      <3>1. cache' = [cache EXCEPT ![q] = Remember(cache[q], me.token.session, me.state)]
        BY <1>2, <2>2 DEF Receive
      <3>2. cache[q] \in [Sessions -> [state : State, until : Nat]]
        BY DEF TypeOK
      <3> HIDE DEF me
      <3>3. CASE q # r
        BY <3>1, <3>3 DEF TypeOK
      <3>4. CASE q = r
        <4>1. cache'[r] = Remember(cache[r], me.token.session, me.state)
          BY <3>1, <3>4 DEF TypeOK
        <4>2. \/ cache'[r][s] = cache[r][s]
              \/ cache'[r][s] = [state |-> me.state, until |-> now + CacheTtl]
          BY <3>2, <3>4, <4>1 DEF Remember
        <4> QED
          BY <2>0, <2>2, <3>4, <4>2 DEF me
      <3> QED
        BY <3>3, <3>4
    <2> QED
      BY <1>2, <2>1, <2>2 DEF Receive
  <1>3. ASSUME NEW q \in Replicas, Restart(q)
        PROVE  cache'[r][s] = cache[r][s] \/ cache'[r][s] = NoEntry
    BY <1>3 DEF Restart, TypeOK
  <1>4. (\E c \in Calls : Begin(c) \/ Consult(c) \/ Write(c)) \/ (\E q \in Replicas : Serve(q) \/ Fail(q))
          \/ Tick \/ UNCHANGED vars => UNCHANGED cache
    BY DEF Begin, Consult, Write, Serve, Fail, Tick, vars
  <1> QED
    BY <1>1, <1>2, <1>3, <1>4 DEF Next

LEMMA CacheKnownStep ==
  TypeOK /\ Wired /\ Timely /\ CacheKnown /\ RepliesKnown /\ [Next]_vars => CacheKnown'
  <1> SUFFICES ASSUME TypeOK, Wired, Timely, CacheKnown, RepliesKnown, [Next]_vars,
                      NEW r \in Replicas, NEW s \in Sessions, NEW k \in past'.taken,
                      k.since + CacheTtl + Latency < cache'[r][s].until
               PROVE  Overtaken(k)' \/ k.since + MarkTtl <= now' \/ \E m \in cache'[r][s].state : Backs(m, k)
    BY DEF CacheKnown, Tells
  <1>1. now \in Nat /\ CacheTtl \in Nat /\ Latency \in Nat /\ k.since \in Nat /\ cache[r][s].until \in Nat
    <2>1. TypeOK'
      BY TypeStep DEF Wired
    <2> QED
      BY <2>1, Times DEF TypeOK, Taken
  <1>2. ASSUME NEW state, cache'[r][s].state = state, k \in past.taken, Tells(state, k)
        PROVE  Overtaken(k)' \/ k.since + MarkTtl <= now' \/ \E m \in cache'[r][s].state : Backs(m, k)
    BY <1>2, TellsStays DEF Tells
  <1>3. CASE cache'[r][s] = cache[r][s]
    <2>1. cache[r][s].until <= now + CacheTtl
      BY DEF Timely
    <2>2. k.since < now
      BY <1>1, <1>3, <2>1
    <2>3. k \in past.taken
      BY <1>1, <2>2, PastStep
    <2>4. Tells(cache[r][s].state, k)
      BY <1>3, <2>3 DEF CacheKnown
    <2> QED
      BY <1>2, <1>3, <2>3, <2>4
  <1>4. CASE cache'[r][s] = NoEntry
    BY <1>1, <1>4 DEF NoEntry
  <1>5. CASE /\ fromRedis[r] # <<>> /\ At(Head(fromRedis[r]), "lookup") /\ UNCHANGED <<now, past>>
             /\ cache'[r][s] = [state |-> call[Head(fromRedis[r])].state, until |-> now + CacheTtl]
    <2>1. PICK c \in Calls : c = Head(fromRedis[r]) /\ c = fromRedis[r][1] /\ 1 \in 1..Len(fromRedis[r])
      BY <1>5, WireType, TailIndex
    <2>2. Informed(call[c])
      BY <1>5, <2>1 DEF RepliesKnown
    <2>3. call[c].sent \in Nat /\ now <= call[c].sent + Latency
      BY <1>5, <2>1, Shape DEF At, Timely, Punctual
    <2>4. k.since < call[c].sent
      BY <1>1, <1>5, <2>3
    <2>5. Tells(call[c].state, k)
      BY <1>5, <2>2, <2>4 DEF Informed
    <2> QED
      BY <1>2, <1>5, <2>1, <2>5
  <1> QED
    BY <1>3, <1>4, <1>5, CacheStep

\* Replies stay true when each is an earlier one or was made of the marks of now.
LEMMA RepliesKept ==
  ASSUME TypeOK, Wired, Timely, SharedKnown, RepliesKnown, [Next]_vars,
         \A r \in Replicas : \A i \in 1..Len(fromRedis'[r]) :
           call'[fromRedis'[r][i]].pc = "lookup" =>
             \/ \E j \in 1..Len(fromRedis[r]) :
                  fromRedis'[r][i] = fromRedis[r][j] /\ call'[fromRedis[r][j]] = call[fromRedis[r][j]]
             \/ call'[fromRedis'[r][i]].state = InForce(shared) /\ past' = past
  PROVE  RepliesKnown'
  <1> SUFFICES ASSUME NEW r \in Replicas, NEW i \in 1..Len(fromRedis'[r]),
                      call'[fromRedis'[r][i]].pc = "lookup",
                      NEW k \in past'.taken, k.since < call'[fromRedis'[r][i]].sent
               PROVE  \/ Overtaken(k)' \/ k.since + MarkTtl <= now'
                      \/ \E m \in call'[fromRedis'[r][i]].state : Backs(m, k)
    BY DEF RepliesKnown, At, Informed, Tells
  <1>1. CASE \E j \in 1..Len(fromRedis[r]) :
               fromRedis'[r][i] = fromRedis[r][j] /\ call'[fromRedis[r][j]] = call[fromRedis[r][j]]
    <2>1. PICK j \in 1..Len(fromRedis[r]) :
                 fromRedis'[r][i] = fromRedis[r][j] /\ call'[fromRedis[r][j]] = call[fromRedis[r][j]]
      BY <1>1
    <2>2. PICK s : s = call[fromRedis[r][j]]
      OBVIOUS
    <2>3. call'[fromRedis'[r][i]] = s /\ s.pc = "lookup"
      BY <2>1, <2>2
    <2>4. fromRedis[r][j] \in Calls
      BY WireType
    <2>5. Informed(s) /\ s.sent \in Nat /\ s.sent <= now
      BY <2>2, <2>3, <2>4, Shape DEF RepliesKnown, At, Timely, Punctual
    <2>6. k \in past.taken
      <3>1. now \in Nat
        BY DEF TypeOK
      <3>2. k.since # now
        BY <2>3, <2>5, <3>1
      <3> QED
        BY <3>2, PastStep
    <2>7. Tells(s.state, k)
      BY <2>3, <2>5, <2>6 DEF Informed
    <2>8. PICK state : state = s.state
      OBVIOUS
    <2>9. Tells(state, k)'
      BY <2>6, <2>7, <2>8, TellsStays
    <2> QED
      BY <2>3, <2>8, <2>9 DEF Tells
  <1>2. CASE call'[fromRedis'[r][i]].state = InForce(shared) /\ past' = past
    <2>1. PICK state : state = InForce(shared)
      OBVIOUS
    <2>2. Tells(state, k)
      BY <1>2, <2>1, ReadTells
    <2>3. Tells(state, k)'
      BY <1>2, <2>2, TellsStays
    <2> QED
      BY <1>2, <2>1, <2>3 DEF Tells
  <1> QED
    BY <1>1, <1>2

LEMMA RepliesKnownStep ==
  TypeOK /\ Wired /\ Timely /\ SharedKnown /\ RepliesKnown /\ [Next]_vars => RepliesKnown'
  <1> SUFFICES ASSUME TypeOK, Wired, Timely, SharedKnown, RepliesKnown, [Next]_vars PROVE RepliesKnown'
    OBVIOUS
  <1>a. Waiting
    BY DEF Wired
  <1>0. CASE UNCHANGED <<call, fromRedis>>
    BY <1>0, RepliesKept
  <1>1. ASSUME NEW c \in Calls, NEW state, Goto(c, state), call[c].pc \notin {"lookup", "set"}, UNCHANGED fromRedis
        PROVE  RepliesKnown'
    <2>1. \A r \in Replicas : \A i \in 1..Len(fromRedis[r]) :
            call'[fromRedis[r][i]] = call[fromRedis[r][i]]
      BY <1>a, <1>1, CallsOf, OffWires, WireType
    <2> QED
      BY <1>1, <2>1, RepliesKept
  <1>2. ASSUME NEW c \in Calls, Begin(c) \/ Consult(c) \/ Write(c) \/ Publish(c) PROVE RepliesKnown'
    <2>1. \E state : Goto(c, state)
      BY <1>2 DEF Begin, Consult, Write, Publish, Answered
    <2>2. call[c].pc \notin {"lookup", "set"} /\ UNCHANGED fromRedis
      BY <1>2 DEF Begin, Consult, Write, Publish, At, wires
    <2> QED
      BY <1>1, <2>1, <2>2
  <1>3. ASSUME NEW r \in Replicas, Serve(r) PROVE RepliesKnown'
    <2>0. PICK c \in Calls : c = Head(toRedis[r])
      BY <1>3, HeadCall DEF Serve
    <2>1. /\ \A d \in Calls \ {c} : call'[d] = call[d]
          /\ call'[c].pc = "lookup" => call'[c].state = InForce(shared) /\ past' = past
      BY <1>3, <2>0, Served
    <2>2. call[c].on = r
      BY <1>3, <2>0, HeadCall DEF Serve, Waits
    <2>3. fromRedis'[r] = Append(fromRedis[r], c) /\ \A q \in Replicas \ {r} : fromRedis'[q] = fromRedis[q]
      BY <1>3, <2>0 DEF Serve, TypeOK
    <2>4. ASSUME NEW q \in Replicas, NEW i \in 1..Len(fromRedis'[q]), call'[fromRedis'[q][i]].pc = "lookup"
          PROVE  \/ \E j \in 1..Len(fromRedis[q]) :
                      fromRedis'[q][i] = fromRedis[q][j] /\ call'[fromRedis[q][j]] = call[fromRedis[q][j]]
                 \/ call'[fromRedis'[q][i]].state = InForce(shared) /\ past' = past
      <3>1. \A j \in 1..Len(fromRedis[q]) : fromRedis[q][j] \in Calls
        BY WireType
      <3>2. CASE q # r
        <4>1. i \in 1..Len(fromRedis[q]) /\ fromRedis'[q][i] = fromRedis[q][i]
          BY <2>3, <3>2
        <4>2. fromRedis[q][i] # c
          BY <1>a, <2>2, <3>2, <4>1, OthersWait
        <4> QED
          BY <2>1, <3>1, <4>1, <4>2
      <3>3. CASE q = r /\ fromRedis'[q][i] = c
        BY <2>1, <2>4, <3>3
      <3>4. CASE q = r /\ fromRedis'[q][i] # c
        <4>1. i \in 1..Len(fromRedis[r]) /\ fromRedis'[r][i] = fromRedis[r][i]
          BY <2>3, <2>4, <3>4, WireType, AppendIndex
        <4> QED
          BY <2>1, <3>1, <3>4, <4>1
      <3> QED
        BY <3>2, <3>3, <3>4
    <2> QED
      BY <2>4, RepliesKept
  <1>4. ASSUME NEW r \in Replicas, Receive(r) PROVE RepliesKnown'
    <2>0. PICK c \in Calls : c = Head(fromRedis[r])
      BY <1>4, HeadCall DEF Receive
    <2>1. \A d \in Calls \ {c} : call'[d] = call[d]
      BY <1>4, <2>0, CallsOf DEF Receive, Answered
    <2>2. call[c].on = r
      BY <1>4, <2>0, HeadCall DEF Receive, Waits
    <2>3. fromRedis'[r] = Tail(fromRedis[r]) /\ \A q \in Replicas \ {r} : fromRedis'[q] = fromRedis[q]
      BY <1>4 DEF Receive, TypeOK
    <2>4. ASSUME NEW q \in Replicas, NEW i \in 1..Len(fromRedis'[q])
          PROVE  \E j \in 1..Len(fromRedis[q]) :
                   fromRedis'[q][i] = fromRedis[q][j] /\ call'[fromRedis[q][j]] = call[fromRedis[q][j]]
      <3>1. \A j \in 1..Len(fromRedis[q]) : fromRedis[q][j] \in Calls
        BY WireType
      <3>2. CASE q # r
        <4>1. i \in 1..Len(fromRedis[q]) /\ fromRedis'[q][i] = fromRedis[q][i]
          BY <2>3, <3>2
        <4>2. fromRedis[q][i] # c
          BY <1>a, <2>2, <3>2, <4>1, OthersWait
        <4> QED
          BY <2>1, <3>1, <4>1, <4>2
      <3>3. CASE q = r
        <4>1. i + 1 \in 1..Len(fromRedis[r]) /\ fromRedis'[r][i] = fromRedis[r][i + 1]
          <5>1. fromRedis[r] # <<>> /\ fromRedis[r] \in Seq(Calls)
            BY <1>4, WireType DEF Receive
          <5>2. i \in 1..Len(Tail(fromRedis[r]))
            BY <2>3, <3>3
          <5>3. i \in 1..Len(fromRedis[r]) - 1 /\ Len(fromRedis[r]) \in Nat
            BY <5>1, <5>2, TailIndex
          <5>4. Tail(fromRedis[r])[i] = fromRedis[r][i + 1]
            BY <5>1, <5>3, TailIndex
          <5> QED
            BY <2>3, <5>3, <5>4
        <4>2. fromRedis'[r][i] # c
          BY <1>4, <2>0, <2>3, <3>3, HeadElsewhere DEF Receive
        <4>3. call'[fromRedis[r][i + 1]] = call[fromRedis[r][i + 1]]
          BY <2>1, <3>1, <3>3, <4>1, <4>2
        <4> QED
          BY <3>3, <4>1, <4>3
      <3> QED
        BY <3>2, <3>3
    <2> QED
      BY <2>4, RepliesKept
  <1>5. ASSUME NEW r \in Replicas, Fail(r) PROVE RepliesKnown'
    <2>0. PICK c \in Calls : c = Head(toRedis[r])
      BY <1>5, HeadCall DEF Fail
    <2>1. \A d \in Calls \ {c} : call'[d] = call[d]
      BY <1>5, <2>0, CallsOf DEF Fail, Answered
    <2>2. call[c].on = r /\ UNCHANGED fromRedis /\ toRedis[r] # <<>>
      BY <1>5, <2>0, HeadCall DEF Fail, Waits
    <2>3. \A q \in Replicas : \A i \in 1..Len(fromRedis[q]) : fromRedis[q][i] \in Calls \ {c}
      <3> SUFFICES ASSUME NEW q \in Replicas, NEW i \in 1..Len(fromRedis[q])
                   PROVE  fromRedis[q][i] \in Calls /\ fromRedis[q][i] # c
        OBVIOUS
      <3>1. fromRedis[q][i] \in Calls
        BY WireType
      <3>2. CASE q = r
        BY <2>0, <2>2, <3>1, <3>2, HeadElsewhere
      <3>3. CASE q # r
        BY <1>a, <2>2, <3>1, <3>3, OthersWait
      <3> QED
        BY <3>2, <3>3
    <2> QED
      BY <2>1, <2>2, <2>3, RepliesKept
  <1>6. ASSUME NEW r \in Replicas, Restart(r) PROVE RepliesKnown'
    <2>1. fromRedis'[r] = <<>> /\ \A q \in Replicas \ {r} : fromRedis'[q] = fromRedis[q]
      BY <1>6 DEF Restart, TypeOK
    <2>2. \A d \in Calls : call[d].on # r => call'[d] = call[d]
      BY <1>6 DEF Restart
    <2>3. \A q \in Replicas \ {r} : \A i \in 1..Len(fromRedis[q]) :
            fromRedis[q][i] \in Calls /\ call[fromRedis[q][i]].on # r
      BY <1>a, WireType DEF Waiting, Waits
    <2>4. ASSUME NEW q \in Replicas, NEW i \in 1..Len(fromRedis'[q])
          PROVE  \E j \in 1..Len(fromRedis[q]) :
                   fromRedis'[q][i] = fromRedis[q][j] /\ call'[fromRedis[q][j]] = call[fromRedis[q][j]]
      <3>1. CASE q = r
        BY <2>1, <3>1
      <3>2. CASE q # r
        <4>1. i \in 1..Len(fromRedis[q]) /\ fromRedis'[q][i] = fromRedis[q][i]
          BY <2>1, <3>2
        <4> QED
          BY <2>2, <2>3, <3>2, <4>1
      <3> QED
        BY <3>1, <3>2
    <2> QED
      BY <2>4, RepliesKept
  <1>7. CASE Tick
    BY <1>0, <1>7 DEF Tick, wires
  <1>8. CASE UNCHANGED vars
    BY <1>0, <1>8 DEF vars, wires
  <1> QED
    BY <1>2, <1>3, <1>4, <1>5, <1>6, <1>7, <1>8 DEF Next

\* The answers stay right when every call kept its state, or got one that is right.
LEMMA SharedAnswersKept ==
  ASSUME TypeOK, Wired, Timely, SharedAnswers, [Next]_vars, NEW c \in Calls, NEW state, Goto(c, state),
         now' = now, now \in Nat,
         state.pc = "consult" /\ "shared" \in state.owed => Bound(state.token, now),
         state.pc = "lookup" /\ "shared" \in state.owed =>
           Bound(state.token, state.sent) /\ state.sent \in Nat /\ state.sent <= now,
         state.pc = "answered" /\ state.verdict = "valid" /\ ~state.failed => "shared" \notin state.owed
  PROVE  SharedAnswers'
  <1> SUFFICES ASSUME NEW d \in Calls
               PROVE  /\ call'[d].pc = "consult" /\ "shared" \in call'[d].owed => Bound(call[d].token, now)'
                      /\ call'[d].pc = "lookup" /\ "shared" \in call'[d].owed =>
                           Bound(call[d].token, call[d].sent)'
                      /\ call'[d].pc = "answered" /\ call'[d].verdict = "valid" /\ ~call'[d].failed =>
                           "shared" \notin call'[d].owed
    BY DEF SharedAnswers, Passed, At
  <1>1. PICK s : s = call'[d]
    OBVIOUS
  <1>2. PICK t : t = now
    OBVIOUS
  <1>3. d = c => s = state
    BY <1>1, CallsOf
  <1>4. d # c => s = call[d]
    BY <1>1, CallsOf
  <1>5. s.pc = "consult" /\ "shared" \in s.owed => Bound(s.token, t)
    BY <1>2, <1>3, <1>4 DEF SharedAnswers, At
  <1>6. s.pc = "lookup" /\ "shared" \in s.owed => Bound(s.token, s.sent) /\ s.sent \in Nat /\ s.sent <= now
    BY <1>3, <1>4, Shape DEF SharedAnswers, At, Timely, Punctual
  <1>7. s.pc = "answered" /\ s.verdict = "valid" /\ ~s.failed => "shared" \notin s.owed
    BY <1>3, <1>4 DEF SharedAnswers, Passed, At
  <1>8. s.pc = "consult" /\ "shared" \in s.owed => Bound(s.token, t)'
    BY <1>2, <1>5, BoundStays
  <1>9. s.pc = "lookup" /\ "shared" \in s.owed => Bound(s.token, s.sent)'
    BY <1>6, BoundStays
  <1>10. s.pc = "consult" /\ "shared" \in s.owed => Bound(call[d].token, now)'
    BY <1>1, <1>2, <1>8 DEF Bound, Binds
  <1>11. s.pc = "lookup" /\ "shared" \in s.owed => Bound(call[d].token, call[d].sent)'
    BY <1>1, <1>9 DEF Bound, Binds
  <1> QED
    BY <1>1, <1>7, <1>10, <1>11

LEMMA SharedAnswersStep ==
  TypeOK /\ Wired /\ Timely /\ SharedInv /\ [Next]_vars => SharedAnswers'
  <1> SUFFICES ASSUME TypeOK, Wired, Timely, SharedKnown, CacheKnown, RepliesKnown, SharedAnswers,
                      [Next]_vars
               PROVE  SharedAnswers'
    BY DEF SharedInv
  <1>a. now \in Nat
    BY DEF TypeOK
  <1>b. ASSUME \A d \in Calls :
                 \/ call'[d] = call[d] /\ (call[d].pc = "consult" => now' = now)
                 \/ call'[d] = [pc |-> "done"]
                 \/ /\ call[d].pc = "lookup" /\ call'[d].pc = "lookup" /\ call'[d].owed = call[d].owed
                    /\ call'[d].token = call[d].token /\ call'[d].sent = call[d].sent
        PROVE  SharedAnswers'
    <2> SUFFICES ASSUME NEW d \in Calls
                 PROVE  /\ call'[d].pc = "consult" /\ "shared" \in call'[d].owed => Bound(call[d].token, now)'
                        /\ call'[d].pc = "lookup" /\ "shared" \in call'[d].owed =>
                             Bound(call[d].token, call[d].sent)'
                        /\ call'[d].pc = "answered" /\ call'[d].verdict = "valid" /\ ~call'[d].failed =>
                             "shared" \notin call'[d].owed
      BY DEF SharedAnswers, Passed, At
    <2>1. PICK token : token = call[d].token
      OBVIOUS
    <2>2. PICK t : t = IF call[d].pc = "lookup" THEN call[d].sent ELSE now
      OBVIOUS
    <2>3. call[d].pc = "consult" /\ "shared" \in call[d].owed => Bound(token, t)
      BY <2>1, <2>2 DEF SharedAnswers, At
    <2>4. call[d].pc = "lookup" /\ "shared" \in call[d].owed => Bound(token, t)
      BY <2>1, <2>2 DEF SharedAnswers, At
    <2>5. t \in Nat /\ t <= now
      BY <1>a, <2>2, Shape DEF At, Timely, Punctual
    <2>6. (call[d].pc = "consult" \/ call[d].pc = "lookup") /\ "shared" \in call[d].owed => Bound(token, t)'
      BY <2>3, <2>4, <2>5, BoundStays
    <2>7. CASE call'[d] = call[d] /\ (call[d].pc = "consult" => now' = now)
      <3>1. call'[d].pc = "consult" /\ "shared" \in call'[d].owed => Bound(call[d].token, now)'
        BY <2>1, <2>2, <2>6, <2>7 DEF Bound, Binds
      <3>2. call'[d].pc = "lookup" /\ "shared" \in call'[d].owed => Bound(call[d].token, call[d].sent)'
        BY <2>1, <2>2, <2>6, <2>7 DEF Bound, Binds
      <3> QED
        BY <2>7, <3>1, <3>2 DEF SharedAnswers, Passed, At
    <2>8. CASE call'[d] = [pc |-> "done"]
      BY <2>8
    <2>9. CASE /\ call[d].pc = "lookup" /\ call'[d].pc = "lookup" /\ call'[d].owed = call[d].owed
               /\ call'[d].token = call[d].token /\ call'[d].sent = call[d].sent
      <3>1. "shared" \in call'[d].owed => Bound(call[d].token, call[d].sent)'
        BY <2>1, <2>2, <2>6, <2>9 DEF Bound, Binds
      <3> QED
        BY <2>9, <3>1
    <2> QED
      BY <1>b, <2>7, <2>8, <2>9
  <1>0. CASE UNCHANGED vars
    BY <1>0, <1>b DEF vars
  <1>1. CASE Tick
    BY <1>1, <1>b DEF Tick
  <1>2. ASSUME NEW c \in Calls, Begin(c) PROVE SharedAnswers'
    <2>1. PICK r \in Replicas, s \in Sessions, pat \in 0..now :
            LET token == [session |-> s, pat |-> pat]
                mine == Verdict(InForce(local[r]), token)
                owed == Owed(r, token)
            IN Goto(c, IF mine = "revoked"
                       THEN [pc |-> "answered", verdict |-> mine, failed |-> FALSE,
                             owed |-> owed]
                       ELSE [pc |-> "consult", on |-> r, token |-> token, mine |-> mine,
                             owed |-> owed])
      BY <1>2 DEF Begin
    <2> DEFINE token == [session |-> s, pat |-> pat]
               mine == Verdict(InForce(local[r]), token)
               owed == Owed(r, token)
    <2>2. "shared" \in owed => Bound(token, now)
      BY DEF Owed, Bound, Binds
    <2>3. now' = now
      BY <1>2 DEF Begin
    <2>4. CASE Goto(c, [pc |-> "answered", verdict |-> mine, failed |-> FALSE, owed |-> owed])
               /\ mine = "revoked"
      <3> HIDE DEF mine, owed, token
      <3> QED
        BY <1>a, <2>3, <2>4, SharedAnswersKept
    <2>5. CASE Goto(c, [pc |-> "consult", on |-> r, token |-> token, mine |-> mine, owed |-> owed])
      <3> HIDE DEF mine, owed, token
      <3> QED
        BY <1>a, <2>2, <2>3, <2>5, SharedAnswersKept
    <2> QED
      BY <2>1, <2>4, <2>5
  <1>3. ASSUME NEW c \in Calls, Consult(c) PROVE SharedAnswers'
    <2> DEFINE me == call[c]
               entry == cache[me.on][me.token.session]
    <2>1. /\ me.on \in Replicas /\ me.token \in Token /\ me.pc = "consult" /\ now' = now
          /\ me.token.session \in Sessions
      BY <1>3, Shape DEF Consult, At, Token
    <2>2. "shared" \in me.owed => Bound(me.token, now)
      BY <2>1 DEF SharedAnswers, At
    <2>3. CASE Fresh(entry) /\ Answered(c, Combined(me.mine, Verdict(entry.state, me.token)), FALSE)
      <3>1. ASSUME "shared" \in me.owed PROVE Combined(me.mine, Verdict(entry.state, me.token)) # "valid"
        <4>1. PICK k \in past.taken : Binds(k, me.token, now)
          BY <2>2, <3>1 DEF Bound
        <4>2. entry.state \in State /\ entry.until \in Nat /\ now < entry.until
          BY <2>1, <2>3 DEF TypeOK, Fresh
        <4>3. k.since \in Nat /\ CacheTtl \in Nat /\ Latency \in Nat
          BY Times DEF TypeOK, Taken
        <4>4. k.since + CacheTtl + Latency < entry.until
          BY <1>a, <4>1, <4>2, <4>3 DEF Binds
        <4>5. Tells(entry.state, k)
          BY <2>1, <4>4 DEF CacheKnown
        <4>6. now <= now + Latency
          BY <1>a, <4>3
        <4> HIDE DEF me, entry
        <4>7. me.token \in Token
          BY <2>1
        <4>8. Verdict(entry.state, me.token) # "valid"
          BY <1>a, <4>1, <4>2, <4>5, <4>6, <4>7, ToldRefuses
        <4> QED
          BY <4>8, CombinedRefuses
      <3> DEFINE verdict == Combined(me.mine, Verdict(entry.state, me.token))
      <3>2. Goto(c, [pc |-> "answered", verdict |-> verdict, failed |-> FALSE, owed |-> me.owed])
        BY <2>3 DEF Answered
      <3>3. "shared" \in me.owed => verdict # "valid"
        BY <3>1
      <3> HIDE DEF verdict
      <3> QED
        BY <1>a, <2>1, <3>2, <3>3, SharedAnswersKept
    <2>4. CASE Goto(c, [pc |-> "lookup", on |-> me.on, token |-> me.token,
                        mine |-> me.mine, owed |-> me.owed, sent |-> now, state |-> {}])
      BY <1>a, <2>1, <2>2, <2>4, SharedAnswersKept
    <2> QED
      BY <1>3, <2>3, <2>4 DEF Consult
  <1>4. ASSUME NEW c \in Calls, Write(c) PROVE SharedAnswers'
    <2>1. now' = now /\ \E r, subject : Goto(c, [pc |-> "publish", on |-> r, of |-> subject, at |-> now])
      BY <1>4 DEF Write
    <2> QED
      BY <1>a, <2>1, SharedAnswersKept
  <1>5. ASSUME NEW c \in Calls, Publish(c) PROVE SharedAnswers'
    BY <1>a, <1>5, SharedAnswersKept DEF Publish
  <1>6. ASSUME NEW r \in Replicas, Serve(r) PROVE SharedAnswers'
    <2>0. PICK c \in Calls : c = Head(toRedis[r])
      BY <1>6, HeadCall DEF Serve
    <2>1. \A d \in Calls \ {c} : call'[d] = call[d]
      BY <1>6, <2>0, Served
    <2>2. \/ call'[c] = call[c]
          \/ /\ call[c].pc = "lookup" /\ call'[c].pc = "lookup" /\ call'[c].owed = call[c].owed
             /\ call'[c].token = call[c].token /\ call'[c].sent = call[c].sent
      BY <1>6, <2>0, Served
    <2>3. now' = now
      BY <1>6 DEF Serve
    <2> QED
      BY <1>b, <2>1, <2>2, <2>3
  <1>7. ASSUME NEW r \in Replicas, Receive(r) PROVE SharedAnswers'
    <2>0. PICK c \in Calls : c = Head(fromRedis[r]) /\ c = fromRedis[r][1] /\ 1 \in 1..Len(fromRedis[r])
      BY <1>7, WireType, TailIndex DEF Receive
    <2>1. now' = now
      BY <1>7 DEF Receive
    <2> DEFINE me == call[c]
    <2>2. CASE At(c, "lookup")
      <3>1. Answered(c, Combined(me.mine, Verdict(me.state, me.token)), FALSE)
        BY <1>7, <2>0, <2>2 DEF Receive
      <3>2. ASSUME "shared" \in me.owed PROVE Combined(me.mine, Verdict(me.state, me.token)) # "valid"
        <4>1. PICK k \in past.taken : Binds(k, me.token, me.sent)
          BY <2>2, <3>2 DEF SharedAnswers, Bound
        <4>2. /\ me.state \in State /\ me.token \in Token /\ me.sent \in Nat
              /\ now <= me.sent + Latency
          BY <2>2, Shape DEF At, Timely, Punctual
        <4>3. k.since \in Nat /\ CacheTtl \in Nat /\ Latency \in Nat /\ Latency > 0
          BY Times DEF TypeOK, Taken
        <4>4. k.since < me.sent
          BY <4>1, <4>2, <4>3 DEF Binds
        <4>5. Tells(me.state, k)
          BY <2>0, <2>2, <4>4 DEF RepliesKnown, Informed
        <4> HIDE DEF me
        <4>6. Verdict(me.state, me.token) # "valid"
          BY <4>1, <4>2, <4>5, ToldRefuses
        <4> QED
          BY <4>6, CombinedRefuses
      <3> DEFINE verdict == Combined(me.mine, Verdict(me.state, me.token))
      <3>3. Goto(c, [pc |-> "answered", verdict |-> verdict, failed |-> FALSE, owed |-> me.owed])
        BY <3>1 DEF Answered
      <3>4. "shared" \in me.owed => verdict # "valid"
        BY <3>2
      <3> HIDE DEF verdict
      <3> QED
        BY <1>a, <2>0, <2>1, <3>3, <3>4, SharedAnswersKept
    <2>3. CASE ~At(c, "lookup")
      <3>1. Goto(c, [pc |-> "done"])
        BY <1>7, <2>0, <2>3 DEF Receive
      <3> QED
        BY <1>a, <2>0, <2>1, <3>1, SharedAnswersKept
    <2> QED
      BY <2>2, <2>3
  <1>8. ASSUME NEW r \in Replicas, Fail(r) PROVE SharedAnswers'
    <2>0. PICK c \in Calls : c = Head(toRedis[r])
      BY <1>8, HeadCall DEF Fail
    <2>1. Goto(c, [pc |-> "answered", verdict |-> call[c].mine, failed |-> TRUE, owed |-> call[c].owed])
          \/ Goto(c, [pc |-> "done"])
      BY <1>8, <2>0 DEF Fail, Answered
    <2>2. now' = now
      BY <1>8 DEF Fail
    <2> QED
      BY <1>a, <2>0, <2>1, <2>2, SharedAnswersKept
  <1>9. ASSUME NEW r \in Replicas, Restart(r) PROVE SharedAnswers'
    <2>1. \A d \in Calls : call'[d] = [pc |-> "done"] \/ call'[d] = call[d]
      BY <1>9 DEF Restart
    <2>2. now' = now
      BY <1>9 DEF Restart
    <2> QED
      BY <1>b, <2>1, <2>2
  <1> QED
    BY <1>0, <1>1, <1>2, <1>3, <1>4, <1>5, <1>6, <1>7, <1>8, <1>9 DEF Next

LEMMA InitSharedInv == Init => SharedInv
  BY DEF Init, SharedInv, SharedKnown, CacheKnown, RepliesKnown, SharedAnswers, Passed, At

\* A mark that Redis took is honoured by every replica that reaches it, from a cache
\* life and one answer on, unless an earlier one was written over it.
THEOREM MarksReachReplicasHolds == Spec => []MarksReachReplicas
  <1> DEFINE Inv == TypeOK /\ Wired /\ Timely /\ SharedInv
  <1>1. Init => Inv
    BY InitTypeOK, InitWired, InitTimely, InitSharedInv
  <1>2. Inv /\ [Next]_vars => Inv'
    BY TypeStep, WiredStep, TimelyStep, SharedKnownStep, CacheKnownStep, RepliesKnownStep,
       SharedAnswersStep DEF Wired, SharedInv
  <1>3. Inv => MarksReachReplicas
    BY DEF SharedInv, SharedAnswers, MarksReachReplicas
  <1> HIDE DEF Inv
  <1> QED
    BY <1>1, <1>2, <1>3, PTL DEF Spec

(***************************************************************************)
(* The guard of a route (Throttle)                                         *)
(***************************************************************************)

\* The requests that were counted, or turned away.
Hit == {r \in Requests : ~AtStage(r, "new") /\ ~AtStage(r, "admitted")}

\* A request that was not counted yet knows of no count.
Untouched ==
  \A r \in Requests :
    req[r].stage \in {"new", "admitted"} => req[r].n = 0 /\ age[r] = Window + 1

\* The counter counts requests, and those that wait for its time to live were counted.
Counts ==
  /\ count <= Cardinality(Hit)
  /\ driver = "redis" =>
       /\ ttl <= Window
       /\ \A r \in Requests : AtStage(r, "counted") => req[r].n \in 1 .. count
  /\ driver = "memory" => (count = 0 <=> ttl = 0)

\* What comes after the limit was called once by the time a request got there, from
\* koa-ratelimit or from the catch, whose own call is not caught.
Entitled(q) ==
  /\ q.calls = IF q.stage \in {"new", "limited"} THEN 0 ELSE 1
  /\ q.stage = "new" => ~q.passed /\ ~q.open
  /\ q.stage \notin {"new", "limited"} => q.passed \/ q.open

Once == \A r \in Requests : Entitled(req[r])

CounterInv == ThrottleTypeOK /\ Untouched /\ Counts /\ Once

\* Where the guard sends a request that is told of a count.
Sentence(n) == IF n > Limit THEN "refused" ELSE "serving"

\* Past the limit an error ends a request, and the guard's 429 is one.
LEMMA CaughtPasses ==
  ASSUME CounterInv, NEW r \in Requests, req[r].stage \notin {"new", "limited"},
         NEW status \in {429, 500}, NEW end \in Stages
  PROVE  Caught(req[r], status, end) = [req[r] EXCEPT !.stage = end]
<1>1. req[r] \in Request /\ (req[r].passed \/ req[r].open)
  BY DEF CounterInv, ThrottleTypeOK, Once, Entitled
<1>2. req[r].open \/ Rethrown(req[r], status)
  BY <1>1 DEF Rethrown
<1>3. QED
  BY <1>2 DEF Caught

LEMMA JudgedPasses ==
  ASSUME CounterInv, NEW r \in Requests, req[r].stage \notin {"new", "limited"}
  PROVE  /\ \A n \in 0 .. Cardinality(Requests) :
              Judged([req[r] EXCEPT !.n = n]) = [req[r] EXCEPT !.n = n, !.stage = Sentence(n)]
         /\ Judged(req[r]) = [req[r] EXCEPT !.stage = Sentence(req[r].n)]
<1>1. req[r] \in Request /\ (req[r].passed \/ req[r].open)
  BY DEF CounterInv, ThrottleTypeOK, Once, Entitled
<1>2. ASSUME NEW n \in 0 .. Cardinality(Requests)
      PROVE  Judged([req[r] EXCEPT !.n = n]) = [req[r] EXCEPT !.n = n, !.stage = Sentence(n)]
  <2> DEFINE q == [req[r] EXCEPT !.n = n]
  <2>1. (q.passed \/ q.open) /\ q.n = n
    BY <1>1 DEF Request
  <2>2. Judged(q) = [q EXCEPT !.stage = Sentence(n)]
    BY <2>1 DEF Judged, Caught, Rethrown, Sentence
  <2> QED
    BY <2>2
<1>3. Judged(req[r]) = [req[r] EXCEPT !.stage = Sentence(req[r].n)]
  <2>1. Caught(req[r], 429, "refused") = [req[r] EXCEPT !.stage = "refused"]
    <3>1. req[r].open \/ Rethrown(req[r], 429)
      BY <1>1 DEF Rethrown
    <3> QED
      BY <3>1 DEF Caught
  <2> QED
    BY <2>1 DEF Judged, Sentence
<1> QED
  BY <1>2, <1>3

LEMMA RequestsCount == Cardinality(Requests) \in Nat
  BY ThrottleAssumption, FS_CardinalityType

LEMMA SomeRequests ==
  ASSUME NEW S \in SUBSET Requests
  PROVE  IsFiniteSet(S) /\ Cardinality(S) \in 0 .. Cardinality(Requests)
  BY ThrottleAssumption, FS_Subset, FS_CardinalityType

\* A hit is counted once: there are always fewer counted than requests before it.
LEMMA HitCounts ==
  ASSUME NEW r \in Requests, req[r].stage \in {"new", "admitted"}
  PROVE  /\ Cardinality(Hit \cup {r}) = Cardinality(Hit) + 1
         /\ Cardinality(Hit) + 1 <= Cardinality(Requests)
         /\ Cardinality(Hit) \in Nat
<1>1. r \notin Hit /\ Hit \subseteq Requests
  BY DEF Hit, AtStage
<1>2. Cardinality(Hit \cup {r}) = Cardinality(Hit) + 1
  BY <1>1, SomeRequests, FS_AddElement
<1>3. Cardinality(Hit \cup {r}) \in 0 .. Cardinality(Requests) /\ Cardinality(Hit) \in 0 .. Cardinality(Requests)
  BY <1>1, SomeRequests
<1>4. QED
  BY <1>2, <1>3, RequestsCount

LEMMA CounterInitially ==
  ThrottleInit => CounterInv
<1> SUFFICES ASSUME ThrottleInit PROVE CounterInv
  OBVIOUS
<1>1. ThrottleTypeOK
  <2>1. [stage |-> "new", n |-> 0, calls |-> 0, passed |-> FALSE, open |-> FALSE] \in Request
    BY RequestsCount DEF Request, Stages
  <2>2. /\ 0 \in 0 .. Cardinality(Requests) /\ 0 \in 0 .. MaxFailures
        /\ 0 \in 0 .. Window + 1 /\ Window + 1 \in 0 .. Window + 1
    BY RequestsCount, ThrottleAssumption
  <2>3. QED
    BY <2>1, <2>2 DEF ThrottleInit, ThrottleTypeOK
<1>2. Untouched
  BY DEF ThrottleInit, Untouched
<1>3. Cardinality(Hit) \in Nat
  BY SomeRequests, RequestsCount DEF Hit
<1>4. Counts
  BY <1>3, ThrottleAssumption DEF ThrottleInit, Counts, AtStage
<1>5. Once
  BY DEF ThrottleInit, Once, Entitled
<1>6. QED
  BY <1>1, <1>2, <1>4, <1>5 DEF CounterInv

\* A request that goes on without a hit: where it was, what it was told, and nothing else.
Turns(r, froms, tos) ==
  /\ req[r].stage \in froms
  /\ req' \in [Requests -> Request]
  /\ \A s \in Requests \ {r} : req'[s] = req[s]
  /\ req'[r].stage \in tos

LEMMA AdmitTurns ==
  ASSUME CounterInv, NEW r \in Requests, Admit(r) \/ LimitFails(r)
  PROVE  Turns(r, {"new"}, {"admitted"}) /\ req'[r].n = 0 /\ Entitled(req'[r])
<1>1. /\ req[r] \in Request /\ req[r].stage = "new" /\ req[r].n = 0 /\ req[r].calls = 0
      /\ ~req[r].passed /\ ~req[r].open
  BY DEF CounterInv, ThrottleTypeOK, Untouched, Once, Entitled, Admit, LimitFails, AtStage
<1>2. /\ \A s \in Requests \ {r} : req'[s] = req[s]
      /\ req' \in [Requests -> Request]
      /\ req'[r].stage = "admitted" /\ req'[r].n = 0 /\ req'[r].calls = 1
      /\ req'[r].passed \/ req'[r].open
  <2>1. CASE Admit(r)
    <3> DEFINE q == [req[r] EXCEPT !.stage = "admitted", !.passed = TRUE, !.calls = req[r].calls + 1]
    <3>1. q.stage = "admitted" /\ q.n = 0 /\ q.calls = 1
      BY <1>1 DEF Request
    <3>2. q \in Request /\ q.passed
      <4>1. "admitted" \in Stages /\ req[r].calls + 1 \in 0 .. 2
        BY <1>1 DEF Stages
      <4> QED
        BY <1>1, <4>1 DEF Request
    <3>3. req' = [req EXCEPT ![r] = q]
      BY <2>1 DEF Admit, CounterInv, ThrottleTypeOK
    <3> HIDE DEF q
    <3> QED
      BY <3>1, <3>2, <3>3 DEF CounterInv, ThrottleTypeOK
  <2>2. CASE LimitFails(r)
    <3> DEFINE q == [req[r] EXCEPT !.stage = "admitted", !.calls = req[r].calls + 1, !.open = TRUE]
    <3>1. q.stage = "admitted" /\ q.n = 0 /\ q.calls = 1
      BY <1>1 DEF Request
    <3>2. q \in Request /\ q.open
      <4>1. "admitted" \in Stages /\ req[r].calls + 1 \in 0 .. 2
        BY <1>1 DEF Stages
      <4> QED
        BY <1>1, <4>1 DEF Request
    <3>3. req' = [req EXCEPT ![r] = q]
      <4>1. ~(req[r].open \/ Rethrown(req[r], 500))
        BY <1>1 DEF Rethrown
      <4> QED
        BY <2>2, <4>1 DEF LimitFails, Caught
    <3> HIDE DEF q
    <3> QED
      BY <3>1, <3>2, <3>3 DEF CounterInv, ThrottleTypeOK
  <2>3. QED
    BY <2>1, <2>2
<1>3. QED
  BY <1>1, <1>2 DEF Turns, Entitled

LEMMA RefuseTurns ==
  ASSUME CounterInv, NEW r \in Requests, Refuse(r)
  PROVE  Turns(r, {"new"}, {"limited"}) /\ req'[r].n = req[r].n /\ Entitled(req'[r])
<1>1. req[r] \in Request /\ req[r].stage = "new" /\ req[r].calls = 0
  BY DEF CounterInv, ThrottleTypeOK, Once, Entitled, Refuse, AtStage
<1>2. req' = [req EXCEPT ![r] = [req[r] EXCEPT !.stage = "limited"]]
  BY DEF Refuse, Caught, Rethrown, CounterInv, ThrottleTypeOK
<1>3. QED
  BY <1>1, <1>2 DEF Turns, CounterInv, ThrottleTypeOK, Request, Stages, Entitled

\* A request that the limit has let through gets another stage, and perhaps a count.
LEMMA StageAndCount ==
  ASSUME CounterInv, NEW r \in Requests, req[r].stage \notin {"new", "limited"},
         NEW n \in 0 .. Cardinality(Requests), NEW to \in Stages \ {"new", "limited"},
         req' = [req EXCEPT ![r] = [req[r] EXCEPT !.n = n, !.stage = to]]
  PROVE  Turns(r, {req[r].stage}, {to}) /\ req'[r].n = n /\ Entitled(req'[r])
<1>1. req[r] \in Request /\ Entitled(req[r])
  BY DEF CounterInv, ThrottleTypeOK, Once
<1>2. QED
  BY <1>1 DEF Turns, CounterInv, ThrottleTypeOK, Request, Entitled

LEMMA StageOnly ==
  ASSUME CounterInv, NEW r \in Requests, req[r].stage \notin {"new", "limited"},
         NEW to \in Stages \ {"new", "limited"},
         req' = [req EXCEPT ![r] = [req[r] EXCEPT !.stage = to]]
  PROVE  Turns(r, {req[r].stage}, {to}) /\ req'[r].n = req[r].n /\ Entitled(req'[r])
<1>1. req[r] \in Request /\ Entitled(req[r])
  BY DEF CounterInv, ThrottleTypeOK, Once
<1>2. QED
  BY <1>1 DEF Turns, CounterInv, ThrottleTypeOK, Request, Entitled

LEMMA HandleTurns ==
  ASSUME CounterInv, NEW r \in Requests, Handle(r)
  PROVE  Turns(r, {"serving"}, {"served", "failed"}) /\ req'[r].n = req[r].n /\ Entitled(req'[r])
<1>1. req[r].stage = "serving"
  BY DEF Handle, AtStage
<1>2. PICK to \in {"served", "failed"} : req' = [req EXCEPT ![r] = [req[r] EXCEPT !.stage = to]]
  <2>1. CASE req' = [req EXCEPT ![r].stage = "served"]
    BY <2>1 DEF CounterInv, ThrottleTypeOK
  <2>2. CASE \E status \in {429, 500} : req' = [req EXCEPT ![r] = Caught(req[r], status, "failed")]
    <3>1. "failed" \in Stages
      BY DEF Stages
    <3>2. \A status \in {429, 500} : Caught(req[r], status, "failed") = [req[r] EXCEPT !.stage = "failed"]
      <4>1. req[r].stage \notin {"new", "limited"}
        BY <1>1
      <4> QED
        BY <3>1, <4>1, CaughtPasses
    <3> QED
      BY <2>2, <3>2
  <2>3. QED
    BY <2>1, <2>2 DEF Handle
<1>3. Turns(r, {"serving"}, {to}) /\ req'[r].n = req[r].n /\ Entitled(req'[r])
  BY <1>1, <1>2, StageOnly DEF Stages
<1>4. QED
  BY <1>3 DEF Turns

LEMMA HitRejectedTurns ==
  ASSUME CounterInv, NEW r \in Requests, HitRejected(r)
  PROVE  Turns(r, {"admitted"}, {"failed"}) /\ req'[r].n = req[r].n /\ Entitled(req'[r])
<1>1. req[r].stage = "admitted"
  BY DEF HitRejected, AtStage
<1>2. req' = [req EXCEPT ![r] = [req[r] EXCEPT !.stage = "failed"]]
  <2>1. 500 \in {429, 500} /\ "failed" \in Stages
    BY DEF Stages
  <2>2. Caught(req[r], 500, "failed") = [req[r] EXCEPT !.stage = "failed"]
    BY <1>1, <2>1, CaughtPasses, Zenon
  <2> QED
    BY <2>2 DEF HitRejected
<1>3. QED
  BY <1>1, <1>2, StageOnly DEF Stages

LEMMA ExpireKeyTurns ==
  ASSUME CounterInv, NEW r \in Requests, ExpireKey(r)
  PROVE  /\ Turns(r, {"counted"}, {Sentence(req[r].n)})
         /\ req'[r].n = req[r].n /\ Entitled(req'[r])
<1>1. req[r].stage = "counted"
  BY DEF ExpireKey, AtStage
<1>2. req' = [req EXCEPT ![r] = [req[r] EXCEPT !.stage = Sentence(req[r].n)]]
  BY <1>1, JudgedPasses DEF ExpireKey
<1>3. QED
  BY <1>1, <1>2, StageOnly DEF Stages, Sentence

LEMMA LostTurns ==
  ASSUME CounterInv, NEW r \in Requests, ExpireRejected(r) \/ Die(r)
  PROVE  Turns(r, {"counted"}, {"failed"}) /\ req'[r].n = req[r].n /\ Entitled(req'[r])
<1>1. req[r].stage = "counted"
  BY DEF ExpireRejected, Die, AtStage
<1>2. req' = [req EXCEPT ![r] = [req[r] EXCEPT !.stage = "failed"]]
  BY <1>1, CaughtPasses DEF ExpireRejected, Die, Stages, CounterInv, ThrottleTypeOK
<1>3. QED
  BY <1>1, <1>2, StageOnly DEF Stages

LEMMA HitRedisTurns ==
  ASSUME CounterInv, NEW r \in Requests, HitRedis(r)
  PROVE  /\ Turns(r, {"admitted"}, {IF ttl = 0 THEN "counted" ELSE Sentence(count + 1)})
         /\ req'[r].n = count + 1 /\ Entitled(req'[r])
<1>0. Cardinality(Hit) + 1 <= Cardinality(Requests) /\ Cardinality(Hit) \in Nat
  BY HitCounts DEF HitRedis, AtStage
<1>1. count + 1 \in 0 .. Cardinality(Requests)
  BY <1>0, RequestsCount DEF CounterInv, Counts, ThrottleTypeOK
<1>2. req[r].stage = "admitted"
  BY DEF HitRedis, AtStage
<1> DEFINE to == IF ttl = 0 THEN "counted" ELSE Sentence(count + 1)
<1>3. req' = [req EXCEPT ![r] = [req[r] EXCEPT !.n = count + 1, !.stage = to]]
  <2>1. Judged([req[r] EXCEPT !.n = count + 1]) = [req[r] EXCEPT !.n = count + 1, !.stage = Sentence(count + 1)]
    BY <1>1, <1>2, JudgedPasses
  <2>2. req' = [req EXCEPT ![r] = IF ttl = 0 THEN [[req[r] EXCEPT !.n = count + 1] EXCEPT !.stage = "counted"]
                                             ELSE Judged([req[r] EXCEPT !.n = count + 1])]
    BY DEF HitRedis, Incremented, Unlimited
  <2>3. CASE ttl = 0
    BY <2>2, <2>3
  <2>4. CASE ttl # 0
    BY <2>1, <2>2, <2>4
  <2>5. QED
    BY <2>3, <2>4
<1>4. to \in Stages \ {"new", "limited"}
  BY DEF Stages, Sentence
<1> HIDE DEF to
<1>5. Turns(r, {"admitted"}, {to}) /\ req'[r].n = count + 1 /\ Entitled(req'[r])
  BY <1>1, <1>2, <1>3, <1>4, StageAndCount
<1>6. QED
  BY <1>5 DEF to

LEMMA HitMemoryTurns ==
  ASSUME CounterInv, NEW r \in Requests, HitMemory(r)
  PROVE  Turns(r, {"admitted"}, {"counted"}) /\ req'[r].n = req[r].n /\ Entitled(req'[r])
<1>1. req[r].stage = "admitted"
  BY DEF HitMemory, AtStage
<1>2. req' = [req EXCEPT ![r] = [req[r] EXCEPT !.stage = "counted"]]
  BY DEF HitMemory, CounterInv, ThrottleTypeOK
<1>3. QED
  BY <1>1, <1>2, StageOnly DEF Stages

LEMMA ReadRecordTurns ==
  ASSUME CounterInv, NEW r \in Requests, ReadRecord(r)
  PROVE  /\ Turns(r, {"counted"}, {Sentence(count)})
         /\ req'[r].n = count /\ Entitled(req'[r])
<1>1. req[r].stage = "counted" /\ count \in 0 .. Cardinality(Requests)
  BY DEF ReadRecord, AtStage, CounterInv, ThrottleTypeOK
<1>2. req' = [req EXCEPT ![r] = [req[r] EXCEPT !.n = count, !.stage = Sentence(count)]]
  BY <1>1, JudgedPasses DEF ReadRecord
<1>3. QED
  BY <1>1, <1>2, StageAndCount DEF Stages, Sentence

\* The set of the counted grows by the request itself, if it was not there.
LEMMA HitTurns ==
  ASSUME NEW r \in Requests, NEW froms, NEW tos, Turns(r, froms, tos),
         "new" \notin tos, "admitted" \notin tos
  PROVE  Hit' = Hit \cup {r}
<1>1. \A s \in Requests : s \in Hit' <=> s \in Hit \cup {r}
  <2> TAKE s \in Requests
  <2>1. CASE s = r
    BY <2>1 DEF Turns, Hit, AtStage
  <2>2. CASE s # r
    BY <2>2 DEF Turns, Hit, AtStage
  <2>3. QED
    BY <2>1, <2>2
<1>2. QED
  BY <1>1 DEF Hit

LEMMA HitKept ==
  ASSUME NEW r \in Requests, NEW froms, NEW tos, Turns(r, froms, tos), r \in Hit,
         "new" \notin tos, "admitted" \notin tos
  PROVE  Hit' = Hit
  BY HitTurns DEF Hit

LEMMA HitNever ==
  ASSUME CounterInv
  PROVE  Cardinality(Hit) \in Nat /\ count \in Nat /\ count <= Cardinality(Hit)
<1>1. Cardinality(Hit) \in 0 .. Cardinality(Requests)
  BY SomeRequests DEF Hit
<1>2. QED
  BY <1>1, RequestsCount DEF CounterInv, Counts, ThrottleTypeOK

\* The set of the counted only grows.
LEMMA HitGrows ==
  ASSUME CounterInv, Hit \subseteq Hit'
  PROVE  count <= Cardinality(Hit')
<1>1. Hit' \subseteq Requests
  BY DEF Hit
<1>2. IsFiniteSet(Hit') /\ Cardinality(Hit') \in 0 .. Cardinality(Requests)
  BY <1>1, SomeRequests
<1>3. Cardinality(Hit) <= Cardinality(Hit')
  BY <1>2, FS_Subset
<1>4. QED
  BY <1>2, <1>3, HitNever, RequestsCount

\* A request that is not counted, and does not wait: what holds of the counter is kept.
LEMMA PassKeepsCounter ==
  ASSUME CounterInv, NEW r \in Requests, NEW from, NEW tos, Turns(r, {from}, tos),
         UNCHANGED <<driver, count, age>>, ttl' = ttl \/ (driver = "redis" /\ ttl' = Window),
         failures' \in 0 .. MaxFailures, stuck' \in BOOLEAN,
         "counted" \notin tos, "new" \notin tos,
         "admitted" \in tos => from = "new" /\ tos = {"admitted"} /\ req'[r].n = 0,
         Entitled(req'[r])
  PROVE  CounterInv'
<1>1. ThrottleTypeOK'
  BY ThrottleAssumption DEF CounterInv, ThrottleTypeOK, Turns
<1>2. Untouched'
  <2> SUFFICES ASSUME NEW s \in Requests, req'[s].stage \in {"new", "admitted"}
               PROVE  req'[s].n = 0 /\ age[s] = Window + 1
    BY DEF Untouched
  <2>1. CASE s = r
    BY <2>1 DEF Turns, CounterInv, Untouched
  <2>2. CASE s # r
    BY <2>2 DEF Turns, CounterInv, Untouched
  <2>3. QED
    BY <2>1, <2>2
<1>3. Hit \subseteq Hit'
  <2> SUFFICES ASSUME NEW s \in Hit PROVE s \in Hit'
    OBVIOUS
  <2>1. CASE s = r
    BY <2>1 DEF Turns, Hit, AtStage
  <2>2. CASE s # r
    BY <2>2 DEF Turns, Hit, AtStage
  <2>3. QED
    BY <2>1, <2>2
<1>4. count <= Cardinality(Hit')
  BY <1>3, HitGrows
<1>5. \A s \in Requests : AtStage(s, "counted")' => AtStage(s, "counted") /\ req'[s].n = req[s].n
  BY DEF Turns, AtStage
<1>6. Counts'
  BY <1>4, <1>5, ThrottleAssumption DEF CounterInv, Counts
<1>7. Once'
  BY DEF CounterInv, Once, Turns
<1>8. QED
  BY <1>1, <1>2, <1>6, <1>7 DEF CounterInv

LEMMA FailsType ==
  ASSUME CounterInv, Fails
  PROVE  failures' \in 0 .. MaxFailures
  BY ThrottleAssumption DEF CounterInv, ThrottleTypeOK, Fails

LEMMA HitRedisKeepsCounter ==
  ASSUME CounterInv, NEW r \in Requests, HitRedis(r)
  PROVE  CounterInv'
<1>1. PICK to : Turns(r, {"admitted"}, {to}) /\ to \in {"counted", "refused", "serving"}
  BY HitRedisTurns DEF Sentence
<1>2. req'[r].n = count + 1 /\ Entitled(req'[r])
  BY HitRedisTurns
<1>3. UNCHANGED <<driver, ttl, failures, stuck>> /\ count' = count + 1 /\ driver = "redis"
  BY DEF HitRedis
<1>4. age' = [age EXCEPT ![r] = 0]
  BY DEF HitRedis
<1>5. req[r].stage = "admitted" /\ Hit' = Hit \cup {r}
  BY <1>1, HitTurns DEF Turns
<1>6. count + 1 <= Cardinality(Hit') /\ count + 1 <= Cardinality(Requests)
  BY <1>5, HitCounts, HitNever, RequestsCount
<1>7. ThrottleTypeOK'
  BY <1>1, <1>3, <1>4, <1>6, HitNever, RequestsCount, ThrottleAssumption DEF CounterInv, ThrottleTypeOK, Turns
<1>8. Untouched'
  BY <1>1, <1>4 DEF CounterInv, Untouched, Turns, ThrottleTypeOK
<1>9. \A s \in Requests : AtStage(s, "counted")' => req'[s].n \in 1 .. count'
  <2> SUFFICES ASSUME NEW s \in Requests, AtStage(s, "counted")' PROVE req'[s].n \in 1 .. count'
    OBVIOUS
  <2>1. CASE s = r
    BY <2>1, <1>2, <1>3, HitNever
  <2>2. CASE s # r
    BY <2>2, <1>1, <1>3, HitNever DEF Turns, AtStage, CounterInv, Counts
  <2>3. QED
    BY <2>1, <2>2
<1>10. Counts'
  BY <1>3, <1>6, <1>9 DEF CounterInv, Counts
<1>11. Once'
  BY <1>1, <1>2 DEF CounterInv, Once, Turns
<1>12. QED
  BY <1>7, <1>8, <1>10, <1>11 DEF CounterInv

LEMMA HitMemoryKeepsCounter ==
  ASSUME CounterInv, NEW r \in Requests, HitMemory(r)
  PROVE  CounterInv'
<1>1. Turns(r, {"admitted"}, {"counted"}) /\ Entitled(req'[r])
  BY HitMemoryTurns
<1>3. UNCHANGED <<driver, failures, stuck>> /\ count' = count + 1 /\ driver = "memory"
  BY DEF HitMemory
<1>4. age' = [age EXCEPT ![r] = 0] /\ ttl' = IF count = 0 THEN Window + 1 ELSE ttl
  BY DEF HitMemory
<1>5. req[r].stage = "admitted" /\ Hit' = Hit \cup {r}
  BY <1>1, HitTurns DEF Turns
<1>6. count + 1 <= Cardinality(Hit') /\ count + 1 <= Cardinality(Requests)
  BY <1>5, HitCounts, HitNever, RequestsCount
<1>7. ThrottleTypeOK'
  BY <1>1, <1>3, <1>4, <1>6, HitNever, RequestsCount, ThrottleAssumption DEF CounterInv, ThrottleTypeOK, Turns
<1>8. Untouched'
  BY <1>1, <1>4 DEF CounterInv, Untouched, Turns, ThrottleTypeOK
<1>9. Counts'
  BY <1>3, <1>4, <1>6, HitNever, ThrottleAssumption DEF CounterInv, Counts
<1>10. Once'
  BY <1>1 DEF CounterInv, Once, Turns
<1>11. QED
  BY <1>7, <1>8, <1>9, <1>10 DEF CounterInv

LEMMA TickKeepsCounter ==
  ASSUME CounterInv, ThrottleTick
  PROVE  CounterInv'
<1>1. UNCHANGED <<driver, req, failures>> /\ Hit' = Hit
  BY DEF ThrottleTick, Hit, AtStage
<1>2. /\ age' = [r \in Requests |-> IF age[r] > Window THEN age[r] ELSE age[r] + 1]
      /\ ttl' = IF ttl = 0 THEN 0 ELSE ttl - 1
      /\ count' = IF ttl = 1 THEN 0 ELSE count
      /\ stuck' \in BOOLEAN
  BY DEF ThrottleTick
<1>3. age' \in [Requests -> 0 .. Window + 1]
  BY <1>2, ThrottleAssumption DEF CounterInv, ThrottleTypeOK
<1>4. count' \in 0 .. Cardinality(Requests) /\ ttl' \in 0 .. Window + 1
  BY <1>2, RequestsCount, ThrottleAssumption DEF CounterInv, ThrottleTypeOK
<1>5. ThrottleTypeOK'
  BY <1>1, <1>2, <1>3, <1>4 DEF CounterInv, ThrottleTypeOK
<1>6. Untouched'
  BY <1>1, <1>2, ThrottleAssumption DEF CounterInv, Untouched, ThrottleTypeOK
<1>7. \A r \in Requests : ~AtStage(r, "counted")'
  BY <1>1 DEF ThrottleTick, AtStage
<1>8. count' <= Cardinality(Hit')
  BY <1>1, <1>2, HitNever
<1>9. Counts'
  BY <1>1, <1>2, <1>7, <1>8, HitNever, ThrottleAssumption DEF CounterInv, Counts, ThrottleTypeOK
<1>10. Once'
  BY <1>1 DEF CounterInv, Once
<1>11. QED
  BY <1>5, <1>6, <1>9, <1>10 DEF CounterInv

LEMMA CounterStep ==
  CounterInv /\ [ThrottleNext]_throttleVars => CounterInv'
<1> SUFFICES ASSUME CounterInv, [ThrottleNext]_throttleVars
             PROVE  CounterInv'
  OBVIOUS
<1>a. failures \in 0 .. MaxFailures /\ stuck \in BOOLEAN
  BY DEF CounterInv, ThrottleTypeOK
<1>1. ASSUME NEW r \in Requests, Admit(r) \/ LimitFails(r) PROVE CounterInv'
  <2>1. Turns(r, {"new"}, {"admitted"}) /\ req'[r].n = 0 /\ Entitled(req'[r])
    BY <1>1, AdmitTurns
  <2>2. UNCHANGED <<driver, count, ttl, age, stuck>> /\ (UNCHANGED failures \/ Fails)
    BY <1>1 DEF Admit, LimitFails
  <2>3. QED
    BY <2>1, <2>2, <1>a, FailsType, PassKeepsCounter
<1>2. ASSUME NEW r \in Requests, Refuse(r) PROVE CounterInv'
  BY <1>2, <1>a, RefuseTurns, PassKeepsCounter DEF Refuse
<1>3. ASSUME NEW r \in Requests, Handle(r) PROVE CounterInv'
  <2>1. Turns(r, {"serving"}, {"served", "failed"}) /\ req'[r].n = req[r].n /\ Entitled(req'[r])
    BY <1>3, HandleTurns
  <2>2. UNCHANGED <<driver, count, ttl, failures, age, stuck>>
    BY <1>3 DEF Handle
  <2>3. QED
    BY <2>1, <2>2, <1>a, PassKeepsCounter
<1>4. ASSUME NEW r \in Requests, HitRedis(r) PROVE CounterInv'
  BY <1>4, HitRedisKeepsCounter
<1>5. ASSUME NEW r \in Requests, HitRejected(r) PROVE CounterInv'
  BY <1>5, <1>a, HitRejectedTurns, FailsType, PassKeepsCounter DEF HitRejected
<1>6. ASSUME NEW r \in Requests, ExpireKey(r) PROVE CounterInv'
  BY <1>6, <1>a, ExpireKeyTurns, PassKeepsCounter DEF ExpireKey, Sentence
<1>7. ASSUME NEW r \in Requests, ExpireRejected(r) \/ Die(r) PROVE CounterInv'
  BY <1>7, <1>a, LostTurns, FailsType, PassKeepsCounter DEF ExpireRejected, Die
<1>8. ASSUME NEW r \in Requests, HitMemory(r) PROVE CounterInv'
  BY <1>8, HitMemoryKeepsCounter
<1>9. ASSUME NEW r \in Requests, ReadRecord(r) PROVE CounterInv'
  BY <1>9, <1>a, ReadRecordTurns, PassKeepsCounter DEF ReadRecord, Sentence
<1>10. CASE ThrottleTick
  BY <1>10, TickKeepsCounter
<1>11. CASE UNCHANGED throttleVars
  BY <1>11 DEF throttleVars, CounterInv, ThrottleTypeOK, Untouched, Counts, Once, Hit, AtStage
<1>12. QED
  BY <1>1, <1>2, <1>3, <1>4, <1>5, <1>6, <1>7, <1>8, <1>9, <1>10, <1>11 DEF ThrottleNext

\* The counter never exceeds the requests there are, and every part of the state has the
\* type of what it stands for.
THEOREM ThrottleTypeCorrect == ThrottleSpec => []ThrottleTypeOK
<1>1. CounterInv => ThrottleTypeOK
  BY DEF CounterInv
<1>2. QED
  BY <1>1, CounterInitially, CounterStep, PTL DEF ThrottleSpec

\* Whatever is thrown below the limit of the API or by its own store, what comes after it is
\* called once for a request that koa-ratelimit does not refuse, and never for one it does.
THEOREM RequestsHandledOnce == ThrottleSpec => []HandledOnce
<1>1. CounterInv => HandledOnce
  BY DEF CounterInv, Once, Entitled, HandledOnce
<1>2. QED
  BY <1>1, CounterInitially, CounterStep, PTL DEF ThrottleSpec

(***************************************************************************)
(* Why a request is refused (Throttle)                                     *)
(***************************************************************************)

\* A request waits to give the counter its time to live.
Unsettled == \E r \in Requests : AtStage(r, "counted")

\* The k-th count went to s, within the life of the counter.
Took(k, s) ==
  /\ req[s].n = k /\ age[s] + ttl <= Window
  /\ Unsettled => age[s] = 0

CauseRedis ==
  driver = "redis" /\ ~stuck =>
    /\ count # 0 /\ ttl = 0 => Unsettled
    /\ \A k \in 1 .. count : \E s \in Requests : Took(k, s)

\* Those a record in memory may have counted.
Lived == {s \in Requests : age[s] + ttl <= Window + 1}

CauseMemory == driver = "memory" => count <= Cardinality(Lived)

Cause == CauseRedis /\ CauseMemory

LEMMA CauseInitially == ThrottleInit => Cause
<1> SUFFICES ASSUME ThrottleInit PROVE Cause
  OBVIOUS
<1>1. CauseRedis
  BY DEF ThrottleInit, CauseRedis
<1>2. Cardinality(Lived) \in Nat
  BY SomeRequests, RequestsCount DEF Lived
<1>3. QED
  BY <1>1, <1>2 DEF ThrottleInit, Cause, CauseMemory

LEMMA PassKeepsCause ==
  ASSUME CounterInv, Cause, NEW r \in Requests, NEW from, NEW tos, Turns(r, {from}, tos),
         UNCHANGED <<driver, count, ttl, age, stuck>>,
         from # "counted", "counted" \notin tos, req'[r].n = req[r].n
  PROVE  Cause'
<1>1. \A s \in Requests : (AtStage(s, "counted")' <=> AtStage(s, "counted")) /\ req'[s].n = req[s].n
  BY DEF Turns, AtStage
<1>2. Unsettled' <=> Unsettled
  BY <1>1 DEF Unsettled
<1>3. CauseRedis'
  BY <1>1, <1>2 DEF Cause, CauseRedis, Took
<1>4. CauseMemory'
  BY DEF Cause, CauseMemory, Lived
<1>5. QED
  BY <1>3, <1>4 DEF Cause

LEMMA HitRedisKeepsCause ==
  ASSUME CounterInv, Cause, NEW r \in Requests, HitRedis(r)
  PROVE  Cause'
<1>0. Sentence(count + 1) # "counted"
  BY DEF Sentence
<1>1. PICK to : Turns(r, {"admitted"}, {to}) /\ (to = "counted" <=> ttl = 0)
  <2>1. Turns(r, {"admitted"}, {IF ttl = 0 THEN "counted" ELSE Sentence(count + 1)})
    BY HitRedisTurns
  <2>2. QED
    BY <2>1, <1>0, Zenon
<1>2. UNCHANGED <<driver, ttl, stuck>> /\ count' = count + 1 /\ driver = "redis"
  BY DEF HitRedis
<1>3. age' = [age EXCEPT ![r] = 0] /\ req'[r].n = count + 1
  BY HitRedisTurns DEF HitRedis
<1>4. req[r].n = 0 /\ count \in Nat /\ ttl \in 0 .. Window
  BY <1>1, <1>2, HitNever, ThrottleAssumption DEF CounterInv, Untouched, Turns, Counts, ThrottleTypeOK
<1>5. age \in [Requests -> Nat] /\ age'[r] = 0 /\ \A s \in Requests \ {r} : age'[s] = age[s]
  BY <1>3, ThrottleAssumption DEF CounterInv, ThrottleTypeOK
<1>6. SUFFICES ASSUME ~stuck PROVE CauseRedis'
  BY <1>2 DEF Cause, CauseRedis, CauseMemory
<1>7. ttl = 0 => Unsettled'
  BY <1>1 DEF Unsettled, AtStage, Turns
<1>8. Unsettled' => ttl = 0 \/ Unsettled
  BY <1>1 DEF Unsettled, AtStage, Turns
<1>9. ASSUME NEW k \in 1 .. count' PROVE \E s \in Requests : Took(k, s)'
  <2>1. CASE k = count + 1
    <3>1. Took(k, r)'
      BY <2>1, <1>2, <1>3, <1>4, <1>5, ThrottleAssumption DEF Took
    <3>2. QED
      BY <3>1
  <2>2. CASE k # count + 1
    <3>1. k \in 1 .. count
      BY <2>2, <1>2, <1>4, <1>9
    <3>2. PICK s \in Requests : Took(k, s)
      BY <3>1, <1>2, <1>6 DEF Cause, CauseRedis
    <3>3. s # r
      BY <3>1, <3>2, <1>4 DEF Took
    <3>4. ttl = 0 => Unsettled
      BY <3>1, <1>2, <1>4, <1>6 DEF Cause, CauseRedis
    <3>5. req'[s] = req[s] /\ age'[s] = age[s]
      BY <3>3, <1>1, <1>5 DEF Turns
    <3>6. Took(k, s)'
      BY <3>2, <3>4, <3>5, <1>2, <1>8 DEF Took
    <3>7. QED
      BY <3>6
  <2>3. QED
    BY <2>1, <2>2
<1>10. QED
  BY <1>2, <1>7, <1>9 DEF CauseRedis

LEMMA ExpireKeyKeepsCause ==
  ASSUME CounterInv, Cause, NEW r \in Requests, ExpireKey(r)
  PROVE  Cause'
<1>1. PICK to : Turns(r, {"counted"}, {to}) /\ to # "counted" /\ req'[r].n = req[r].n
  BY ExpireKeyTurns DEF Sentence
<1>2. UNCHANGED <<driver, count, age, stuck>> /\ ttl' = Window /\ driver = "redis"
  BY DEF ExpireKey
<1>3. Unsettled
  BY <1>1 DEF Unsettled, AtStage, Turns
<1>4. \A s \in Requests : req'[s].n = req[s].n
  BY <1>1 DEF Turns
<1>5. SUFFICES ASSUME ~stuck PROVE CauseRedis'
  BY <1>2 DEF Cause, CauseRedis, CauseMemory
<1>6. ASSUME NEW k \in 1 .. count PROVE \E s \in Requests : Took(k, s)'
  <2>1. PICK s \in Requests : Took(k, s)
    BY <1>2, <1>5, <1>6 DEF Cause, CauseRedis
  <2>2. Took(k, s)'
    BY <2>1, <1>2, <1>3, <1>4, ThrottleAssumption DEF Took
  <2>3. QED
    BY <2>2
<1>7. QED
  BY <1>2, <1>6, ThrottleAssumption DEF CauseRedis

LEMMA HitMemoryKeepsCause ==
  ASSUME CounterInv, Cause, NEW r \in Requests, HitMemory(r)
  PROVE  Cause'
<1>1. driver = "memory" /\ driver' = driver /\ count' = count + 1
  BY DEF HitMemory
<1>2. age' = [age EXCEPT ![r] = 0] /\ ttl' = IF count = 0 THEN Window + 1 ELSE ttl
  BY DEF HitMemory
<1>3. age \in [Requests -> Nat] /\ ttl \in 0 .. Window + 1 /\ count \in Nat /\ (count = 0 <=> ttl = 0)
  BY <1>1, HitNever, ThrottleAssumption DEF CounterInv, ThrottleTypeOK, Counts
<1>4. age[r] = Window + 1
  BY DEF HitMemory, CounterInv, Untouched, AtStage
<1>5. SUFFICES count + 1 <= Cardinality(Lived')
  BY <1>1 DEF Cause, CauseRedis, CauseMemory
<1>6. Lived' \subseteq Requests /\ r \in Lived'
  BY <1>2, <1>3, ThrottleAssumption DEF Lived
<1>7. IsFiniteSet(Lived') /\ Cardinality(Lived') \in Nat
  BY <1>6, SomeRequests, RequestsCount
<1>8. CASE count = 0
  BY <1>6, <1>7, <1>8, FS_EmptySet
<1>9. CASE count # 0
  <2>1. r \notin Lived /\ Lived \subseteq Requests
    BY <1>3, <1>4, <1>9, ThrottleAssumption DEF Lived
  <2>2. Lived \cup {r} \subseteq Lived'
    BY <1>2, <1>3, <1>9, ThrottleAssumption DEF Lived
  <2>3. IsFiniteSet(Lived) /\ Cardinality(Lived) \in Nat
    BY <2>1, SomeRequests, RequestsCount
  <2>4. Cardinality(Lived \cup {r}) = Cardinality(Lived) + 1
    BY <2>1, <2>3, FS_AddElement
  <2>5. Cardinality(Lived \cup {r}) <= Cardinality(Lived')
    BY <2>2, <1>7, FS_Subset
  <2>6. QED
    BY <2>3, <2>4, <2>5, <1>1, <1>3, <1>7 DEF Cause, CauseMemory
<1>10. QED
  BY <1>8, <1>9

LEMMA TickKeepsCause ==
  ASSUME CounterInv, Cause, ThrottleTick
  PROVE  Cause'
<1>1. UNCHANGED <<driver, req, failures>> /\ ~Unsettled /\ ~Unsettled'
  BY DEF ThrottleTick, Unsettled, AtStage
<1>2. /\ age' = [r \in Requests |-> IF age[r] > Window THEN age[r] ELSE age[r] + 1]
      /\ ttl' = IF ttl = 0 THEN 0 ELSE ttl - 1
      /\ count' = IF ttl = 1 THEN 0 ELSE count
      /\ stuck' = (stuck /\ ttl # 1)
  BY DEF ThrottleTick
<1>3. age \in [Requests -> Nat] /\ ttl \in Nat /\ count \in Nat
  BY HitNever, ThrottleAssumption DEF CounterInv, ThrottleTypeOK
<1>4. CauseRedis'
  <2> SUFFICES ASSUME driver = "redis", ~stuck'
               PROVE  /\ count' # 0 /\ ttl' = 0 => Unsettled'
                      /\ \A k \in 1 .. count' : \E s \in Requests : Took(k, s)'
    BY <1>1 DEF CauseRedis
  <2>1. CASE count' = 0
    BY <2>1
  <2>2. CASE count' # 0
    <3>1. ttl # 1 /\ count' = count /\ ~stuck
      BY <2>2, <1>2
    <3>2. ttl # 0
      BY <3>1, <2>2, <1>1 DEF Cause, CauseRedis
    <3>3. ttl' = ttl - 1 /\ ttl' # 0
      BY <3>1, <3>2, <1>2, <1>3
    <3>4. ASSUME NEW k \in 1 .. count PROVE \E s \in Requests : Took(k, s)'
      <4>1. PICK s \in Requests : Took(k, s)
        BY <3>1, <3>4 DEF Cause, CauseRedis
      <4>2. Took(k, s)'
        BY <4>1, <3>3, <1>1, <1>2, <1>3, ThrottleAssumption DEF Took
      <4>3. QED
        BY <4>2
    <3>5. QED
      BY <3>1, <3>3, <3>4
  <2>3. QED
    BY <2>1, <2>2
<1>5. CauseMemory'
  <2> SUFFICES ASSUME driver = "memory" PROVE count' <= Cardinality(Lived')
    BY <1>1 DEF CauseMemory
  <2>1. Cardinality(Lived') \in Nat
    BY SomeRequests, RequestsCount DEF Lived
  <2>2. CASE count' = 0
    BY <2>1, <2>2
  <2>3. CASE count' # 0
    <3>1. ttl # 1 /\ count' = count /\ ttl # 0
      BY <2>3, <1>2 DEF CounterInv, Counts
    <3>2. \A s \in Requests : age[s] + ttl <= Window + 1 <=> age'[s] + ttl' <= Window + 1
      BY <3>1, <1>2, <1>3, ThrottleAssumption
    <3>3. Lived' = Lived
      BY <3>2 DEF Lived
    <3>4. QED
      BY <3>1, <3>3 DEF Cause, CauseMemory
  <2>4. QED
    BY <2>2, <2>3
<1>6. QED
  BY <1>4, <1>5 DEF Cause

LEMMA CauseStep ==
  CounterInv /\ Cause /\ [ThrottleNext]_throttleVars => Cause'
<1> SUFFICES ASSUME CounterInv, Cause, [ThrottleNext]_throttleVars PROVE Cause'
  OBVIOUS
<1>0. \A r \in Requests : AtStage(r, "new") => req[r].n = 0
  BY DEF CounterInv, Untouched, AtStage
<1>1. ASSUME NEW r \in Requests, Admit(r) \/ LimitFails(r) PROVE Cause'
  BY <1>1, <1>0, AdmitTurns, PassKeepsCause DEF Admit, LimitFails
<1>2. ASSUME NEW r \in Requests, Refuse(r) PROVE Cause'
  BY <1>2, RefuseTurns, PassKeepsCause DEF Refuse
<1>3. ASSUME NEW r \in Requests, Handle(r) PROVE Cause'
  BY <1>3, HandleTurns, PassKeepsCause DEF Handle
<1>4. ASSUME NEW r \in Requests, HitRedis(r) PROVE Cause'
  BY <1>4, HitRedisKeepsCause
<1>5. ASSUME NEW r \in Requests, HitRejected(r) PROVE Cause'
  BY <1>5, HitRejectedTurns, PassKeepsCause DEF HitRejected
<1>6. ASSUME NEW r \in Requests, ExpireKey(r) PROVE Cause'
  BY <1>6, ExpireKeyKeepsCause
<1>7. ASSUME NEW r \in Requests, ExpireRejected(r) \/ Die(r) PROVE Cause'
  BY <1>7 DEF ExpireRejected, Die, Cause, CauseRedis, CauseMemory
<1>8. ASSUME NEW r \in Requests, HitMemory(r) PROVE Cause'
  BY <1>8, HitMemoryKeepsCause
<1>9. ASSUME NEW r \in Requests, ReadRecord(r) PROVE Cause'
  BY <1>9 DEF ReadRecord, Cause, CauseRedis, CauseMemory, Lived
<1>10. CASE ThrottleTick
  BY <1>10, TickKeepsCause
<1>11. CASE UNCHANGED throttleVars
  BY <1>11 DEF throttleVars, Cause, CauseRedis, CauseMemory, Lived, Took, Unsettled, AtStage
<1>12. QED
  BY <1>1, <1>2, <1>3, <1>4, <1>5, <1>6, <1>7, <1>8, <1>9, <1>10, <1>11 DEF ThrottleNext

\* A set whose members have all counts from 1 to the limit is as large as the limit.
LEMMA AllCounts ==
  ASSUME NEW S \in SUBSET Requests,
         \A k \in 1 .. Limit : \E s \in S : req[s].n = k
  PROVE  Cardinality(S) >= Limit
<1> DEFINE first == [k \in 1 .. Limit |-> CHOOSE s \in S : req[s].n = k]
<1>1. \A k \in 1 .. Limit : first[k] \in S /\ req[first[k]].n = k
  OBVIOUS
<1>2. first \in Injection(1 .. Limit, S)
  BY <1>1 DEF Injection, IsInjective
<1>3. IsFiniteSet(S) /\ Cardinality(S) \in Nat
  BY SomeRequests, RequestsCount
<1>4. Cardinality(1 .. Limit) <= Cardinality(S)
  BY <1>2, <1>3, FS_Injection
<1>5. Cardinality(1 .. Limit) = Limit
  BY ThrottleAssumption, FS_Interval
<1>6. QED
  BY <1>3, <1>4, <1>5, ThrottleAssumption

\* The requests that took a count up to the limit, in a window's time.
Others(r) == {s \in Recent \ {r} : driver = "redis" => req[s].n <= Limit}

\* In Redis, whoever is told of more than the limit was preceded by the whole of it.
LEMMA PrecededRedis ==
  ASSUME CounterInv, Cause, driver = "redis", ~stuck, count >= Limit,
         NEW r \in Requests, req[r].n \notin 1 .. Limit
  PROVE  Cardinality(Others(r)) >= Limit
<1>1. ASSUME NEW k \in 1 .. Limit PROVE \E s \in Others(r) : req[s].n = k
  <2>1. k \in 1 .. count
    BY HitNever, ThrottleAssumption
  <2>2. PICK s \in Requests : Took(k, s)
    BY <2>1 DEF Cause, CauseRedis
  <2>3. s # r /\ age[s] <= Window
    BY <2>2, ThrottleAssumption DEF Took, CounterInv, ThrottleTypeOK
  <2>4. s \in Others(r)
    BY <2>2, <2>3, ThrottleAssumption DEF Took, Others, Recent
  <2>5. QED
    BY <2>2, <2>4 DEF Took
<1>2. QED
  BY <1>1, AllCounts DEF Others, Recent

LEMMA PrecededMemory ==
  ASSUME CounterInv, Cause, driver = "memory", count > Limit, NEW r \in Requests
  PROVE  Cardinality(Others(r)) >= Limit
<1>1. ttl # 0 /\ count \in Nat /\ count <= Cardinality(Lived)
  BY HitNever, ThrottleAssumption DEF CounterInv, Counts, Cause, CauseMemory
<1>2. Lived \subseteq Others(r) \cup {r} /\ Others(r) \subseteq Requests
  BY <1>1, ThrottleAssumption DEF Lived, Others, Recent, CounterInv, ThrottleTypeOK
<1>3. IsFiniteSet(Others(r)) /\ Cardinality(Others(r)) \in Nat
  BY <1>2, SomeRequests, RequestsCount
<1>4. IsFiniteSet(Others(r) \cup {r}) /\ Cardinality(Others(r) \cup {r}) = Cardinality(Others(r)) + 1
  <2>1. r \notin Others(r)
    BY DEF Others
  <2>2. QED
    BY <2>1, <1>3, FS_AddElement
<1>5. Cardinality(Lived) <= Cardinality(Others(r) \cup {r})
  BY <1>2, <1>4, FS_Subset
<1>6. Cardinality(Lived) \in Nat /\ Cardinality(Others(r) \cup {r}) \in Nat
  BY <1>2, <1>4, SomeRequests, RequestsCount, FS_CardinalityType DEF Lived
<1>7. QED
  BY <1>1, <1>3, <1>4, <1>5, <1>6, ThrottleAssumption

LEMMA RefusalStep ==
  ASSUME CounterInv, Cause, [ThrottleNext]_throttleVars, NEW r \in Requests,
         req[r].stage \in {"admitted", "counted"}, req'[r].stage = "refused"
  PROVE  stuck \/ Cardinality(Others(r)) >= Limit
<1>0. ASSUME NEW s \in Requests, NEW froms, NEW tos, Turns(s, froms, tos)
      PROVE  s = r /\ req[r].stage \in froms /\ "refused" \in tos
  BY <1>0 DEF Turns
<1>1. ASSUME NEW s \in Requests, Admit(s) \/ LimitFails(s) PROVE FALSE
  BY <1>1, <1>0, AdmitTurns
<1>2. ASSUME NEW s \in Requests, Refuse(s) PROVE FALSE
  BY <1>2, <1>0, RefuseTurns
<1>3. ASSUME NEW s \in Requests, Handle(s) PROVE FALSE
  BY <1>3, <1>0, HandleTurns
<1>4. ASSUME NEW s \in Requests, HitRedis(s) PROVE stuck \/ Cardinality(Others(r)) >= Limit
  <2>0. Turns(s, {"admitted"}, {IF ttl = 0 THEN "counted" ELSE Sentence(count + 1)})
    BY <1>4, HitRedisTurns
  <2>a. s = r /\ "refused" \in {IF ttl = 0 THEN "counted" ELSE Sentence(count + 1)}
    BY <2>0, <1>0
  <2>1. s = r /\ Sentence(count + 1) = "refused" /\ ttl # 0 /\ driver = "redis"
    BY <2>a, <1>4 DEF HitRedis
  <2>2. count \in Nat /\ count >= Limit
    BY <2>1, HitNever, ThrottleAssumption DEF Sentence
  <2>3. req[r].n = 0
    BY <1>4, <2>1 DEF HitRedis, CounterInv, Untouched, AtStage
  <2>4. QED
    BY <2>1, <2>2, <2>3, PrecededRedis
<1>5. ASSUME NEW s \in Requests, HitRejected(s) PROVE FALSE
  BY <1>5, <1>0, HitRejectedTurns
<1>6. ASSUME NEW s \in Requests, ExpireKey(s) PROVE stuck \/ Cardinality(Others(r)) >= Limit
  <2>1. s = r /\ Sentence(req[s].n) = "refused" /\ driver = "redis" /\ AtStage(s, "counted")
    BY <1>6, <1>0, ExpireKeyTurns DEF ExpireKey
  <2>2. req[r].n \in 1 .. count /\ req[r].n > Limit
    BY <2>1 DEF Sentence, CounterInv, Counts
  <2>3. count >= Limit /\ req[r].n \notin 1 .. Limit
    BY <2>2, HitNever, ThrottleAssumption
  <2>4. QED
    BY <2>1, <2>3, PrecededRedis
<1>7. ASSUME NEW s \in Requests, ExpireRejected(s) \/ Die(s) PROVE FALSE
  BY <1>7, <1>0, LostTurns
<1>8. ASSUME NEW s \in Requests, HitMemory(s) PROVE FALSE
  BY <1>8, <1>0, HitMemoryTurns
<1>9. ASSUME NEW s \in Requests, ReadRecord(s) PROVE Cardinality(Others(r)) >= Limit
  <2>0. Turns(s, {"counted"}, {Sentence(count)})
    BY <1>9, ReadRecordTurns
  <2>1. s = r /\ Sentence(count) = "refused" /\ driver = "memory"
    BY <2>0, <1>9, <1>0 DEF ReadRecord
  <2>2. QED
    BY <2>1, PrecededMemory DEF Sentence
<1>10. CASE ThrottleTick
  BY <1>10 DEF ThrottleTick
<1>11. CASE UNCHANGED throttleVars
  BY <1>11 DEF throttleVars
<1>12. QED
  BY <1>1, <1>2, <1>3, <1>4, <1>5, <1>6, <1>7, <1>8, <1>9, <1>10, <1>11 DEF ThrottleNext

\* The guard of a route answers 429 only to a request that others preceded up to the limit
\* in a window's time, unless PEXPIRE was lost for the counter.
THEOREM RefusalsHaveCause == ThrottleSpec => RefusedForCause
<1>1. CounterInv /\ Cause /\ [ThrottleNext]_throttleVars =>
        [\A r \in Requests :
           req[r].stage \in {"admitted", "counted"} /\ req'[r].stage = "refused" =>
             \/ stuck
             \/ Cardinality({s \in Recent \ {r} : driver = "redis" => req[s].n <= Limit}) >= Limit
        ]_throttleVars
  BY RefusalStep DEF Others
<1>2. QED
  BY <1>1, CounterInitially, CounterStep, CauseInitially, CauseStep, PTL
     DEF ThrottleSpec, RefusedForCause

(***************************************************************************)
(* How many get through in a window's time (Throttle)                      *)
(***************************************************************************)

\* The requests that were counted in less than a window, and not turned away.
Passing ==
  {r \in Requests : req[r].stage \in {"counted", "serving", "served"} /\ age[r] < Window}

\* Requests of the counter before: they are older than what this one has lived.
Older(S) ==
  \A r \in S :
    /\ ~AtStage(r, "counted") /\ age[r] >= 1
    /\ ttl # 0 => age[r] + ttl > Window

Distinct(S) == \A r, s \in S : req[r].n = req[s].n => r = s

\* C are requests of the counter of now; the others belong to one other counter.
TwoCounters(C) ==
  /\ Older(Passing \ C)
  /\ driver = "redis" =>
       /\ Distinct(Passing \cap C) /\ Distinct(Passing \ C)
       /\ \A r \in Passing \cap C : req[r].n <= count
       /\ \A r \in Through : req[r].n \in 1 .. Limit
  /\ driver = "memory" =>
       /\ Cardinality(Passing \cap C) <= count
       /\ Cardinality(Through \cap C) <= Limit /\ Cardinality(Through \ C) <= Limit

Split == \E C \in SUBSET Requests : TwoCounters(C)

LEMMA SplitInitially == ThrottleInit => Split
<1> SUFFICES ASSUME ThrottleInit PROVE Split
  OBVIOUS
<1>1. Passing = {} /\ Through = {}
  BY DEF ThrottleInit, Passing, Through
<1>2. TwoCounters({})
  BY <1>1, FS_EmptySet, ThrottleAssumption DEF TwoCounters, Older, Distinct, ThrottleInit
<1>3. QED
  BY <1>2 DEF Split

\* Smaller sets are not larger.
LEMMA Smaller ==
  ASSUME NEW S \in SUBSET Requests, NEW T \in SUBSET S, NEW n \in Nat, Cardinality(S) <= n
  PROVE  Cardinality(T) <= n
<1>1. IsFiniteSet(S) /\ Cardinality(S) \in Nat
  BY SomeRequests, RequestsCount
<1>2. Cardinality(T) <= Cardinality(S) /\ IsFiniteSet(T)
  BY <1>1, FS_Subset
<1>3. Cardinality(T) \in Nat
  BY <1>2, FS_CardinalityType
<1>4. QED
  BY <1>1, <1>2, <1>3

LEMMA PassingTypes ==
  /\ Through \subseteq Passing /\ Passing \subseteq Requests
  /\ \A r \in Passing : req[r].stage \in {"counted", "serving", "served"} /\ age[r] < Window
  /\ \A r \in Through : req[r].stage \in {"serving", "served"}
  BY DEF Through, Passing

\* When nothing joins, what holds of the two counters is kept.
LEMMA FewerKeepSplit ==
  ASSUME CounterInv, NEW C \in SUBSET Requests, TwoCounters(C),
         UNCHANGED <<driver, count>>, Passing' \subseteq Passing, Through' \subseteq Through,
         Older(Passing \ C) => Older(Passing \ C)',
         \A r \in Passing' : req'[r].n = req[r].n
  PROVE  TwoCounters(C)'
<1>0. count \in Nat /\ Limit \in Nat /\ Through' \subseteq Passing'
  BY HitNever, ThrottleAssumption DEF Through, Passing
<1>1. driver = "redis" =>
        /\ Distinct(Passing \cap C)' /\ Distinct(Passing \ C)'
        /\ \A r \in Passing' \cap C : req'[r].n <= count
        /\ \A r \in Through' : req'[r].n \in 1 .. Limit
  BY <1>0 DEF TwoCounters, Distinct
<1>2. driver = "memory" =>
        /\ Cardinality(Passing' \cap C) <= count
        /\ Cardinality(Through' \cap C) <= Limit /\ Cardinality(Through' \ C) <= Limit
  <2> SUFFICES ASSUME driver = "memory"
               PROVE  /\ Cardinality(Passing' \cap C) <= count
                      /\ Cardinality(Through' \cap C) <= Limit
                      /\ Cardinality(Through' \ C) <= Limit
    OBVIOUS
  <2>1. Passing' \cap C \subseteq Passing \cap C /\ Passing \cap C \subseteq Requests
    OBVIOUS
  <2>2. Through' \cap C \subseteq Through \cap C /\ Through \cap C \subseteq Requests
    OBVIOUS
  <2>3. Through' \ C \subseteq Through \ C /\ Through \ C \subseteq Requests
    BY PassingTypes
  <2>4. Cardinality(Passing' \cap C) <= count
    BY <2>1, <1>0, Smaller DEF TwoCounters
  <2>5. Cardinality(Through' \cap C) <= Limit
    BY <2>2, <1>0, Smaller DEF TwoCounters
  <2>6. Cardinality(Through' \ C) <= Limit
    BY <2>3, <1>0, Smaller DEF TwoCounters
  <2>7. QED
    BY <2>4, <2>5, <2>6
<1>3. QED
  BY <1>1, <1>2 DEF TwoCounters

LEMMA PassKeepsSplit ==
  ASSUME CounterInv, NEW C \in SUBSET Requests, TwoCounters(C),
         NEW r \in Requests, NEW from, NEW tos, Turns(r, {from}, tos),
         UNCHANGED <<driver, count, ttl, age>>, "counted" \notin tos, "serving" \notin tos,
         "served" \in tos => from = "serving", req'[r].n = req[r].n
  PROVE  TwoCounters(C)'
<1>1. Passing' \subseteq Passing /\ Through' \subseteq Through
  BY DEF Turns, Passing, Through
<1>2. Older(Passing \ C) => Older(Passing \ C)'
  BY <1>1 DEF Older, Turns, AtStage, Passing
<1>3. \A s \in Passing' : req'[s].n = req[s].n
  BY DEF Turns, Passing
<1>4. QED
  BY <1>1, <1>2, <1>3, FewerKeepSplit

LEMMA HitRedisKeepsSplit ==
  ASSUME CounterInv, NEW C \in SUBSET Requests, TwoCounters(C), NEW r \in Requests, HitRedis(r)
  PROVE  TwoCounters(C \cup {r})'
<1>1. PICK to : Turns(r, {"admitted"}, {to}) /\ (to = "serving" => count + 1 <= Limit) /\ to # "served"
  <2>1. Turns(r, {"admitted"}, {IF ttl = 0 THEN "counted" ELSE Sentence(count + 1)})
    BY HitRedisTurns
  <2>2. Sentence(count + 1) # "served" /\ (Sentence(count + 1) = "serving" => count + 1 <= Limit)
    BY HitNever, ThrottleAssumption DEF Sentence
  <2>3. CASE ttl = 0
    BY <2>1, <2>3
  <2>4. CASE ttl # 0
    BY <2>1, <2>2, <2>4
  <2>5. QED
    BY <2>3, <2>4
<1>2. UNCHANGED <<driver, ttl>> /\ count' = count + 1 /\ driver = "redis" /\ count \in Nat
  BY HitNever DEF HitRedis
<1>3. age' = [age EXCEPT ![r] = 0] /\ req'[r].n = count + 1
  BY HitRedisTurns DEF HitRedis
<1>4. \A s \in Requests \ {r} : req'[s] = req[s] /\ age'[s] = age[s]
  BY <1>1, <1>3 DEF Turns, CounterInv, ThrottleTypeOK
<1>5. \A s \in Requests \ {r} : (s \in Passing' <=> s \in Passing) /\ (s \in Through' <=> s \in Through)
  BY <1>4 DEF Passing, Through
<1>6. \A s \in Passing' \cap (C \cup {r}) : s = r \/ (s # r /\ s \in Passing \cap C)
  BY <1>5 DEF Passing
<1>7. \A s \in Passing' \ (C \cup {r}) : s # r /\ s \in Passing \ C
  BY <1>5 DEF Passing
<1>8. \A s \in Passing \cap C : req[s].n <= count
  BY <1>2 DEF TwoCounters
<1>9. \A s \in Passing' : req'[s].n \in Nat
  BY <1>1, RequestsCount DEF Turns, Request, Passing
<1>10. Distinct(Passing \cap (C \cup {r}))'
  <2> SUFFICES ASSUME NEW s \in Passing' \cap (C \cup {r}), NEW u \in Passing' \cap (C \cup {r}),
                      req'[s].n = req'[u].n
               PROVE  s = u
    BY DEF Distinct
  <2>1. CASE s = r /\ u # r
    BY <2>1, <1>2, <1>3, <1>4, <1>6, <1>8, <1>9 DEF Passing
  <2>2. CASE u = r /\ s # r
    BY <2>2, <1>2, <1>3, <1>4, <1>6, <1>8, <1>9 DEF Passing
  <2>3. CASE s # r /\ u # r
    BY <2>3, <1>2, <1>4, <1>6 DEF TwoCounters, Distinct, Passing
  <2>4. QED
    BY <2>1, <2>2, <2>3
<1>11. Distinct(Passing \ (C \cup {r}))'
  BY <1>2, <1>4, <1>7 DEF TwoCounters, Distinct, Passing
<1>12. \A s \in Passing' \cap (C \cup {r}) : req'[s].n <= count'
  <2> TAKE s \in Passing' \cap (C \cup {r})
  <2>1. CASE s = r
    BY <2>1, <1>2, <1>3
  <2>2. CASE s # r
    BY <2>2, <1>2, <1>4, <1>6, <1>8, <1>9 DEF Passing
  <2>3. QED
    BY <2>1, <2>2
<1>13. \A s \in Through' : req'[s].n \in 1 .. Limit
  <2> TAKE s \in Through'
  <2>1. CASE s = r
    BY <2>1, <1>1, <1>2, <1>3, ThrottleAssumption DEF Through, Turns
  <2>2. CASE s # r
    BY <2>2, <1>2, <1>4, <1>5 DEF TwoCounters, Through
  <2>3. QED
    BY <2>1, <2>2
<1>14. Older(Passing \ (C \cup {r}))'
  BY <1>2, <1>4, <1>7 DEF TwoCounters, Older, AtStage, Passing
<1>15. QED
  BY <1>2, <1>10, <1>11, <1>12, <1>13, <1>14 DEF TwoCounters

LEMMA ExpireKeyKeepsSplit ==
  ASSUME CounterInv, NEW C \in SUBSET Requests, TwoCounters(C), NEW r \in Requests, ExpireKey(r)
  PROVE  TwoCounters(C)'
<1>1. PICK to : Turns(r, {"counted"}, {to}) /\ (to = "serving" => req[r].n <= Limit)
                /\ to \in {"serving", "refused"} /\ req'[r].n = req[r].n
  <2>1. Turns(r, {"counted"}, {Sentence(req[r].n)}) /\ req'[r].n = req[r].n
    BY ExpireKeyTurns
  <2>2. req[r].n \in Nat
    BY RequestsCount DEF CounterInv, ThrottleTypeOK, Request
  <2>3. Sentence(req[r].n) \in {"serving", "refused"} /\ (Sentence(req[r].n) = "serving" => req[r].n <= Limit)
    BY <2>2, ThrottleAssumption DEF Sentence
  <2>4. QED
    BY <2>1, <2>3
<1>2. UNCHANGED <<driver, count, age>> /\ ttl' = Window /\ driver = "redis"
  BY DEF ExpireKey
<1>3. Passing' \subseteq Passing /\ \A s \in Passing' : req'[s].n = req[s].n
  BY <1>1, <1>2 DEF Turns, Passing
<1>4. req[r].n \in 1 .. count
  BY <1>1, <1>2 DEF CounterInv, Counts, AtStage, Turns
<1>5. \A s \in Through' : req'[s].n \in 1 .. Limit
  <2> TAKE s \in Through'
  <2>1. CASE s = r
    BY <2>1, <1>1, <1>4, HitNever, ThrottleAssumption DEF Through, Turns
  <2>2. CASE s # r
    BY <2>2, <1>1, <1>2 DEF TwoCounters, Through, Turns
  <2>3. QED
    BY <2>1, <2>2
<1>6. \A s \in Passing \ C : age[s] \in Nat /\ age[s] >= 1 /\ ~AtStage(s, "counted")
  BY ThrottleAssumption DEF TwoCounters, Older, CounterInv, ThrottleTypeOK, Passing
<1>7. \A s \in Passing' : AtStage(s, "counted")' => AtStage(s, "counted")
  BY <1>1 DEF Turns, AtStage, Passing
<1>8. Older(Passing \ C)'
  BY <1>2, <1>3, <1>6, <1>7, ThrottleAssumption DEF Older
<1>9. Distinct(Passing \cap C)' /\ Distinct(Passing \ C)'
  BY <1>2, <1>3 DEF TwoCounters, Distinct
<1>10. \A s \in Passing' \cap C : req'[s].n <= count'
  BY <1>2, <1>3 DEF TwoCounters
<1>11. QED
  BY <1>2, <1>5, <1>8, <1>9, <1>10 DEF TwoCounters

LEMMA HitMemoryKeepsSplit ==
  ASSUME CounterInv, NEW C \in SUBSET Requests, TwoCounters(C), NEW r \in Requests, HitMemory(r)
  PROVE  TwoCounters(C \cup {r})'
<1>1. Turns(r, {"admitted"}, {"counted"})
  BY HitMemoryTurns
<1>2. driver' = driver /\ count' = count + 1 /\ driver = "memory" /\ count \in Nat
  BY HitNever DEF HitMemory
<1>3. age' = [age EXCEPT ![r] = 0] /\ ttl' = (IF count = 0 THEN Window + 1 ELSE ttl)
  BY DEF HitMemory
<1>4. \A s \in Requests \ {r} : req'[s] = req[s] /\ age'[s] = age[s]
  BY <1>1, <1>3 DEF Turns, CounterInv, ThrottleTypeOK
<1>5. r \notin Passing /\ r \notin Through /\ r \notin Through'
  BY <1>1 DEF Passing, Through, Turns
<1>6. Through' = Through
  BY <1>4, <1>5 DEF Through
<1>7. Passing' \subseteq Passing \cup {r}
  BY <1>4 DEF Passing
<1>8. Older(Passing \ (C \cup {r}))'
  <2>1. \A s \in Passing \ C : age[s] \in Nat /\ age[s] >= 1 /\ ~AtStage(s, "counted")
                               /\ (ttl # 0 => age[s] + ttl > Window)
    BY ThrottleAssumption DEF TwoCounters, Older, CounterInv, ThrottleTypeOK, Passing
  <2>2. SUFFICES ASSUME NEW s \in Passing' \ (C \cup {r})
                 PROVE  /\ ~AtStage(s, "counted")' /\ age'[s] >= 1
                        /\ ttl' # 0 => age'[s] + ttl' > Window
    BY DEF Older
  <2>3. s \in Passing \ C /\ req'[s] = req[s] /\ age'[s] = age[s]
    BY <1>4, <1>7 DEF Passing
  <2>4. QED
    BY <2>1, <2>3, <1>3, ThrottleAssumption DEF AtStage
<1>9. Cardinality(Passing' \cap (C \cup {r})) <= count + 1
  <2>1. Passing' \cap (C \cup {r}) \subseteq (Passing \cap C) \cup {r}
    BY <1>7
  <2>2. IsFiniteSet(Passing \cap C) /\ Cardinality(Passing \cap C) \in Nat
    BY SomeRequests, RequestsCount
  <2>3. Cardinality((Passing \cap C) \cup {r}) = Cardinality(Passing \cap C) + 1
    BY <2>2, <1>5, FS_AddElement
  <2>4. Cardinality(Passing \cap C) <= count
    BY <1>2 DEF TwoCounters
  <2>5. Cardinality((Passing \cap C) \cup {r}) <= count + 1
    BY <2>2, <2>3, <2>4, <1>2
  <2>6. QED
    BY <2>1, <2>5, <1>2, Smaller
<1>10. Through' \cap (C \cup {r}) = Through \cap C /\ Through' \ (C \cup {r}) = Through \ C
  BY <1>5, <1>6
<1>11. QED
  BY <1>2, <1>8, <1>9, <1>10 DEF TwoCounters

LEMMA ReadRecordKeepsSplit ==
  ASSUME CounterInv, NEW C \in SUBSET Requests, TwoCounters(C), NEW r \in Requests, ReadRecord(r)
  PROVE  TwoCounters(C)'
<1>1. PICK to : Turns(r, {"counted"}, {to}) /\ (to = "serving" => count <= Limit) /\ to \in {"serving", "refused"}
  <2>1. Turns(r, {"counted"}, {Sentence(count)})
    BY ReadRecordTurns
  <2>2. Sentence(count) \in {"serving", "refused"} /\ (Sentence(count) = "serving" => count <= Limit)
    BY HitNever, ThrottleAssumption DEF Sentence
  <2>3. QED
    BY <2>1, <2>2
<1>2. UNCHANGED <<driver, count, age, ttl>> /\ driver = "memory" /\ count \in Nat /\ Limit \in Nat
  BY HitNever, ThrottleAssumption DEF ReadRecord
<1>3. Passing' \subseteq Passing /\ Through' \subseteq Passing'
  BY <1>1, <1>2 DEF Turns, Passing, Through
<1>4. \A s \in Requests \ {r} : req'[s] = req[s]
  BY <1>1 DEF Turns
<1>5. Through' \subseteq Through \cup {r}
  BY <1>2, <1>4 DEF Through
<1>6. r \in Passing => r \in C
  BY <1>1 DEF TwoCounters, Older, AtStage, Turns
<1>7. Older(Passing \ C)'
  BY <1>1, <1>2, <1>3, <1>4 DEF TwoCounters, Older, AtStage, Passing, Turns
<1>8. Cardinality(Passing' \cap C) <= count
  <2>1. Passing' \cap C \subseteq Passing \cap C
    BY <1>3
  <2>2. QED
    BY <2>1, <1>2, Smaller DEF TwoCounters
<1>9. Cardinality(Through' \ C) <= Limit
  <2>1. Through' \ C \subseteq Through \ C /\ Through \ C \subseteq Requests
    BY <1>3, <1>5, <1>6, PassingTypes
  <2>2. QED
    BY <2>1, <1>2, Smaller DEF TwoCounters
<1>10. Cardinality(Through' \cap C) <= Limit
  <2>1. CASE r \in Through'
    <3>1. count <= Limit /\ Through' \cap C \subseteq Passing \cap C
      BY <2>1, <1>1, <1>3 DEF Through, Turns
    <3>2. Cardinality(Through' \cap C) <= count
      BY <3>1, <1>2, Smaller DEF TwoCounters
    <3>3. Cardinality(Through' \cap C) \in Nat
      BY <1>3, SomeRequests, RequestsCount
    <3>4. QED
      BY <3>1, <3>2, <3>3, <1>2
  <2>2. CASE r \notin Through'
    <3>1. Through' \cap C \subseteq Through \cap C
      BY <2>2, <1>5
    <3>2. QED
      BY <3>1, <1>2, Smaller DEF TwoCounters
  <2>3. QED
    BY <2>1, <2>2
<1>11. QED
  BY <1>2, <1>7, <1>8, <1>9, <1>10 DEF TwoCounters

LEMMA TickKeepsSplit ==
  ASSUME CounterInv, NEW C \in SUBSET Requests, TwoCounters(C), ThrottleTick
  PROVE  Split'
<1>1. UNCHANGED <<driver, req>> /\ \A s \in Requests : ~AtStage(s, "counted") /\ ~AtStage(s, "counted")'
  BY DEF ThrottleTick, AtStage
<1>2. /\ age' = [r \in Requests |-> IF age[r] > Window THEN age[r] ELSE age[r] + 1]
      /\ ttl' = IF ttl = 0 THEN 0 ELSE ttl - 1
      /\ count' = IF ttl = 1 THEN 0 ELSE count
  BY DEF ThrottleTick
<1>3. age \in [Requests -> Nat] /\ ttl \in Nat /\ Limit \in Nat /\ Window \in Nat
  BY ThrottleAssumption DEF CounterInv, ThrottleTypeOK
<1>4. \A s \in Passing' : s \in Passing /\ age'[s] = age[s] + 1
  BY <1>1, <1>2, <1>3 DEF Passing
<1>5. \A s \in Through' : s \in Through
  BY <1>1, <1>2, <1>3 DEF Through
<1>6. CASE ttl = 1
  <2>1. Passing' \subseteq Passing \cap C
    <3> SUFFICES ASSUME NEW s \in Passing', s \notin C PROVE FALSE
      BY <1>4
    <3>1. s \in Passing \ C /\ age'[s] = age[s] + 1 /\ age'[s] < Window
      BY <1>4 DEF Passing
    <3>2. age[s] + 1 > Window
      BY <3>1, <1>6 DEF TwoCounters, Older
    <3>3. age[s] \in Nat
      BY <3>1, <1>3 DEF Passing
    <3>4. QED
      BY <3>1, <3>2, <3>3, <1>3
  <2>2. Through' \subseteq Through \cap C /\ Through \cap C \subseteq Requests
    BY <1>5, <2>1 DEF Through, Passing
  <2>3. Older(Passing \ {})'
    BY <1>1, <1>2, <1>3, <1>4, <1>6 DEF Older, Passing
  <2>4. driver' = "redis" => Distinct(Passing \ {})' /\ \A s \in Through' : req'[s].n \in 1 .. Limit
    BY <1>1, <2>1, <2>2 DEF TwoCounters, Distinct
  <2>5. driver' = "memory" => Cardinality(Through' \ {}) <= Limit
    BY <1>1, <1>3, <2>2, Smaller DEF TwoCounters
  <2>6. TwoCounters({})'
    BY <2>3, <2>4, <2>5, <1>2, <1>3, <1>6, FS_EmptySet DEF TwoCounters, Distinct
  <2>7. QED
    BY <2>6 DEF Split
<1>7. CASE ttl # 1
  <2>1. count' = count
    BY <1>2, <1>7
  <2>2. Older(Passing \ C) => Older(Passing \ C)'
    BY <1>1, <1>2, <1>3, <1>4, <1>7 DEF Older, Passing
  <2>3. TwoCounters(C)'
    BY <1>1, <1>4, <1>5, <2>1, <2>2, FewerKeepSplit
  <2>4. QED
    BY <2>3 DEF Split
<1>8. QED
  BY <1>6, <1>7

LEMMA SplitStep ==
  CounterInv /\ Split /\ [ThrottleNext]_throttleVars => Split'
<1> SUFFICES ASSUME CounterInv, Split, [ThrottleNext]_throttleVars PROVE Split'
  OBVIOUS
<1> PICK C \in SUBSET Requests : TwoCounters(C)
  BY DEF Split
<1>a. ASSUME NEW D \in SUBSET Requests, TwoCounters(D)' PROVE Split'
  BY <1>a DEF Split
<1>b. \A r \in Requests : AtStage(r, "new") => req[r].n = 0
  BY DEF CounterInv, Untouched, AtStage
<1>1. ASSUME NEW r \in Requests, Admit(r) \/ LimitFails(r) PROVE Split'
  <2>1. Turns(r, {"new"}, {"admitted"}) /\ req'[r].n = req[r].n /\ Entitled(req'[r])
    BY <1>1, <1>b, AdmitTurns DEF Admit, LimitFails, AtStage
  <2>2. UNCHANGED <<driver, count, ttl, age, stuck>>
    BY <1>1 DEF Admit, LimitFails
  <2>3. QED
    BY <2>1, <2>2, <1>a, PassKeepsSplit
<1>2. ASSUME NEW r \in Requests, Refuse(r) PROVE Split'
  BY <1>2, <1>a, RefuseTurns, PassKeepsSplit DEF Refuse
<1>3. ASSUME NEW r \in Requests, Handle(r) PROVE Split'
  BY <1>3, <1>a, HandleTurns, PassKeepsSplit DEF Handle
<1>4. ASSUME NEW r \in Requests, HitRedis(r) PROVE Split'
  <2>1. TwoCounters(C \cup {r})'
    BY <1>4, HitRedisKeepsSplit
  <2>2. C \cup {r} \in SUBSET Requests
    OBVIOUS
  <2>3. QED
    BY <2>1, <2>2 DEF Split
<1>5. ASSUME NEW r \in Requests, HitRejected(r) PROVE Split'
  BY <1>5, <1>a, HitRejectedTurns, PassKeepsSplit DEF HitRejected
<1>6. ASSUME NEW r \in Requests, ExpireKey(r) PROVE Split'
  BY <1>6, <1>a, ExpireKeyKeepsSplit
<1>7. ASSUME NEW r \in Requests, ExpireRejected(r) \/ Die(r) PROVE Split'
  BY <1>7, <1>a, LostTurns, PassKeepsSplit DEF ExpireRejected, Die
<1>8. ASSUME NEW r \in Requests, HitMemory(r) PROVE Split'
  <2>1. TwoCounters(C \cup {r})'
    BY <1>8, HitMemoryKeepsSplit
  <2>2. C \cup {r} \in SUBSET Requests
    OBVIOUS
  <2>3. QED
    BY <2>1, <2>2 DEF Split
<1>9. ASSUME NEW r \in Requests, ReadRecord(r) PROVE Split'
  BY <1>9, <1>a, ReadRecordKeepsSplit
<1>10. CASE ThrottleTick
  BY <1>10, TickKeepsSplit
<1>11. CASE UNCHANGED throttleVars
  <2>1. TwoCounters(C)'
    BY <1>11 DEF throttleVars, TwoCounters, Older, Distinct, Passing, Through, AtStage
  <2>2. QED
    BY <2>1, <1>a
<1>12. QED
  BY <1>1, <1>2, <1>3, <1>4, <1>5, <1>6, <1>7, <1>8, <1>9, <1>10, <1>11 DEF ThrottleNext

\* Requests told of different counts within the limit are no more than the limit.
LEMMA DistinctBounded ==
  ASSUME NEW S \in SUBSET Requests, Distinct(S), \A r \in S : req[r].n \in 1 .. Limit
  PROVE  Cardinality(S) <= Limit
<1> DEFINE told == [r \in S |-> req[r].n]
<1>1. told \in Injection(S, 1 .. Limit)
  BY DEF Injection, IsInjective, Distinct
<1>2. IsFiniteSet(1 .. Limit) /\ Cardinality(1 .. Limit) = Limit
  BY ThrottleAssumption, FS_Interval
<1>3. QED
  BY <1>1, <1>2, FS_Injection

LEMMA TwoLimits ==
  ASSUME CounterInv, NEW C \in SUBSET Requests, TwoCounters(C)
  PROVE  AtMostTwice
<1>1. Cardinality(Through \cap C) <= Limit /\ Cardinality(Through \ C) <= Limit
  <2>1. CASE driver = "redis"
    <3>1. Distinct(Through \cap C) /\ Distinct(Through \ C)
      BY <2>1, PassingTypes DEF TwoCounters, Distinct
    <3>2. \A r \in Through : req[r].n \in 1 .. Limit
      BY <2>1 DEF TwoCounters
    <3>3. Through \cap C \subseteq Requests /\ Through \ C \subseteq Requests
      BY PassingTypes
    <3>4. QED
      BY <3>1, <3>2, <3>3, DistinctBounded
  <2>2. CASE driver = "memory"
    BY <2>2 DEF TwoCounters
  <2>3. QED
    BY <2>1, <2>2 DEF CounterInv, ThrottleTypeOK
<1>2. Through \cap C \subseteq Requests /\ Through \ C \subseteq Requests
  BY PassingTypes
<1>3. /\ IsFiniteSet(Through \cap C) /\ Cardinality(Through \cap C) \in Nat
      /\ IsFiniteSet(Through \ C) /\ Cardinality(Through \ C) \in Nat
  BY <1>2, SomeRequests, RequestsCount
<1>4. (Through \cap C) \cup (Through \ C) = Through /\ (Through \cap C) \cap (Through \ C) = {}
  OBVIOUS
<1>5. Cardinality(Through) = Cardinality(Through \cap C) + Cardinality(Through \ C) - Cardinality({})
  BY <1>3, <1>4, FS_Union
<1>6. QED
  BY <1>1, <1>3, <1>5, FS_EmptySet, ThrottleAssumption DEF AtMostTwice

\* In a window's time the guard lets no more than twice its limit through, with any number
\* of requests, replicas and failures, in Redis and in memory.
THEOREM TwiceTheLimit == ThrottleSpec => []AtMostTwice
<1>1. CounterInv /\ Split => AtMostTwice
  BY TwoLimits DEF Split
<1>2. QED
  BY <1>1, CounterInitially, CounterStep, SplitInitially, SplitStep, PTL DEF ThrottleSpec
=============================================================================

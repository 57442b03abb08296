--------------------------- MODULE Sessions_proofs ---------------------------
(* Theorems about module Sessions, for every value of its constants. *)
EXTENDS Sessions, FiniteSetTheorems, TLAPS

(***************************************************************************)
(* The states of a request, and the pairs and sessions drawn               *)
(***************************************************************************)

LEMMA IdleType == Idle \in Request
  BY DEF Idle, Request, Points

LEMMA NewTokenType ==
  Stored # Tokens => NewToken \in Tokens /\ NewToken \notin Stored
  BY DEF NewToken, Stored

LEMMA NewSessionType ==
  ASSUME TypeOK, Drawn # SessionIds
  PROVE  NewSession \in SessionIds /\ NewSession \notin Drawn
<1>1. Drawn \subseteq SessionIds
  BY DEF Drawn, Stored, TypeOK, Pair, Request, Unsigned
<1>2. QED
  BY <1>1 DEF NewSession

\* The pair a request rotates, or was given to present, belongs to a session.
LEMMA SidType ==
  ASSUME TypeOK, NEW t \in Stored
  PROVE  Sid(t) \in SessionIds
  BY DEF TypeOK, Stored, Sid, Pair, Unsigned

(***************************************************************************)
(* The inductive invariant                                                 *)
(***************************************************************************)

\* A session whose identifier has been given to a client, or may be.
Known(s) == \E t \in Stored : Sid(t) = s

\* A request refers only to pairs that were stored, and to their sessions.
Refers(q) ==
  /\ q.tok # None => q.tok \in Stored
  /\ q.out # None => q.out \in Stored
  /\ \A s \in q.ids \cup q.must : Known(s)

\* So do the clients, the rows, the marks and the pairs themselves.
References ==
  /\ held \subseteq Stored
  /\ \A r \in Requests : Refers(req[r])
  /\ \A s \in Open : rows[s].refresh \in Stored /\ Known(s)
  /\ \A s \in SessionIds : marks[s] # 0 => Known(s)
  /\ \A u \in Stored : pairs[u].from # None =>
       pairs[u].from \in Stored /\ Sid(pairs[u].from) = Sid(u)

\* What a request has at hand at each point.
Drafted(q) ==
  /\ q.pc = "insert" => /\ q.draft # Unsigned /\ q.tok = None
                        /\ q.draft.from = None
                        /\ ~Known(q.draft.sid)
  /\ q.pc = "rotate" => /\ q.draft # Unsigned /\ q.tok # None
                        /\ q.draft.from = q.tok
                        /\ q.draft.sid = Sid(q.tok)
  /\ q.draft # Unsigned => q.pc \in {"insert", "rotate"}
  /\ q.pc \in {"respond", "evict"} \/ q.after = "respond" => q.out # None
  /\ q.pc = "revokeSelf" \/ q.after = "revokeSelf" => q.tok # None

\* The session a login draws is drawn by no other request.
Drafts ==
  /\ \A r \in Requests : Drafted(req[r])
  /\ \A p, r \in Requests :
       At(p, "insert") /\ req[r].draft # Unsigned /\ p # r
         => req[p].draft.sid # req[r].draft.sid

\* The current refresh token of a session is the one not exchanged.
Exchanges ==
  /\ \A u \in Stored : pairs[u].from # None => rows[Sid(u)].refresh # pairs[u].from
  /\ \A t, u \in Stored : pairs[t].from = pairs[u].from /\ pairs[t].from # None => t = u

\* No time stamp lies ahead of the clock.
Times ==
  /\ \A t \in Stored : pairs[t].pat <= now
  /\ \A r \in Requests : req[r].draft # Unsigned => req[r].draft.pat <= now
  /\ \A s \in SessionIds : ended.at[s] <= now

\* Nothing is signed for a session after its end.
EndsBound == \A t \in Stored : rows[Sid(t)] = NoRow => pairs[t].pat <= ended.at[Sid(t)]

\* The rows go before the marks are written, and a mark outlives the tokens
\* signed while there was a row.
EndsRows(q) ==
  /\ q.pc = "revoke" => \A s \in q.ids : rows[s] = NoRow
  /\ q.pc = "revokeSelf" => rows[Sid(q.tok)] = NoRow
  /\ q.after = "revokeSelf" =>
       /\ q.pc \in {"delete", "revoke"}
       /\ Sid(q.tok) \in q.ids \/ rows[Sid(q.tok)] = NoRow

Marks ==
  /\ \A r \in Requests : EndsRows(req[r])
  /\ \A s \in SessionIds : marks[s] # 0 =>
       rows[s] = NoRow /\ marks[s] >= ended.at[s] + MarkTtl

\* A deleted user has no session and gets no token.
Deletion ==
  /\ ~alive => Open = {}
  /\ \A r \in Requests : At(r, "markUser") => ~alive
  /\ userMark.until # 0 =>
       /\ ~alive
       /\ userMark.until = userMark.at + MarkTtl
       /\ \A t \in Stored : pairs[t].pat <= userMark.at

\* A change of password takes the sessions it found open with it.
Resets(q) ==
  /\ q.must # {} => q.pc \in {"findAll", "delete", "revoke"}
  /\ q.pc = "findAll" /\ q.tok # None => Sid(q.tok) \notin q.must
  /\ q.pc = "delete" => \A s \in q.must : s \in q.ids \/ rows[s] = NoRow
  /\ q.pc = "revoke" => \A s \in q.must : rows[s] = NoRow

Passwords == \A r \in Requests : Resets(req[r])

\* What the sessions will be once the logins of Q have deleted those they found.
Left(Q) == {s \in Open : \A q \in Q : s \notin req[q].ids}

\* Each login that has yet to delete what it found accounts for one session.
Limits ==
  /\ IsFiniteSet(Open) /\ IsFiniteSet(Evicting)
  /\ ~ended.cut =>
       \A Q \in SUBSET Evicting :
         (\A q \in Q : At(q, "delete")) =>
           Cardinality(Left(Q)) <= MaxActive + Cardinality(Evicting \ Q)

(***************************************************************************)
(* What a step makes of its request                                        *)
(***************************************************************************)

\* The state of request r after a step, field by field; no other changes.
Becomes(r, pc, tok, draft, out, ids, after, must) ==
  /\ req' \in [Requests -> Request]
  /\ \A p \in Requests \ {r} : req'[p] = req[p]
  /\ req'[r].pc = pc /\ req'[r].tok = tok /\ req'[r].draft = draft
  /\ req'[r].out = out /\ req'[r].ids = ids /\ req'[r].after = after
  /\ req'[r].must = must

LEMMA GotoBecomes ==
  ASSUME TypeOK, NEW r \in Requests, NEW q \in Request, Goto(r, q)
  PROVE  Becomes(r, q.pc, q.tok, q.draft, q.out, q.ids, q.after, q.must)
  BY DEF TypeOK, Goto, Becomes

LEMMA IdleFields ==
  /\ Idle \in Request
  /\ Idle.pc = "idle" /\ Idle.tok = None /\ Idle.draft = Unsigned
  /\ Idle.out = None /\ Idle.ids = {} /\ Idle.after = "idle" /\ Idle.must = {}
  BY DEF Idle, Request, Points


\* The ways a step of the code rewrites the state of a request.
LEMMA SetPc ==
  ASSUME TypeOK, NEW r \in Requests, NEW x \in Request,
         NEW p \in Points,
         Goto(r, [x EXCEPT !.pc = p])
  PROVE  Becomes(r, p, x.tok, x.draft, x.out, x.ids, x.after, x.must)
  BY DEF TypeOK, Goto, Becomes, Request

LEMMA SetTok ==
  ASSUME TypeOK, NEW r \in Requests, NEW x \in Request,
         NEW p \in Points, NEW t \in Tokens \cup {None},
         Goto(r, [x EXCEPT !.pc = p, !.tok = t])
  PROVE  Becomes(r, p, t, x.draft, x.out, x.ids, x.after, x.must)
  BY DEF TypeOK, Goto, Becomes, Request

LEMMA SetOut ==
  ASSUME TypeOK, NEW r \in Requests, NEW x \in Request,
         NEW p \in Points, NEW t \in Tokens \cup {None},
         Goto(r, [x EXCEPT !.pc = p, !.out = t])
  PROVE  Becomes(r, p, x.tok, x.draft, t, x.ids, x.after, x.must)
  BY DEF TypeOK, Goto, Becomes, Request

LEMMA SetIds ==
  ASSUME TypeOK, NEW r \in Requests, NEW x \in Request,
         NEW p \in Points, NEW i \in SUBSET SessionIds,
         Goto(r, [x EXCEPT !.pc = p, !.ids = i])
  PROVE  Becomes(r, p, x.tok, x.draft, x.out, i, x.after, x.must)
  BY DEF TypeOK, Goto, Becomes, Request

LEMMA SetIdsAfter ==
  ASSUME TypeOK, NEW r \in Requests, NEW x \in Request,
         NEW p \in Points, NEW i \in SUBSET SessionIds, NEW a \in {"idle", "respond", "revokeSelf"},
         Goto(r, [x EXCEPT !.pc = p, !.ids = i, !.after = a])
  PROVE  Becomes(r, p, x.tok, x.draft, x.out, i, a, x.must)
  BY DEF TypeOK, Goto, Becomes, Request

LEMMA SetIdsTokAfter ==
  ASSUME TypeOK, NEW r \in Requests, NEW x \in Request,
         NEW p \in Points, NEW i \in SUBSET SessionIds, NEW t \in Tokens \cup {None}, NEW a \in {"idle", "respond", "revokeSelf"},
         Goto(r, [x EXCEPT !.pc = p, !.ids = i, !.tok = t, !.after = a])
  PROVE  Becomes(r, p, t, x.draft, x.out, i, a, x.must)
  BY DEF TypeOK, Goto, Becomes, Request

LEMMA SetTokMust ==
  ASSUME TypeOK, NEW r \in Requests, NEW x \in Request,
         NEW p \in Points, NEW t \in Tokens \cup {None}, NEW m \in SUBSET SessionIds,
         Goto(r, [x EXCEPT !.pc = p, !.tok = t, !.must = m])
  PROVE  Becomes(r, p, t, x.draft, x.out, x.ids, x.after, m)
  BY DEF TypeOK, Goto, Becomes, Request

LEMMA SetIdsMust ==
  ASSUME TypeOK, NEW r \in Requests, NEW x \in Request,
         NEW p \in Points, NEW i \in SUBSET SessionIds, NEW m \in SUBSET SessionIds,
         Goto(r, [x EXCEPT !.pc = p, !.ids = i, !.must = m])
  PROVE  Becomes(r, p, x.tok, x.draft, x.out, i, x.after, m)
  BY DEF TypeOK, Goto, Becomes, Request

LEMMA SetIdsAfterMust ==
  ASSUME TypeOK, NEW r \in Requests, NEW x \in Request,
         NEW p \in Points, NEW i \in SUBSET SessionIds, NEW a \in {"idle", "respond", "revokeSelf"}, NEW m \in SUBSET SessionIds,
         Goto(r, [x EXCEPT !.pc = p, !.ids = i, !.after = a, !.must = m])
  PROVE  Becomes(r, p, x.tok, x.draft, x.out, i, a, m)
  BY DEF TypeOK, Goto, Becomes, Request

LEMMA SetPair ==
  ASSUME TypeOK, NEW r \in Requests, NEW p \in Points, NEW d \in Pair,
         req' = [req EXCEPT ![r].pc = p, ![r].draft = d]
  PROVE  Becomes(r, p, req[r].tok, d, req[r].out, req[r].ids, req[r].after,
                 req[r].must)
  BY ZenonT(30) DEF TypeOK, Becomes, Request

LEMMA SetPoint ==
  ASSUME TypeOK, NEW r \in Requests, NEW p \in Points,
         req' = [req EXCEPT ![r].pc = p]
  PROVE  Becomes(r, p, req[r].tok, req[r].draft, req[r].out, req[r].ids,
                 req[r].after, req[r].must)
  BY DEF TypeOK, Becomes, Request

(***************************************************************************)
(* What each step makes of its request                                     *)
(***************************************************************************)

ToIdle(r) == Becomes(r, "idle", None, Unsigned, None, {}, "idle", {})

\* On the way to the DELETE of the sessions S.
ToDelete(r, S) == Becomes(r, "delete", None, Unsigned, None, S, "idle", {})

LEMMA GotoIdle ==
  ASSUME TypeOK, NEW r \in Requests, Goto(r, Idle)
  PROVE  ToIdle(r)
  BY GotoBecomes, IdleFields DEF ToIdle

LEMMA GotoDelete ==
  ASSUME TypeOK, NEW r \in Requests, NEW S \in SUBSET SessionIds,
         Goto(r, [Idle EXCEPT !.pc = "delete", !.ids = S])
  PROVE  ToDelete(r, S)
  BY SetIds, IdleFields DEF ToDelete, Points

LEMMA LogInReq ==
  ASSUME TypeOK, NEW r \in Requests, LogIn(r)
  PROVE  Becomes(r, "issue", None, Unsigned, None, {}, "idle", {})
  BY SetPc, IdleFields DEF LogIn, Points

LEMMA RefreshReq ==
  ASSUME TypeOK, References, NEW r \in Requests, Refresh(r)
  PROVE  \E t \in held :
           \/ ToDelete(r, {Sid(t)})
           \/ Becomes(r, "issue", t, Unsigned, None, {}, "idle", {})
<1>1. PICK t \in held :
        \/ Goto(r, [Idle EXCEPT !.pc = "delete", !.ids = {Sid(t)}])
        \/ Goto(r, [Idle EXCEPT !.pc = "issue", !.tok = t])
  BY DEF Refresh
<1>2. Sid(t) \in SessionIds /\ t \in Tokens
  BY SidType DEF References, TypeOK
<1>3. ASSUME Goto(r, [Idle EXCEPT !.pc = "delete", !.ids = {Sid(t)}])
      PROVE  ToDelete(r, {Sid(t)})
  BY <1>2, <1>3, GotoDelete
<1>4. ASSUME Goto(r, [Idle EXCEPT !.pc = "issue", !.tok = t])
      PROVE  Becomes(r, "issue", t, Unsigned, None, {}, "idle", {})
  BY <1>2, <1>4, SetTok, IdleFields DEF Points
<1>5. QED
  BY <1>1, <1>3, <1>4

\* A signature: at a login for a session never drawn before.
LEMMA IssueReq ==
  ASSUME TypeOK, References, NEW r \in Requests, Issue(r)
  PROVE  LET q == req[r] IN
         \E d \in Pair :
           /\ d.pat = now /\ d.from = q.tok
           /\ \/ /\ q.tok = None
                 /\ d.sid \notin Drawn
                 /\ Becomes(r, "insert", q.tok, d, q.out, q.ids, q.after, q.must)
              \/ /\ q.tok # None
                 /\ d.sid = Sid(q.tok)
                 /\ Becomes(r, "rotate", q.tok, d, q.out, q.ids, q.after, q.must)
<1> DEFINE q == req[r]
           s == IF q.tok = None THEN NewSession ELSE Sid(q.tok)
           d == [state |-> "signed", sid |-> s, pat |-> now, from |-> q.tok]
           p == IF q.tok = None THEN "insert" ELSE "rotate"
<1>1. /\ q.tok \in Tokens \cup {None}
      /\ s \in SessionIds
      /\ q.tok = None => s \notin Drawn
  BY NewSessionType, SidType DEF Issue, TypeOK, Request, References, Refers
<1>2. d \in Pair /\ d.pat = now /\ d.from = q.tok /\ d.sid = s
  BY <1>1 DEF Pair, TypeOK
<1>3. req' = [req EXCEPT ![r].pc = p, ![r].draft = d] /\ p \in Points
  BY DEF Issue, Points
<1> HIDE DEF d, p
<1>4. Becomes(r, p, q.tok, d, q.out, q.ids, q.after, q.must)
  BY <1>2, <1>3, SetPair
<1>5. QED
  BY <1>1, <1>2, <1>4 DEF p

LEMMA InsertReq ==
  ASSUME TypeOK, NEW r \in Requests, Insert(r)
  PROVE  Becomes(r, "evict", None, Unsigned, NewToken, {}, "idle", {})
<1>1. NewToken \in Tokens
  BY NewTokenType DEF Insert
<1>2. QED
  BY <1>1, SetOut, IdleFields DEF Insert, Points

LEMMA FindEvictedReq ==
  ASSUME TypeOK, NEW r \in Requests, FindEvicted(r)
  PROVE  LET q == req[r] IN
         \E S \in SUBSET Open :
           \/ Becomes(r, "respond", q.tok, q.draft, q.out, q.ids, q.after, q.must)
           \/ Becomes(r, "delete", q.tok, q.draft, q.out, S, "respond", q.must)
<1> DEFINE q == req[r]
<1>1. PICK S \in SUBSET Open :
        \/ Goto(r, [q EXCEPT !.pc = "respond"])
        \/ Goto(r, [q EXCEPT !.pc = "delete", !.ids = S, !.after = "respond"])
  BY DEF FindEvicted, BeyondLimit
<1>2. q \in Request /\ S \in SUBSET SessionIds
  BY DEF TypeOK, Open
<1>3. ASSUME Goto(r, [q EXCEPT !.pc = "respond"])
      PROVE  Becomes(r, "respond", q.tok, q.draft, q.out, q.ids, q.after, q.must)
  BY <1>2, <1>3, SetPc DEF Points
<1>4. ASSUME Goto(r, [q EXCEPT !.pc = "delete", !.ids = S, !.after = "respond"])
      PROVE  Becomes(r, "delete", q.tok, q.draft, q.out, S, "respond", q.must)
  BY <1>2, <1>4, SetIdsAfter DEF Points
<1>5. QED
  BY <1>1, <1>3, <1>4

LEMMA RotateWonReq ==
  ASSUME TypeOK, NEW r \in Requests, RotateWon(r)
  PROVE  Becomes(r, "respond", None, Unsigned, NewToken, {}, "idle", {})
<1>1. NewToken \in Tokens
  BY NewTokenType DEF RotateWon
<1>2. QED
  BY <1>1, SetOut, IdleFields DEF RotateWon, Points

LEMMA RotateLostReq ==
  ASSUME TypeOK, Drafts, NEW r \in Requests, At(r, "rotate"), RotateLost(r)
  PROVE  ToDelete(r, {Sid(req[r].tok)})
<1>1. {Sid(req[r].tok)} \in SUBSET SessionIds
      /\ req[r].draft.sid = Sid(req[r].tok)
  BY DEF Drafts, Drafted, At, TypeOK, Request, Pair
<1>2. QED
  BY <1>1, GotoDelete DEF RotateLost

\* The requests that end sessions, and nothing else so far.
LEMMA EndingReq ==
  ASSUME TypeOK, References, NEW r \in Requests,
         Terminate(r) \/ SignOut(r) \/ TerminateOthers(r) \/ SignOutAll(r)
  PROVE  \/ \E S \in SUBSET Open : ToDelete(r, S)
         \/ \E t \in held :
              /\ rows[Sid(t)] = NoRow
              /\ Becomes(r, "revokeSelf", t, Unsigned, None, {}, "idle", {})
         \/ \E t \in held :
              Becomes(r, "delete", t, Unsigned, None, Open, "revokeSelf", {})
<1>a. /\ Open \subseteq SessionIds
      /\ \A t \in held : t \in Tokens /\ Sid(t) \in SessionIds
  BY SidType DEF Open, References, TypeOK
<1>1. CASE Terminate(r)
  <2>1. PICK s \in Open : Goto(r, [Idle EXCEPT !.pc = "delete", !.ids = {s}])
    BY <1>1 DEF Terminate
  <2>2. ToDelete(r, {s}) /\ {s} \in SUBSET Open
    BY <2>1, <1>a, GotoDelete
  <2>3. QED
    BY <2>2
<1>2. CASE SignOut(r)
  <2>1. PICK t \in held :
          \/ Sid(t) \in Open /\ Goto(r, [Idle EXCEPT !.pc = "delete", !.ids = {Sid(t)}])
          \/ Sid(t) \notin Open /\ Goto(r, [Idle EXCEPT !.pc = "revokeSelf", !.tok = t])
    BY <1>2 DEF SignOut
  <2>2. ASSUME Sid(t) \in Open,
               Goto(r, [Idle EXCEPT !.pc = "delete", !.ids = {Sid(t)}])
        PROVE  ToDelete(r, {Sid(t)}) /\ {Sid(t)} \in SUBSET Open
    BY <2>2, <1>a, GotoDelete
  <2>3. ASSUME Sid(t) \notin Open,
               Goto(r, [Idle EXCEPT !.pc = "revokeSelf", !.tok = t])
        PROVE  /\ rows[Sid(t)] = NoRow
               /\ Becomes(r, "revokeSelf", t, Unsigned, None, {}, "idle", {})
    <3>1. rows[Sid(t)] = NoRow
      BY <2>3, <1>a DEF Open
    <3>2. QED
      BY <2>3, <3>1, <1>a, SetTok, IdleFields DEF Points
  <2>4. QED
    BY <2>1, <2>2, <2>3
<1>3. CASE TerminateOthers(r)
  <2>1. PICK t \in held :
          Goto(r, [Idle EXCEPT !.pc = "delete", !.ids = Open \ {Sid(t)}])
    BY <1>3 DEF TerminateOthers
  <2>2. ToDelete(r, Open \ {Sid(t)}) /\ Open \ {Sid(t)} \in SUBSET Open
    BY <2>1, <1>a, GotoDelete
  <2>3. QED
    BY <2>2
<1>4. CASE SignOutAll(r)
  <2>1. PICK t \in held :
          \/ Open = {} /\ Goto(r, [Idle EXCEPT !.pc = "revokeSelf", !.tok = t])
          \/ Goto(r, [Idle EXCEPT !.pc = "delete", !.ids = Open, !.tok = t,
                                  !.after = "revokeSelf"])
    BY <1>4 DEF SignOutAll
  <2>2. ASSUME Open = {}, Goto(r, [Idle EXCEPT !.pc = "revokeSelf", !.tok = t])
        PROVE  /\ rows[Sid(t)] = NoRow
               /\ Becomes(r, "revokeSelf", t, Unsigned, None, {}, "idle", {})
    <3>1. rows[Sid(t)] = NoRow
      BY <2>2, <1>a DEF Open
    <3>2. QED
      BY <2>2, <3>1, <1>a, SetTok, IdleFields DEF Points
  <2>3. ASSUME Goto(r, [Idle EXCEPT !.pc = "delete", !.ids = Open, !.tok = t,
                                    !.after = "revokeSelf"])
        PROVE  Becomes(r, "delete", t, Unsigned, None, Open, "revokeSelf", {})
    BY <2>3, <1>a, SetIdsTokAfter, IdleFields DEF Points
  <2>4. QED
    BY <2>1, <2>2, <2>3
<1>5. QED
  BY <1>1, <1>2, <1>3, <1>4

LEMMA SavePasswordReq ==
  ASSUME TypeOK, NEW r \in Requests, SavePassword(r)
  PROVE  \E t \in held \cup {None} : \E M \in SUBSET Open :
           /\ t # None => Sid(t) \notin M
           /\ Becomes(r, "findAll", t, Unsigned, None, {}, "idle", M)
<1>1. PICK t \in held \cup {None} :
        Goto(r, [Idle EXCEPT !.pc = "findAll", !.tok = t,
                             !.must = IF t = None THEN Open ELSE Open \ {Sid(t)}])
  BY DEF SavePassword
<1> DEFINE M == IF t = None THEN Open ELSE Open \ {Sid(t)}
<1>2. M \in SUBSET Open /\ (t # None => Sid(t) \notin M)
  OBVIOUS
<1>3. M \in SUBSET SessionIds /\ t \in Tokens \cup {None}
  BY <1>2 DEF Open, TypeOK
<1>4. Goto(r, [Idle EXCEPT !.pc = "findAll", !.tok = t, !.must = M])
  BY <1>1
<1> HIDE DEF M
<1>5. Becomes(r, "findAll", t, Idle.draft, Idle.out, Idle.ids, Idle.after, M)
  BY <1>3, <1>4, SetTokMust, IdleFields DEF Points
<1>6. QED
  BY <1>2, <1>5, IdleFields

LEMMA FindAllReq ==
  ASSUME TypeOK, NEW r \in Requests, FindAll(r)
  PROVE  \/ ToIdle(r)
         \/ Becomes(r, "delete", None, Unsigned, None, Open \ Spared(r), "idle",
                    req[r].must)
<1> DEFINE S == Open \ Spared(r)
<1>1. \/ Goto(r, Idle)
      \/ Goto(r, [Idle EXCEPT !.pc = "delete", !.ids = S, !.must = req[r].must])
  BY DEF FindAll, ToTerminate
<1>2. S \in SUBSET SessionIds /\ req[r].must \in SUBSET SessionIds
  BY DEF TypeOK, Open, Request
<1> HIDE DEF S
<1>3. ASSUME Goto(r, [Idle EXCEPT !.pc = "delete", !.ids = S, !.must = req[r].must])
      PROVE  Becomes(r, "delete", None, Unsigned, None, S, "idle", req[r].must)
  BY <1>2, <1>3, SetIdsMust, IdleFields, ZenonT(30) DEF Points
<1>4. QED
  BY <1>1, <1>3, GotoIdle DEF S

LEMMA DeleteRowsReq ==
  ASSUME TypeOK, NEW r \in Requests, DeleteRows(r)
  PROVE  Becomes(r, "revoke", req[r].tok, req[r].draft, req[r].out, req[r].ids,
                 req[r].after, req[r].must)
  BY SetPoint DEF DeleteRows, Points

LEMMA RevokeReq ==
  ASSUME TypeOK, NEW r \in Requests, Revoke(r)
  PROVE  Becomes(r, req[r].after, req[r].tok, req[r].draft, req[r].out, {}, "idle", {})
<1>1. req[r] \in Request /\ req[r].after \in Points
  BY DEF TypeOK, Request, Points
<1>2. QED
  BY <1>1, SetIdsAfterMust DEF Revoke

LEMMA DeleteUserReq ==
  ASSUME TypeOK, NEW r \in Requests, DeleteUser(r)
  PROVE  Becomes(r, "markUser", None, Unsigned, None, {}, "idle", {})
  BY SetPc, IdleFields DEF DeleteUser, Points

LEMMA LeavingReq ==
  ASSUME TypeOK, NEW r \in Requests,
         Respond(r) \/ RevokeSelf(r) \/ MarkUser(r) \/ Abandon(r)
  PROVE  ToIdle(r)
  BY GotoIdle DEF Respond, RevokeSelf, MarkUser, Abandon

(***************************************************************************)
(* Type correctness                                                        *)
(***************************************************************************)

Basis == TypeOK /\ References /\ Drafts

LEMMA ReqType ==
  ASSUME Basis, NEW r \in Requests, Step(r)
  PROVE  /\ req' \in [Requests -> Request]
         /\ \A p \in Requests \ {r} : req'[p] = req[p]
<1> USE DEF Basis
<1>1. CASE LogIn(r) \/ Refresh(r) \/ Issue(r) \/ Insert(r) \/ FindEvicted(r)
  BY <1>1, LogInReq, RefreshReq, IssueReq, InsertReq, FindEvictedReq
  DEF Becomes, ToDelete
<1>2. CASE Rotate(r)
  BY <1>2, RotateWonReq, RotateLostReq DEF Rotate, Becomes, ToDelete
<1>3. CASE Terminate(r) \/ SignOut(r) \/ TerminateOthers(r) \/ SignOutAll(r)
  BY <1>3, EndingReq DEF Becomes, ToDelete
<1>4. CASE SavePassword(r) \/ FindAll(r) \/ DeleteRows(r) \/ Revoke(r) \/ DeleteUser(r)
  BY <1>4, SavePasswordReq, FindAllReq, DeleteRowsReq, RevokeReq, DeleteUserReq
  DEF Becomes, ToIdle
<1>5. CASE Respond(r) \/ RevokeSelf(r) \/ MarkUser(r) \/ Abandon(r)
  BY <1>5, LeavingReq DEF Becomes, ToIdle
<1>6. QED
  BY <1>1, <1>2, <1>3, <1>4, <1>5 DEF Step

LEMMA InsertDraft ==
  ASSUME Basis, NEW r \in Requests, Insert(r)
  PROVE  req[r].draft \in Pair /\ req[r].draft.sid \in SessionIds
  BY DEF Basis, Drafts, Drafted, Insert, At, TypeOK, Request, Pair, Unsigned

LEMMA RotateDraft ==
  ASSUME Basis, NEW r \in Requests, At(r, "rotate")
  PROVE  /\ req[r].draft \in Pair /\ req[r].draft.sid \in SessionIds
         /\ req[r].draft.sid = Sid(req[r].tok)
         /\ req[r].tok \in Stored /\ req[r].draft.from = req[r].tok
  BY DEF Basis, Drafts, Drafted, References, Refers, At, TypeOK, Request, Pair, Unsigned

LEMMA TypeStep == Basis /\ [Next]_vars => TypeOK'
<1> SUFFICES ASSUME Basis, [Next]_vars PROVE TypeOK'
  OBVIOUS
<1>a. TypeOK
  BY DEF Basis
<1> USE TtlAssumption, BoundAssumption
<1>1. CASE Tick
  BY <1>1, <1>a DEF Tick, TypeOK, store, allMarks
<1>2. CASE Cleanup
  BY <1>2, <1>a DEF Cleanup, TypeOK, store, allMarks, Without, Removed
<1>3. ASSUME NEW r \in Requests, Step(r) PROVE TypeOK'
  <2>a. req' \in [Requests -> Request]
    BY <1>3, ReqType
  <2> USE <1>a, <2>a
  <2>1. CASE LogIn(r) \/ Refresh(r) \/ Issue(r) \/ FindEvicted(r)
    BY <2>1 DEF LogIn, Refresh, Issue, FindEvicted, TypeOK, store, allMarks
  <2>2. CASE Insert(r)
    <3>1. rows' \in [SessionIds -> Row \cup {NoRow}]
      <4> DEFINE row == [refresh |-> NewToken,
                         expiresAt |-> req[r].draft.pat + RefreshTtl,
                         createdAt |-> now]
      <4>1. row \in Row
        <5>1. NewToken \in Tokens /\ now \in Nat
          BY <2>2, NewTokenType DEF Insert, TypeOK
        <5>2. req[r].draft.pat \in Nat
          BY <2>2, InsertDraft DEF Pair
        <5>3. QED
          BY <5>1, <5>2 DEF Row
      <4>2. rows' = [rows EXCEPT ![req[r].draft.sid] = row]
        BY <2>2 DEF Insert
      <4> HIDE DEF row
      <4>3. QED
        BY <4>1, <4>2 DEF TypeOK
    <3>2. pairs' \in [Tokens -> Pair \cup {Unsigned}]
      BY <2>2, NewTokenType, InsertDraft DEF Insert, TypeOK
    <3>3. QED
      BY <2>2, <3>1, <3>2 DEF Insert, TypeOK, allMarks
  <2>3. CASE Rotate(r)
    <3>1. CASE RotateWon(r)
      <4>1. rows' \in [SessionIds -> Row \cup {NoRow}]
        BY <2>3, <3>1, RotateDraft, NewTokenType
        DEF Rotate, RotateWon, TypeOK, Row, Pair, Matches, NoRow
      <4>2. pairs' \in [Tokens -> Pair \cup {Unsigned}]
        BY <2>3, <3>1, RotateDraft, NewTokenType DEF Rotate, RotateWon, TypeOK
      <4>3. QED
        BY <2>3, <4>1, <4>2 DEF Rotate, TypeOK, allMarks
    <3>2. CASE RotateLost(r)
      BY <2>3, <3>2 DEF Rotate, RotateLost, TypeOK, allMarks
    <3>3. QED
      BY <2>3, <3>1, <3>2 DEF Rotate
  <2>4. CASE Respond(r)
    <3>1. req[r].out \in Tokens
      BY <2>4 DEF Respond, Basis, Drafts, Drafted, At, References, Refers, Stored
    <3>2. QED
      BY <2>4, <3>1 DEF Respond, TypeOK, allMarks
  <2>5. CASE Terminate(r) \/ SignOut(r) \/ TerminateOthers(r) \/ SignOutAll(r)
    BY <2>5
    DEF Terminate, SignOut, TerminateOthers, SignOutAll, TypeOK, store, allMarks
  <2>6. CASE SavePassword(r) \/ FindAll(r) \/ Abandon(r)
    BY <2>6 DEF SavePassword, FindAll, Abandon, TypeOK, store, allMarks
  <2>7. CASE DeleteRows(r)
    BY <2>7 DEF DeleteRows, Without, Removed, TypeOK, allMarks
  <2>8. CASE Revoke(r) \/ RevokeSelf(r)
    BY <2>8 DEF Revoke, RevokeSelf, Marked, TypeOK, store
  <2>9. CASE DeleteUser(r)
    BY <2>9 DEF DeleteUser, Without, Removed, TypeOK, allMarks
  <2>10. CASE MarkUser(r)
    <3>1. userMark' \in Mark
      BY <2>10 DEF MarkUser, TypeOK, Mark
    <3>2. ended' \in [at : [SessionIds -> Nat], cut : BOOLEAN]
      BY <2>10 DEF MarkUser, TypeOK
    <3>3. QED
      BY <2>10, <3>1, <3>2 DEF MarkUser, TypeOK, store
  <2>11. QED
    BY <1>3, <2>1, <2>2, <2>3, <2>4, <2>5, <2>6, <2>7, <2>8, <2>9, <2>10 DEF Step
<1>4. CASE UNCHANGED vars
  BY <1>4, <1>a DEF vars, TypeOK
<1>5. QED
  BY <1>1, <1>2, <1>3, <1>4 DEF Next

(***************************************************************************)
(* How a step changes the stored pairs and the rows                        *)
(***************************************************************************)

\* The two steps that store a pair.
Stores(r) == Insert(r) \/ (Rotate(r) /\ RotateWon(r))

LEMMA StoresEffect ==
  ASSUME Basis, NEW r \in Requests, Stores(r)
  PROVE  LET d == req[r].draft
             t == NewToken
         IN /\ d \in Pair /\ d.sid \in SessionIds /\ t \in Tokens \ Stored
            /\ pairs' = [pairs EXCEPT ![t] = d]
            /\ rows'[d.sid] # NoRow /\ rows'[d.sid].refresh = t
            /\ \A s \in SessionIds \ {d.sid} : rows'[s] = rows[s]
            /\ UNCHANGED <<now, alive, held, marks, userMark, ended>>
<1> USE NoneAssumption
<1>a. NewToken \in Tokens \ Stored
  BY NewTokenType DEF Stores, Insert, RotateWon
<1>b. NewToken # None
  BY <1>a
<1>1. CASE Insert(r)
  BY <1>1, <1>a, <1>b, InsertDraft DEF Insert, Basis, TypeOK, allMarks, NoRow
<1>2. CASE Rotate(r) /\ RotateWon(r)
  <2> DEFINE d == req[r].draft
  <2>1. d \in Pair /\ d.sid \in SessionIds
    BY <1>2, RotateDraft DEF Rotate
  <2>2. rows \in [SessionIds -> Row \cup {NoRow}]
    BY DEF Basis, TypeOK
  <2>3. rows' = [rows EXCEPT ![d.sid].refresh = NewToken,
                             ![d.sid].expiresAt = d.pat + RefreshTtl]
    BY <1>2 DEF RotateWon
  <2> HIDE DEF d
  <2>4. \A s \in SessionIds \ {d.sid} : rows'[s] = rows[s]
    BY <2>2, <2>3
  <2>5. rows'[d.sid].refresh = NewToken
    BY <2>1, <2>2, <2>3 DEF Row, NoRow
  <2>6. rows'[d.sid] # NoRow
    BY <2>5, <1>b DEF NoRow
  <2>7. pairs' = [pairs EXCEPT ![NewToken] = d]
        /\ UNCHANGED <<now, alive, held, marks, userMark, ended>>
    BY <1>2 DEF Rotate, RotateWon, allMarks, d
  <2>8. QED
    BY <1>a, <2>1, <2>4, <2>5, <2>6, <2>7 DEF d
<1>3. QED
  BY <1>1, <1>2 DEF Stores

\* Every other step leaves the pairs alone, and only removes rows.
LEMMA QuietEffect ==
  ASSUME Basis, [Next]_vars, \A r \in Requests : ~Stores(r)
  PROVE  /\ pairs' = pairs
         /\ \A s \in SessionIds : rows'[s] \in {rows[s], NoRow}
<1>a. rows \in [SessionIds -> Row \cup {NoRow}]
  BY DEF Basis, TypeOK
<1>1. CASE Tick \/ UNCHANGED vars
  BY <1>1 DEF Tick, store, vars
<1>2. CASE Cleanup
  BY <1>2, <1>a DEF Cleanup, Without
<1>3. ASSUME NEW r \in Requests, Step(r)
      PROVE  /\ pairs' = pairs
             /\ \A s \in SessionIds : rows'[s] \in {rows[s], NoRow}
  <2>1. CASE LogIn(r) \/ Refresh(r) \/ Issue(r) \/ FindEvicted(r) \/ Respond(r)
             \/ Terminate(r) \/ SignOut(r) \/ TerminateOthers(r) \/ SignOutAll(r)
    BY <2>1 DEF LogIn, Refresh, Issue, FindEvicted, Respond, Terminate, SignOut,
                TerminateOthers, SignOutAll, store
  <2>2. CASE SavePassword(r) \/ FindAll(r) \/ Revoke(r) \/ RevokeSelf(r)
             \/ MarkUser(r) \/ Abandon(r)
    BY <2>2 DEF SavePassword, FindAll, Revoke, RevokeSelf, MarkUser, Abandon, store
  <2>3. CASE Rotate(r)
    BY <2>3 DEF Rotate, RotateLost, Stores
  <2>4. CASE DeleteRows(r) \/ DeleteUser(r)
    BY <2>4, <1>a DEF DeleteRows, DeleteUser, Without
  <2>5. QED
    BY <1>3, <2>1, <2>2, <2>3, <2>4 DEF Step, Stores
<1>4. QED
  BY <1>1, <1>2, <1>3 DEF Next

\* Stored pairs and known sessions stay so.
LEMMA Growth ==
  ASSUME Basis, [Next]_vars
  PROVE  /\ \A t \in Stored : t \in Stored' /\ pairs'[t] = pairs[t]
         /\ \A s : Known(s) => Known(s)'
<1>1. \A t \in Stored : t \in Stored' /\ pairs'[t] = pairs[t]
  <2>1. CASE \E r \in Requests : Stores(r)
    <3>1. PICK r \in Requests : Stores(r)
      BY <2>1
    <3>2. QED
      BY <3>1, StoresEffect DEF Stored, Basis, TypeOK
  <2>2. CASE \A r \in Requests : ~Stores(r)
    BY <2>2, QuietEffect DEF Stored
  <2>3. QED
    BY <2>1, <2>2
<1>2. QED
  BY <1>1 DEF Known, Sid

(***************************************************************************)
(* References                                                              *)
(***************************************************************************)

LEMMA OpenKnown ==
  ASSUME References
  PROVE  /\ \A S \in SUBSET Open : \A s \in S : Known(s)
         /\ \A t \in held : Known(Sid(t))
  BY DEF References, Known

LEMMA RefersStep ==
  ASSUME Basis, [Next]_vars, NEW r \in Requests, Step(r)
  PROVE  Refers(req[r])'
<1>a. /\ \A t \in Stored : t \in Stored'
      /\ \A s : Known(s) => Known(s)'
  BY Growth
<1>b. /\ Refers(req[r]) /\ held \subseteq Stored /\ TypeOK /\ References
      /\ \A S \in SUBSET Open : \A s \in S : Known(s)
      /\ \A t \in held : Known(Sid(t))
  BY OpenKnown DEF Basis, References
<1> USE <1>a, <1>b DEF Refers
<1>1. CASE LogIn(r) \/ FindEvicted(r)
  BY <1>1, LogInReq, FindEvictedReq DEF Becomes
<1>2. CASE Refresh(r)
  BY <1>2, RefreshReq DEF Becomes, ToDelete
<1>3. CASE Issue(r)
  BY <1>3, IssueReq DEF Becomes
<1>4. CASE Stores(r)
  <2>1. NewToken \in Stored'
    BY <1>4, StoresEffect DEF Stored, TypeOK, Pair, Unsigned
  <2>2. req'[r].tok = None /\ req'[r].out = NewToken /\ req'[r].ids = {}
        /\ req'[r].must = {}
    BY <1>4, InsertReq, RotateWonReq DEF Stores, Becomes
  <2>3. QED
    BY <2>1, <2>2
<1>5. CASE Rotate(r) /\ RotateLost(r)
  <2>1. ToDelete(r, {Sid(req[r].tok)}) /\ req[r].tok # None
    BY <1>5, RotateLostReq DEF Rotate, Basis, Drafts, Drafted, At
  <2>2. QED
    BY <2>1 DEF ToDelete, Becomes, Known
<1>6. CASE Terminate(r) \/ SignOut(r) \/ TerminateOthers(r) \/ SignOutAll(r)
  BY <1>6, EndingReq DEF Becomes, ToDelete
<1>7. CASE SavePassword(r)
  BY <1>7, SavePasswordReq DEF Becomes
<1>8. CASE FindAll(r)
  BY <1>8, FindAllReq DEF Becomes, ToIdle
<1>9. CASE DeleteRows(r) \/ Revoke(r) \/ DeleteUser(r)
  BY <1>9, DeleteRowsReq, RevokeReq, DeleteUserReq DEF Becomes
<1>10. CASE Respond(r) \/ RevokeSelf(r) \/ MarkUser(r) \/ Abandon(r)
  BY <1>10, LeavingReq DEF Becomes, ToIdle
<1>11. QED
  BY <1>1, <1>2, <1>3, <1>4, <1>5, <1>6, <1>7, <1>8, <1>9, <1>10
  DEF Step, Rotate, Stores

LEMMA ReferencesStep == Basis /\ [Next]_vars => References'
<1> SUFFICES ASSUME Basis, [Next]_vars PROVE References'
  OBVIOUS
<1>a. /\ \A t \in Stored : t \in Stored' /\ pairs'[t] = pairs[t]
      /\ \A s : Known(s) => Known(s)'
  BY Growth
<1>b. References /\ TypeOK
  BY DEF Basis
<1>1. held' \subseteq Stored'
  <2>1. ASSUME NEW r \in Requests, Respond(r) PROVE held' \subseteq Stored
    BY <2>1, <1>b DEF Respond, Basis, Drafts, Drafted, At, References, Refers
  <2>2. ASSUME NEW r \in Requests, Step(r), ~Respond(r) PROVE held' = held
    BY <2>2 DEF Step, LogIn, Refresh, Issue, Insert, FindEvicted, Rotate, Terminate,
       SignOut, TerminateOthers, SignOutAll, SavePassword, FindAll, DeleteRows, Revoke,
       RevokeSelf, DeleteUser, MarkUser, Abandon, store
  <2>3. held' \subseteq Stored
    BY <2>1, <2>2, <1>b DEF Next, Tick, Cleanup, store, vars, References
  <2>4. QED
    BY <2>3, <1>a
<1>2. \A r \in Requests : Refers(req[r])'
  <2> SUFFICES ASSUME NEW r \in Requests PROVE Refers(req[r])'
    OBVIOUS
  <2>1. CASE Step(r)
    BY <2>1, RefersStep
  <2>2. CASE ~Step(r)
    <3>1. req'[r] = req[r]
      BY <2>2, ReqType DEF Next, Tick, Cleanup, vars
    <3>2. QED
      BY <3>1, <1>a, <1>b DEF References, Refers
  <2>3. QED
    BY <2>1, <2>2
<1>3. \A s \in Open' : rows'[s].refresh \in Stored' /\ Known(s)'
  <2>1. CASE \E r \in Requests : Stores(r)
    <3>1. PICK r \in Requests : Stores(r)
      BY <2>1
    <3>2. PICK d \in Pair, t \in Tokens :
            /\ pairs' = [pairs EXCEPT ![t] = d]
            /\ rows'[d.sid].refresh = t
            /\ \A s \in SessionIds \ {d.sid} : rows'[s] = rows[s]
      BY <3>1, StoresEffect
    <3>3. t \in Stored' /\ pairs'[t] = d
      BY <3>2, <1>b DEF Stored, TypeOK, Pair, Unsigned
    <3>4. rows'[d.sid].refresh \in Stored' /\ Known(d.sid)'
      BY <3>2, <3>3 DEF Known, Sid
    <3>5. QED
      BY <3>2, <3>4, <1>a, <1>b DEF References, Open
  <2>2. CASE \A r \in Requests : ~Stores(r)
    BY <2>2, <1>a, <1>b, QuietEffect DEF References, Open
  <2>3. QED
    BY <2>1, <2>2
<1>4. \A s \in SessionIds : marks'[s] # 0 => Known(s)'
  <2>1. ASSUME NEW r \in Requests, Revoke(r) \/ RevokeSelf(r)
        PROVE  \A s \in SessionIds : marks'[s] # 0 => Known(s)
    <3>1. CASE Revoke(r)
      BY <3>1, <1>b DEF Revoke, Marked, References, Refers
    <3>2. CASE RevokeSelf(r)
      BY <3>2, <1>b DEF RevokeSelf, Marked, References, Refers, Known, Basis, Drafts, Drafted, At
    <3>3. QED
      BY <2>1, <3>1, <3>2
  <2>2. ASSUME NEW r \in Requests, Step(r), ~Revoke(r), ~RevokeSelf(r)
        PROVE  marks' = marks
    BY <2>2 DEF Step, LogIn, Refresh, Issue, Insert, FindEvicted, Rotate, Respond,
       Terminate, SignOut, TerminateOthers, SignOutAll, SavePassword, FindAll,
       DeleteRows, DeleteUser, MarkUser, Abandon, allMarks
  <2>3. \A s \in SessionIds : marks'[s] # 0 => Known(s)
    BY <2>1, <2>2, <1>b DEF Next, Tick, Cleanup, allMarks, vars, References
  <2>4. QED
    BY <2>3, <1>a
<1>5. \A u \in Stored' : pairs'[u].from # None =>
        pairs'[u].from \in Stored' /\ pairs'[pairs'[u].from].sid = pairs'[u].sid
  <2>a. \A u \in Stored : pairs[u].from # None =>
          pairs[u].from \in Stored /\ pairs[pairs[u].from].sid = pairs[u].sid
    BY <1>b DEF References, Sid
  <2>1. CASE \E r \in Requests : Stores(r)
    <3>1. PICK r \in Requests : Stores(r)
      BY <2>1
    <3> DEFINE d == req[r].draft
    <3>2. d.from # None => d.from \in Stored /\ pairs[d.from].sid = d.sid
      <4>1. CASE Insert(r)
        BY <4>1 DEF Insert, Basis, Drafts, Drafted, At
      <4>2. CASE Rotate(r)
        BY <4>2, RotateDraft DEF Rotate, Sid
      <4>3. QED
        BY <3>1, <4>1, <4>2 DEF Stores
    <3>3. pairs' = [pairs EXCEPT ![NewToken] = d] /\ NewToken \in Tokens \ Stored
      BY <3>1, StoresEffect
    <3>4. Stored' \subseteq Stored \cup {NewToken} /\ pairs'[NewToken] = d
      BY <3>3, <1>b DEF Stored, TypeOK
    <3>5. QED
      BY <2>a, <3>2, <3>4, <1>a
  <2>2. CASE \A r \in Requests : ~Stores(r)
    BY <2>2, <2>a, QuietEffect DEF Stored
  <2>3. QED
    BY <2>1, <2>2
<1>6. QED
  BY <1>1, <1>2, <1>3, <1>4, <1>5 DEF References, Sid

(***************************************************************************)
(* Drafts                                                                  *)
(***************************************************************************)

\* Only a signature leaves its request with a draft.
LEMMA DraftGone ==
  ASSUME Basis, NEW r \in Requests, Step(r), ~Issue(r)
  PROVE  /\ req'[r].draft = Unsigned
         /\ Drafted(req[r])'
<1>a. Drafted(req[r]) /\ TypeOK /\ References /\ Drafts
  BY DEF Basis, Drafts
<1> USE NoneAssumption DEF Drafted
<1>1. CASE LogIn(r) \/ FindEvicted(r)
  BY <1>1, <1>a, LogInReq, FindEvictedReq DEF Becomes, FindEvicted, At
<1>2. CASE Refresh(r)
  BY <1>2, <1>a, RefreshReq DEF Becomes, ToDelete
<1>3. CASE Stores(r)
  <2>1. NewToken # None
    BY <1>3, StoresEffect
  <2>2. QED
    BY <1>3, <2>1, <1>a, InsertReq, RotateWonReq DEF Stores, Becomes
<1>4. CASE Rotate(r) /\ RotateLost(r)
  BY <1>4, <1>a, RotateLostReq DEF Rotate, ToDelete, Becomes
<1>5. CASE Terminate(r) \/ SignOut(r) \/ TerminateOthers(r) \/ SignOutAll(r)
  BY <1>5, <1>a, EndingReq DEF Becomes, ToDelete, TypeOK
<1>6. CASE SavePassword(r) \/ FindAll(r)
  BY <1>6, <1>a, SavePasswordReq, FindAllReq DEF Becomes, ToIdle
<1>7. CASE DeleteRows(r) \/ Revoke(r) \/ DeleteUser(r)
  <2>1. DeleteRows(r) \/ Revoke(r) => req[r].draft = Unsigned
    BY <1>a DEF DeleteRows, Revoke, At
  <2>2. req[r].after \in {"idle", "respond", "revokeSelf"}
    BY <1>a DEF TypeOK, Request
  <2>3. QED
    BY <1>7, <2>1, <2>2, <1>a, DeleteRowsReq, RevokeReq, DeleteUserReq
    DEF Becomes, DeleteRows, At
<1>8. CASE Respond(r) \/ RevokeSelf(r) \/ MarkUser(r) \/ Abandon(r)
  BY <1>8, <1>a, LeavingReq DEF Becomes, ToIdle
<1>9. QED
  BY <1>1, <1>2, <1>3, <1>4, <1>5, <1>6, <1>7, <1>8 DEF Step, Rotate, Stores

\* The sessions a step makes known.
LEMMA NowKnown ==
  ASSUME Basis, [Next]_vars, NEW s, Known(s)', ~Known(s)
  PROVE  \E r \in Requests : Stores(r) /\ s = req[r].draft.sid
<1>1. CASE \E r \in Requests : Stores(r)
  <2>1. PICK r \in Requests : Stores(r)
    BY <1>1
  <2>2. PICK d \in Pair, t \in Tokens \ Stored :
          d = req[r].draft /\ pairs' = [pairs EXCEPT ![t] = d]
    BY <2>1, StoresEffect
  <2>3. QED
    BY <2>1, <2>2 DEF Known, Stored, Sid, Basis, TypeOK
<1>2. CASE \A r \in Requests : ~Stores(r)
  BY <1>2, QuietEffect DEF Known, Stored, Sid
<1>3. QED
  BY <1>1, <1>2

\* A request that does not step keeps its draft, whose session stays its own.
LEMMA OthersDrafted ==
  ASSUME Basis, [Next]_vars, NEW p \in Requests, req'[p] = req[p]
  PROVE  Drafted(req[p])'
<1>a. Drafted(req[p]) /\ Refers(req[p])
  BY DEF Basis, Drafts, References
<1>b. \A t \in Stored : pairs'[t] = pairs[t]
  BY Growth
<1>c. ~Stores(p)
  BY InsertReq, RotateWonReq DEF Stores, Insert, Rotate, At, Becomes, Basis
<1>1. At(p, "insert") => ~Known(req[p].draft.sid)'
  <2> SUFFICES ASSUME At(p, "insert"), Known(req[p].draft.sid)'
               PROVE  FALSE
    OBVIOUS
  <2>1. PICK s : s = req[p].draft.sid /\ Known(s)' /\ ~Known(s)
    BY <1>a DEF Drafted, At
  <2>2. PICK r \in Requests : Stores(r) /\ s = req[r].draft.sid
    BY <2>1, NowKnown
  <2>3. req[r].draft # Unsigned
    BY <2>2, RotateDraft, InsertDraft DEF Stores, Rotate, Pair, Unsigned
  <2>4. QED
    BY <2>1, <2>2, <2>3, <1>c DEF Basis, Drafts
<1>2. QED
  BY <1>1, <1>a, <1>b DEF Drafted, Refers, Sid, At

LEMMA DraftsStep == Basis /\ [Next]_vars => Drafts'
<1> SUFFICES ASSUME Basis, [Next]_vars PROVE Drafts'
  OBVIOUS
<1>a. TypeOK /\ References /\ Drafts
  BY DEF Basis
<1> DEFINE Apart(p, r) ==
      At(p, "insert") /\ req[r].draft # Unsigned /\ p # r
        => req[p].draft.sid # req[r].draft.sid
<1>b. \A p, r \in Requests : Apart(p, r)
  BY <1>a DEF Drafts
<1>1. CASE \A r \in Requests : req'[r] = req[r]
  BY <1>1, <1>b, OthersDrafted DEF Drafts, At
<1>2. ASSUME NEW r \in Requests, Step(r) PROVE Drafts'
  <2>a. \A p \in Requests \ {r} : req'[p] = req[p] /\ Drafted(req[p])'
    BY <1>2, ReqType, OthersDrafted
  <2>1. CASE Issue(r)
    <3> DEFINE q == req[r]
    <3>1. PICK d \in Pair :
            /\ d.pat = now /\ d.from = q.tok
            /\ \/ /\ q.tok = None
                  /\ d.sid \notin Drawn
                  /\ Becomes(r, "insert", q.tok, d, q.out, q.ids, q.after, q.must)
               \/ /\ q.tok # None
                  /\ d.sid = Sid(q.tok)
                  /\ Becomes(r, "rotate", q.tok, d, q.out, q.ids, q.after, q.must)
      BY <2>1, <1>a, IssueReq
    <3>2. pairs' = pairs /\ q.pc = "issue"
      BY <2>1 DEF Issue, store, At
    <3>3. Drawn = {pairs[t].sid : t \in Stored}
                    \cup {req[p].draft.sid : p \in {x \in Requests : req[x].draft # Unsigned}}
      BY DEF Drawn
    <3>4. d.sid \notin Drawn => ~Known(d.sid)
      BY <3>3 DEF Known, Sid
    <3>5. q.tok # None => q.tok \in Stored /\ Known(Sid(q.tok))
      BY <1>a DEF References, Refers, Known
    <3>6. d # Unsigned
      BY DEF Pair, Unsigned
    <3>7. Drafted(req[r])'
      BY <3>1, <3>2, <3>4, <3>6, <1>a DEF Drafted, Drafts, Becomes, Known, Stored, Sid
    <3>8. ASSUME NEW p \in Requests \ {r}
          PROVE  /\ At(p, "insert") => req[p].draft.sid # d.sid
                 /\ q.tok = None /\ req[p].draft # Unsigned => req[p].draft.sid # d.sid
      <4>1. CASE q.tok = None
        BY <4>1, <3>1, <3>3, <1>a DEF Drafts, Drafted, At
      <4>2. CASE q.tok # None
        BY <4>2, <3>1, <3>5, <1>a DEF Drafts, Drafted, At
      <4>3. QED
        BY <4>1, <4>2
    <3>9. req'[r].draft = d /\ (req'[r].pc = "insert" => q.tok = None)
      BY <3>1 DEF Becomes
    <3>10. \A p, x \in Requests : Apart(p, x)'
      BY <3>8, <3>9, <2>a, <1>b DEF At
    <3>11. QED
      BY <3>7, <3>10, <2>a DEF Drafts
  <2>2. CASE ~Issue(r)
    <3>1. req'[r].draft = Unsigned /\ Drafted(req[r])'
      BY <1>2, <2>2, DraftGone
    <3>2. \A p, x \in Requests : Apart(p, x)'
      BY <3>1, <2>a, <1>b DEF At, Drafted
    <3>3. QED
      BY <3>1, <3>2, <2>a DEF Drafts
  <2>3. QED
    BY <2>1, <2>2
<1>3. QED
  BY <1>1, <1>2 DEF Next, Tick, Cleanup, vars

\* The row of a session that ended does not come back.
LEMMA NoRowStays ==
  ASSUME Basis, [Next]_vars, NEW s \in SessionIds, Known(s), rows[s] = NoRow
  PROVE  rows'[s] = NoRow
<1>1. CASE \A r \in Requests : ~Stores(r)
  BY <1>1, QuietEffect
<1>2. ASSUME NEW r \in Requests, Stores(r)
      PROVE  rows'[s] = NoRow
  <2>1. CASE s # req[r].draft.sid
    BY <1>2, <2>1, StoresEffect
  <2>2. CASE Insert(r)
    BY <2>2, <1>2, StoresEffect DEF Insert, Basis, Drafts, Drafted, At
  <2>3. CASE Rotate(r) /\ RotateWon(r) /\ s = req[r].draft.sid
    BY <2>3, RotateDraft, NoneAssumption
    DEF Rotate, RotateWon, Matches, NoRow, Basis, TypeOK, Stored
  <2>4. QED
    BY <1>2, <2>1, <2>2, <2>3 DEF Stores
<1>3. QED
  BY <1>1, <1>2

LEMMA BasisInit == Init => Basis
<1> SUFFICES ASSUME Init PROVE Basis
  OBVIOUS
<1>1. TypeOK
  BY IdleFields DEF Init, TypeOK, Mark
<1>2. Stored = {} /\ Open = {} /\ \A r \in Requests : req[r] = Idle
  BY DEF Init, Stored, Open
<1>3. References
  BY <1>2, IdleFields DEF References, Refers, Init
<1>4. Drafts
  BY <1>2, IdleFields DEF Drafts, Drafted, At
<1>5. QED
  BY <1>1, <1>3, <1>4 DEF Basis

LEMMA BasisStep == Basis /\ [Next]_vars => Basis'
  BY TypeStep, ReferencesStep, DraftsStep DEF Basis

THEOREM BasisHolds == Spec => []Basis
  BY BasisInit, BasisStep, PTL DEF Spec

\* Every variable keeps its type.
THEOREM TypeCorrect == Spec => []TypeOK
<1>1. Basis => TypeOK
  BY DEF Basis
<1>2. QED
  BY <1>1, BasisHolds, PTL

\* A session that has ended is never opened again.
THEOREM NoResurrectionHolds == Spec => NoResurrection
<1>1. Basis /\ [Next]_vars
        => [\A t \in held : rows[Sid(t)] = NoRow => rows'[Sid(t)] = NoRow]_vars
  BY NoRowStays, SidType, OpenKnown DEF Basis, References
<1>2. QED
  BY <1>1, BasisHolds, PTL DEF Spec, NoResurrection

(***************************************************************************)
(* Exchanges                                                               *)
(***************************************************************************)

LEMMA ExchangesStep == Basis /\ Exchanges /\ [Next]_vars => Exchanges'
<1> SUFFICES ASSUME Basis, Exchanges, [Next]_vars PROVE Exchanges'
  OBVIOUS
<1>a. /\ \A u \in Stored : /\ Sid(u) \in SessionIds
                           /\ pairs[u].from # None => pairs[u].from \in Stored
                           /\ rows[Sid(u)].refresh = pairs[u].from => pairs[u].from = None
  BY SidType DEF Basis, References, Exchanges
<1>1. CASE \A r \in Requests : ~Stores(r)
  BY <1>1, <1>a, QuietEffect, NoneAssumption DEF Exchanges, Stored, Sid, NoRow
<1>2. ASSUME NEW r \in Requests, Stores(r) PROVE Exchanges'
  <2>1. PICK d \in Pair, t \in Tokens \ Stored :
          /\ d = req[r].draft /\ d.sid \in SessionIds
          /\ pairs' = [pairs EXCEPT ![t] = d]
          /\ rows'[d.sid].refresh = t
          /\ \A s \in SessionIds \ {d.sid} : rows'[s] = rows[s]
    BY <1>2, StoresEffect
  <2>2. /\ \A u \in Stored : pairs'[u] = pairs[u]
        /\ pairs'[t] = d
        /\ Stored' = Stored \cup {t}
    BY <2>1 DEF Stored, Basis, TypeOK, Pair, Unsigned
  \* The token presented was the current one of the row: nobody exchanged it.
  <2>3. d.from # None => /\ d.from \in Stored
                         /\ \A u \in Stored : pairs[u].from # d.from
    <3>1. CASE Insert(r)
      BY <3>1, <2>1 DEF Insert, Basis, Drafts, Drafted, At
    <3>2. CASE Rotate(r) /\ RotateWon(r)
      <4>1. d.from \in Stored /\ Sid(d.from) = d.sid /\ rows[d.sid].refresh = d.from
        BY <3>2, <2>1, RotateDraft DEF Rotate, RotateWon, Matches
      <4>2. ASSUME NEW u \in Stored, pairs[u].from = d.from, d.from # None
            PROVE  FALSE
        BY <4>1, <4>2 DEF Exchanges, Basis, References
      <4>3. QED
        BY <4>1, <4>2
    <3>3. QED
      BY <1>2, <3>1, <3>2 DEF Stores
  <2>4. \A u \in Stored' : pairs'[u].from # None => rows'[Sid(u)'].refresh # pairs'[u].from
    BY <2>1, <2>2, <2>3, <1>a DEF Sid
  <2>5. \A u, w \in Stored' :
          pairs'[u].from = pairs'[w].from /\ pairs'[u].from # None => u = w
    BY <2>2, <2>3 DEF Exchanges
  <2>6. QED
    BY <2>4, <2>5 DEF Exchanges, Sid
<1>3. QED
  BY <1>1, <1>2

\* A refresh token buys at most one new pair.
THEOREM ExchangedOnceHolds == Spec => []ExchangedOnce
<1>1. Init => Exchanges
  BY DEF Init, Exchanges, Stored
<1>2. Basis /\ Exchanges => ExchangedOnce
  BY DEF Basis, References, Exchanges, ExchangedOnce
<1>3. QED
  BY <1>1, <1>2, ExchangesStep, BasisHolds, PTL DEF Spec

(***************************************************************************)
(* Time stamps and the end of sessions                                     *)
(***************************************************************************)

\* The clock moves alone.
LEMMA ClockStep ==
  ASSUME TypeOK, [Next]_vars
  PROVE  /\ now' = now \/ (now' = now + 1 /\ UNCHANGED <<rows, pairs, req, ended>>)
         /\ now \in Nat /\ now' \in Nat /\ now <= now'
<1>1. CASE Tick
  BY <1>1 DEF Tick, TypeOK, store
<1>2. CASE Cleanup \/ UNCHANGED vars
  BY <1>2 DEF Cleanup, vars, TypeOK
<1>3. ASSUME NEW r \in Requests, Step(r) PROVE now' = now
  BY <1>3
  DEF Step, LogIn, Refresh, Issue, Insert, FindEvicted, Rotate, Respond, Terminate,
      SignOut, TerminateOthers, SignOutAll, SavePassword, FindAll, DeleteRows, Revoke,
      RevokeSelf, DeleteUser, MarkUser, Abandon
<1>4. QED
  BY <1>1, <1>2, <1>3 DEF Next, TypeOK

\* The history of ends follows the rows: it is stamped as they disappear.
LEMMA EndedStep ==
  ASSUME Basis, [Next]_vars
  PROVE  \A s \in SessionIds :
           \/ /\ ended'.at[s] = ended.at[s]
              /\ rows[s] # NoRow => rows'[s] # NoRow
           \/ /\ ended'.at[s] = now /\ now' = now
              /\ rows[s] # NoRow /\ rows'[s] = NoRow
<1>a. /\ rows \in [SessionIds -> Row \cup {NoRow}]
      /\ ended \in [at : [SessionIds -> Nat], cut : BOOLEAN]
  BY DEF Basis, TypeOK
<1>b. ASSUME NEW S, rows' = Without(S), ended' = [ended EXCEPT !.at = Removed(S)],
             now' = now, NEW s \in SessionIds
      PROVE  \/ ended'.at[s] = ended.at[s] /\ (rows[s] # NoRow => rows'[s] # NoRow)
             \/ ended'.at[s] = now /\ now' = now /\ rows[s] # NoRow /\ rows'[s] = NoRow
  BY <1>a, <1>b DEF Without, Removed, Open
<1>c. ASSUME NEW s \in SessionIds, ended'.at = ended.at, rows' = rows
      PROVE  ended'.at[s] = ended.at[s] /\ (rows[s] # NoRow => rows'[s] # NoRow)
  BY <1>c
<1>1. CASE Tick \/ UNCHANGED vars
  BY <1>1 DEF Tick, vars, store
<1>2. CASE Cleanup
  BY <1>2, <1>b DEF Cleanup
<1>3. ASSUME NEW r \in Requests, Step(r)
      PROVE  \A s \in SessionIds :
               \/ /\ ended'.at[s] = ended.at[s]
                  /\ rows[s] # NoRow => rows'[s] # NoRow
               \/ /\ ended'.at[s] = now /\ now' = now
                  /\ rows[s] # NoRow /\ rows'[s] = NoRow
  <2>1. CASE Stores(r)
    BY <2>1, StoresEffect
  <2>2. CASE LogIn(r) \/ Refresh(r) \/ Issue(r) \/ FindEvicted(r) \/ Respond(r)
             \/ Terminate(r) \/ SignOut(r) \/ TerminateOthers(r) \/ SignOutAll(r)
    BY <2>2, <1>c DEF LogIn, Refresh, Issue, FindEvicted, Respond, Terminate, SignOut,
                TerminateOthers, SignOutAll, store
  <2>3. CASE SavePassword(r) \/ FindAll(r) \/ Revoke(r) \/ RevokeSelf(r)
    BY <2>3, <1>c DEF SavePassword, FindAll, Revoke, RevokeSelf, store
  <2>4. CASE MarkUser(r) \/ Abandon(r)
    <3>1. ended'.at = ended.at /\ rows' = rows
      BY <2>4, <1>a DEF MarkUser, Abandon, store
    <3>2. QED
      BY <3>1, <1>c
  <2>5. CASE Rotate(r) /\ RotateLost(r)
    BY <2>5, <1>c DEF Rotate, RotateLost
  <2>6. CASE DeleteRows(r) \/ DeleteUser(r)
    BY <2>6, <1>b DEF DeleteRows, DeleteUser
  <2>7. QED
    BY <1>3, <2>1, <2>2, <2>3, <2>4, <2>5, <2>6 DEF Step, Stores, Rotate
<1>4. QED
  BY <1>1, <1>2, <1>3 DEF Next

LEMMA TimesStep == Basis /\ Times /\ [Next]_vars => Times'
<1> SUFFICES ASSUME Basis, Times, [Next]_vars PROVE Times'
  OBVIOUS
<1>a. TypeOK /\ References /\ Drafts
  BY DEF Basis
<1>b. now \in Nat /\ now' \in Nat /\ now <= now'
  BY <1>a, ClockStep
<1>c. /\ \A t \in Stored : pairs[t].pat \in Nat
      /\ \A r \in Requests : req[r].draft # Unsigned => req[r].draft.pat \in Nat
      /\ \A s \in SessionIds : ended.at[s] \in Nat
  BY <1>a DEF TypeOK, Stored, Pair, Request
<1>1. \A t \in Stored' : pairs'[t].pat <= now'
  <2>1. CASE \A r \in Requests : ~Stores(r)
    BY <2>1, <1>b, <1>c, QuietEffect DEF Times, Stored
  <2>2. ASSUME NEW r \in Requests, Stores(r) PROVE \A t \in Stored' : pairs'[t].pat <= now'
    <3>1. PICK d \in Pair, t \in Tokens \ Stored :
            d = req[r].draft /\ pairs' = [pairs EXCEPT ![t] = d]
      BY <2>2, StoresEffect
    <3>2. Stored' \subseteq Stored \cup {t} /\ d # Unsigned
      BY <3>1, <1>a DEF Stored, TypeOK, Pair, Unsigned
    <3>3. \A u \in Stored : pairs'[u] = pairs[u]
      BY <3>1
    <3>4. QED
      BY <3>1, <3>2, <3>3, <1>a, <1>b, <1>c DEF Times, TypeOK
  <2>3. QED
    BY <2>1, <2>2
<1>2. \A r \in Requests : req'[r].draft # Unsigned => req'[r].draft.pat <= now'
  <2> SUFFICES ASSUME NEW r \in Requests, req'[r].draft # Unsigned
               PROVE  req'[r].draft.pat <= now'
    OBVIOUS
  <2>1. CASE req'[r] = req[r]
    BY <2>1, <1>b, <1>c DEF Times
  <2>2. CASE Issue(r)
    <3>1. req'[r].draft.pat = now
      BY <2>2, <1>a, IssueReq DEF Becomes
    <3>2. QED
      BY <3>1, <1>b
  <2>3. QED
    BY <2>1, <2>2, DraftGone, ReqType DEF Next, Tick, Cleanup, vars
<1>3. \A s \in SessionIds : ended'.at[s] <= now'
  BY <1>b, <1>c, EndedStep DEF Times
<1>4. QED
  BY <1>1, <1>2, <1>3 DEF Times

LEMMA EndsBoundStep ==
  Basis /\ Times /\ EndsBound /\ [Next]_vars => EndsBound'
<1> SUFFICES ASSUME Basis, Times, EndsBound, [Next]_vars,
                    NEW t \in Stored', rows'[pairs'[t].sid] = NoRow
             PROVE  pairs'[t].pat <= ended'.at[pairs'[t].sid]
  BY DEF EndsBound, Sid
<1>1. t \in Stored /\ pairs'[t] = pairs[t]
  <2>1. CASE \A r \in Requests : ~Stores(r)
    BY <2>1, QuietEffect DEF Stored
  <2>2. ASSUME NEW r \in Requests, Stores(r)
        PROVE  t \in Stored /\ pairs'[t] = pairs[t]
    BY <2>2, StoresEffect DEF Stored, Basis, TypeOK
  <2>3. QED
    BY <2>1, <2>2
<1>2. Sid(t) \in SessionIds /\ Sid(t) = pairs[t].sid /\ pairs[t].pat <= now
  BY <1>1, SidType DEF Basis, Times, Sid
<1>3. QED
  BY <1>1, <1>2, EndedStep DEF EndsBound

\* A client never holds an access token signed after the end of its session.
THEOREM NothingSignedAfterEndHolds == Spec => []NothingSignedAfterEnd
<1>1. Init => Times /\ EndsBound
  BY BasisInit, IdleFields DEF Init, Times, EndsBound, Stored
<1>2. Basis /\ EndsBound => NothingSignedAfterEnd
  BY DEF Basis, References, EndsBound, NothingSignedAfterEnd
<1>3. QED
  BY <1>1, <1>2, TimesStep, EndsBoundStep, BasisHolds, PTL DEF Spec

(***************************************************************************)
(* Marks                                                                   *)
(***************************************************************************)

\* The sessions a request names are known: the end of their rows is final.
LEMMA EndIsFinal ==
  ASSUME Basis, [Next]_vars, NEW r \in Requests
  PROVE  /\ \A s \in req[r].ids \cup req[r].must : rows[s] = NoRow => rows'[s] = NoRow
         /\ req[r].tok # None =>
              /\ Sid(req[r].tok) \in SessionIds
              /\ pairs'[req[r].tok].sid = Sid(req[r].tok)
              /\ rows[Sid(req[r].tok)] = NoRow => rows'[Sid(req[r].tok)] = NoRow
<1>1. req[r].ids \subseteq SessionIds /\ req[r].must \subseteq SessionIds
  BY DEF Basis, TypeOK, Request
<1>2. Refers(req[r])
  BY DEF Basis, References
<1>3. ASSUME req[r].tok # None
      PROVE  Sid(req[r].tok) \in SessionIds /\ Known(Sid(req[r].tok))
  BY <1>2, <1>3, SidType DEF Refers, Known, Basis
<1>4. QED
  BY <1>1, <1>2, <1>3, NoRowStays, Growth DEF Refers, Sid

LEMMA EndsRowsStep ==
  ASSUME Basis, [Next]_vars, NEW r \in Requests, EndsRows(req[r])
  PROVE  EndsRows(req[r])'
<1>a. /\ TypeOK /\ References /\ Drafts /\ Drafted(req[r])
      /\ rows \in [SessionIds -> Row \cup {NoRow}]
      /\ req[r].ids \subseteq SessionIds
      /\ req[r].after \in {"idle", "respond", "revokeSelf"}
  BY DEF Basis, Drafts, TypeOK, Request
<1>b. /\ \A s \in req[r].ids : rows[s] = NoRow => rows'[s] = NoRow
      /\ req[r].tok # None =>
           /\ Sid(req[r].tok) \in SessionIds
           /\ pairs'[req[r].tok].sid = Sid(req[r].tok)
           /\ rows[Sid(req[r].tok)] = NoRow => rows'[Sid(req[r].tok)] = NoRow
  BY EndIsFinal
<1>c. \A t \in held : /\ t \in Stored /\ t \in Tokens /\ Sid(t) \in SessionIds
                      /\ pairs'[t] = pairs[t]
  BY <1>a, Growth, SidType DEF References, TypeOK
<1> USE DEF EndsRows, Sid
<1>1. CASE req'[r] = req[r]
  BY <1>1, <1>a, <1>b DEF Drafted
<1>2. CASE Step(r)
  <2>1. CASE LogIn(r) \/ Issue(r) \/ FindEvicted(r)
    BY <2>1, <1>a, LogInReq, IssueReq, FindEvictedReq
    DEF Becomes, Issue, FindEvicted, At
  <2>2. CASE Refresh(r)
    BY <2>2, <1>a, RefreshReq DEF Becomes, ToDelete
  <2>3. CASE Insert(r) \/ Rotate(r)
    BY <2>3, <1>a, InsertReq, RotateWonReq, RotateLostReq DEF Becomes, ToDelete, Rotate
  <2>4. CASE Terminate(r) \/ SignOut(r) \/ TerminateOthers(r) \/ SignOutAll(r)
    <3>1. rows' = rows
      BY <2>4 DEF Terminate, SignOut, TerminateOthers, SignOutAll, store
    <3>2. \A t \in held : Sid(t) \in Open \/ rows[Sid(t)] = NoRow
      BY <1>c DEF Open
    <3>3. QED
      BY <2>4, <3>1, <3>2, <1>a, <1>c, EndingReq DEF Becomes, ToDelete
  <2>5. CASE SavePassword(r) \/ FindAll(r) \/ DeleteUser(r)
    BY <2>5, <1>a, SavePasswordReq, FindAllReq, DeleteUserReq DEF Becomes, ToIdle
  <2>6. CASE DeleteRows(r)
    <3>1. /\ req[r].pc = "delete"
          /\ \A s \in SessionIds : rows'[s] = IF s \in req[r].ids THEN NoRow ELSE rows[s]
      BY <2>6, <1>a DEF DeleteRows, At, Without
    <3>2. QED
      BY <2>6, <3>1, <1>a, <1>b, DeleteRowsReq DEF Becomes, Drafted
  <2>7. CASE Revoke(r)
    <3>1. rows' = rows /\ req[r].pc = "revoke"
      BY <2>7 DEF Revoke, At, store
    <3>2. QED
      BY <2>7, <3>1, <1>a, <1>b, RevokeReq DEF Becomes, Drafted
  <2>8. CASE Respond(r) \/ RevokeSelf(r) \/ MarkUser(r) \/ Abandon(r)
    BY <2>8, <1>a, LeavingReq DEF Becomes, ToIdle
  <2>9. QED
    BY <1>2, <2>1, <2>2, <2>3, <2>4, <2>5, <2>6, <2>7, <2>8 DEF Step
<1>3. QED
  BY <1>1, <1>2, ReqType DEF Next, Tick, Cleanup, vars

LEMMA MarksStep == Basis /\ Times /\ Marks /\ [Next]_vars => Marks'
<1> SUFFICES ASSUME Basis, Times, Marks, [Next]_vars PROVE Marks'
  OBVIOUS
<1> USE TtlAssumption
<1>a. TypeOK /\ References /\ Drafts
  BY DEF Basis
<1>1. \A r \in Requests : EndsRows(req[r])'
  BY EndsRowsStep DEF Marks
<1>2. ASSUME NEW s \in SessionIds, marks'[s] # 0
      PROVE  rows'[s] = NoRow /\ marks'[s] >= ended'.at[s] + MarkTtl
  <2>a. ended.at[s] \in Nat /\ ended.at[s] <= now /\ now \in Nat /\ marks[s] \in Nat
    BY <1>a DEF TypeOK, Times
  <2>1. CASE marks'[s] = marks[s]
    <3>1. rows[s] = NoRow /\ marks[s] >= ended.at[s] + MarkTtl /\ Known(s)
      BY <1>2, <2>1, <1>a DEF Marks, References
    <3>2. rows'[s] = NoRow /\ ended'.at[s] = ended.at[s]
      BY <3>1, NoRowStays, EndedStep
    <3>3. QED
      BY <2>1, <3>1, <3>2
  <2>2. CASE marks'[s] # marks[s]
    <3>1. PICK r \in Requests : Revoke(r) \/ RevokeSelf(r)
      BY <2>2
      DEF Next, Tick, Cleanup, vars, Step, LogIn, Refresh, Issue, Insert, FindEvicted,
          Rotate, Respond, Terminate, SignOut, TerminateOthers, SignOutAll, SavePassword,
          FindAll, DeleteRows, DeleteUser, MarkUser, Abandon, allMarks
    <3>2. rows' = rows /\ ended' = ended
      BY <3>1 DEF Revoke, RevokeSelf, store
    <3>3. marks'[s] = now + MarkTtl /\ rows[s] = NoRow
      <4>1. CASE Revoke(r)
        BY <4>1, <2>2, <1>a DEF Revoke, Marked, Marks, EndsRows, At, TypeOK
      <4>2. CASE RevokeSelf(r)
        BY <4>2, <2>2, <1>a DEF RevokeSelf, Marked, Marks, EndsRows, At, TypeOK
      <4>3. QED
        BY <3>1, <4>1, <4>2
    <3>4. QED
      BY <2>a, <3>2, <3>3
  <2>3. QED
    BY <2>1, <2>2
<1>3. QED
  BY <1>1, <1>2 DEF Marks

\* Once a session is marked as revoked, none of its access tokens is accepted.
THEOREM EndedTokensRejectedHolds == Spec => []EndedTokensRejected
<1>1. Init => Times /\ EndsBound /\ Marks
  BY BasisInit, IdleFields DEF Init, Times, EndsBound, Marks, EndsRows, Stored
<1>2. Basis /\ Times /\ EndsBound /\ Marks => EndedTokensRejected
  <2> SUFFICES ASSUME Basis, Times, EndsBound, Marks, NEW t \in held, marks[Sid(t)] # 0
               PROVE  NotExpired(t) => SessionRevoked(t)
    BY DEF EndedTokensRejected, Accepted
  <2>1. t \in Stored /\ Sid(t) \in SessionIds
    BY SidType DEF Basis, References
  <2>2. /\ pairs[t].pat \in Nat /\ now \in Nat
        /\ ended.at[Sid(t)] \in Nat /\ marks[Sid(t)] \in Nat
    BY <2>1 DEF Basis, TypeOK, Stored, Pair
  <2>3. pairs[t].pat <= ended.at[Sid(t)] /\ marks[Sid(t)] >= ended.at[Sid(t)] + MarkTtl
    BY <2>1 DEF Marks, EndsBound
  <2>4. QED
    BY <2>2, <2>3, TtlAssumption DEF NotExpired, SessionRevoked
<1>3. QED
  BY <1>1, <1>2, TimesStep, EndsBoundStep, MarksStep, BasisHolds, PTL DEF Spec

(***************************************************************************)
(* Deletion of the user                                                    *)
(***************************************************************************)

LEMMA DeletionStep == Basis /\ Times /\ Deletion /\ [Next]_vars => Deletion'
<1> SUFFICES ASSUME Basis, Times, Deletion, [Next]_vars PROVE Deletion'
  OBVIOUS
<1>a. /\ TypeOK /\ References /\ Drafts
      /\ rows \in [SessionIds -> Row \cup {NoRow}]
  BY DEF Basis, TypeOK
\* A step that stores a pair finds the user.
<1>b. \A r \in Requests : Stores(r) => alive
  <2> SUFFICES ASSUME NEW r \in Requests, Stores(r) PROVE alive
    OBVIOUS
  <2>1. CASE Insert(r)
    BY <2>1 DEF Insert
  <2>2. CASE Rotate(r) /\ RotateWon(r)
    <3>1. req[r].draft.sid \in Open
      BY <2>2, RotateDraft, NoneAssumption, SMTT(30)
      DEF Rotate, RotateWon, Matches, Open, NoRow, Stored
    <3>2. QED
      BY <3>1 DEF Deletion
  <2>3. QED
    BY <2>1, <2>2 DEF Stores
<1>c. \/ alive' = alive
      \/ ~alive' /\ \E r \in Requests : DeleteUser(r)
  BY DEF Next, Tick, Cleanup, vars, Step, LogIn, Refresh, Issue, Insert, FindEvicted,
      Rotate, Respond, Terminate, SignOut, TerminateOthers, SignOutAll, SavePassword,
      FindAll, DeleteRows, Revoke, RevokeSelf, DeleteUser, MarkUser, Abandon, store
<1>1. ~alive' => Open' = {}
  <2>1. CASE \E r \in Requests : DeleteUser(r)
    BY <2>1 DEF DeleteUser, Without, Open
  <2>2. CASE ~alive
    BY <2>2, <1>b, QuietEffect DEF Deletion, Open
  <2>3. QED
    BY <2>1, <2>2, <1>c
<1>2. \A r \in Requests : At(r, "markUser")' => ~alive'
  <2> SUFFICES ASSUME NEW r \in Requests, req'[r].pc = "markUser" PROVE ~alive'
    BY DEF At
  <2>1. CASE req'[r] = req[r]
    BY <2>1, <1>c DEF Deletion, At
  <2>2. CASE DeleteUser(r)
    BY <2>2 DEF DeleteUser
  <2>3. CASE Step(r) /\ ~DeleteUser(r)
    <3>1. CASE LogIn(r) \/ Refresh(r) \/ Issue(r) \/ Insert(r) \/ FindEvicted(r)
               \/ Rotate(r)
      BY <3>1, <1>a, LogInReq, RefreshReq, IssueReq, InsertReq, FindEvictedReq,
         RotateWonReq, RotateLostReq DEF Rotate, Becomes, ToDelete
    <3>2. CASE Terminate(r) \/ SignOut(r) \/ TerminateOthers(r) \/ SignOutAll(r)
               \/ SavePassword(r) \/ FindAll(r)
      BY <3>2, <1>a, EndingReq, SavePasswordReq, FindAllReq DEF Becomes, ToDelete, ToIdle
    <3>3. CASE DeleteRows(r) \/ Revoke(r)
      BY <3>3, <1>a, DeleteRowsReq, RevokeReq DEF Becomes, TypeOK, Request
    <3>4. CASE Respond(r) \/ RevokeSelf(r) \/ MarkUser(r) \/ Abandon(r)
      BY <3>4, <1>a, LeavingReq DEF Becomes, ToIdle
    <3>5. QED
      BY <2>3, <3>1, <3>2, <3>3, <3>4 DEF Step
  <2>4. QED
    BY <2>1, <2>2, <2>3, ReqType DEF Next, Tick, Cleanup, vars
<1>3. ASSUME userMark'.until # 0
      PROVE  /\ ~alive'
             /\ userMark'.until = userMark'.at + MarkTtl
             /\ \A t \in Stored' : pairs'[t].pat <= userMark'.at
  <2>1. CASE \E r \in Requests : MarkUser(r) /\ userMark' # userMark
    <3>1. PICK r \in Requests : MarkUser(r) /\ userMark' # userMark
      BY <2>1
    <3>2. alive' = alive /\ pairs' = pairs /\ userMark' = [at |-> now, until |-> now + MarkTtl]
      BY <3>1 DEF MarkUser, store
    <3>3. QED
      BY <3>1, <3>2 DEF MarkUser, Deletion, Times, Stored
  <2>2. CASE \A r \in Requests : ~(MarkUser(r) /\ userMark' # userMark)
    <3>1. userMark' = userMark
      BY <2>2
      DEF Next, Tick, Cleanup, vars, Step, LogIn, Refresh, Issue, Insert, FindEvicted,
          Rotate, Respond, Terminate, SignOut, TerminateOthers, SignOutAll, SavePassword,
          FindAll, DeleteRows, Revoke, RevokeSelf, DeleteUser, Abandon, allMarks
    <3>2. ~alive /\ ~alive'
      BY <1>3, <3>1, <1>c DEF Deletion
    <3>3. pairs' = pairs
      BY <3>2, <1>b, QuietEffect
    <3>4. QED
      BY <1>3, <3>1, <3>2, <3>3 DEF Deletion, Stored
  <2>3. QED
    BY <2>1, <2>2
<1>4. QED
  BY <1>1, <1>2, <1>3 DEF Deletion

\* Once the mark of a deleted user is written none of his tokens is accepted.
THEOREM DeletedUserRejectedHolds == Spec => []DeletedUserRejected
<1>1. Init => Times /\ Deletion
  BY BasisInit, IdleFields DEF Init, Times, Deletion, Stored, At
<1>2. Basis /\ Deletion => DeletedUserRejected
  <2> SUFFICES ASSUME Basis, Deletion, userMark.until # 0, NEW t \in held
               PROVE  NotExpired(t) => UserRevoked(t)
    BY DEF DeletedUserRejected, Accepted
  <2>1. t \in Stored /\ pairs[t].pat \in Nat /\ now \in Nat /\ userMark \in Mark
    BY DEF Basis, References, TypeOK, Stored, Pair
  <2>2. pairs[t].pat <= userMark.at /\ userMark.until = userMark.at + MarkTtl
    BY <2>1 DEF Deletion
  <2>3. QED
    BY <2>1, <2>2, TtlAssumption DEF NotExpired, UserRevoked, Mark
<1>3. QED
  BY <1>1, <1>2, TimesStep, DeletionStep, BasisHolds, PTL DEF Spec

(***************************************************************************)
(* Change of password                                                      *)
(***************************************************************************)

LEMMA ResetsStep ==
  ASSUME Basis, [Next]_vars, NEW r \in Requests, Resets(req[r])
  PROVE  Resets(req[r])'
<1>a. /\ TypeOK /\ References /\ Drafts /\ Drafted(req[r])
      /\ rows \in [SessionIds -> Row \cup {NoRow}]
      /\ req[r].ids \subseteq SessionIds /\ req[r].must \subseteq SessionIds
      /\ req[r].after \in {"idle", "respond", "revokeSelf"}
  BY DEF Basis, Drafts, TypeOK, Request
<1>b. /\ \A s \in req[r].must : rows[s] = NoRow => rows'[s] = NoRow
      /\ req[r].tok # None => pairs'[req[r].tok].sid = Sid(req[r].tok)
  BY EndIsFinal
<1> USE DEF Resets, Sid
<1>1. CASE req'[r] = req[r]
  BY <1>1, <1>a, <1>b
<1>2. CASE Step(r)
  <2>1. CASE LogIn(r) \/ Issue(r) \/ FindEvicted(r)
    BY <2>1, <1>a, LogInReq, IssueReq, FindEvictedReq DEF Becomes, Issue, FindEvicted, At
  <2>2. CASE Refresh(r)
    BY <2>2, <1>a, RefreshReq DEF Becomes, ToDelete
  <2>3. CASE Insert(r) \/ Rotate(r)
    BY <2>3, <1>a, InsertReq, RotateWonReq, RotateLostReq DEF Becomes, ToDelete, Rotate
  <2>4. CASE Terminate(r) \/ SignOut(r) \/ TerminateOthers(r) \/ SignOutAll(r)
    BY <2>4, <1>a, EndingReq DEF Becomes, ToDelete
  <2>5. CASE SavePassword(r)
    <3>1. pairs' = pairs
      BY <2>5 DEF SavePassword, store
    <3>2. QED
      BY <2>5, <3>1, <1>a, SavePasswordReq DEF Becomes
  <2>6. CASE FindAll(r)
    <3>1. req[r].pc = "findAll" /\ rows' = rows
      BY <2>6 DEF FindAll, At, store
    <3>2. \A s \in req[r].must : s \in Open \ Spared(r) \/ rows[s] = NoRow
      BY <3>1, <1>a DEF Open, Spared
    <3>3. QED
      BY <2>6, <3>1, <3>2, <1>a, FindAllReq DEF Becomes, ToIdle
  <2>7. CASE DeleteUser(r)
    BY <2>7, <1>a, DeleteUserReq DEF Becomes
  <2>8. CASE DeleteRows(r)
    <3>1. /\ req[r].pc = "delete"
          /\ \A s \in SessionIds : rows'[s] = IF s \in req[r].ids THEN NoRow ELSE rows[s]
      BY <2>8, <1>a DEF DeleteRows, At, Without
    <3>2. QED
      BY <2>8, <3>1, <1>a, DeleteRowsReq DEF Becomes
  <2>9. CASE Revoke(r)
    BY <2>9, <1>a, RevokeReq DEF Becomes
  <2>10. CASE Respond(r) \/ RevokeSelf(r) \/ MarkUser(r) \/ Abandon(r)
    BY <2>10, <1>a, LeavingReq DEF Becomes, ToIdle
  <2>11. QED
    BY <1>2, <2>1, <2>2, <2>3, <2>4, <2>5, <2>6, <2>7, <2>8, <2>9, <2>10 DEF Step
<1>3. QED
  BY <1>1, <1>2, ReqType DEF Next, Tick, Cleanup, vars

\* A change of password is answered once the sessions it found open are closed.
THEOREM PasswordEndsSessionsHolds == Spec => []PasswordEndsSessions
<1>1. Init => Passwords
  BY IdleFields DEF Init, Passwords, Resets
<1>2. Basis /\ Passwords /\ [Next]_vars => Passwords'
  BY ResetsStep DEF Passwords
<1>3. Passwords => PasswordEndsSessions
  BY DEF Passwords, Resets, PasswordEndsSessions, At
<1>4. QED
  BY <1>1, <1>2, <1>3, BasisHolds, PTL DEF Spec

(***************************************************************************)
(* The limit of active sessions                                            *)
(***************************************************************************)

\* A step that adds no session and no login to those that have yet to evict.
Removes ==
  /\ Open' \subseteq Open
  /\ Evicting' = Evicting
  /\ \A q \in Evicting : req'[q] = req[q]
  /\ ended'.cut = ended.cut

LEMMA RemovesKeeps == ASSUME Limits, Removes PROVE Limits'
<1>1. IsFiniteSet(Open') /\ IsFiniteSet(Evicting')
  BY FS_Subset DEF Limits, Removes
<1>2. ASSUME ~ended'.cut, NEW Q \in SUBSET Evicting', \A q \in Q : At(q, "delete")'
      PROVE  Cardinality(Left(Q)') <= MaxActive + Cardinality(Evicting' \ Q)
  <2>1. Q \subseteq Evicting /\ \A q \in Q : At(q, "delete")
    BY <1>2 DEF Removes, At
  <2>2. Cardinality(Left(Q)) <= MaxActive + Cardinality(Evicting \ Q)
    BY <1>2, <2>1 DEF Limits, Removes
  <2>3. Left(Q)' \subseteq Left(Q) /\ Left(Q) \subseteq Open
    BY <2>1 DEF Removes, Left
  <2>4. IsFiniteSet(Left(Q)) /\ IsFiniteSet(Evicting \ Q)
    BY <2>3, FS_Subset DEF Limits
  <2>5. /\ Cardinality(Left(Q)) \in Nat /\ Cardinality(Evicting \ Q) \in Nat
        /\ Cardinality(Left(Q)') \in Nat
        /\ Cardinality(Left(Q)') <= Cardinality(Left(Q))
    BY <2>3, <2>4, FS_Subset, FS_CardinalityType
  <2>6. QED
    BY <2>2, <2>5, BoundAssumption DEF Removes
<1>3. QED
  BY <1>1, <1>2 DEF Limits

\* The logins that have yet to evict, after the step of one request.
LEMMA EvictingAfter ==
  ASSUME NEW r \in Requests, \A p \in Requests \ {r} : req'[p] = req[p]
  PROVE  /\ Evicting \ {r} = Evicting' \ {r}
         /\ r \in Evicting' <=> req'[r].out # None /\ req'[r].pc \in {"evict", "delete"}
         /\ r \in Evicting <=> req[r].out # None /\ req[r].pc \in {"evict", "delete"}
  BY DEF Evicting

\* Only an insertion adds to them.
LEMMA NoNewEvicting ==
  ASSUME Basis, NEW r \in Requests, Step(r), ~Insert(r), r \notin Evicting
  PROVE  r \notin Evicting'
<1>a. /\ TypeOK /\ References /\ Drafts
      /\ req[r].after \in {"idle", "respond", "revokeSelf"}
  BY DEF Basis, TypeOK, Request
<1>b. \A p \in Requests \ {r} : req'[p] = req[p]
  BY ReqType
<1>c. SUFFICES req'[r].out = None \/ req'[r].pc \notin {"evict", "delete"}
  BY <1>b, EvictingAfter
<1>1. CASE LogIn(r) \/ Refresh(r) \/ Issue(r)
  BY <1>1, <1>a, LogInReq, RefreshReq, IssueReq DEF Becomes, ToDelete
<1>2. CASE FindEvicted(r)
  <2>1. req[r].out = None
    BY <1>2, <1>b, EvictingAfter DEF FindEvicted, At
  <2>2. QED
    BY <1>2, <1>a, <2>1, FindEvictedReq DEF Becomes
<1>3. CASE Rotate(r)
  BY <1>3, <1>a, RotateWonReq, RotateLostReq DEF Becomes, ToDelete, Rotate
<1>4. CASE Terminate(r) \/ SignOut(r) \/ TerminateOthers(r) \/ SignOutAll(r)
  BY <1>4, <1>a, EndingReq DEF Becomes, ToDelete
<1>5. CASE SavePassword(r) \/ FindAll(r) \/ DeleteUser(r)
  BY <1>5, <1>a, SavePasswordReq, FindAllReq, DeleteUserReq DEF Becomes, ToIdle
<1>6. CASE DeleteRows(r) \/ Revoke(r)
  BY <1>6, <1>a, DeleteRowsReq, RevokeReq DEF Becomes
<1>7. CASE Respond(r) \/ RevokeSelf(r) \/ MarkUser(r) \/ Abandon(r)
  BY <1>7, <1>a, LeavingReq DEF Becomes, ToIdle
<1>8. QED
  BY <1>1, <1>2, <1>3, <1>4, <1>5, <1>6, <1>7 DEF Step

\* Only an insertion adds a session.
LEMMA OneOpens ==
  ASSUME Basis, [Next]_vars, NEW r \in Requests, Step(r), ~Insert(r)
  PROVE  Open' \subseteq Open
<1>a. rows \in [SessionIds -> Row \cup {NoRow}]
  BY DEF Basis, TypeOK
<1>1. CASE Rotate(r) /\ RotateWon(r)
  <2>1. req[r].draft.sid \in SessionIds /\ req[r].tok \in Tokens
    BY <1>1, RotateDraft DEF Rotate, Stored
  <2>2. rows[req[r].draft.sid] # NoRow
    BY <1>1, <2>1, NoneAssumption DEF RotateWon, Matches, NoRow
  <2>3. QED
    BY <1>1, <2>1, <2>2, StoresEffect DEF Stores, Open
<1>2. CASE UNCHANGED rows
  BY <1>2 DEF Open
<1>3. CASE DeleteRows(r) \/ DeleteUser(r)
  BY <1>3, <1>a DEF DeleteRows, DeleteUser, Without, Open
<1>4. QED
  BY <1>1, <1>2, <1>3 DEF Step, store, LogIn, Refresh, Issue, FindEvicted, Rotate, RotateLost,
     Respond, Terminate, SignOut, TerminateOthers, SignOutAll, SavePassword, FindAll, Revoke,
     RevokeSelf, MarkUser, Abandon

\* Only a login that is cut short is put down as such.
LEMMA OneCuts ==
  ASSUME Basis, NEW r \in Requests, Step(r), r \notin Evicting
  PROVE  ended'.cut = ended.cut
<1>a. ended \in [at : [SessionIds -> Nat], cut : BOOLEAN]
  BY DEF Basis, TypeOK
<1>1. CASE UNCHANGED ended
  BY <1>1
<1>2. CASE DeleteRows(r) \/ DeleteUser(r) \/ MarkUser(r)
  BY <1>2, <1>a DEF DeleteRows, DeleteUser, MarkUser
<1>3. CASE Abandon(r)
  <2>1. PICK b \in BOOLEAN : b <=> ended.cut \/ r \in Evicting
    OBVIOUS
  <2>2. ended'.cut = b
    BY <1>3, <1>a, <2>1 DEF Abandon
  <2>3. QED
    BY <1>a, <2>1, <2>2
<1>4. QED
  BY <1>1, <1>2, <1>3 DEF Step, LogIn, Refresh, Issue, Insert, FindEvicted, Rotate, Respond,
     Terminate, SignOut, TerminateOthers, SignOutAll, SavePassword, FindAll, Revoke, RevokeSelf

\* A login accounts for the session it opens.
LEMMA InsertKeeps ==
  ASSUME Basis, [Next]_vars, Limits, NEW r \in Requests, Insert(r)
  PROVE  Limits'
<1>a. PICK s \in SessionIds : Open' \subseteq Open \cup {s}
  BY StoresEffect DEF Stores, Open
<1>b. r \notin Evicting /\ Evicting' = Evicting \cup {r} /\ ended' = ended
  <2>1. req[r].pc = "insert" /\ req'[r].pc = "evict" /\ req'[r].out = NewToken
    BY InsertReq DEF Insert, At, Becomes, Basis
  <2>2. NewToken # None
    BY NewTokenType, NoneAssumption DEF Insert
  <2>3. \A p \in Requests \ {r} : req'[p] = req[p]
    BY ReqType DEF Step
  <2>4. QED
    BY <2>1, <2>2, <2>3, EvictingAfter DEF Insert
<1>1. IsFiniteSet(Open') /\ IsFiniteSet(Evicting')
  BY <1>a, <1>b, FS_AddElement, FS_Subset DEF Limits
<1>2. ASSUME ~ended'.cut, NEW Q \in SUBSET Evicting', \A q \in Q : At(q, "delete")'
      PROVE  Cardinality(Left(Q)') <= MaxActive + Cardinality(Evicting' \ Q)
  <2>1. r \notin Q /\ \A q \in Q : req'[q] = req[q]
    <3>1. req'[r].pc = "evict" /\ \A p \in Requests \ {r} : req'[p] = req[p]
      BY InsertReq DEF Becomes, Basis
    <3>2. QED
      BY <1>2, <3>1 DEF At, Evicting
  <2>2. Q \subseteq Evicting /\ \A q \in Q : At(q, "delete")
    BY <1>2, <1>b, <2>1 DEF At
  <2>3. Cardinality(Left(Q)) <= MaxActive + Cardinality(Evicting \ Q)
    BY <1>2, <1>b, <2>2 DEF Limits
  <2>4. Left(Q)' \subseteq Left(Q) \cup {s} /\ Left(Q) \subseteq Open
    BY <1>a, <2>1 DEF Left
  <2>5. Evicting' \ Q = (Evicting \ Q) \cup {r} /\ r \notin Evicting \ Q
    BY <1>b, <2>1
  <2>6. IsFiniteSet(Left(Q)) /\ IsFiniteSet(Evicting \ Q)
    BY <2>4, FS_Subset DEF Limits
  <2>7. /\ Cardinality(Left(Q)) \in Nat /\ Cardinality(Evicting \ Q) \in Nat
        /\ Cardinality(Evicting' \ Q) = Cardinality(Evicting \ Q) + 1
    BY <2>5, <2>6, FS_AddElement, FS_CardinalityType
  <2>8. /\ IsFiniteSet(Left(Q) \cup {s})
        /\ Cardinality(Left(Q) \cup {s}) \in Nat
        /\ Cardinality(Left(Q) \cup {s}) <= Cardinality(Left(Q)) + 1
    <3>1. PICK L : L = Left(Q)
      OBVIOUS
    <3>2. IsFiniteSet(L) /\ Cardinality(L) \in Nat
      BY <2>6, <2>7, <3>1
    <3>3. /\ IsFiniteSet(L \cup {s})
          /\ Cardinality(L \cup {s}) \in {Cardinality(L), Cardinality(L) + 1}
      BY <3>2, FS_AddElement
    <3>4. QED
      BY <3>1, <3>2, <3>3
  <2>9. /\ Cardinality(Left(Q)') \in Nat
        /\ Cardinality(Left(Q)') <= Cardinality(Left(Q) \cup {s})
    BY <2>4, <2>8, FS_Subset, FS_CardinalityType
  <2>10. QED
    BY <2>3, <2>7, <2>8, <2>9, BoundAssumption
<1>3. QED
  BY <1>1, <1>2 DEF Limits

\* Whoever looks for the surplus finds the whole of it.
LEMMA FindEvictedKeeps ==
  ASSUME Basis, Limits, NEW r \in Requests, FindEvicted(r)
  PROVE  Limits'
<1>a. /\ TypeOK /\ rows' = rows /\ ended' = ended /\ req[r].pc = "evict"
      /\ req[r] \in Request
  BY DEF Basis, FindEvicted, store, At, TypeOK
<1>b. PICK S \in SUBSET SessionIds :
        /\ BeyondLimit(S)
        /\ Goto(r, IF S = {} THEN [req[r] EXCEPT !.pc = "respond"]
                   ELSE [req[r] EXCEPT !.pc = "delete", !.ids = S, !.after = "respond"])
  BY DEF FindEvicted
<1>c. /\ Open' = Open /\ \A p \in Requests \ {r} : req'[p] = req[p]
      /\ Evicting' \subseteq Evicting /\ (S # {} => Evicting' = Evicting)
      /\ S = {} => r \notin Evicting'
      /\ S # {} => req'[r].ids = S
  <2>1. CASE S = {}
    <3>1. Becomes(r, "respond", req[r].tok, req[r].draft, req[r].out, req[r].ids, req[r].after,
                  req[r].must)
      BY <1>a, <1>b, <2>1, SetPc DEF Points
    <3>2. QED
      BY <1>a, <2>1, <3>1, EvictingAfter DEF Becomes, Open
  <2>2. CASE S # {}
    <3>1. Becomes(r, "delete", req[r].tok, req[r].draft, req[r].out, S, "respond", req[r].must)
      BY <1>a, <1>b, <2>2, SetIdsAfter DEF Points
    <3>2. /\ \A p \in Requests \ {r} : req'[p] = req[p]
          /\ req'[r].pc = "delete" /\ req'[r].out = req[r].out /\ req'[r].ids = S
      BY <3>1 DEF Becomes
    <3>3. Evicting' \ {r} = Evicting \ {r} /\ (r \in Evicting' <=> r \in Evicting)
      BY <1>a, <3>2, EvictingAfter
    <3>4. Evicting' = Evicting
      BY <3>3
    <3>5. QED
      BY <1>a, <2>2, <3>2, <3>4 DEF Open
  <2>3. QED
    BY <2>1, <2>2
<1>d. Cardinality(Open) \in Nat /\ IsFiniteSet(S) /\ Cardinality(S) \in Nat
  BY <1>b, FS_Subset, FS_CardinalityType DEF Limits, BeyondLimit
<1>1. IsFiniteSet(Open') /\ IsFiniteSet(Evicting')
  BY <1>c, FS_Subset DEF Limits
<1>2. ASSUME ~ended'.cut, NEW Q \in SUBSET Evicting', \A q \in Q : At(q, "delete")'
      PROVE  Cardinality(Left(Q)') <= MaxActive + Cardinality(Evicting' \ Q)
  <2>1. /\ Left(Q)' \subseteq Open /\ IsFiniteSet(Evicting' \ Q)
        /\ Cardinality(Evicting' \ Q) \in Nat
    BY <1>c, <1>1, FS_Subset, FS_CardinalityType DEF Left
  <2>2. /\ Cardinality(Left(Q)') \in Nat
        /\ Cardinality(Left(Q)') <= Cardinality(Open)
    BY <2>1, FS_Subset, FS_CardinalityType DEF Limits
  <2>3. CASE S = {}
    <3>1. Cardinality(Open) <= MaxActive
      BY <1>b, <1>d, <2>3, FS_EmptySet, BoundAssumption DEF BeyondLimit
    <3>2. QED
      BY <1>d, <2>1, <2>2, <3>1, BoundAssumption
  <2>4. CASE S # {} /\ r \in Q
    <3>1. Left(Q)' \subseteq Open \ S
      BY <1>c, <2>4 DEF Left
    <3>2. IsFiniteSet(Open \ S) /\ Cardinality(Open \ S) = Cardinality(Open) - Cardinality(S)
      <4>1. Open \cap S = S
        BY <1>b DEF BeyondLimit
      <4>2. QED
        BY <4>1, FS_Difference, ZenonT(30) DEF Limits
    <3>3. Cardinality(Open) = MaxActive + Cardinality(S)
      BY <1>b, <1>d, <2>4, FS_EmptySet DEF BeyondLimit
    <3>4. Cardinality(Left(Q)') <= Cardinality(Open \ S)
      BY <3>1, <3>2, FS_Subset
    <3>5. QED
      BY <1>d, <2>1, <2>2, <3>2, <3>3, <3>4, BoundAssumption
  <2>5. CASE S # {} /\ r \notin Q
    <3>1. Q \subseteq Evicting /\ \A q \in Q : req'[q] = req[q]
      BY <1>c, <2>5 DEF Evicting
    <3>2. Left(Q)' = Left(Q) /\ \A q \in Q : At(q, "delete")
      BY <1>2, <1>c, <3>1 DEF Left, At
    <3>3. QED
      BY <1>2, <1>a, <1>c, <2>5, <3>1, <3>2 DEF Limits
  <2>6. QED
    BY <2>3, <2>4, <2>5
<1>3. QED
  BY <1>1, <1>2 DEF Limits

\* Who has deleted it counts no longer.
LEMMA EvictionKeeps ==
  ASSUME Basis, [Next]_vars, Limits, NEW r \in Evicting, DeleteRows(r)
  PROVE  Limits'
<1>a. r \in Requests /\ TypeOK /\ rows' = Without(req[r].ids) /\ At(r, "delete")
  BY DEF Evicting, Basis, DeleteRows
<1>b. /\ \A p \in Requests \ {r} : req'[p] = req[p]
      /\ req'[r].pc = "revoke"
  BY <1>a, DeleteRowsReq DEF Becomes
<1>c. /\ Evicting' = Evicting \ {r}
      /\ Open' = {s \in Open : s \notin req[r].ids}
  BY <1>a, <1>b, EvictingAfter DEF Open, Without
<1>d. ended'.cut = ended.cut
  BY <1>a DEF DeleteRows, TypeOK
<1>1. IsFiniteSet(Open') /\ IsFiniteSet(Evicting')
  BY <1>c, FS_Subset DEF Limits
<1>2. ASSUME ~ended'.cut, NEW Q \in SUBSET Evicting', \A q \in Q : At(q, "delete")'
      PROVE  Cardinality(Left(Q)') <= MaxActive + Cardinality(Evicting' \ Q)
  <2>1. PICK P : P = Q \cup {r}
    OBVIOUS
  <2>2. \A q \in Q : q # r /\ req'[q] = req[q]
    BY <1>b, <1>c DEF Evicting
  <2>3. P \in SUBSET Evicting /\ \A q \in P : At(q, "delete")
    BY <1>2, <1>a, <1>c, <2>1, <2>2 DEF At
  <2>4. Left(Q)' = Left(P) /\ Evicting' \ Q = Evicting \ P
    BY <1>c, <2>1, <2>2 DEF Left
  <2>5. QED
    BY <1>2, <1>d, <2>3, <2>4 DEF Limits
<1>3. QED
  BY <1>1, <1>2 DEF Limits

LEMMA LimitsStep == Basis /\ Limits /\ [Next]_vars => Limits'
<1> SUFFICES ASSUME Basis, Limits, [Next]_vars PROVE Limits'
  OBVIOUS
<1>1. CASE UNCHANGED vars \/ Tick \/ Cleanup
  <2>1. req' = req /\ Open' \subseteq Open
    BY <1>1 DEF vars, store, Tick, Cleanup, Without, Open
  <2>2. ended'.cut = ended.cut
    BY <1>1 DEF vars, Tick, Cleanup, Basis, TypeOK
  <2>3. QED
    BY <2>1, <2>2, RemovesKeeps DEF Removes, Evicting
<1>2. ASSUME NEW r \in Requests, Step(r) PROVE Limits'
  <2>1. CASE Insert(r)
    BY <2>1, InsertKeeps
  <2>2. CASE FindEvicted(r)
    BY <2>2, FindEvictedKeeps
  <2>3. CASE r \in Evicting /\ DeleteRows(r)
    BY <2>3, EvictionKeeps
  <2>4. CASE r \in Evicting /\ Abandon(r)
    <3>1. ended'.cut
      BY <2>4 DEF Abandon, Basis, TypeOK
    <3>2. Open' = Open /\ Evicting' \subseteq Evicting
      BY <1>2, <2>4, ReqType DEF Abandon, store, Open, Evicting
    <3>3. QED
      BY <3>1, <3>2, FS_Subset DEF Limits
  <2>5. CASE r \notin Evicting /\ ~Insert(r)
    <3>1. Evicting' = Evicting /\ \A q \in Evicting : req'[q] = req[q]
      BY <1>2, <2>5, ReqType, NoNewEvicting DEF Evicting
    <3>2. Open' \subseteq Open
      BY <1>2, <2>5, OneOpens DEF Basis
    <3>3. ended'.cut = ended.cut
      BY <1>2, <2>5, OneCuts
    <3>4. QED
      BY <3>1, <3>2, <3>3, RemovesKeeps DEF Removes
  <2>6. r \in Evicting => FindEvicted(r) \/ DeleteRows(r) \/ Abandon(r)
    <3>1. r \in Evicting => req[r].pc \in {"evict", "delete"}
      BY DEF Evicting
    <3>2. QED
      BY <1>2, <3>1 DEF Step, At, LogIn, Refresh, Issue, Insert, Rotate, Respond, Terminate,
         SignOut, TerminateOthers, SignOutAll, SavePassword, FindAll, Revoke, RevokeSelf,
         DeleteUser, MarkUser
  <2>7. QED
    BY <2>1, <2>2, <2>3, <2>4, <2>5, <2>6
<1>3. QED
  BY <1>1, <1>2 DEF Next

\* No more sessions are open than the limit allows and logins have yet to evict
\* (TokenService: create, then findIdsBeyondLimit and terminate).
THEOREM LimitKeptHolds == Spec => []LimitKept
<1>1. Init => Limits
  <2>1. SUFFICES ASSUME Init PROVE Limits
    OBVIOUS
  <2>2. Open = {} /\ Evicting = {}
    <3>1. /\ \A s \in SessionIds : rows[s] = NoRow
          /\ \A r \in Requests : req[r] = Idle
      BY <2>1 DEF Init
    <3>2. QED
      BY <3>1, IdleFields DEF Open, Evicting
  <2>3. \A Q : Left(Q) = {}
    BY <2>2 DEF Left
  <2>4. QED
    BY <2>2, <2>3, FS_EmptySet, BoundAssumption DEF Limits
<1>2. Limits => LimitKept
  <2>1. SUFFICES ASSUME Limits, ~ended.cut
                 PROVE  Cardinality(Open) <= MaxActive + Cardinality(Evicting)
    BY DEF LimitKept
  <2>2. Left({}) = Open /\ Evicting \ {} = Evicting
    BY DEF Left
  <2>3. {} \in SUBSET Evicting /\ \A q \in {} : At(q, "delete")
    OBVIOUS
  <2>4. QED
    BY <2>1, <2>2, <2>3 DEF Limits
<1>3. QED
  BY <1>1, <1>2, LimitsStep, BasisHolds, PTL DEF Spec
=============================================================================

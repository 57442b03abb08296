------------------------------ MODULE Sessions ------------------------------
(***************************************************************************)
(* Device sessions of one user: opening a session at login, the rotation   *)
(* of its refresh token, its termination with the revocation of its access *)
(* tokens, the changes of the user that touch the sessions (password,      *)
(* privileges, deletion) and the cleanup job.                              *)
(*                                                                         *)
(* A request is an HTTP request being served by some replica.  It runs     *)
(* without interruption between two awaits, so every action below is one   *)
(* stretch of code from an await to the next, with at most one effect on   *)
(* the database or on the revocation marks.                                *)
(*                                                                         *)
(* Sessions of different users share nothing, so one user is enough.  The  *)
(* marks are the linearizable store behind SessionRevocationList (Redis,   *)
(* or the memory of a single replica); its cache is the matter of module   *)
(* RevocationList.                                                         *)
(***************************************************************************)
EXTENDS Naturals, FiniteSets

CONSTANTS
  Requests,     \* requests served concurrently
  SessionIds,   \* identifiers a login may draw
  Tokens,       \* token pairs (access + refresh) that may be stored
  MaxActive,    \* MAX_ACTIVE_SESSIONS
  AccessTtl,    \* life of an access token, in ticks
  MarkTtl,      \* life of a revocation mark, in ticks
  RefreshTtl,   \* life of a refresh token, in ticks
  MaxTime,      \* bound of the clock
  None          \* no token

ASSUME NoneAssumption == None \notin Tokens

ASSUME TtlAssumption ==
  /\ AccessTtl \in Nat /\ MarkTtl \in Nat /\ RefreshTtl \in Nat
  /\ AccessTtl <= MarkTtl      \* accessTokenTtlMs() covers config accessTtl

ASSUME BoundAssumption == MaxActive \in Nat \ {0} /\ MaxTime \in Nat

VARIABLES
  now,        \* the clock
  alive,      \* does the row of the user exist
  rows,       \* table sessions
  pairs,      \* what is signed into each pair whose hash was stored
  held,       \* pairs a client has received
  marks,      \* revoked:session:<id>, the instant each mark expires
  userMark,   \* revoked:user:<id>
  req,        \* the state of every request
  ended       \* history: what has been promised about sessions, see Init

vars == <<now, alive, rows, pairs, held, marks, userMark, req, ended>>

store == <<alive, rows, pairs, held>>
allMarks == <<marks, userMark>>

-----------------------------------------------------------------------------
(* Data *)

Row == [refresh : Tokens, expiresAt : Nat, createdAt : Nat]

NoRow == [refresh |-> None, expiresAt |-> 0, createdAt |-> 0]

Unsigned == [state |-> "unsigned"]

\* "pat" is the issue time in the payload, "from" the refresh token presented
\* to obtain the pair (None at login).
Pair == [state : {"signed"}, sid : SessionIds, pat : Nat, from : Tokens \cup {None}]

\* A mark that compares the time of issue: the instant and its own expiry.
Mark == [at : Nat, until : Nat]

\* idle: nothing started.  A request then waits for: issue the read of the
\* user, insert / rotate the signature of the new pair, evict the INSERT,
\* findAll the save of a password, delete the SELECT of the sessions to end,
\* revoke their DELETE, revokeSelf / respond what precedes them, markUser the
\* deletion of the user.
Points == {"idle", "issue", "insert", "evict", "rotate", "findAll", "delete",
           "revoke", "revokeSelf", "respond", "markUser"}

\* tok: the pair the caller presents; draft: the pair signed and not yet
\* stored; out: the pair to answer with; ids: the sessions to terminate; after:
\* where to go on once they are; must: the sessions open when a new password
\* was saved (for the properties).
Request == [pc : Points, tok : Tokens \cup {None},
            draft : Pair \cup {Unsigned}, out : Tokens \cup {None},
            ids : SUBSET SessionIds, after : {"idle", "respond", "revokeSelf"},
            must : SUBSET SessionIds]

Idle == [pc |-> "idle", tok |-> None, draft |-> Unsigned,
         out |-> None, ids |-> {}, after |-> "idle", must |-> {}]

At(r, pc) == req[r].pc = pc

Goto(r, state) == req' = [req EXCEPT ![r] = state]

Open == {s \in SessionIds : rows[s] # NoRow}

Stored == {t \in Tokens : pairs[t] # Unsigned}

\* A pair that was never stored (the refresh token carries a fresh jti).
NewToken == CHOOSE t \in Tokens : t \notin Stored

\* A session identifier is a fresh UUID: never one that was drawn before.
Drawn == {pairs[t].sid : t \in Stored}
           \cup {req[r].draft.sid : r \in {q \in Requests : req[q].draft # Unsigned}}

NewSession == CHOOSE s \in SessionIds : s \notin Drawn

\* Rows without those of S.
Without(S) == [s \in SessionIds |-> IF s \in S THEN NoRow ELSE rows[s]]

Sid(t) == pairs[t].sid

(* What verifyAccess answers for the access token of a pair. *)

NotExpired(t) == now < pairs[t].pat + AccessTtl

SessionRevoked(t) == now < marks[Sid(t)]

\* Slip: a token signed in the second of the mark passes.
UserRevokedBefore(t) == now < userMark.until /\ pairs[t].pat < userMark.at

UserRevoked(t) == now < userMark.until /\ pairs[t].pat <= userMark.at

Accepted(t) ==
  /\ NotExpired(t)
  /\ ~SessionRevoked(t)
  /\ ~UserRevoked(t)

-----------------------------------------------------------------------------
(* Initial state.  "ended" is history, read by the properties only: the    *)
(* instant the row of a session was removed, and whether a login was cut   *)
(* short between its INSERT and its eviction.                              *)

Init ==
  /\ now = 0
  /\ alive = TRUE
  /\ rows = [s \in SessionIds |-> NoRow]
  /\ pairs = [t \in Tokens |-> Unsigned]
  /\ held = {}
  /\ marks = [s \in SessionIds |-> 0]
  /\ userMark = [at |-> 0, until |-> 0]
  /\ req = [r \in Requests |-> Idle]
  /\ ended = [at |-> [s \in SessionIds |-> 0], cut |-> FALSE]

\* Requests that have added a session and not yet evicted the surplus.
Evicting == {r \in Requests : req[r].out # None /\ req[r].pc \in {"evict", "delete"}}

\* Any await may be the last one: the replica dies, or a query throws.
Abandon(r) ==
  /\ ~At(r, "idle")
  /\ Goto(r, Idle)
  /\ ended' = [ended EXCEPT !.cut = @ \/ r \in Evicting]
  /\ UNCHANGED <<now, store, allMarks>>

Tick ==
  /\ now < MaxTime
  /\ now' = now + 1
  /\ UNCHANGED <<store, allMarks, req, ended>>

-----------------------------------------------------------------------------
(* Opening and refreshing a session *)

\* signIn: the user row is read (_findUser) and the password accepted.
LogIn(r) ==
  /\ At(r, "idle")
  /\ alive
  /\ Goto(r, [Idle EXCEPT !.pc = "issue"])
  /\ UNCHANGED <<now, store, allMarks, ended>>

\* updateTokens up to getUser.  verifyRefresh saw the token unexpired, at most
\* a tick before the session is read.  An expired session, or a token that is
\* not its current one, ends the session.  The row and the user are read
\* together: a row that changes between the two reads fails the rotation.
Refresh(r) ==
  /\ At(r, "idle")
  /\ \E t \in held :
       /\ now <= pairs[t].pat + RefreshTtl
       /\ rows[Sid(t)] # NoRow
       /\ LET row == rows[Sid(t)] IN
          IF row.expiresAt <= now \/ row.refresh # t
          THEN Goto(r, [Idle EXCEPT !.pc = "delete", !.ids = {Sid(t)}])
          ELSE /\ alive
               /\ Goto(r, [Idle EXCEPT !.pc = "issue", !.tok = t])
  /\ UNCHANGED <<now, store, allMarks, ended>>

\* TokenService.issue: pat is the clock at the call, the privileges are those
\* read before; a login draws a session.
Issue(r) ==
  /\ At(r, "issue")
  /\ req[r].tok = None => Drawn # SessionIds
  /\ LET s == IF req[r].tok = None THEN NewSession ELSE Sid(req[r].tok) IN
       req' = [req EXCEPT
            ![r].pc = IF req[r].tok = None THEN "insert" ELSE "rotate",
            ![r].draft = [state |-> "signed", sid |-> s, pat |-> now,
                          from |-> req[r].tok]]
  /\ UNCHANGED <<now, store, allMarks, ended>>

\* createAndSave; the foreign key refuses the row of a deleted user.
Insert(r) ==
  /\ At(r, "insert")
  /\ alive
  /\ Stored # Tokens
  /\ LET draft == req[r].draft
         t == NewToken
     IN
       /\ pairs' = [pairs EXCEPT ![t] = draft]
       /\ rows' = [rows EXCEPT ![draft.sid] =
                     [refresh |-> t, expiresAt |-> draft.pat + RefreshTtl,
                      createdAt |-> now]]
       /\ Goto(r, [Idle EXCEPT !.pc = "evict", !.out = t])
  /\ UNCHANGED <<now, alive, held, allMarks, ended>>

\* Slip: one session too many is kept.
BeyondLimitByTwo(S) ==
  /\ S \subseteq Open
  /\ IF Cardinality(Open) <= MaxActive + 1
     THEN S = {}
     ELSE Cardinality(Open) = MaxActive + 1 + Cardinality(S)

\* findIdsBeyondLimit: all but the MaxActive newest; rows created in the same
\* instant come in any order.
BeyondLimit(S) ==
  /\ S \subseteq Open
  /\ IF Cardinality(Open) <= MaxActive
     THEN S = {}
     ELSE Cardinality(Open) = MaxActive + Cardinality(S)
  /\ \A s \in S, k \in Open \ S : rows[s].createdAt <= rows[k].createdAt

FindEvicted(r) ==
  /\ At(r, "evict")
  /\ \E S \in SUBSET SessionIds :
       /\ BeyondLimit(S)
       /\ Goto(r, IF S = {} THEN [req[r] EXCEPT !.pc = "respond"]
                  ELSE [req[r] EXCEPT !.pc = "delete", !.ids = S, !.after = "respond"])
  /\ UNCHANGED <<now, store, allMarks, ended>>

\* The WHERE of the rotation: id AND refresh_token_hash = old.
\* Slips: the hash is not compared; the entity is saved, row or no row.
MatchesById(s, t) == rows[s] # NoRow

MatchesOrGone(s, t) == rows[s].refresh \in {t, None}

Matches(s, t) == rows[s].refresh = t

RotateWon(r) ==
  LET draft == req[r].draft
      t == NewToken
  IN /\ Matches(draft.sid, req[r].tok)
     /\ Stored # Tokens
     /\ pairs' = [pairs EXCEPT ![t] = draft]
     /\ rows' = [rows EXCEPT ![draft.sid].refresh = t,
                             ![draft.sid].expiresAt = draft.pat + RefreshTtl]
     /\ Goto(r, [Idle EXCEPT !.pc = "respond", !.out = t])

\* Slip: "affected" is not looked at.
RotateUnnoticed(r) ==
  LET t == NewToken IN
  /\ ~Matches(req[r].draft.sid, req[r].tok)
  /\ Stored # Tokens
  /\ pairs' = [pairs EXCEPT ![t] = req[r].draft]
  /\ Goto(r, [Idle EXCEPT !.pc = "respond", !.out = t])
  /\ UNCHANGED rows

\* No row matched: the token was rotated meanwhile or the session is gone.  It
\* is ended, as after a theft.
RotateLost(r) ==
  /\ ~Matches(req[r].draft.sid, req[r].tok)
  /\ Goto(r, [Idle EXCEPT !.pc = "delete", !.ids = {req[r].draft.sid}])
  /\ UNCHANGED <<rows, pairs>>

Rotate(r) ==
  /\ At(r, "rotate")
  /\ RotateWon(r) \/ RotateLost(r)
  /\ UNCHANGED <<now, alive, held, allMarks, ended>>

\* The response reaches the client.
Respond(r) ==
  /\ At(r, "respond")
  /\ held' = held \cup {req[r].out}
  /\ Goto(r, Idle)
  /\ UNCHANGED <<now, alive, rows, pairs, allMarks, ended>>

-----------------------------------------------------------------------------
(* Ending sessions.  The caller's access token was accepted when his       *)
(* request arrived: it is one he holds.                                    *)

\* terminateSession for DELETE /session/{id}; a session not found is a 404.
Terminate(r) ==
  /\ At(r, "idle")
  /\ \E s \in Open : Goto(r, [Idle EXCEPT !.pc = "delete", !.ids = {s}])
  /\ UNCHANGED <<now, store, allMarks, ended>>

\* signOut: terminateSession, its 404 turned into the revocation of the
\* caller's token.
SignOut(r) ==
  /\ At(r, "idle")
  /\ \E t \in held :
       Goto(r, IF Sid(t) \in Open
               THEN [Idle EXCEPT !.pc = "delete", !.ids = {Sid(t)}]
               ELSE [Idle EXCEPT !.pc = "revokeSelf", !.tok = t])
  /\ UNCHANGED <<now, store, allMarks, ended>>

\* POST /session/terminate-others: terminateAllByUser but the current session.
TerminateOthers(r) ==
  /\ At(r, "idle")
  /\ \E t \in held :
       /\ Open \ {Sid(t)} # {}
       /\ Goto(r, [Idle EXCEPT !.pc = "delete", !.ids = Open \ {Sid(t)}])
  /\ UNCHANGED <<now, store, allMarks, ended>>

\* signOutAll: every session, then the caller's token whatever was found.
SignOutAll(r) ==
  /\ At(r, "idle")
  /\ \E t \in held :
       Goto(r, IF Open = {}
               THEN [Idle EXCEPT !.pc = "revokeSelf", !.tok = t]
               ELSE [Idle EXCEPT !.pc = "delete", !.ids = Open, !.tok = t,
                                 !.after = "revokeSelf"])
  /\ UNCHANGED <<now, store, allMarks, ended>>

\* The new password is saved and PasswordChangedEvent awaited: by its owner,
\* sparing the current session, or by a reset token, sparing none.
SavePassword(r) ==
  /\ At(r, "idle")
  /\ alive
  /\ \E t \in held \cup {None} :
       Goto(r, [Idle EXCEPT !.pc = "findAll", !.tok = t,
                            !.must = IF t = None THEN Open ELSE Open \ {Sid(t)}])
  /\ UNCHANGED <<now, store, allMarks, ended>>

Spared(r) == IF req[r].tok = None THEN {} ELSE {Sid(req[r].tok)}

\* Slip: the query of the session list, which skips the expired ones.
ToTerminateActive(r) == {s \in Open : rows[s].expiresAt > now} \ Spared(r)

ToTerminate(r) == Open \ Spared(r)

\* terminateAllByUser(userId, currentSessionId), "password-changed".
FindAll(r) ==
  /\ At(r, "findAll")
  /\ Goto(r, IF ToTerminate(r) = {} THEN Idle
             ELSE [Idle EXCEPT !.pc = "delete", !.ids = ToTerminate(r),
                               !.must = req[r].must])
  /\ UNCHANGED <<now, store, allMarks, ended>>

\* The instant the rows of S disappear.
Removed(S) ==
  [s \in SessionIds |-> IF s \in S \cap Open THEN now ELSE ended.at[s]]

\* _terminate: the rows first.
DeleteRows(r) ==
  /\ At(r, "delete")
  /\ rows' = Without(req[r].ids)
  /\ ended' = [ended EXCEPT !.at = Removed(req[r].ids)]
  /\ req' = [req EXCEPT ![r].pc = "revoke"]
  /\ UNCHANGED <<now, alive, pairs, held, allMarks>>

\* Slip: the life of the mark is that of a configuration the parser misreads.
MarkedBriefly(S) == [s \in SessionIds |-> IF s \in S THEN now ELSE marks[s]]

Marked(S) == [s \in SessionIds |-> IF s \in S THEN now + MarkTtl ELSE marks[s]]

\* _terminate: the marks, a failure of which is only logged.
Revoke(r) ==
  /\ At(r, "revoke")
  /\ \/ marks' = Marked(req[r].ids)
     \/ UNCHANGED marks
  /\ Goto(r, [req[r] EXCEPT !.pc = req[r].after, !.ids = {}, !.after = "idle",
                            !.must = {}])
  /\ UNCHANGED <<now, store, userMark, ended>>

\* revokeSessions([caller.sessionId])
RevokeSelf(r) ==
  /\ At(r, "revokeSelf")
  /\ marks' = Marked({Sid(req[r].tok)})
  /\ Goto(r, Idle)
  /\ UNCHANGED <<now, store, userMark, ended>>

\* SessionCleanupJob: one DELETE, no event.
Cleanup ==
  LET expired == {s \in Open : rows[s].expiresAt <= now} IN
  /\ expired # {}
  /\ rows' = Without(expired)
  /\ ended' = [ended EXCEPT !.at = Removed(expired)]
  /\ UNCHANGED <<now, alive, pairs, held, allMarks, req>>

-----------------------------------------------------------------------------
(* Changes of the user *)

\* DELETE of the user row: the sessions go with it (ON DELETE CASCADE).
DeleteUser(r) ==
  /\ At(r, "idle")
  /\ alive
  /\ alive' = FALSE
  /\ rows' = Without(SessionIds)
  /\ ended' = [ended EXCEPT !.at = Removed(SessionIds)]
  /\ Goto(r, [Idle EXCEPT !.pc = "markUser"])
  /\ UNCHANGED <<now, pairs, held, allMarks>>

\* The listener revokes his tokens; a failure of it is only logged, and the
\* deletion is answered.
MarkUser(r) ==
  /\ At(r, "markUser")
  /\ \/ userMark' = [at |-> now, until |-> now + MarkTtl]
     \/ UNCHANGED userMark
  /\ Goto(r, Idle)
  /\ UNCHANGED <<now, store, marks, ended>>

-----------------------------------------------------------------------------

Step(r) ==
  \/ LogIn(r) \/ Refresh(r) \/ Issue(r) \/ Insert(r) \/ FindEvicted(r)
  \/ Rotate(r) \/ Respond(r)
  \/ Terminate(r) \/ SignOut(r) \/ TerminateOthers(r) \/ SignOutAll(r)
  \/ SavePassword(r) \/ FindAll(r) \/ DeleteRows(r) \/ Revoke(r) \/ RevokeSelf(r)
  \/ DeleteUser(r) \/ MarkUser(r)
  \/ Abandon(r)

Next == Tick \/ Cleanup \/ \E r \in Requests : Step(r)

Spec == Init /\ [][Next]_vars

-----------------------------------------------------------------------------
(* Properties *)

TypeOK ==
  /\ now \in Nat
  /\ alive \in BOOLEAN
  /\ rows \in [SessionIds -> Row \cup {NoRow}]
  /\ pairs \in [Tokens -> Pair \cup {Unsigned}]
  /\ held \subseteq Tokens
  /\ marks \in [SessionIds -> Nat]
  /\ userMark \in Mark
  /\ req \in [Requests -> Request]
  /\ ended \in [at : [SessionIds -> Nat], cut : BOOLEAN]

\* A refresh token buys at most one new pair, however many requests present it
\* at once (rotateRefreshToken is a compare-and-set on the stored hash).
ExchangedOnce ==
  \A t, u \in held :
    pairs[t].from = pairs[u].from /\ pairs[t].from # None => t = u

\* Once the mark of an ended session is written, no access token a client holds
\* for it is accepted, at any later time: the mark outlives every token, and a
\* refresh under way delivers none with a later expiry, because _terminate
\* deletes the row before it writes the mark and the rotation needs the row.
EndedTokensRejected ==
  \A t \in held : marks[Sid(t)] # 0 => ~Accepted(t)

\* When the mark is missing (store down, crash between the DELETE and the mark,
\* cleanup) what bounds the life of the access tokens is that a client never
\* holds one signed after the row of its session disappeared.
NothingSignedAfterEnd ==
  \A t \in held : rows[Sid(t)] = NoRow => pairs[t].pat <= ended.at[Sid(t)]

\* Once the mark of a deleted user is written, none of the access tokens a client
\* holds for him is accepted, then or later: not those of requests that had read
\* him before the DELETE and signed before or after it.  (The deletion is answered
\* without the mark as well, when its write fails: see MarkUser.)
DeletedUserRejected ==
  userMark.until # 0 => \A t \in held : ~Accepted(t)

\* When the DELETE that a change of password awaits is through, the sessions that
\* were open when the new password was saved are closed, those rotated or evicted
\* meanwhile included.  (A DELETE that fails is logged by the listener, and the
\* change is answered all the same: that is a step of Abandon.)
PasswordEndsSessions ==
  \A r \in Requests : At(r, "revoke") => \A s \in req[r].must : rows[s] = NoRow

\* The limit of active sessions is exceeded only by logins that are about to
\* evict, as long as none of them is cut short.
LimitKept ==
  ~ended.cut => Cardinality(Open) <= MaxActive + Cardinality(Evicting)

\* A session that has ended is never opened again: no refresh, eviction or late
\* insert brings back the row of a session whose token was delivered.
NoResurrection ==
  [][\A t \in held : rows[Sid(t)] = NoRow => rows'[Sid(t)] = NoRow]_vars

=============================================================================

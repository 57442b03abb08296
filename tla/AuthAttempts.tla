---------------------------- MODULE AuthAttempts ----------------------------
(***************************************************************************)
(* Attempts at one account: login with its counting of failures and its    *)
(* lock, the second factor with its one-time token, the reset of the       *)
(* password by a mailed token, the change of the password by its owner.    *)
(*                                                                         *)
(* The counters, the lock and the spent tokens are keys of the attempts    *)
(* store (Redis), the rest are rows of the database; there is no           *)
(* transaction over both, or over two statements.  A request is one call,  *)
(* interrupted at its awaits; hashing a password is slow, so much may      *)
(* happen between the read of a user and the use of what was read.         *)
(***************************************************************************)
EXTENDS Naturals

CONSTANTS
  Requests,        \* one call each
  First,           \* a session that may be open at the start
  None,            \* no request, no end
  MaxFailures,     \* LOGIN_MAX_FAILURES and TWO_FACTOR_MAX_FAILURES
  Window,          \* LOGIN_FAILURE_WINDOW_MS and TWO_FACTOR_LOCK_MS
  LockTime,        \* LOGIN_LOCK_MS
  TwoFactorTtl,    \* TWO_FACTOR_TOKEN_TTL
  ClaimAtLeast,    \* the second for which a spent token is kept at least
  ResetTtl,        \* resetPassword.expireMinutes
  Cooldown,        \* RESET_RESEND_COOLDOWN_MS
  MaxTime          \* bound of the clock

ASSUME NamesAssumption ==
  None \notin Requests \cup {First} \cup Nat /\ First \notin Requests

ASSUME TimesAssumption ==
  /\ {Window, LockTime, TwoFactorTtl, ClaimAtLeast, ResetTtl, MaxFailures}
       \subseteq Nat \ {0}
  /\ {Cooldown, MaxTime} \subseteq Nat

VARIABLES
  now,        \* the clock
  user,       \* the row of the user
  fails,      \* counters login:fail:<user> and 2fa:fail:<user>
  lock,       \* the instant login:lock:<user> expires, 0 if there is none
  issued,     \* the expiry of the 2FA token of each login, 0 if it got none
  spent,      \* 2fa:jti:<token>, the instant each expires, 0 if there is none
  reset,      \* the row of reset_password_tokens
  sessions,   \* the version of the password each session was opened with
  req,        \* the state of every request
  past        \* history, for the properties

vars == <<now, user, fails, lock, issued, spent, reset, sessions, req, past>>

attempts == <<fails, lock, spent>>
tables == <<user, reset, sessions>>

-----------------------------------------------------------------------------
(* Data *)

Keys == {"login", "2fa"}

SessionIds == Requests \cup {First}

\* A counter that expires at "until"; None if it was given no time to live.
Counter == [n : Nat, until : Nat \cup {None}]

NoFailures == [n |-> 0, until |-> None]

\* A token of a login or of a mail is named after the request that made it.
ResetRow == [token : Requests \cup {None}, issuedAt : Nat, expiresAt : Nat]

NoReset == [token |-> None, issuedAt |-> 0, expiresAt |-> 0]

\* A request waits for what its pc names.
Points == {"idle", "done",
           "status", "count", "expire", "lock", "clear", "forget", "open",  \* login
           "user2fa", "claim",                                             \* 2FA
           "upsert", "check", "consume",                                   \* reset
           "drop2fa", "set", "unlockFails", "unlock", "end",
           "enable", "disable", "save"}                                    \* settings

\* key, failures: the counter in use and the value it answered; password,
\* twoFactor: the user as read; token: the one-time token presented; deadline: the expiry of a reset token as read;
\* wonAt: when the token was accepted; caller: the session of the caller.
Request == [pc : Points, key : Keys, failures : Nat,
            password : Nat, twoFactor : BOOLEAN, token : Requests \cup {None},
            wonAt : Nat \cup {None}, deadline : Nat,
            caller : SessionIds \cup {None}]

Idle == [pc |-> "idle", key |-> "login", failures |-> 0,
         password |-> 0, twoFactor |-> FALSE, token |-> None, wonAt |-> None,
         deadline |-> 0, caller |-> None]

At(r, pc) == req[r].pc = pc

Goto(r, pc) == req' = [req EXCEPT ![r].pc = pc]

InFlight == {r \in Requests : req[r].pc \notin {"idle", "done"}}

Open == {s \in SessionIds : sessions[s] # 0}

Locked == now < lock

Init ==
  /\ now = 0
  /\ user \in [password : {1}, twoFactor : BOOLEAN]
  /\ fails = [k \in Keys |-> NoFailures]
  /\ lock = 0
  /\ issued = [r \in Requests |-> 0]
  /\ spent = [r \in Requests |-> 0]
  /\ reset = NoReset
  /\ sessions \in {[s \in SessionIds |-> 0],
                   [s \in SessionIds |-> IF s = First THEN 1 ELSE 0]}
  /\ req = [r \in Requests |-> Idle]
  /\ past = [lost |-> [k \in Keys |-> FALSE], unended |-> FALSE, excused |-> {}]

-----------------------------------------------------------------------------
(* Counters and lock *)

\* Slip: the last failure allowed does not lock.
BeyondLimit(n) == n > MaxFailures

AtLimit(n) == n >= MaxFailures

\* What follows a counted failure: for a login the lock, when the limit is
\* reached; a 2FA counter at its limit is the lock.
AfterCount(key, n) == IF key = "login" /\ AtLimit(n) THEN "lock" ELSE "done"

\* Slip: only the first failure gives the counter its end.
NeedsEndAtFirst(counter) == counter.n = 0

\* PTTL answers a negative number (of the key just counted up).
NeedsEnd(counter) == counter.until = None

\* MULTI INCR PTTL: count a failure.
AddFailure(r) ==
  LET k == req[r].key
      n == fails[k].n + 1
  IN  /\ At(r, "count")
      /\ fails' = [fails EXCEPT ![k].n = n]
      /\ req' = [req EXCEPT ![r].failures = n,
                            ![r].pc = IF NeedsEnd(fails[k]) THEN "expire"
                                      ELSE AfterCount(k, n)]
      /\ past' = [past EXCEPT !.lost[k] = FALSE]
      /\ UNCHANGED <<now, user, lock, issued, spent, reset, sessions>>

\* PEXPIRE does nothing to a key that was deleted.
Ended(counter) ==
  IF counter.n = 0 THEN counter ELSE [counter EXCEPT !.until = now + Window]

SetEnd(r) ==
  LET k == req[r].key IN
    /\ At(r, "expire")
    /\ fails' = [fails EXCEPT ![k] = Ended(@)]
    /\ Goto(r, AfterCount(k, req[r].failures))
    /\ UNCHANGED <<now, user, lock, issued, spent, reset, sessions, past>>

\* SET NX PX of the lock: one that is there is not extended.
Lock(r) ==
  /\ At(r, "lock")
  /\ lock' = IF Locked THEN lock ELSE now + LockTime
  /\ Goto(r, "clear")
  /\ UNCHANGED <<now, user, fails, issued, spent, reset, sessions, past>>

\* DEL of the counter, once locked.
Clear(r) ==
  /\ At(r, "clear")
  /\ fails' = [fails EXCEPT !["login"] = NoFailures]
  /\ Goto(r, "done")
  /\ UNCHANGED <<now, user, lock, issued, spent, reset, sessions, past>>

-----------------------------------------------------------------------------
(* Login *)

\* signIn reads the user, which decides what password is right.
SignIn(r) ==
  /\ At(r, "idle")
  /\ req' = [req EXCEPT ![r] = [@ EXCEPT
               !.pc = "status",
               !.password = user.password, !.twoFactor = user.twoFactor]]
  /\ UNCHANGED <<now, attempts, issued, tables, past>>

\* The lock is read, then the password hashed and compared.
Status(r) ==
  /\ At(r, "status")
  /\ IF Locked THEN Goto(r, "done")
     ELSE \E pc \in {"forget", "count"} : Goto(r, pc)
  /\ UNCHANGED <<now, attempts, issued, tables, past>>

\* The password was right, or the second factor: DEL of the counter; with 2FA
\* a login gets a token for the second step.
Forget(r) ==
  LET k == req[r].key
      second == k = "login" /\ req[r].twoFactor
  IN  /\ At(r, "forget")
      /\ fails' = [fails EXCEPT ![k] = NoFailures]
      /\ issued' = IF second THEN [issued EXCEPT ![r] = now + TwoFactorTtl]
                   ELSE issued
      /\ Goto(r, IF second THEN "done" ELSE "open")
      /\ UNCHANGED <<now, user, lock, spent, reset, sessions, past>>

\* _logIn: the INSERT of the session.
OpenSession(r) ==
  /\ At(r, "open")
  /\ sessions' = [sessions EXCEPT ![r] = req[r].password]
  /\ Goto(r, "done")
  /\ UNCHANGED <<now, user, attempts, issued, reset, past>>

\* verify2FA with the token of login t, which must not have expired, and the
\* counter of the second step, which must be below its limit.
Verify2FA(r, t) ==
  /\ At(r, "idle") /\ now < issued[t]
  /\ req' = [req EXCEPT ![r] = [@ EXCEPT
               !.pc = IF AtLimit(fails["2fa"].n) THEN "done" ELSE "user2fa",
               !.key = "2fa", !.token = t, !.password = req[t].password]]
  /\ UNCHANGED <<now, attempts, issued, tables, past>>

\* The user is read, and the 2FA password compared.
Compare2FA(r) ==
  /\ At(r, "user2fa")
  /\ IF user.twoFactor THEN \E pc \in {"count", "claim"} : Goto(r, pc)
     ELSE Goto(r, "done")
  /\ UNCHANGED <<now, attempts, issued, tables, past>>

Later(a, b) == IF a < b THEN b ELSE a

\* Slip: the token is remembered for the least time.
SpentBriefly(t) == now + ClaimAtLeast

\* Until when an accepted token is remembered.
SpentUntil(t) == Later(issued[t], now + ClaimAtLeast)

\* claimOnce: SET NX PX.
Claim(r) ==
  LET t == req[r].token IN
    /\ At(r, "claim")
    /\ IF now < spent[t]
       THEN Goto(r, "done") /\ UNCHANGED spent
       ELSE /\ spent' = [spent EXCEPT ![t] = SpentUntil(t)]
            /\ req' = [req EXCEPT ![r].pc = "forget", ![r].wonAt = now]
    /\ UNCHANGED <<now, fails, lock, issued, tables, past>>

-----------------------------------------------------------------------------
(* Reset of the password *)

\* requestResetPassword, in the background: not again within the cooldown.
RequestReset(r) ==
  /\ At(r, "idle")
  /\ Goto(r, IF reset # NoReset /\ now < reset.issuedAt + Cooldown
             THEN "done" ELSE "upsert")
  /\ UNCHANGED <<now, attempts, issued, tables, past>>

\* A new token takes the place of the previous one and is mailed.
Upsert(r) ==
  /\ At(r, "upsert")
  /\ reset' = [token |-> r, issuedAt |-> now, expiresAt |-> now + ResetTtl]
  /\ Goto(r, "done")
  /\ UNCHANGED <<now, user, attempts, issued, sessions, past>>

\* resetPassword peeks at the token.
Peek(r) ==
  /\ At(r, "idle") /\ reset # NoReset /\ now < reset.expiresAt
  /\ req' = [req EXCEPT ![r].pc = "check", ![r].token = reset.token]
  /\ UNCHANGED <<now, attempts, issued, tables, past>>

\* check finds the row again.
Check(r) ==
  /\ At(r, "check")
  /\ IF reset.token = req[r].token
     THEN req' = [req EXCEPT ![r].pc = "consume",
                             ![r].deadline = reset.expiresAt]
     ELSE Goto(r, "done")
  /\ UNCHANGED <<now, attempts, issued, tables, past>>

\* Slip: whoever found the row goes on, whether or not it deletes it.
FoundIt(r) == At(r, "consume")

\* The DELETE by user and hash affects a row.
Affected(r) == reset.token = req[r].token

\* The DELETE; an expired token is gone and refused.
Consume(r) ==
  /\ At(r, "consume")
  /\ reset' = IF reset.token = req[r].token THEN NoReset ELSE reset
  /\ IF Affected(r) /\ now < req[r].deadline
     THEN req' = [req EXCEPT ![r].pc = "drop2fa", ![r].wonAt = now]
     ELSE Goto(r, "done")
  /\ UNCHANGED <<now, user, attempts, issued, sessions, past>>

-----------------------------------------------------------------------------
(* The row of the user *)

\* update2FA to none: the next step of a reset, the last one of disable2FA.
Drop2FA(r) ==
  /\ req[r].pc \in {"drop2fa", "disable"}
  /\ user' = [user EXCEPT !.twoFactor = FALSE]
  /\ Goto(r, IF At(r, "drop2fa") THEN "set" ELSE "done")
  /\ UNCHANGED <<now, attempts, issued, reset, sessions, past>>

\* The new password of a reset, and of a change by the owner.
SetPassword(r) ==
  /\ req[r].pc \in {"set", "save"}
  /\ user' = [user EXCEPT !.password = @ + 1]
  /\ Goto(r, IF At(r, "set") THEN "unlockFails" ELSE "end")
  /\ UNCHANGED <<now, attempts, issued, reset, sessions, past>>

\* unlock, two DELs: the counter, then the lock.
UnlockFails(r) ==
  /\ At(r, "unlockFails")
  /\ fails' = [fails EXCEPT !["login"] = NoFailures]
  /\ Goto(r, "unlock")
  /\ UNCHANGED <<now, user, lock, issued, spent, reset, sessions, past>>

Unlock(r) ==
  /\ At(r, "unlock")
  /\ lock' = 0
  /\ Goto(r, "end")
  /\ UNCHANGED <<now, user, fails, issued, spent, reset, sessions, past>>

\* Slip: a reset spares a session, too.
SparedFirst(r) == {req[r].caller, First}

\* The session that is kept: that of the caller who changes his password.
Spared(r) == {req[r].caller}

\* The listeners of PasswordChangedEvent, awaited: the other sessions end (module
\* Sessions).  Noted: the logins under way, with their 2FA tokens, and whose
\* session is kept.
EndSessions(r) ==
  /\ At(r, "end")
  /\ sessions' = [s \in SessionIds |-> IF s \in Spared(r) THEN sessions[s] ELSE 0]
  /\ past' = [past EXCEPT !.excused =
                @ \cup InFlight \cup {q \in Requests : now < issued[q]}
                  \cup (SessionIds \cap {req[r].caller})]
  /\ Goto(r, "done")
  /\ UNCHANGED <<now, user, attempts, issued, reset>>

\* changeOwnPassword from an open session: the current password was right.
ChangePassword(r, s) ==
  /\ At(r, "idle") /\ s \in Open
  /\ req' = [req EXCEPT ![r].pc = "save", ![r].caller = s]
  /\ UNCHANGED <<now, attempts, issued, tables, past>>

\* enable2FA, disable2FA: the user is read and the passwords compared.
Enable2FA(r) ==
  /\ At(r, "idle") /\ Open # {}
  /\ Goto(r, IF user.twoFactor THEN "done" ELSE "enable")
  /\ UNCHANGED <<now, attempts, issued, tables, past>>

Disable2FA(r) ==
  /\ At(r, "idle") /\ Open # {}
  /\ Goto(r, IF user.twoFactor THEN "disable" ELSE "done")
  /\ UNCHANGED <<now, attempts, issued, tables, past>>

Save2FA(r) ==
  /\ At(r, "enable")
  /\ user' = [user EXCEPT !.twoFactor = TRUE]
  /\ Goto(r, "done")
  /\ UNCHANGED <<now, attempts, issued, reset, sessions, past>>

-----------------------------------------------------------------------------
(* The environment *)

\* A replica dies, or a query throws, or a password is refused on the way: a
\* request ends where it is.
Abandon(r) ==
  LET counting == req[r].pc \in {"expire", "lock", "clear"}
      ending == req[r].pc \in {"unlockFails", "unlock", "end"}
  IN  /\ r \in InFlight
      /\ Goto(r, "done")
      /\ past' = [past EXCEPT !.lost[req[r].key] = @ \/ counting,
                              !.unended = @ \/ ending]
      /\ UNCHANGED <<now, attempts, issued, tables>>

\* Time passes; Redis forgets what has expired.
Tick ==
  /\ now < MaxTime
  /\ now' = now + 1
  /\ fails' = [k \in Keys |->
                 IF fails[k].until \in 0..now' THEN NoFailures ELSE fails[k]]
  /\ lock' = IF lock <= now' THEN 0 ELSE lock
  /\ spent' = [t \in Requests |-> IF spent[t] <= now' THEN 0 ELSE spent[t]]
  /\ UNCHANGED <<user, issued, reset, sessions, req, past>>

Next ==
  \/ Tick
  \/ \E r \in Requests :
       \/ SignIn(r) \/ Status(r) \/ AddFailure(r) \/ SetEnd(r)
       \/ Lock(r) \/ Clear(r) \/ Forget(r) \/ OpenSession(r)
       \/ \E t \in Requests : Verify2FA(r, t)
       \/ Compare2FA(r) \/ Claim(r)
       \/ RequestReset(r) \/ Upsert(r) \/ Peek(r) \/ Check(r) \/ Consume(r)
       \/ Drop2FA(r) \/ SetPassword(r) \/ UnlockFails(r) \/ Unlock(r)
       \/ EndSessions(r)
       \/ \E s \in SessionIds : ChangePassword(r, s)
       \/ Enable2FA(r) \/ Disable2FA(r) \/ Save2FA(r)
       \/ Abandon(r)

Spec == Init /\ [][Next]_vars

-----------------------------------------------------------------------------
(* Properties *)

\* Everything has its type, and a counter without failures has no end.
TypeOK ==
  /\ now \in Nat
  /\ user \in [password : Nat \ {0}, twoFactor : BOOLEAN]
  /\ fails \in [Keys -> Counter]
  /\ \A k \in Keys : fails[k].n = 0 => fails[k] = NoFailures
  /\ lock \in Nat
  /\ issued \in [Requests -> Nat]
  /\ spent \in [Requests -> Nat]
  /\ reset \in ResetRow
  /\ sessions \in [SessionIds -> Nat]
  /\ req \in [Requests -> Request]
  /\ past \in [lost : [Keys -> BOOLEAN], unended : BOOLEAN,
               excused : SUBSET SessionIds]

\* AccountLockout.registerFailure: while the failures of a login are at the limit,
\* somebody is about to lock the account, or has just locked it and is about to
\* forget them; only the loss of such a request undoes this.
LimitLocks ==
  fails["login"].n >= MaxFailures =>
    \/ past.lost["login"]
    \/ \E r \in Requests :
         /\ req[r].key = "login"
         /\ \/ req[r].pc \in {"lock", "clear"}
            \/ At(r, "expire") /\ req[r].failures >= MaxFailures

\* RedisAttemptsStore.addFailure: a counter that would never expire is about to be
\* given its end, or the request that was to do so was lost and no failure has
\* been counted since; the next one gives it an end.
FailuresExpire ==
  \A k \in Keys :
    fails[k].n > 0 /\ fails[k].until = None =>
      past.lost[k] \/ \E r \in Requests : At(r, "expire") /\ req[r].key = k

\* The requests whose token was accepted.
Accepted == {r \in Requests : req[r].wonAt # None}

\* verify2FA: a 2FA token is accepted once, as long as it is valid.
AcceptedOnceInTime ==
  \A q, r \in Accepted :
    /\ req[q].token = req[r].token
    /\ {req[q].wonAt, req[r].wonAt} \subseteq 0..(issued[req[r].token] - 1)
    => q = r

\* ResetPasswordTokensService.check: of the requests that present one mailed token,
\* at the same time or not, one sets the password.
ResetOnce ==
  \A q, r \in Accepted :
    req[q].token = req[r].token /\ issued[req[r].token] = 0 => q = r

\* A 2FA token and a mailed token are each good for one request.
TokensOneTime == AcceptedOnceInTime /\ ResetOnce

\* Once a change or a reset of the password has ended the sessions, those opened
\* with an earlier password are the one its caller kept and those of logins that
\* were under way at that time, their 2FA tokens included.
SessionsProved ==
  \A s \in Open :
    \/ sessions[s] = user.password
    \/ past.unended
    \/ \E r \in Requests : req[r].pc \in {"unlockFails", "unlock", "end"}
    \/ {s, IF s = First THEN None ELSE req[s].token} \cap past.excused # {}
=============================================================================

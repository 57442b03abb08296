------------------------ MODULE AuthAttempts_proofs ------------------------
(***************************************************************************)
(* Safety of AuthAttempts for any requests, limit and times.               *)
(***************************************************************************)
EXTENDS AuthAttempts, TLAPS

-----------------------------------------------------------------------------
(* Types *)

LEMMA InitTypeOK == Init => TypeOK
  <1> SUFFICES ASSUME Init PROVE TypeOK
    OBVIOUS
  <1> USE NamesAssumption DEF Init, Keys, SessionIds, NoFailures, NoReset, Idle
  <1>1. fails \in [Keys -> Counter]
    BY DEF Counter
  <1>2. req \in [Requests -> Request]
    BY DEF Request, Points
  <1>3. reset \in ResetRow
    BY DEF ResetRow
  <1>4. user \in [password : Nat \ {0}, twoFactor : BOOLEAN]
    OBVIOUS
  <1>5. past \in [lost : [Keys -> BOOLEAN], unended : BOOLEAN,
                  excused : SUBSET SessionIds]
    OBVIOUS
  <1>6. sessions \in [SessionIds -> Nat] /\ issued \in [Requests -> Nat]
        /\ spent \in [Requests -> Nat] /\ now \in Nat /\ lock \in Nat
    OBVIOUS
  <1>7. \A k \in Keys : fails[k].n = 0 => fails[k] = NoFailures
    OBVIOUS
  <1> QED
    BY <1>1, <1>2, <1>3, <1>4, <1>5, <1>6, <1>7 DEF TypeOK

\* Going to another point keeps the type of a request.
LEMMA GotoType ==
  ASSUME req \in [Requests -> Request], NEW r \in Requests, NEW pc \in Points,
         Goto(r, pc)
  PROVE  req' \in [Requests -> Request]
  BY DEF Goto, Request

LEMMA AfterCountPoint ==
  ASSUME NEW k \in Keys, NEW n \in Nat PROVE AfterCount(k, n) \in Points
  BY DEF AfterCount, Points

\* Every step keeps the types.
LEMMA TypeStep == TypeOK /\ [Next]_vars => TypeOK'
  <1> SUFFICES ASSUME TypeOK, [Next]_vars PROVE TypeOK'
    OBVIOUS
  <1> USE NamesAssumption, TimesAssumption DEF TypeOK, attempts, tables
  <1>0. CASE UNCHANGED vars
    BY <1>0 DEF vars
  <1>1. CASE Tick
    BY <1>1 DEF Tick, Keys, Counter, NoFailures
  <1>2. ASSUME NEW r \in Requests, AddFailure(r) PROVE TypeOK'
    <2> DEFINE k == req[r].key
               n == fails[k].n + 1
    <2>1. k \in Keys /\ n \in Nat \ {0} /\ fails[k] \in Counter
      BY DEF Request, Counter
    <2>2. fails' \in [Keys -> Counter] /\ \A j \in Keys : fails'[j].n = 0 => fails'[j] = NoFailures
      BY <1>2, <2>1 DEF AddFailure, Counter
    <2>3. req' \in [Requests -> Request]
      <3>1. PICK pc \in Points : req' = [req EXCEPT ![r].failures = n, ![r].pc = pc]
        BY <1>2, <2>1, AfterCountPoint DEF AddFailure, Points
      <3> HIDE DEF n
      <3>2. [req[r] EXCEPT !.failures = n, !.pc = pc] \in Request
        <4>1. req[r] \in Request /\ n \in Nat
          BY <2>1
        <4> QED
          BY <4>1 DEF Request
      <3>3. req' = [req EXCEPT ![r] = [req[r] EXCEPT !.failures = n, !.pc = pc]]
        BY <3>1
      <3> QED
        BY <3>2, <3>3
    <2>4. past'.lost \in [Keys -> BOOLEAN] /\ past' \in [lost : [Keys -> BOOLEAN], unended : BOOLEAN, excused : SUBSET SessionIds]
      BY <1>2, <2>1 DEF AddFailure
    <2> QED
      BY <1>2, <2>2, <2>3, <2>4 DEF AddFailure
  <1>3. ASSUME NEW r \in Requests, SetEnd(r) PROVE TypeOK'
    <2>1. req[r].key \in Keys /\ req[r].failures \in Nat /\ now + Window \in Nat
      BY DEF Request
    <2>2. fails' \in [Keys -> Counter] /\ \A j \in Keys : fails'[j].n = 0 => fails'[j] = NoFailures
      BY <1>3, <2>1 DEF SetEnd, Ended, Counter
    <2>3. req' \in [Requests -> Request]
      BY <1>3, <2>1, AfterCountPoint, GotoType DEF SetEnd
    <2> QED
      BY <1>3, <2>2, <2>3 DEF SetEnd
  <1>4. ASSUME NEW r \in Requests, Lock(r) PROVE TypeOK'
    BY <1>4, GotoType DEF Lock, Points
  <1>5. ASSUME NEW r \in Requests, Clear(r) PROVE TypeOK'
    BY <1>5, GotoType DEF Clear, Points, Keys, Counter, NoFailures
  <1>6. ASSUME NEW r \in Requests, SignIn(r) PROVE TypeOK'
    <2> DEFINE b == user.twoFactor
               q == [req[r] EXCEPT !.pc = "status", !.password = user.password,
                                   !.twoFactor = b]
    <2>1. req' = [req EXCEPT ![r] = q]
      BY <1>6 DEF SignIn
    <2>2. b \in BOOLEAN /\ user.password \in Nat /\ req[r] \in Request
      OBVIOUS
    <2> HIDE DEF b
    <2>3. q \in Request
      BY <2>2 DEF Request, Points
    <2> QED
      BY <1>6, <2>1, <2>3 DEF SignIn
  <1>7. ASSUME NEW r \in Requests, Status(r) PROVE TypeOK'
    BY <1>7, GotoType DEF Status, Points
  <1>8. ASSUME NEW r \in Requests, Forget(r) PROVE TypeOK'
    <2>1. req[r].key \in Keys
      BY DEF Request
    <2>2. fails' \in [Keys -> Counter] /\ \A j \in Keys : fails'[j].n = 0 => fails'[j] = NoFailures
      BY <1>8, <2>1 DEF Forget, NoFailures, Counter
    <2>3. req' \in [Requests -> Request]
      BY <1>8, GotoType DEF Forget, Points
    <2> QED
      BY <1>8, <2>2, <2>3 DEF Forget
  <1>9. ASSUME NEW r \in Requests, OpenSession(r) PROVE TypeOK'
    BY <1>9, GotoType DEF OpenSession, Points, Request
  <1>10. ASSUME NEW r \in Requests, NEW t \in Requests, Verify2FA(r, t) PROVE TypeOK'
    <2>1. PICK pc \in {"done", "user2fa"} :
            req' = [req EXCEPT ![r] = [@ EXCEPT !.pc = pc, !.key = "2fa", !.token = t,
                                                !.password = req[t].password]]
      BY <1>10 DEF Verify2FA
    <2>2. req[r] \in Request /\ req[t].password \in Nat
      BY DEF Request
    <2>3. [req[r] EXCEPT !.pc = pc, !.key = "2fa", !.token = t,
                         !.password = req[t].password] \in Request
      BY <2>2 DEF Request, Points, Keys
    <2> QED
      BY <1>10, <2>1, <2>3 DEF Verify2FA
  <1>11. ASSUME NEW r \in Requests, Compare2FA(r) PROVE TypeOK'
    BY <1>11, GotoType DEF Compare2FA, Points
  <1>12. ASSUME NEW r \in Requests, Claim(r) PROVE TypeOK'
    BY <1>12, GotoType DEF Claim, SpentUntil, Later, Request, Points
  <1>13. ASSUME NEW r \in Requests, RequestReset(r) PROVE TypeOK'
    BY <1>13, GotoType DEF RequestReset, Points
  <1>14. ASSUME NEW r \in Requests, Upsert(r) PROVE TypeOK'
    BY <1>14, GotoType DEF Upsert, Points, ResetRow
  <1>15. ASSUME NEW r \in Requests, Peek(r) PROVE TypeOK'
    <2>1. reset.token \in Requests \cup {None} /\ req[r] \in Request
      BY DEF ResetRow
    <2>2. [req[r] EXCEPT !.pc = "check", !.token = reset.token] \in Request
      BY <2>1 DEF Request, Points
    <2>3. req' = [req EXCEPT ![r] = [req[r] EXCEPT !.pc = "check", !.token = reset.token]]
      BY <1>15 DEF Peek
    <2> QED
      BY <1>15, <2>2, <2>3 DEF Peek
  <1>16. ASSUME NEW r \in Requests, Check(r) PROVE TypeOK'
    BY <1>16, GotoType DEF Check, Points, ResetRow, Request
  <1>17. ASSUME NEW r \in Requests, Consume(r) PROVE TypeOK'
    BY <1>17, GotoType DEF Consume, Points, ResetRow, NoReset, Request
  <1>18. ASSUME NEW r \in Requests, Drop2FA(r) PROVE TypeOK'
    BY <1>18, GotoType DEF Drop2FA, Points
  <1>19. ASSUME NEW r \in Requests, SetPassword(r) PROVE TypeOK'
    BY <1>19, GotoType DEF SetPassword, Points
  <1>20. ASSUME NEW r \in Requests, UnlockFails(r) PROVE TypeOK'
    BY <1>20, GotoType DEF UnlockFails, Points, Keys, Counter, NoFailures
  <1>21. ASSUME NEW r \in Requests, Unlock(r) PROVE TypeOK'
    BY <1>21, GotoType DEF Unlock, Points
  <1>22. ASSUME NEW r \in Requests, EndSessions(r) PROVE TypeOK'
    <2>1. req' \in [Requests -> Request]
      BY <1>22, GotoType DEF EndSessions, Points
    <2>2. InFlight \cup {q \in Requests : now < issued[q]}
            \cup (SessionIds \cap {req[r].caller}) \in SUBSET SessionIds
      BY DEF InFlight, SessionIds
    <2> QED
      BY <1>22, <2>1, <2>2 DEF EndSessions
  <1>23. ASSUME NEW r \in Requests, NEW s \in SessionIds, ChangePassword(r, s) PROVE TypeOK'
    <2>1. [req[r] EXCEPT !.pc = "save", !.caller = s] \in Request
      <3>1. req[r] \in Request
        OBVIOUS
      <3> QED
        BY <3>1 DEF Request, Points
    <2>2. req' = [req EXCEPT ![r] = [req[r] EXCEPT !.pc = "save", !.caller = s]]
      BY <1>23 DEF ChangePassword
    <2> QED
      BY <1>23, <2>1, <2>2 DEF ChangePassword
  <1>24. ASSUME NEW r \in Requests, Enable2FA(r) PROVE TypeOK'
    BY <1>24, GotoType DEF Enable2FA, Points
  <1>25. ASSUME NEW r \in Requests, Disable2FA(r) PROVE TypeOK'
    BY <1>25, GotoType DEF Disable2FA, Points
  <1>26. ASSUME NEW r \in Requests, Save2FA(r) PROVE TypeOK'
    BY <1>26, GotoType DEF Save2FA, Points
  <1>27. ASSUME NEW r \in Requests, Abandon(r) PROVE TypeOK'
    <2>1. req' \in [Requests -> Request]
      BY <1>27, GotoType DEF Abandon, Points
    <2> DEFINE counting == req[r].pc \in {"expire", "lock", "clear"}
               ending == req[r].pc \in {"unlockFails", "unlock", "end"}
    <2>2. past' = [past EXCEPT !.lost[req[r].key] = @ \/ counting,
                               !.unended = @ \/ ending]
      BY <1>27 DEF Abandon
    <2>3. counting \in BOOLEAN /\ ending \in BOOLEAN /\ req[r].key \in Keys
      BY DEF Request
    <2> HIDE DEF counting, ending
    <2>4. past' \in [lost : [Keys -> BOOLEAN], unended : BOOLEAN, excused : SUBSET SessionIds]
      BY <2>2, <2>3
    <2> QED
      BY <1>27, <2>1, <2>4 DEF Abandon
  <1> QED
    BY <1>0, <1>1, <1>2, <1>3, <1>4, <1>5, <1>6, <1>7, <1>8, <1>9, <1>10, <1>11, <1>12,
       <1>13, <1>14, <1>15, <1>16, <1>17, <1>18, <1>19, <1>20, <1>21, <1>22, <1>23,
       <1>24, <1>25, <1>26, <1>27 DEF Next

\* Type correctness, for any requests, limit and times.
THEOREM TypeCorrect == Spec => []TypeOK
  BY InitTypeOK, TypeStep, PTL DEF Spec

-----------------------------------------------------------------------------
(* Failures *)

\* The steps that neither read nor write the counters of a failure.
Uncounted(r) ==
  \/ SignIn(r) \/ Status(r) \/ OpenSession(r)
  \/ \E t \in Requests : Verify2FA(r, t)
  \/ Compare2FA(r) \/ Claim(r)
  \/ RequestReset(r) \/ Upsert(r) \/ Peek(r) \/ Check(r) \/ Consume(r)
  \/ Drop2FA(r) \/ SetPassword(r) \/ Unlock(r) \/ EndSessions(r)
  \/ \E s \in SessionIds : ChangePassword(r, s)
  \/ Enable2FA(r) \/ Disable2FA(r) \/ Save2FA(r)

CountingPoints == {"expire", "lock", "clear"}

LEMMA UncountedKeeps ==
  ASSUME TypeOK, NEW r \in Requests, Uncounted(r)
  PROVE  /\ fails' = fails /\ past'.lost = past.lost
         /\ \A q \in Requests : req[q].pc \in CountingPoints => req'[q] = req[q]
  BY DEF Uncounted, SignIn, Status, OpenSession, Verify2FA, Compare2FA, Claim,
     RequestReset, Upsert, Peek, Check, Consume, Drop2FA, SetPassword, Unlock,
     EndSessions, ChangePassword, Enable2FA, Disable2FA, Save2FA, Goto, At, attempts,
     tables, TypeOK, CountingPoints

\* The steps by what they do to the counters.
LEMMA NextByCounting ==
  ASSUME [Next]_vars
  PROVE  \/ UNCHANGED vars
         \/ Tick
         \/ \E r \in Requests :
              \/ Uncounted(r)
              \/ AddFailure(r) \/ SetEnd(r) \/ Lock(r) \/ Clear(r) \/ Forget(r)
              \/ UnlockFails(r) \/ Abandon(r)
  BY DEF Next, Uncounted

\* A request that is about to lock, or has just locked.
Locks(r) ==
  /\ req[r].key = "login"
  /\ \/ req[r].pc \in {"lock", "clear"}
     \/ At(r, "expire") /\ req[r].failures >= MaxFailures

LEMMA LimitLocksStep == TypeOK /\ LimitLocks /\ [Next]_vars => LimitLocks'
  <1> SUFFICES ASSUME TypeOK, LimitLocks, [Next]_vars, fails'["login"].n >= MaxFailures
               PROVE  past'.lost["login"] \/ \E q \in Requests : Locks(q)'
    BY DEF LimitLocks, Locks
  <1>1. ASSUME fails["login"].n >= MaxFailures
        PROVE  past.lost["login"] \/ \E q \in Requests : Locks(q)
    BY <1>1 DEF LimitLocks, Locks
  <1>2. /\ MaxFailures \in Nat \ {0} /\ "login" \in Keys
        /\ fails \in [Keys -> Counter] /\ req \in [Requests -> Request]
        /\ past.lost \in [Keys -> BOOLEAN]
        /\ \A r \in Requests : req[r].key \in Keys
    BY TimesAssumption DEF TypeOK, Keys, Request
  <1>3. ASSUME fails'["login"].n <= fails["login"].n,
               past.lost["login"] => past'.lost["login"],
               \A q \in Requests : Locks(q) => Locks(q)' \/ past'.lost["login"]
        PROVE  past'.lost["login"] \/ \E q \in Requests : Locks(q)'
    <2>1. fails["login"].n \in Nat
      BY <1>2 DEF Counter
    <2>2. fails'["login"].n \in Nat
      BY TypeStep DEF TypeOK, Counter, Keys
    <2> QED
      BY <1>1, <1>2, <1>3, <2>1, <2>2
  <1>4. CASE UNCHANGED vars
    BY <1>4, <1>1 DEF vars, Locks, At
  <1>5. CASE Tick
    <2>1. fails["login"].n \in Nat
      BY <1>2 DEF Counter
    <2> QED
      BY <1>5, <1>2, <1>3, <2>1 DEF Tick, NoFailures, Locks, At
  <1>6. ASSUME NEW r \in Requests, Uncounted(r)
        PROVE  past'.lost["login"] \/ \E q \in Requests : Locks(q)'
    BY <1>6, <1>1, UncountedKeeps DEF CountingPoints, Locks, At
  <1>7. ASSUME NEW r \in Requests, AddFailure(r)
        PROVE  past'.lost["login"] \/ \E q \in Requests : Locks(q)'
    <2>1. CASE req[r].key = "login"
      <3>1. fails'["login"].n = fails["login"].n + 1
        BY <1>2, <1>7, <2>1 DEF AddFailure
      <3>2. /\ req'[r].failures = fails["login"].n + 1
            /\ req'[r].pc \in {"expire", AfterCount("login", fails["login"].n + 1)}
            /\ req'[r].key = "login"
        BY <1>2, <1>7, <2>1 DEF AddFailure, Request
      <3>3. AfterCount("login", fails["login"].n + 1) = "lock"
        BY <3>1, <1>2 DEF AfterCount, AtLimit
      <3> QED
        BY <3>1, <3>2, <3>3 DEF Locks, At
    <2>2. CASE req[r].key # "login"
      <3>1. fails'["login"] = fails["login"] /\ past'.lost["login"] = past.lost["login"]
        BY <1>2, <1>7, <2>2 DEF AddFailure, TypeOK
      <3>2. \A q \in Requests : Locks(q) => Locks(q)'
        BY <1>2, <1>7, <2>2 DEF AddFailure, Locks, At
      <3> QED
        BY <1>1, <3>1, <3>2
    <2> QED
      BY <2>1, <2>2
  <1>8. ASSUME NEW r \in Requests, SetEnd(r)
        PROVE  past'.lost["login"] \/ \E q \in Requests : Locks(q)'
    <2>1. fails'["login"].n = fails["login"].n /\ past' = past
      BY <1>2, <1>8 DEF SetEnd, Ended, Counter
    <2>2. \A q \in Requests : Locks(q) => Locks(q)'
      <3>1. ASSUME Locks(r) PROVE req'[r].pc = "lock" /\ req'[r].key = "login"
        BY <1>2, <1>8, <3>1 DEF SetEnd, Goto, Locks, At, AfterCount, AtLimit, Request
      <3>2. \A q \in Requests \ {r} : req'[q] = req[q]
        BY <1>2, <1>8 DEF SetEnd, Goto
      <3> QED
        BY <3>1, <3>2 DEF Locks, At
    <2> QED
      BY <1>1, <2>1, <2>2
  <1>9. ASSUME NEW r \in Requests, Lock(r)
        PROVE  past'.lost["login"] \/ \E q \in Requests : Locks(q)'
    BY <1>1, <1>2, <1>9 DEF Lock, Goto, Locks, At
  <1>10. ASSUME NEW r \in Requests, Clear(r) \/ UnlockFails(r)
         PROVE  past'.lost["login"] \/ \E q \in Requests : Locks(q)'
    BY <1>2, <1>10 DEF Clear, UnlockFails, NoFailures
  <1>11. ASSUME NEW r \in Requests, Forget(r)
         PROVE  past'.lost["login"] \/ \E q \in Requests : Locks(q)'
    <2>1. CASE req[r].key = "login"
      BY <1>2, <1>11, <2>1 DEF Forget, NoFailures
    <2>2. CASE req[r].key # "login"
      BY <1>1, <1>2, <1>11, <2>2 DEF Forget, Goto, Locks, At
    <2> QED
      BY <2>1, <2>2
  <1>12. ASSUME NEW r \in Requests, Abandon(r)
         PROVE  past'.lost["login"] \/ \E q \in Requests : Locks(q)'
    <2>1. Locks(r) => past'.lost["login"]
      BY <1>2, <1>12 DEF Abandon, Locks, At, TypeOK
    <2>2. fails' = fails /\ (past.lost["login"] => past'.lost["login"])
      BY <1>2, <1>12 DEF Abandon, attempts, TypeOK
    <2>3. \A q \in Requests \ {r} : Locks(q) => Locks(q)'
      BY <1>2, <1>12 DEF Abandon, Goto, Locks, At
    <2> QED
      BY <1>1, <2>1, <2>2, <2>3
  <1> QED
    BY <1>4, <1>5, <1>6, <1>7, <1>8, <1>9, <1>10, <1>11, <1>12, NextByCounting

\* While the failures of a login are at the limit, the account is being locked.
THEOREM LimitLocksHolds == Spec => []LimitLocks
  <1>1. Init => LimitLocks
    BY TimesAssumption DEF Init, LimitLocks, NoFailures, Keys
  <1> QED
    BY <1>1, TypeCorrect, LimitLocksStep, PTL DEF Spec

\* A request that is about to give counter k its end.
Ends(r, k) == At(r, "expire") /\ req[r].key = k

LEMMA FailuresExpireStep == TypeOK /\ FailuresExpire /\ [Next]_vars => FailuresExpire'
  <1> SUFFICES ASSUME TypeOK, FailuresExpire, [Next]_vars,
                      NEW k \in Keys, fails'[k].n > 0, fails'[k].until = None
               PROVE  past'.lost[k] \/ \E q \in Requests : Ends(q, k)'
    BY DEF FailuresExpire, Ends, At
  <1>1. fails[k].n > 0 /\ fails[k].until = None =>
          past.lost[k] \/ \E q \in Requests : Ends(q, k)
    BY DEF FailuresExpire, Ends, At
  <1>2. /\ fails \in [Keys -> Counter] /\ req \in [Requests -> Request]
        /\ past.lost \in [Keys -> BOOLEAN]
        /\ \A r \in Requests : req[r].key \in Keys
        /\ now + Window \in Nat /\ None \notin Nat
    BY TimesAssumption, NamesAssumption DEF TypeOK, Request
  <1>4. CASE UNCHANGED vars
    BY <1>4, <1>1 DEF vars, Ends, At
  <1>5. CASE Tick
    BY <1>5, <1>1, <1>2 DEF Tick, NoFailures, Ends, At
  <1>6. ASSUME NEW r \in Requests, Uncounted(r)
        PROVE  past'.lost[k] \/ \E q \in Requests : Ends(q, k)'
    BY <1>6, <1>1, UncountedKeeps DEF CountingPoints, Ends, At
  <1>7. ASSUME NEW r \in Requests, AddFailure(r)
        PROVE  past'.lost[k] \/ \E q \in Requests : Ends(q, k)'
    <2>1. CASE req[r].key = k
      <3>1. fails'[k].until = fails[k].until
        BY <1>2, <1>7, <2>1 DEF AddFailure, Counter
      <3>2. req'[r].pc = "expire" /\ req'[r].key = k
        BY <1>2, <1>7, <2>1, <3>1 DEF AddFailure, NeedsEnd, Request
      <3> QED
        BY <3>2 DEF Ends, At
    <2>2. CASE req[r].key # k
      <3>1. fails'[k] = fails[k] /\ past'.lost[k] = past.lost[k]
        BY <1>2, <1>7, <2>2 DEF AddFailure, TypeOK
      <3>2. \A q \in Requests : Ends(q, k) => Ends(q, k)'
        BY <1>2, <1>7, <2>2 DEF AddFailure, Ends, At
      <3> QED
        BY <1>1, <3>1, <3>2
    <2> QED
      BY <2>1, <2>2
  <1>8. ASSUME NEW r \in Requests, SetEnd(r)
        PROVE  past'.lost[k] \/ \E q \in Requests : Ends(q, k)'
    <2>1. CASE req[r].key = k
      BY <1>2, <1>8, <2>1 DEF SetEnd, Ended, Counter, TypeOK
    <2>2. CASE req[r].key # k
      BY <1>1, <1>2, <1>8, <2>2 DEF SetEnd, Goto, Ends, At
    <2> QED
      BY <2>1, <2>2
  <1>9. ASSUME NEW r \in Requests, Lock(r)
        PROVE  past'.lost[k] \/ \E q \in Requests : Ends(q, k)'
    BY <1>1, <1>2, <1>9 DEF Lock, Goto, Ends, At
  <1>10. ASSUME NEW r \in Requests, Clear(r) \/ UnlockFails(r) \/ Forget(r)
         PROVE  past'.lost[k] \/ \E q \in Requests : Ends(q, k)'
    BY <1>1, <1>2, <1>10 DEF Clear, UnlockFails, Forget, NoFailures, Goto, Ends, At
  <1>12. ASSUME NEW r \in Requests, Abandon(r)
         PROVE  past'.lost[k] \/ \E q \in Requests : Ends(q, k)'
    <2>1. Ends(r, k) => past'.lost[k]
      BY <1>2, <1>12 DEF Abandon, Ends, At, TypeOK
    <2>2. fails' = fails /\ (past.lost[k] => past'.lost[k])
      BY <1>2, <1>12 DEF Abandon, attempts, TypeOK
    <2>3. \A q \in Requests \ {r} : Ends(q, k) => Ends(q, k)'
      BY <1>2, <1>12 DEF Abandon, Goto, Ends, At
    <2> QED
      BY <1>1, <2>1, <2>2, <2>3
  <1> QED
    BY <1>4, <1>5, <1>6, <1>7, <1>8, <1>9, <1>10, <1>12, NextByCounting

\* A counter without an end is about to be given one, or who was to do it was lost.
THEOREM FailuresExpireHolds == Spec => []FailuresExpire
  <1>1. Init => FailuresExpire
    BY DEF Init, FailuresExpire, NoFailures, Keys
  <1> QED
    BY <1>1, TypeCorrect, FailuresExpireStep, PTL DEF Spec

-----------------------------------------------------------------------------
(* One-time tokens *)

\* What a request has at hand at each point.
Holds(r) ==
  /\ At(r, "idle") => req[r] = Idle
  /\ req[r].pc \in {"status", "forget"} /\ req[r].key = "login"
       => req[r].token = None
  /\ At(r, "status") => req[r].key = "login"
  /\ req[r].pc \in {"user2fa", "claim"} =>
       req[r].key = "2fa" /\ req[r].token # None /\ issued[req[r].token] # 0
  /\ req[r].pc \in {"check", "consume"} =>
       req[r].token # None /\ issued[req[r].token] = 0

Locals == \A r \in Requests : Holds(r)

\* A token is presented after the request that made it has been answered, and is
\* either of a login or of a mail.
Makers ==
  /\ \A r \in Requests : issued[r] # 0 => At(r, "done")
  /\ \A r \in Requests : req[r].token # None => At(req[r].token, "done")
  /\ reset.token # None => At(reset.token, "done") /\ issued[reset.token] = 0
  /\ reset.token = None => reset = NoReset

\* What an accepted token has left behind: a mark as long as it is valid, or no row.
Used ==
  \A r \in Accepted :
    /\ req[r].token # None
    /\ req[r].wonAt <= now
    /\ now < issued[req[r].token] => issued[req[r].token] <= spent[req[r].token]
    /\ issued[req[r].token] = 0 => reset.token # req[r].token

OneTime == Locals /\ Makers /\ Used /\ AcceptedOnceInTime /\ ResetOnce

TokenPoints == {"idle", "status", "forget", "open", "user2fa", "claim", "check", "consume"}

\* The steps after which a request waits for nothing that is about a token, and
\* that make no token, accept none and forget none.
Tokenless(r) ==
  \/ AddFailure(r) \/ SetEnd(r) \/ Lock(r) \/ Clear(r) \/ OpenSession(r)
  \/ RequestReset(r) \/ Drop2FA(r) \/ SetPassword(r) \/ UnlockFails(r) \/ Unlock(r)
  \/ EndSessions(r) \/ Enable2FA(r) \/ Disable2FA(r) \/ Save2FA(r) \/ Abandon(r)
  \/ \E s \in SessionIds : ChangePassword(r, s)

LEMMA NextByToken ==
  ASSUME [Next]_vars
  PROVE  \/ UNCHANGED vars
         \/ Tick
         \/ \E r \in Requests :
              \/ Tokenless(r)
              \/ SignIn(r) \/ Status(r) \/ Forget(r) \/ Compare2FA(r) \/ Claim(r)
              \/ \E t \in Requests : Verify2FA(r, t)
              \/ Upsert(r) \/ Peek(r) \/ Check(r) \/ Consume(r)
  BY DEF Next, Tokenless

LEMMA TokenlessKeeps ==
  ASSUME TypeOK, NEW r \in Requests, Tokenless(r)
  PROVE  /\ UNCHANGED <<now, issued, spent, reset>>
         /\ \A q \in Requests \ {r} : req'[q] = req[q]
         /\ ~At(r, "done")
         /\ req'[r].pc \notin TokenPoints
         /\ req'[r].token = req[r].token /\ req'[r].wonAt = req[r].wonAt
  <1>1. req \in [Requests -> Request]
    BY DEF TypeOK
  <1>2. CASE AddFailure(r)
    BY <1>1, <1>2 DEF AddFailure, AfterCount, At, TokenPoints, Request
  <1>3. CASE SetEnd(r)
    BY <1>1, <1>3 DEF SetEnd, Goto, AfterCount, At, TokenPoints, Request
  <1>4. CASE Lock(r) \/ Clear(r) \/ OpenSession(r) \/ RequestReset(r) \/ Drop2FA(r)
             \/ SetPassword(r)
    BY <1>1, <1>4 DEF Lock, Clear, OpenSession, RequestReset, Drop2FA, SetPassword, Goto,
       At, TokenPoints, Request, attempts, tables
  <1>5. CASE UnlockFails(r) \/ Unlock(r) \/ EndSessions(r) \/ Enable2FA(r)
             \/ Disable2FA(r) \/ Save2FA(r) \/ Abandon(r)
    BY <1>1, <1>5 DEF UnlockFails, Unlock, EndSessions, Enable2FA, Disable2FA, Save2FA,
       Abandon, InFlight, Goto, At, TokenPoints, Request, attempts, tables
  <1>6. CASE \E s \in SessionIds : ChangePassword(r, s)
    BY <1>1, <1>6 DEF ChangePassword, At, TokenPoints, Request, attempts, tables
  <1> QED
    BY <1>2, <1>3, <1>4, <1>5, <1>6 DEF Tokenless

\* A step changes the request that takes it, which was not done.
LEMMA OthersStay ==
  ASSUME TypeOK, [Next]_vars
  PROVE  \/ req' = req
         \/ \E r \in Requests : ~At(r, "done") /\ \A q \in Requests \ {r} : req'[q] = req[q]
  <1>1. req \in [Requests -> Request]
    BY DEF TypeOK
  <1>2. ASSUME NEW r \in Requests,
               \/ SignIn(r) \/ Status(r) \/ Forget(r) \/ Compare2FA(r) \/ Claim(r)
               \/ \E t \in Requests : Verify2FA(r, t)
               \/ Upsert(r) \/ Peek(r) \/ Check(r) \/ Consume(r)
        PROVE  ~At(r, "done") /\ \A q \in Requests \ {r} : req'[q] = req[q]
    BY <1>1, <1>2 DEF SignIn, Status, Forget, Compare2FA, Claim, Verify2FA, Upsert, Peek,
       Check, Consume, Goto, At
  <1> QED
    BY <1>2, TokenlessKeeps, NextByToken DEF Tick, vars

\* An answered request, and the token it may have made, stay as they are.
LEMMA DoneStays ==
  ASSUME TypeOK, [Next]_vars, NEW t \in Requests, At(t, "done")
  PROVE  req'[t] = req[t] /\ issued'[t] = issued[t]
  <1>1. req'[t] = req[t]
    BY OthersStay
  <1>2. ASSUME NEW r \in Requests, Forget(r) PROVE issued'[t] = issued[t]
    BY <1>2 DEF Forget, At, TypeOK
  <1>3. ASSUME NEW r \in Requests,
               \/ SignIn(r) \/ Status(r) \/ Compare2FA(r) \/ Claim(r)
               \/ \E q \in Requests : Verify2FA(r, q)
               \/ Upsert(r) \/ Peek(r) \/ Check(r) \/ Consume(r)
        PROVE  issued' = issued
    BY <1>3 DEF SignIn, Status, Compare2FA, Claim, Verify2FA, Upsert, Peek, Check, Consume
  <1> QED
    BY <1>1, <1>2, <1>3, TokenlessKeeps, NextByToken DEF Tick, vars

LEMMA LocalsStep ==
  ASSUME TypeOK, Locals, Makers, [Next]_vars
  PROVE  Locals'
  <1>1. req \in [Requests -> Request] /\ reset \in ResetRow /\ now \in Nat
    BY DEF TypeOK
  <1>2. ASSUME NEW q \in Requests, req'[q] = req[q] PROVE Holds(q)'
    <2>1. req[q].token # None => req[q].token \in Requests /\ At(req[q].token, "done")
      BY <1>1 DEF Makers, Request
    <2>2. req[q].token # None => issued'[req[q].token] = issued[req[q].token]
      BY <2>1, DoneStays
    <2> QED
      BY <1>2, <2>2 DEF Locals, Holds, At
  <1>3. ASSUME NEW r \in Requests, Tokenless(r) PROVE Locals'
    <2>1. Holds(r)'
      BY <1>3, TokenlessKeeps DEF Holds, TokenPoints, At
    <2> QED
      BY <1>2, <1>3, <2>1, TokenlessKeeps DEF Locals
  <1>4. ASSUME NEW r \in Requests, SignIn(r) PROVE Locals'
    <2>1. req[r] = Idle
      BY <1>4 DEF SignIn, Locals, Holds
    <2>2. Holds(r)'
      BY <1>1, <1>4, <2>1 DEF SignIn, Holds, At, Idle, Request
    <2> QED
      BY <1>1, <1>2, <1>4, <2>2 DEF SignIn, Locals
  <1>5. ASSUME NEW r \in Requests, Status(r) PROVE Locals'
    <2>1. Holds(r)'
      BY <1>1, <1>5 DEF Status, Goto, Locals, Holds, At, Request
    <2> QED
      BY <1>1, <1>2, <1>5, <2>1 DEF Status, Goto, Locals
  <1>6. ASSUME NEW r \in Requests, Forget(r) PROVE Locals'
    <2>1. Holds(r)'
      BY <1>1, <1>6 DEF Forget, Goto, Holds, At, Request
    <2> QED
      BY <1>1, <1>2, <1>6, <2>1 DEF Forget, Goto, Locals
  <1>7. ASSUME NEW r \in Requests, NEW t \in Requests, Verify2FA(r, t) PROVE Locals'
    <2>1. issued[t] # 0 /\ t # None
      BY <1>1, <1>7, NamesAssumption DEF Verify2FA, TypeOK
    <2>2. Holds(r)'
      BY <1>1, <1>7, <2>1 DEF Verify2FA, Holds, At, Request
    <2> QED
      BY <1>1, <1>2, <1>7, <2>2 DEF Verify2FA, Locals
  <1>8. ASSUME NEW r \in Requests, Compare2FA(r) PROVE Locals'
    <2>1. Holds(r)'
      BY <1>1, <1>8 DEF Compare2FA, Goto, Locals, Holds, At, Request
    <2> QED
      BY <1>1, <1>2, <1>8, <2>1 DEF Compare2FA, Goto, Locals
  <1>9. ASSUME NEW r \in Requests, Claim(r) PROVE Locals'
    <2>1. Holds(r)'
      BY <1>1, <1>9 DEF Claim, Goto, Locals, Holds, At, Request
    <2> QED
      BY <1>1, <1>2, <1>9, <2>1 DEF Claim, Goto, Locals
  <1>10. ASSUME NEW r \in Requests, Upsert(r) PROVE Locals'
    <2>1. Holds(r)'
      BY <1>1, <1>10 DEF Upsert, Goto, Holds, At, Request
    <2> QED
      BY <1>1, <1>2, <1>10, <2>1 DEF Upsert, Goto, Locals
  <1>11. ASSUME NEW r \in Requests, Peek(r) PROVE Locals'
    <2>1. reset.token # None /\ issued[reset.token] = 0
      BY <1>11 DEF Peek, Makers
    <2>2. Holds(r)'
      BY <1>1, <1>11, <2>1 DEF Peek, Holds, At, Request
    <2> QED
      BY <1>1, <1>2, <1>11, <2>2 DEF Peek, Locals
  <1>12. ASSUME NEW r \in Requests, Check(r) PROVE Locals'
    <2>1. Holds(r)'
      BY <1>1, <1>12 DEF Check, Goto, Locals, Holds, At, Request
    <2> QED
      BY <1>1, <1>2, <1>12, <2>1 DEF Check, Goto, Locals
  <1>13. ASSUME NEW r \in Requests, Consume(r) PROVE Locals'
    <2>1. Holds(r)'
      BY <1>1, <1>13 DEF Consume, Goto, Holds, At, Request
    <2> QED
      BY <1>1, <1>2, <1>13, <2>1 DEF Consume, Goto, Locals
  <1>14. CASE UNCHANGED vars \/ Tick
    BY <1>2, <1>14 DEF Tick, vars, Locals
  <1> QED
    BY <1>3, <1>4, <1>5, <1>6, <1>7, <1>8, <1>9, <1>10, <1>11, <1>12, <1>13, <1>14,
       NextByToken

LEMMA MakersStep ==
  ASSUME TypeOK, Locals, Makers, [Next]_vars
  PROVE  Makers'
  <1>1. req \in [Requests -> Request] /\ reset \in ResetRow /\ None \notin Requests
        /\ issued \in [Requests -> Nat]
    BY NamesAssumption DEF TypeOK
  <1>2. ASSUME NEW t \in Requests, At(t, "done") PROVE req'[t].pc = "done" /\ issued'[t] = issued[t]
    BY <1>2, DoneStays DEF At
  <1>3. ASSUME NEW r \in Requests, issued'[r] # 0 PROVE req'[r].pc = "done"
    <2>1. CASE issued[r] # 0
      BY <1>2, <2>1 DEF Makers
    <2>2. CASE issued[r] = 0
      <3>1. ASSUME NEW q \in Requests, Forget(q) PROVE req'[r].pc = "done"
        BY <1>1, <1>3, <2>2, <3>1 DEF Forget, Goto, At, Request
      <3>2. ASSUME NEW q \in Requests,
                   \/ SignIn(q) \/ Status(q) \/ Compare2FA(q) \/ Claim(q)
                   \/ \E t \in Requests : Verify2FA(q, t)
                   \/ Upsert(q) \/ Peek(q) \/ Check(q) \/ Consume(q)
            PROVE  issued' = issued
        BY <3>2 DEF SignIn, Status, Compare2FA, Claim, Verify2FA, Upsert, Peek, Check,
           Consume
      <3> QED
        BY <1>3, <2>2, <3>1, <3>2, TokenlessKeeps, NextByToken DEF Tick, vars
    <2> QED
      BY <2>1, <2>2
  <1>4. ASSUME NEW r \in Requests, req'[r].token # None PROVE req'[req'[r].token].pc = "done"
    <2>1. CASE req'[r].token = req[r].token
      <3>1. req[r].token \in Requests /\ At(req[r].token, "done")
        BY <1>1, <1>4, <2>1 DEF Makers, Request
      <3> QED
        BY <1>2, <2>1, <3>1
    <2>2. CASE req'[r].token # req[r].token
      <3>1. ASSUME NEW q \in Requests, NEW t \in Requests, Verify2FA(q, t)
            PROVE  req'[req'[r].token].pc = "done"
        <4>1. At(t, "done")
          BY <1>1, <3>1 DEF Verify2FA, Makers, TypeOK
        <4>2. req'[r].token = t
          BY <1>1, <2>2, <3>1 DEF Verify2FA, Request
        <4> QED
          BY <1>2, <4>1, <4>2
      <3>2. ASSUME NEW q \in Requests, Peek(q) PROVE req'[req'[r].token].pc = "done"
        <4>1. reset.token \in Requests /\ At(reset.token, "done")
          BY <1>1, <3>2 DEF Peek, Makers, ResetRow
        <4>2. req'[r].token = reset.token
          BY <1>1, <2>2, <3>2 DEF Peek, Request
        <4> QED
          BY <1>2, <4>1, <4>2
      <3>3. ASSUME NEW q \in Requests,
                   \/ SignIn(q) \/ Status(q) \/ Forget(q) \/ Compare2FA(q) \/ Claim(q)
                   \/ Upsert(q) \/ Check(q) \/ Consume(q)
            PROVE  req'[r].token = req[r].token
        <4>1. CASE Claim(q)
          BY <1>1, <4>1 DEF Claim, Goto, Request
        <4>2. CASE Consume(q)
          BY <1>1, <4>2 DEF Consume, Goto, Request
        <4>3. CASE SignIn(q)
          BY <1>1, <4>3 DEF SignIn, Request
        <4>4. CASE Status(q) \/ Forget(q) \/ Compare2FA(q) \/ Upsert(q)
          BY <1>1, <4>4 DEF Status, Forget, Compare2FA, Upsert, Goto, Request
        <4>5. CASE Check(q)
          BY <1>1, <4>5 DEF Check, Goto, Request
        <4> QED
          BY <3>3, <4>1, <4>2, <4>3, <4>4, <4>5
      <3>4. ASSUME NEW q \in Requests, Tokenless(q) PROVE req'[r].token = req[r].token
        BY <3>4, TokenlessKeeps
      <3> QED
        BY <2>2, <3>1, <3>2, <3>3, <3>4, NextByToken DEF Tick, vars
    <2> QED
      BY <2>1, <2>2
  <1>5. /\ reset'.token # None => req'[reset'.token].pc = "done" /\ issued'[reset'.token] = 0
        /\ reset'.token = None => reset' = NoReset
    <2>1. CASE reset' = reset
      <3>1. reset.token # None => reset.token \in Requests
        BY <1>1 DEF ResetRow
      <3> QED
        BY <1>2, <2>1, <3>1 DEF Makers
    <2>2. CASE reset' # reset
      <3>1. ASSUME NEW q \in Requests, Upsert(q)
            PROVE  reset'.token = q /\ req'[q].pc = "done" /\ issued'[q] = 0 /\ q # None
        BY <1>1, <3>1 DEF Upsert, Goto, Makers, At
      <3>2. ASSUME NEW q \in Requests, Consume(q) PROVE reset' = NoReset
        BY <2>2, <3>2 DEF Consume
      <3>3. ASSUME NEW q \in Requests,
                   \/ SignIn(q) \/ Status(q) \/ Forget(q) \/ Compare2FA(q) \/ Claim(q)
                   \/ \E t \in Requests : Verify2FA(q, t)
                   \/ Peek(q) \/ Check(q)
            PROVE  reset' = reset
        BY <3>3 DEF SignIn, Status, Forget, Compare2FA, Claim, Verify2FA, Peek, Check,
           tables
      <3>4. NoReset.token = None
        BY DEF NoReset
      <3> QED
        BY <2>2, <3>1, <3>2, <3>3, <3>4, TokenlessKeeps, NextByToken DEF Tick, vars
    <2> QED
      BY <2>1, <2>2
  <1> QED
    BY <1>3, <1>4, <1>5 DEF Makers, At

\* Every accepted token was made by an answered request.
LEMMA AcceptedTokens ==
  ASSUME TypeOK, Makers, Used, NEW r \in Accepted
  PROVE  r \in Requests /\ req[r].token \in Requests /\ At(req[r].token, "done")
  BY DEF TypeOK, Makers, Used, Accepted, Request

LEMMA OneTimeStep ==
  ASSUME TypeOK, OneTime, [Next]_vars
  PROVE  Used' /\ AcceptedOnceInTime' /\ ResetOnce'
  <1>1. /\ req \in [Requests -> Request] /\ reset \in ResetRow /\ None \notin Requests
        /\ None \notin Nat /\ now \in Nat
        /\ issued \in [Requests -> Nat] /\ spent \in [Requests -> Nat]
    BY NamesAssumption DEF TypeOK
  <1>2. ASSUME NEW q \in Accepted
        PROVE  /\ q \in Requests /\ req[q].token \in Requests
               /\ At(req[q].token, "done") /\ issued'[req[q].token] = issued[req[q].token]
    BY <1>2, AcceptedTokens, DoneStays DEF OneTime
  <1>3. ASSUME Accepted' = Accepted,
               \A q \in Accepted : req'[q].token = req[q].token /\ req'[q].wonAt = req[q].wonAt
        PROVE  AcceptedOnceInTime' /\ ResetOnce'
    BY <1>2, <1>3 DEF OneTime, AcceptedOnceInTime, ResetOnce
  <1>4. ASSUME Accepted' = Accepted, now' = now, spent' = spent,
               \A q \in Accepted : reset'.token # req[q].token \/ reset' = reset,
               \A q \in Accepted : req'[q].token = req[q].token /\ req'[q].wonAt = req[q].wonAt
        PROVE  Used'
    BY <1>2, <1>4 DEF OneTime, Used
  <1>5. CASE UNCHANGED vars
    BY <1>3, <1>4, <1>5 DEF vars, Accepted
  <1>6. CASE Tick
    <2>1. Accepted' = Accepted /\ req' = req /\ reset' = reset /\ issued' = issued
      BY <1>6 DEF Tick, Accepted
    <2>2. ASSUME NEW q \in Accepted
          PROVE  /\ req[q].token # None
                 /\ req[q].wonAt <= now'
                 /\ now' < issued[req[q].token] => issued[req[q].token] <= spent'[req[q].token]
      <3>1. req[q].wonAt \in Nat /\ req[q].token \in Requests
        BY <1>1, <1>2 DEF Accepted, Request
      <3> QED
        BY <1>1, <1>6, <2>2, <3>1 DEF Tick, OneTime, Used
    <2> QED
      BY <1>3, <2>1, <2>2 DEF OneTime, Used
  <1>7. ASSUME NEW r \in Requests,
               \/ SignIn(r) \/ Status(r) \/ Forget(r) \/ Compare2FA(r) \/ Check(r)
               \/ Upsert(r) \/ \E t \in Requests : Verify2FA(r, t)
               \/ Peek(r)
        PROVE  Used' /\ AcceptedOnceInTime' /\ ResetOnce'
    <2>1. r \notin Accepted \/ req'[r].token = req[r].token
      <3>1. CASE SignIn(r) \/ Peek(r) \/ \E t \in Requests : Verify2FA(r, t)
        <4>1. At(r, "idle")
          BY <3>1 DEF SignIn, Peek, Verify2FA
        <4>2. req[r].wonAt = None
          BY <4>1 DEF OneTime, Locals, Holds, Idle
        <4> QED
          BY <4>2 DEF Accepted
      <3>2. CASE Status(r) \/ Forget(r) \/ Compare2FA(r) \/ Upsert(r)
        BY <1>1, <3>2 DEF Status, Forget, Compare2FA, Upsert, Goto, Request
      <3>3. CASE Check(r)
        BY <1>1, <3>3 DEF Check, Goto, Request
      <3> QED
        BY <1>7, <3>1, <3>2, <3>3
    <2>2. req'[r].wonAt = req[r].wonAt /\ \A q \in Requests \ {r} : req'[q] = req[q]
      <3>1. CASE \E t \in Requests : Verify2FA(r, t)
        BY <1>1, <3>1 DEF Verify2FA, Request
      <3>2. CASE SignIn(r)
        <4> DEFINE b == user.twoFactor
        <4>1. req' = [req EXCEPT ![r] = [req[r] EXCEPT !.pc = "status",
                                         !.password = user.password, !.twoFactor = b]]
          BY <3>2 DEF SignIn
        <4> HIDE DEF b
        <4> QED
          BY <1>1, <4>1 DEF Request
      <3>3. CASE Peek(r)
        BY <1>1, <3>3 DEF Peek, Request
      <3>4. CASE Status(r) \/ Forget(r) \/ Compare2FA(r) \/ Upsert(r)
        BY <1>1, <3>4 DEF Status, Forget, Compare2FA, Upsert, Goto, Request
      <3>5. CASE Check(r)
        BY <1>1, <3>5 DEF Check, Goto, Request
      <3> QED
        BY <1>7, <3>1, <3>2, <3>3, <3>4, <3>5
    <2>3. now' = now /\ spent' = spent /\ (reset' = reset \/ (reset'.token = r /\ ~At(r, "done")))
      <3>1. CASE Forget(r)
        BY <3>1 DEF Forget, At
      <3>2. CASE Upsert(r)
        BY <3>2 DEF Upsert, At, attempts
      <3>3. CASE SignIn(r) \/ Status(r) \/ Compare2FA(r) \/ Check(r) \/ Peek(r)
                 \/ \E t \in Requests : Verify2FA(r, t)
        BY <3>3 DEF SignIn, Status, Compare2FA, Check, Peek, Verify2FA, At, attempts, tables
      <3> QED
        BY <1>7, <3>1, <3>2, <3>3
    <2>4. Accepted' = Accepted
      BY <2>2 DEF Accepted
    <2>5. \A q \in Accepted : req'[q].token = req[q].token /\ req'[q].wonAt = req[q].wonAt
      BY <2>1, <2>2 DEF Accepted
    <2> QED
      BY <1>2, <1>3, <1>4, <2>3, <2>4, <2>5
  <1>8. ASSUME NEW r \in Requests, Tokenless(r)
        PROVE  Used' /\ AcceptedOnceInTime' /\ ResetOnce'
    <2>1. \A q \in Requests : req'[q].token = req[q].token /\ req'[q].wonAt = req[q].wonAt
      BY <1>8, TokenlessKeeps
    <2> QED
      BY <1>3, <1>4, <1>8, <2>1, TokenlessKeeps DEF Accepted
  <1>9. ASSUME NEW r \in Requests, Claim(r)
        PROVE  Used' /\ AcceptedOnceInTime' /\ ResetOnce'
    <2> DEFINE t == req[r].token
    <2>1. t \in Requests /\ issued[t] # 0 /\ issued' = issued /\ now' = now /\ reset' = reset
      BY <1>1, <1>9 DEF Claim, OneTime, Locals, Holds, At, Request, tables
    <2>2. CASE now < spent[t]
      <3>1. spent' = spent /\ \A q \in Requests :
              req'[q].token = req[q].token /\ req'[q].wonAt = req[q].wonAt
        BY <1>1, <1>9, <2>2 DEF Claim, Goto, Request
      <3> QED
        BY <1>3, <1>4, <2>1, <3>1 DEF Accepted
    <2>3. CASE ~(now < spent[t])
      <3>1. /\ spent' = [spent EXCEPT ![t] = SpentUntil(t)]
            /\ req'[r].token = t /\ req'[r].wonAt = now
            /\ \A q \in Requests \ {r} : req'[q] = req[q]
        BY <1>1, <1>9, <2>3 DEF Claim, Request
      <3>2. SpentUntil(t) \in Nat /\ issued[t] <= SpentUntil(t)
        BY <1>1, <2>1, TimesAssumption DEF SpentUntil, Later
      <3>3. Accepted' = Accepted \cup {r}
        BY <1>1, <3>1 DEF Accepted
      <3>4. ASSUME NEW q \in Accepted', q # r
            PROVE  q \in Accepted /\ req'[q] = req[q]
        <4>1. q \in Requests /\ req'[q].wonAt # None
          BY DEF Accepted
        <4> QED
          BY <3>1, <3>4, <4>1 DEF Accepted
      <3>5. \A q \in Accepted : req[q].token = t => ~(now < issued[t])
        BY <1>1, <2>1, <2>3 DEF OneTime, Used
      <3>6. AcceptedOnceInTime'
        <4> SUFFICES ASSUME NEW p \in Accepted', NEW q \in Accepted', p # q,
                            req'[p].token = req'[q].token,
                            {req'[p].wonAt, req'[q].wonAt} \subseteq 0..(issued'[req'[q].token] - 1)
                     PROVE  FALSE
          BY DEF AcceptedOnceInTime
        <4>1. CASE p = r \/ q = r
          <5>1. now \in 0..(issued[t] - 1)
            BY <2>1, <3>1, <4>1
          <5>2. \E x \in Accepted : req[x].token = t
            BY <3>1, <3>4, <4>1
          <5> QED
            BY <1>1, <2>1, <3>5, <5>1, <5>2
        <4>2. CASE p # r /\ q # r
          BY <2>1, <3>4, <4>2 DEF OneTime, AcceptedOnceInTime
        <4> QED
          BY <4>1, <4>2
      <3>7. ResetOnce'
        BY <2>1, <3>1, <3>4 DEF OneTime, ResetOnce
      <3>8. Used'
        <4> SUFFICES ASSUME NEW q \in Accepted'
                     PROVE  /\ req'[q].token # None /\ req'[q].wonAt <= now
                            /\ now < issued[req'[q].token] =>
                                 issued[req'[q].token] <= spent'[req'[q].token]
                            /\ issued[req'[q].token] = 0 => reset.token # req'[q].token
          BY <2>1 DEF Used
        <4>1. CASE q = r
          BY <1>1, <2>1, <3>1, <3>2, <4>1
        <4>2. CASE q # r
          <5>1. q \in Accepted /\ req'[q] = req[q] /\ req[q].token \in Requests
            BY <1>2, <3>4, <4>2
          <5>2. CASE req[q].token = t
            BY <1>1, <2>1, <3>1, <3>2, <5>1, <5>2 DEF OneTime, Used
          <5>3. CASE req[q].token # t
            BY <1>1, <2>1, <3>1, <5>1, <5>3 DEF OneTime, Used
          <5> QED
            BY <5>2, <5>3
        <4> QED
          BY <4>1, <4>2
      <3> QED
        BY <3>6, <3>7, <3>8
    <2> QED
      BY <2>2, <2>3
  <1>10. ASSUME NEW r \in Requests, Consume(r)
         PROVE  Used' /\ AcceptedOnceInTime' /\ ResetOnce'
    <2> DEFINE t == req[r].token
    <2>1. /\ t \in Requests /\ issued[t] = 0 /\ issued' = issued /\ now' = now
          /\ spent' = spent /\ (reset' = reset \/ reset' = NoReset)
      BY <1>1, <1>10 DEF Consume, OneTime, Locals, Holds, At, Request, attempts
    <2>2. \A q \in Accepted : reset'.token # req[q].token \/ reset' = reset
      BY <1>1, <1>2, <2>1 DEF NoReset
    <2>3. CASE ~(Affected(r) /\ now < req[r].deadline)
      <3>1. \A q \in Requests : req'[q].token = req[q].token /\ req'[q].wonAt = req[q].wonAt
        BY <1>1, <1>10, <2>3 DEF Consume, Goto, Request
      <3> QED
        BY <1>3, <1>4, <2>1, <2>2, <3>1 DEF Accepted
    <2>4. CASE Affected(r) /\ now < req[r].deadline
      <3>1. /\ reset' = NoReset /\ reset.token = t
            /\ req'[r].token = t /\ req'[r].wonAt = now
            /\ \A q \in Requests \ {r} : req'[q] = req[q]
        BY <1>1, <1>10, <2>4 DEF Consume, Affected, Request
      <3>2. ASSUME NEW q \in Accepted', q # r
            PROVE  q \in Accepted /\ req'[q] = req[q]
        <4>1. q \in Requests /\ req'[q].wonAt # None
          BY DEF Accepted
        <4> QED
          BY <3>1, <3>2, <4>1 DEF Accepted
      <3>3. \A q \in Accepted : req[q].token # t
        BY <2>1, <3>1 DEF OneTime, Used
      <3>4. ResetOnce' /\ AcceptedOnceInTime'
        BY <2>1, <3>1, <3>2, <3>3 DEF OneTime, ResetOnce, AcceptedOnceInTime
      <3>5. Used'
        <4> SUFFICES ASSUME NEW q \in Accepted'
                     PROVE  /\ req'[q].token # None /\ req'[q].wonAt <= now
                            /\ now < issued[req'[q].token] =>
                                 issued[req'[q].token] <= spent[req'[q].token]
                            /\ reset'.token # req'[q].token
          BY <2>1 DEF Used
        <4>1. reset'.token = None
          BY <3>1 DEF NoReset
        <4>2. CASE q = r
          BY <1>1, <2>1, <3>1, <4>1, <4>2
        <4>3. CASE q # r
          BY <1>1, <1>2, <3>2, <4>1, <4>3 DEF OneTime, Used
        <4> QED
          BY <4>2, <4>3
      <3> QED
        BY <3>4, <3>5
    <2> QED
      BY <2>3, <2>4
  <1> QED
    BY <1>5, <1>6, <1>7, <1>8, <1>9, <1>10, NextByToken

LEMMA OneTimeHolds == Spec => []OneTime
  <1>1. Init => OneTime
    BY NamesAssumption DEF Init, OneTime, Locals, Holds, Makers, Used, AcceptedOnceInTime,
       ResetOnce, Accepted, Idle, NoReset, At
  <1>2. TypeOK /\ OneTime /\ [Next]_vars => OneTime'
    BY LocalsStep, MakersStep, OneTimeStep DEF OneTime
  <1> QED
    BY <1>1, <1>2, TypeCorrect, PTL DEF Spec

\* A 2FA token is accepted once as long as it is valid.
THEOREM AcceptedOnceInTimeHolds == Spec => []AcceptedOnceInTime
  BY OneTimeHolds, PTL DEF OneTime

\* A mailed token sets one password.
THEOREM ResetOnceHolds == Spec => []ResetOnce
  BY OneTimeHolds, PTL DEF OneTime

\* Both kinds of token are one-time.
THEOREM TokensOneTimeHolds == Spec => []TokensOneTime
<1>1. AcceptedOnceInTime /\ ResetOnce => TokensOneTime
  BY DEF TokensOneTime
<1>. QED  BY <1>1, AcceptedOnceInTimeHolds, ResetOnceHolds, PTL

-----------------------------------------------------------------------------
(* Sessions and the password they were opened with *)

EndPoints == {"unlockFails", "unlock", "end"}

LoginPoints == {"status", "forget", "open", "user2fa", "claim"}

\* The sessions are about to be ended, or will not be.
Pending == past.unended \/ \E r \in Requests : req[r].pc \in EndPoints

\* Password p is the current one, or it soon ends the sessions, or one of "who"
\* was under way when they were ended.
Allowed(p, who) ==
  p = user.password \/ Pending \/ who \cap past.excused # {}

\* A session, and the login that made the 2FA token it was opened with.
Via(s) == {s, IF s = First THEN None ELSE req[s].token}

LoginsProved ==
  \A r \in Requests :
    req[r].pc \in LoginPoints => Allowed(req[r].password, {r, req[r].token})

TokensProved ==
  \A t \in Requests : now < issued[t] => Allowed(req[t].password, {t})

Proved == SessionsProved /\ LoginsProved /\ TokensProved

LEMMA SessionsProvedAllowed ==
  SessionsProved <=> \A s \in Open : Allowed(sessions[s], Via(s))
  BY DEF SessionsProved, Allowed, Pending, Via, EndPoints

\* Only what may be excused counts.
LEMMA AllowedWeaker ==
  ASSUME TypeOK, NEW p, NEW who, NEW more, Allowed(p, who), who \cap SessionIds \subseteq more
  PROVE  Allowed(p, more)
  BY DEF Allowed, TypeOK

\* The steps that neither change the password nor end the sessions.
LEMMA QuietSteps ==
  ASSUME TypeOK, [Next]_vars
  PROVE  \/ \E r \in Requests : SetPassword(r) \/ EndSessions(r)
         \/ /\ user'.password = user.password /\ past'.excused = past.excused
            /\ Pending => Pending'
  <1>1. req \in [Requests -> Request]
    BY DEF TypeOK
  <1>2. ASSUME NEW r \in Requests,
               \/ SignIn(r) \/ Status(r) \/ AddFailure(r) \/ SetEnd(r)
               \/ Lock(r) \/ Clear(r) \/ Forget(r) \/ OpenSession(r)
               \/ \E t \in Requests : Verify2FA(r, t)
               \/ Compare2FA(r) \/ Claim(r)
               \/ RequestReset(r) \/ Upsert(r) \/ Peek(r) \/ Check(r) \/ Consume(r)
               \/ Drop2FA(r)
               \/ \E s \in SessionIds : ChangePassword(r, s)
               \/ Enable2FA(r) \/ Disable2FA(r) \/ Save2FA(r)
        PROVE  /\ user'.password = user.password /\ past'.excused = past.excused
               /\ past'.unended = past.unended
               /\ req[r].pc \notin EndPoints /\ \A q \in Requests \ {r} : req'[q] = req[q]
    <2>1. CASE \/ SignIn(r) \/ Status(r) \/ SetEnd(r) \/ Lock(r) \/ Clear(r) \/ Forget(r)
               \/ OpenSession(r) \/ \E t \in Requests : Verify2FA(r, t)
      BY <1>1, <2>1 DEF SignIn, Status, SetEnd, Lock, Clear, Forget, OpenSession, Verify2FA,
         Goto, At, EndPoints, attempts, tables
    <2>2. CASE AddFailure(r)
      BY <1>1, <2>2 DEF AddFailure, At, EndPoints, TypeOK
    <2>3. CASE \/ Compare2FA(r) \/ Claim(r) \/ RequestReset(r) \/ Upsert(r) \/ Peek(r)
               \/ Check(r) \/ Consume(r)
      BY <1>1, <2>3 DEF Compare2FA, Claim, RequestReset, Upsert, Peek, Check, Consume,
         Goto, At, EndPoints, attempts, tables
    <2>4. CASE \/ Drop2FA(r) \/ Enable2FA(r) \/ Disable2FA(r) \/ Save2FA(r)
               \/ \E s \in SessionIds : ChangePassword(r, s)
      BY <1>1, <2>4 DEF Drop2FA, Enable2FA, Disable2FA, Save2FA, ChangePassword, Goto, At,
         EndPoints, attempts, tables, TypeOK
    <2> QED
      BY <1>2, <2>1, <2>2, <2>3, <2>4
  <1>3. ASSUME NEW r \in Requests, UnlockFails(r) \/ Unlock(r)
        PROVE  /\ user' = user /\ past' = past
               /\ req'[r].pc \in EndPoints
    BY <1>1, <1>3 DEF UnlockFails, Unlock, Goto, EndPoints, Request
  <1>4. ASSUME NEW r \in Requests, Abandon(r)
        PROVE  /\ user' = user /\ past'.excused = past.excused
               /\ past.unended \/ req[r].pc \in EndPoints => past'.unended
               /\ \A q \in Requests \ {r} : req'[q] = req[q]
    BY <1>1, <1>4 DEF Abandon, Goto, EndPoints, tables, TypeOK
  <1>5. CASE UNCHANGED vars \/ Tick
    BY <1>5 DEF vars, Tick, Pending
  <1> QED
    BY <1>2, <1>3, <1>4, <1>5 DEF Next, Pending

LEMMA AllowedStays ==
  ASSUME TypeOK, [Next]_vars, ~\E r \in Requests : EndSessions(r),
         NEW p, NEW who, Allowed(p, who)
  PROVE  Allowed(p, who)'
  <1>1. ASSUME NEW r \in Requests, SetPassword(r) PROVE Pending'
    BY <1>1 DEF SetPassword, Goto, Pending, EndPoints, TypeOK, Request
  <1> QED
    BY <1>1, QuietSteps DEF Allowed

\* A step that ends the sessions notes what is under way.
LEMMA EndSessionsProved ==
  ASSUME TypeOK, NEW r \in Requests, EndSessions(r)
  PROVE  Proved'
  <1>1. /\ req' = [req EXCEPT ![r].pc = "done"] /\ now' = now /\ issued' = issued
        /\ req \in [Requests -> Request] /\ sessions \in [SessionIds -> Nat]
    BY DEF EndSessions, Goto, attempts, TypeOK
  <1>2. past'.excused = past.excused \cup InFlight \cup {q \in Requests : now < issued[q]}
                          \cup (SessionIds \cap {req[r].caller})
    BY DEF EndSessions, TypeOK
  <1>3. ASSUME NEW s \in Open' PROVE Allowed(sessions[s], Via(s))'
    <2>1. s \in SessionIds /\ s = req[r].caller
      BY DEF Open, EndSessions, Spared
    <2> QED
      BY <1>2, <2>1 DEF Allowed, Via
  <1>4. LoginsProved'
    <2> SUFFICES ASSUME NEW q \in Requests, req'[q].pc \in LoginPoints
                 PROVE  q \in past'.excused
      BY DEF LoginsProved, Allowed
    <2>1. q # r /\ req'[q] = req[q]
      BY <1>1 DEF LoginPoints, Request
    <2> QED
      BY <1>2, <2>1 DEF InFlight, LoginPoints
  <1>5. TokensProved'
    BY <1>1, <1>2 DEF TokensProved, Allowed
  <1>6. SessionsProved'
    BY <1>3 DEF SessionsProved, Allowed, Pending, Via, EndPoints
  <1> QED
    BY <1>4, <1>5, <1>6 DEF Proved

\* A token, once presented, stays with its request.
LEMMA TokenStays ==
  ASSUME TypeOK, Locals, [Next]_vars, NEW q \in Requests
  PROVE  req'[q].token = req[q].token \/ req[q].token = None
  <1>1. req \in [Requests -> Request]
    BY DEF TypeOK
  <1>2. ASSUME NEW r \in Requests,
               SignIn(r) \/ Peek(r) \/ \E t \in Requests : Verify2FA(r, t)
        PROVE  req[r].token = None /\ \A p \in Requests \ {r} : req'[p] = req[p]
    <2>1. At(r, "idle") /\ \A p \in Requests \ {r} : req'[p] = req[p]
      BY <1>1, <1>2 DEF SignIn, Peek, Verify2FA
    <2> QED
      BY <2>1 DEF Locals, Holds, Idle
  <1>3. ASSUME NEW r \in Requests, Claim(r) \/ Consume(r) \/ Check(r)
        PROVE  req'[q].token = req[q].token
    <2>1. CASE Claim(r)
      BY <1>1, <2>1 DEF Claim, Goto, Request
    <2>2. CASE Consume(r)
      BY <1>1, <2>2 DEF Consume, Goto, Request
    <2>3. CASE Check(r)
      BY <1>1, <2>3 DEF Check, Goto, Request
    <2> QED
      BY <1>3, <2>1, <2>2, <2>3
  <1>4. ASSUME NEW r \in Requests, Status(r) \/ Forget(r) \/ Compare2FA(r) \/ Upsert(r)
        PROVE  req'[q].token = req[q].token
    BY <1>1, <1>4 DEF Status, Forget, Compare2FA, Upsert, Goto, Request
  <1> QED
    BY <1>2, <1>3, <1>4, TokenlessKeeps, NextByToken DEF Tick, vars

\* Which steps open a session, for whom.
LEMMA WhoOpens ==
  ASSUME TypeOK, [Next]_vars, ~\E r \in Requests : EndSessions(r),
         NEW s \in SessionIds, sessions'[s] # sessions[s]
  PROVE  /\ s \in Requests /\ req[s].pc \in LoginPoints
         /\ sessions'[s] = req[s].password /\ req'[s].token = req[s].token
  <1>1. req \in [Requests -> Request] /\ sessions \in [SessionIds -> Nat]
    BY DEF TypeOK
  <1>2. ASSUME NEW r \in Requests, OpenSession(r)
        PROVE  /\ s = r /\ req[s].pc \in LoginPoints
               /\ sessions'[s] = req[s].password /\ req'[s].token = req[s].token
    BY <1>1, <1>2 DEF OpenSession, Goto, At, LoginPoints, SessionIds, Request
  <1>3. ASSUME NEW r \in Requests,
               \/ SignIn(r) \/ Status(r) \/ AddFailure(r) \/ SetEnd(r)
               \/ Lock(r) \/ Clear(r) \/ Forget(r)
               \/ \E t \in Requests : Verify2FA(r, t)
               \/ Compare2FA(r) \/ Claim(r)
               \/ RequestReset(r) \/ Upsert(r) \/ Peek(r) \/ Check(r) \/ Consume(r)
               \/ Drop2FA(r) \/ SetPassword(r) \/ UnlockFails(r) \/ Unlock(r)
               \/ \E x \in SessionIds : ChangePassword(r, x)
               \/ Enable2FA(r) \/ Disable2FA(r) \/ Save2FA(r) \/ Abandon(r)
        PROVE  sessions' = sessions
    BY <1>3 DEF SignIn, Status, AddFailure, SetEnd, Lock, Clear, Forget, Verify2FA,
       Compare2FA, Claim, RequestReset, Upsert, Peek, Check, Consume, Drop2FA, SetPassword,
       UnlockFails, Unlock, ChangePassword, Enable2FA, Disable2FA, Save2FA, Abandon, tables
  <1> QED
    BY <1>2, <1>3 DEF Next, Tick, vars

LEMMA SessionsProvedStep ==
  ASSUME TypeOK, Locals, Proved, [Next]_vars, ~\E r \in Requests : EndSessions(r)
  PROVE  SessionsProved'
  <1> SUFFICES ASSUME NEW s \in SessionIds, sessions'[s] # 0
               PROVE  \/ sessions'[s] = user'.password
                      \/ Pending'
                      \/ {s, IF s = First THEN None ELSE req'[s].token} \cap past'.excused # {}
    BY DEF SessionsProved, Open, Pending, EndPoints
  <1> SUFFICES ASSUME NEW p, p = sessions'[s]
               PROVE  \/ p = user'.password
                      \/ Pending'
                      \/ {s, IF s = First THEN None ELSE req'[s].token} \cap past'.excused # {}
    OBVIOUS
  <1> SUFFICES ASSUME NEW w, w = {s, IF s = First THEN None ELSE req'[s].token}
               PROVE  p = user'.password \/ Pending' \/ w \cap past'.excused # {}
    OBVIOUS
  <1> SUFFICES Allowed(p, w)'
    BY DEF Allowed
  <1>1. CASE sessions'[s] = sessions[s]
    <2>1. Allowed(p, Via(s))
      BY <1>1, SessionsProvedAllowed DEF Proved, Open
    <2>2. Via(s) \cap SessionIds \subseteq w
      <3>1. CASE s = First
        BY <3>1 DEF Via
      <3>2. CASE s # First
        BY <3>2, TokenStays, NamesAssumption DEF Via, SessionIds
      <3> QED
        BY <3>1, <3>2
    <2> QED
      BY <2>1, <2>2, AllowedWeaker, AllowedStays
  <1>2. CASE sessions'[s] # sessions[s]
    <2>1. /\ s \in Requests /\ req[s].pc \in LoginPoints
          /\ p = req[s].password /\ req'[s].token = req[s].token
      BY <1>2, WhoOpens
    <2>2. Allowed(p, {s, req[s].token}) /\ s # First
      BY <2>1, NamesAssumption DEF Proved, LoginsProved
    <2> QED
      BY <2>1, <2>2, AllowedStays
  <1> QED
    BY <1>1, <1>2

\* Where the logins under way come from.
LEMMA WhoLogsIn ==
  ASSUME TypeOK, Locals, [Next]_vars, NEW q \in Requests, req'[q].pc \in LoginPoints
  PROVE  \/ /\ req[q].pc \in LoginPoints
            /\ req'[q].password = req[q].password /\ req'[q].token = req[q].token
         \/ req'[q].password = user.password
         \/ \E t \in Requests : /\ now < issued[t]
                                /\ req'[q].password = req[t].password
                                /\ req'[q].token = t
  <1>1. req \in [Requests -> Request]
    BY DEF TypeOK
  <1>2. CASE req'[q] = req[q]
    BY <1>2
  <1>3. CASE SignIn(q)
    <2> DEFINE b == user.twoFactor
    <2>1. req' = [req EXCEPT ![q] = [req[q] EXCEPT !.pc = "status",
                                     !.password = user.password, !.twoFactor = b]]
      BY <1>3 DEF SignIn
    <2> HIDE DEF b
    <2> QED
      BY <1>1, <2>1 DEF Request
  <1>4. ASSUME NEW t \in Requests, Verify2FA(q, t)
        PROVE  now < issued[t] /\ req'[q].password = req[t].password /\ req'[q].token = t
    BY <1>1, <1>4 DEF Verify2FA, Request
  <1>5. CASE Status(q) \/ Compare2FA(q) \/ Forget(q)
    BY <1>1, <1>5 DEF Status, Compare2FA, Forget, Goto, At, LoginPoints, Request
  <1>6. CASE Claim(q)
    BY <1>1, <1>6 DEF Claim, Goto, At, LoginPoints, Request
  <1>7. ~Tokenless(q)
    BY TokenlessKeeps DEF TokenPoints, LoginPoints
  <1>8. CASE Upsert(q) \/ Peek(q) \/ Check(q) \/ Consume(q)
    <2>1. CASE Upsert(q) \/ Check(q)
      BY <1>1, <2>1 DEF Upsert, Check, Goto, LoginPoints, Request
    <2>2. CASE Peek(q)
      BY <1>1, <2>2 DEF Peek, LoginPoints, Request
    <2>3. CASE Consume(q)
      BY <1>1, <2>3 DEF Consume, Goto, LoginPoints, Request
    <2> QED
      BY <1>8, <2>1, <2>2, <2>3
  <1>9. ASSUME NEW r \in Requests, r # q,
               \/ SignIn(r) \/ Status(r) \/ Forget(r) \/ Compare2FA(r) \/ Claim(r)
               \/ \E t \in Requests : Verify2FA(r, t)
               \/ Upsert(r) \/ Peek(r) \/ Check(r) \/ Consume(r)
        PROVE  req'[q] = req[q]
    BY <1>1, <1>9 DEF SignIn, Status, Forget, Compare2FA, Claim, Verify2FA, Upsert, Peek,
       Check, Consume, Goto
  <1>10. ASSUME NEW r \in Requests, r # q, Tokenless(r) PROVE req'[q] = req[q]
    BY <1>10, TokenlessKeeps
  <1> QED
    BY <1>2, <1>3, <1>4, <1>5, <1>6, <1>7, <1>8, <1>9, <1>10, NextByToken DEF Tick, vars

LEMMA LoginsProvedStep ==
  ASSUME TypeOK, Locals, Proved, [Next]_vars, ~\E r \in Requests : EndSessions(r)
  PROVE  LoginsProved'
  <1> SUFFICES ASSUME NEW q \in Requests, req'[q].pc \in LoginPoints
               PROVE  \/ req'[q].password = user'.password
                      \/ Pending'
                      \/ {q, req'[q].token} \cap past'.excused # {}
    BY DEF LoginsProved, Allowed
  <1> SUFFICES ASSUME NEW p, p = req'[q].password
               PROVE  p = user'.password \/ Pending' \/ {q, req'[q].token} \cap past'.excused # {}
    OBVIOUS
  <1> SUFFICES ASSUME NEW w, w = {q, req'[q].token}
               PROVE  p = user'.password \/ Pending' \/ w \cap past'.excused # {}
    OBVIOUS
  <1> SUFFICES Allowed(p, w)'
    BY DEF Allowed
  <1>1. CASE /\ req[q].pc \in LoginPoints
             /\ req'[q].password = req[q].password /\ req'[q].token = req[q].token
    <2>1. Allowed(p, w)
      BY <1>1 DEF Proved, LoginsProved
    <2> QED
      BY <2>1, AllowedStays
  <1>2. CASE req'[q].password = user.password
    <2>1. Allowed(p, w)
      BY <1>2 DEF Allowed
    <2> QED
      BY <2>1, AllowedStays
  <1>3. CASE \E t \in Requests : /\ now < issued[t]
                                 /\ req'[q].password = req[t].password
                                 /\ req'[q].token = t
    <2>1. PICK t \in Requests : now < issued[t] /\ p = req[t].password /\ t \in w
      BY <1>3
    <2>2. Allowed(p, {t})
      BY <2>1 DEF Proved, TokensProved
    <2>3. Allowed(p, w)
      BY <2>1, <2>2, AllowedWeaker
    <2> QED
      BY <2>3, AllowedStays
  <1> QED
    BY <1>1, <1>2, <1>3, WhoLogsIn

LEMMA TokensProvedStep ==
  ASSUME TypeOK, Locals, Makers, Proved, [Next]_vars, ~\E r \in Requests : EndSessions(r)
  PROVE  TokensProved'
  <1> SUFFICES ASSUME NEW t \in Requests, now' < issued'[t]
               PROVE  \/ req'[t].password = user'.password
                      \/ Pending'
                      \/ {t} \cap past'.excused # {}
    BY DEF TokensProved, Allowed
  <1> SUFFICES ASSUME NEW p, p = req'[t].password
               PROVE  p = user'.password \/ Pending' \/ {t} \cap past'.excused # {}
    OBVIOUS
  <1> SUFFICES Allowed(p, {t})'
    BY DEF Allowed
  <1>1. /\ req \in [Requests -> Request] /\ issued \in [Requests -> Nat]
        /\ now \in Nat /\ now' \in Nat /\ issued' \in [Requests -> Nat]
    BY TypeStep DEF TypeOK
  <1>2. now <= now'
    <2>1. ASSUME NEW r \in Requests, ~Tokenless(r),
                 \/ SignIn(r) \/ Status(r) \/ Forget(r) \/ Compare2FA(r) \/ Claim(r)
                 \/ \E q \in Requests : Verify2FA(r, q)
                 \/ Upsert(r) \/ Peek(r) \/ Check(r) \/ Consume(r)
          PROVE  now' = now
      BY <2>1 DEF SignIn, Status, Forget, Compare2FA, Claim, Verify2FA, Upsert, Peek, Check,
         Consume
    <2> QED
      BY <1>1, <2>1, TokenlessKeeps, NextByToken DEF Tick, vars
  <1>3. CASE At(t, "done")
    <2>1. Allowed(p, {t})
      BY <1>1, <1>2, <1>3, DoneStays DEF Proved, TokensProved
    <2> QED
      BY <2>1, AllowedStays
  <1>4. CASE ~At(t, "done")
    <2>1. issued[t] = 0
      BY <1>4 DEF Makers
    <2>2. ASSUME NEW r \in Requests, Forget(r)
          PROVE  r = t /\ req[t].pc = "forget" /\ req[t].key = "login"
                 /\ req'[t].password = req[t].password
      BY <1>1, <2>1, <2>2 DEF Forget, Goto, At, Request
    <2>3. ASSUME NEW r \in Requests,
                 \/ SignIn(r) \/ Status(r) \/ Compare2FA(r) \/ Claim(r)
                 \/ \E q \in Requests : Verify2FA(r, q)
                 \/ Upsert(r) \/ Peek(r) \/ Check(r) \/ Consume(r)
          PROVE  issued' = issued
      BY <2>3 DEF SignIn, Status, Compare2FA, Claim, Verify2FA, Upsert, Peek, Check, Consume
    <2>4. req[t].pc = "forget" /\ req[t].key = "login" /\ p = req[t].password
      BY <1>1, <2>1, <2>2, <2>3, TokenlessKeeps, NextByToken DEF Tick, vars
    <2>5. req[t].token = None
      BY <2>4 DEF Locals, Holds
    <2>6. Allowed(p, {t, None})
      BY <2>4, <2>5 DEF Proved, LoginsProved, LoginPoints
    <2>7. Allowed(p, {t})
      BY <2>6, AllowedWeaker, NamesAssumption DEF SessionIds
    <2> QED
      BY <2>7, AllowedStays
  <1> QED
    BY <1>3, <1>4

\* Sessions opened with an earlier password were under way when it was changed.
THEOREM SessionsProvedHolds == Spec => []SessionsProved
  <1>1. Init => Proved
    BY DEF Init, Proved, SessionsProved, LoginsProved, TokensProved, Idle, LoginPoints, Open
  <1>2. TypeOK /\ OneTime /\ Proved /\ [Next]_vars => Proved'
    <2> SUFFICES ASSUME TypeOK, OneTime, Proved, [Next]_vars PROVE Proved'
      OBVIOUS
    <2>1. CASE \E r \in Requests : EndSessions(r)
      BY <2>1, EndSessionsProved
    <2>2. CASE ~\E r \in Requests : EndSessions(r)
      BY <2>2, SessionsProvedStep, LoginsProvedStep, TokensProvedStep DEF Proved, OneTime
    <2> QED
      BY <2>1, <2>2
  <1> QED
    BY <1>1, <1>2, TypeCorrect, OneTimeHolds, PTL DEF Spec, Proved
=============================================================================

-------------------------- MODULE Accounts_proofs --------------------------
(***************************************************************************)
(* Safety of Accounts for any requests, addresses, limit and times.        *)
(***************************************************************************)
EXTENDS Accounts, TLAPS

-----------------------------------------------------------------------------
(* The inductive invariant *)

\* A code that was mailed.
Known(c, sent) == c \in Requests /\ sent[c] # None

\* What a request has at hand at each point.
Fits(x, sent) ==
  /\ x.pc \in {"cooldown", "create", "upsert", "mail", "previous", "conflict", "replace",
              "available", "patch"} => x.email \in Emails
  /\ x.pc = "find" => Known(x.code, sent) \/ x.code = None
  /\ x.pc \in {"consume", "mark"} => Known(x.code, sent)
  /\ x.pc \in {"reject", "drop", "occupied", "apply"} => Known(x.id, sent)
  /\ x.pc \in {"occupied", "apply"} => x.code = x.id /\ sent[x.id] = x.email
  /\ x.won => x.pc \in {"mark", "done"} /\ Known(x.code, sent)

Locals == \A r \in Requests : Fits(req[r], sentTo)

\* A row has a name, and names are not shared: they are of requests that made a code, and
\* that make no other one.
Names ==
  /\ otp.code = None => otp = NoOtp
  /\ change.id = None => change = NoChange
  /\ change.id # None => change.newEmail # None /\ sentTo[change.id] = change.newEmail
  /\ otp.code # None => otp.code # change.id
  /\ \A c \in Requests :
       /\ c \in {otp.code, change.id} \cup past.dead \cup past.replaced =>
            req[c].pc \in {"mail", "withdraw", "done"}
       /\ sentTo[c] # None => req[c].pc = "done"

\* A code that was accepted is in no row, and was accepted from one request.
Once ==
  /\ \A r \in Accepted : req[r].code \notin {otp.code, change.id}
  /\ CodeOnce

\* A code in a row was not replaced, and one that is dead can be seen to be.
RowsAlive ==
  /\ otp.code \notin past.replaced /\ change.id \notin past.replaced
  /\ otp.code \in past.dead => Spoiled(otp.expireAt, otp.attempts)
  /\ change.id \in past.dead => Spoiled(change.expiresAt, change.attempts)

\* Only a code that was dead when its check began is doubted, and it gets nowhere.
Sure(x, dead) ==
  /\ x.pc = "find" /\ x.doubt => x.code \in dead
  /\ x.pc \in {"consume", "occupied", "apply"} => ~x.doubt
  /\ x.won => ~x.doubt

ChecksSure == \A r \in Requests : Sure(req[r], past.dead)

\* A request of change is dropped for one of the reasons ChangeKept names.
Reason ==
  Spoiled(change.expiresAt, change.attempts) \/ past.contested

Kept ==
  /\ change.id # None /\ change.newEmail \in taken => past.contested
  /\ \A r \in Requests : req[r].pc = "drop" /\ req[r].id = change.id => Reason

\* As long as the address is neither verified nor was written beside a code for an earlier
\* one, all codes and checks are about it.
About(x, email, sent) ==
  /\ x.pc \in {"cooldown", "create", "upsert", "mail"} => x.email = email
  /\ x.pc \in {"consume", "mark"} => sent[x.code] = email

AboutIt ==
  /\ otp.code # None => sentTo[otp.code] \in {None, user.email}
  /\ \A r \in Requests : About(req[r], user.email, sentTo)

Proofs ==
  /\ VerifiedByProof
  /\ ~user.verified /\ ~past.overlapped => AboutIt

Sound == TypeOK /\ Locals /\ Names

-----------------------------------------------------------------------------
(* Steps of a request *)

\* What the end of a request keeps: the code it made or had accepted.
Ends(r) ==
  /\ req' \in [Requests -> Request]
  /\ \A q \in Requests \ {r} : req'[q] = req[q]
  /\ req'[r].pc \in {"idle", "done"}
  /\ req[r].pc \in {"mail", "withdraw"} \/ req[r].won => req'[r].pc = "done"
  /\ req'[r].won = req[r].won
  /\ req[r].won => req'[r].code = req[r].code /\ req'[r].doubt = req[r].doubt

\* What the way from one point to another keeps.
Goes(r, pc) ==
  /\ req' \in [Requests -> Request]
  /\ \A q \in Requests \ {r} : req'[q] = req[q]
  /\ req'[r].pc = pc
  /\ req'[r].email = req[r].email /\ req'[r].code = req[r].code
  /\ req'[r].id = req[r].id
  /\ req'[r].doubt = req[r].doubt /\ req'[r].won = req[r].won

\* A request that is at a point with what it has at hand.
Becomes(r, pc, email, code, id, doubt, won) ==
  /\ req' \in [Requests -> Request]
  /\ \A q \in Requests \ {r} : req'[q] = req[q]
  /\ req'[r].pc = pc /\ req'[r].email = email /\ req'[r].code = code
  /\ req'[r].id = id /\ req'[r].doubt = doubt /\ req'[r].won = won

LEMMA FinishEnds ==
  ASSUME TypeOK, NEW r \in Requests, Finish(r)
  PROVE  Ends(r)
  <1>1. req \in [Requests -> Request]
    BY DEF TypeOK
  <1>2. Idle \in Request
    BY DEF Idle, Request, Points, Codes
  <1>3. CASE Traced(r)
    <2>1. req' = [req EXCEPT ![r] = [req[r] EXCEPT !.pc = "done", !.email = None]]
      BY <1>3 DEF Finish
    <2>2. [req[r] EXCEPT !.pc = "done", !.email = None] \in Request
      BY <1>1 DEF Request, Points
    <2> QED
      BY <1>1, <2>1, <2>2 DEF Ends, Request
  <1>4. CASE ~Traced(r)
    <2>1. req' = [req EXCEPT ![r] = Idle]
      BY <1>4 DEF Finish
    <2>2. req[r].won = FALSE /\ req[r].pc \notin {"mail", "withdraw"}
      BY <1>1, <1>4 DEF Traced, Request
    <2> QED
      BY <1>1, <1>2, <2>1, <2>2 DEF Ends, Idle
  <1> QED
    BY <1>3, <1>4

LEMMA GotoGoes ==
  ASSUME TypeOK, NEW r \in Requests, NEW pc \in Points, Goto(r, pc)
  PROVE  Goes(r, pc)
  <1>1. req \in [Requests -> Request] /\ req' = [req EXCEPT ![r].pc = pc]
    BY DEF TypeOK, Goto
  <1> QED
    BY <1>1 DEF Goes, Request

LEMMA GoOrFinishDoes ==
  ASSUME TypeOK, NEW r \in Requests, NEW pc \in Points, NEW goes, GoOrFinish(r, goes, pc)
  PROVE  IF goes THEN Goes(r, pc) ELSE Ends(r)
  BY FinishEnds, GotoGoes DEF GoOrFinish

\* The steps that put something down in their request.
LEMMA BecomesSo ==
  ASSUME TypeOK, NEW r \in Requests, NEW y \in Request, req' = [req EXCEPT ![r] = y]
  PROVE  Becomes(r, y.pc, y.email, y.code, y.id, y.doubt, y.won)
  <1>1. req' \in [Requests -> Request] /\ req'[r] = y /\ \A q \in Requests \ {r} : req'[q] = req[q]
    BY DEF TypeOK
  <1> QED
    BY <1>1 DEF Becomes

LEMMA AskedDoes ==
  ASSUME TypeOK, NEW r \in Requests, NEW e \in Emails,
         NEW pc \in {"cooldown", "previous", "available"},
         req' = [req EXCEPT ![r].pc = pc, ![r].email = e]
  PROVE  Becomes(r, pc, e, req[r].code, req[r].id, req[r].doubt, req[r].won)
  <1>1. req[r] \in Request /\ req \in [Requests -> Request]
    BY DEF TypeOK
  <1>2. PICK y : y = [req[r] EXCEPT !.pc = pc, !.email = e]
    OBVIOUS
  <1>3. y \in Request /\ y.pc = pc /\ y.email = e /\ y.code = req[r].code /\ y.id = req[r].id
    BY <1>1, <1>2 DEF Request, Points
  <1>4. y.doubt = req[r].doubt /\ y.won = req[r].won
    BY <1>1, <1>2 DEF Request
  <1>5. req' = [req EXCEPT ![r] = y]
    BY <1>1, <1>2 DEF Request
  <1> QED
    BY <1>3, <1>4, <1>5, BecomesSo

LEMMA VerifyEmailDoes ==
  ASSUME TypeOK, NEW r \in Requests, NEW c \in Codes, VerifyEmail(r, c)
  PROVE  \E b \in BOOLEAN : /\ b <=> c \in past.dead
                            /\ Becomes(r, "find", req[r].email, c, req[r].id, b, req[r].won)
  <1>1. req[r] \in Request /\ req \in [Requests -> Request]
    BY DEF TypeOK
  <1>2. PICK b \in BOOLEAN : b <=> c \in past.dead
    OBVIOUS
  <1>3. PICK y : y = [req[r] EXCEPT !.pc = "find", !.code = c, !.doubt = b]
    OBVIOUS
  <1>4. y \in Request /\ y.pc = "find" /\ y.email = req[r].email /\ y.code = c /\ y.id = req[r].id
    BY <1>1, <1>3 DEF Request, Points
  <1>5. y.doubt = b /\ y.won = req[r].won
    BY <1>1, <1>3 DEF Request
  <1>6. req' = [req EXCEPT ![r] = y]
    BY <1>1, <1>2, <1>3 DEF Request, VerifyEmail
  <1> QED
    BY <1>2, <1>4, <1>5, <1>6, BecomesSo

LEMMA ConsumeOtpDoes ==
  ASSUME TypeOK, NEW r \in Requests, ConsumeOtp(r), otp.code = req[r].code
  PROVE  \E b \in BOOLEAN :
           /\ b <=> req[r].doubt \/ req[r].code \in past.replaced
           /\ Becomes(r, "mark", req[r].email, req[r].code, req[r].id, b, TRUE)
  <1>1. req[r] \in Request /\ req \in [Requests -> Request]
    BY DEF TypeOK
  <1>2. PICK b \in BOOLEAN : b <=> req[r].doubt \/ req[r].code \in past.replaced
    OBVIOUS
  <1>3. PICK y : y = [req[r] EXCEPT !.pc = "mark", !.won = TRUE, !.doubt = b]
    OBVIOUS
  <1>4. y \in Request /\ y.pc = "mark" /\ y.email = req[r].email /\ y.code = req[r].code
        /\ y.id = req[r].id
    BY <1>1, <1>3 DEF Request, Points
  <1>5. y.doubt = b /\ y.won = TRUE
    BY <1>1, <1>3 DEF Request
  <1>6. req' = [req EXCEPT ![r] = y]
    BY <1>1, <1>2, <1>3 DEF Request, ConsumeOtp, Affected
  <1> QED
    BY <1>2, <1>4, <1>5, <1>6, BecomesSo

LEMMA ReplaceDoes ==
  ASSUME TypeOK, NEW r \in Requests, Replace(r)
  PROVE  Becomes(r, "done", None, None, None, FALSE, FALSE)
  <1>1. PICK y : y = [Idle EXCEPT !.pc = "done"]
    OBVIOUS
  <1>2. y \in Request /\ y.pc = "done" /\ y.email = None /\ y.code = None /\ y.id = None
    BY <1>1 DEF Request, Points, Idle, Codes
  <1>3. y.doubt = FALSE /\ y.won = FALSE
    BY <1>1 DEF Idle
  <1>4. req' = [req EXCEPT ![r] = y]
    BY <1>1 DEF Replace
  <1> QED
    BY <1>2, <1>3, <1>4, BecomesSo

LEMMA ConfirmDoes ==
  ASSUME TypeOK, NEW r \in Requests, NEW c \in Codes, Confirm(r, c)
  PROVE  \E pc \in {"drop", "occupied", "reject"}, b \in BOOLEAN :
           /\ b <=> c \in past.dead
           /\ Becomes(r, pc, change.newEmail, c, change.id, b, req[r].won)
           /\ pc = "drop" <=> Spoiled(change.expiresAt, change.attempts)
           /\ pc = "occupied" => change.id = c
  <1>1. req[r] \in Request /\ req \in [Requests -> Request]
    BY DEF TypeOK
  <1>2. PICK b \in BOOLEAN : b <=> c \in past.dead
    OBVIOUS
  <1>3. PICK pc \in {"drop", "occupied", "reject"} :
          pc = IF Spoiled(change.expiresAt, change.attempts) THEN "drop"
               ELSE IF change.id = c THEN "occupied" ELSE "reject"
    OBVIOUS
  <1>4. PICK y : y = [req[r] EXCEPT !.code = c, !.id = change.id, !.doubt = b,
                                    !.email = change.newEmail, !.pc = pc]
    OBVIOUS
  <1>5. change.id \in Codes /\ change.newEmail \in Emails \cup {None}
    BY DEF TypeOK, ChangeRow
  <1>6. y \in Request /\ y.pc = pc /\ y.email = change.newEmail /\ y.code = c
        /\ y.id = change.id
    BY <1>1, <1>3, <1>4, <1>5, ZenonT(30) DEF Request, Points
  <1>7. y.doubt = b /\ y.won = req[r].won
    BY <1>1, <1>4 DEF Request
  <1>8. req' = [req EXCEPT ![r] = y]
    BY <1>2, <1>3, <1>4 DEF Confirm
  <1> QED
    BY <1>2, <1>3, <1>6, <1>7, <1>8, BecomesSo

LEMMA ApplyDoes ==
  ASSUME TypeOK, NEW r \in Requests, Apply(r), change.id = req[r].id, req[r].email \notin taken
  PROVE  \E b \in BOOLEAN :
           /\ b <=> req[r].doubt \/ req[r].code \in past.replaced
           /\ Becomes(r, "done", None, req[r].code, req[r].id, b, TRUE)
  <1>1. req[r] \in Request /\ req \in [Requests -> Request]
    BY DEF TypeOK
  <1>2. PICK b \in BOOLEAN : b <=> req[r].doubt \/ req[r].code \in past.replaced
    OBVIOUS
  <1>3. PICK y : y = [req[r] EXCEPT !.pc = "done", !.email = None, !.won = TRUE, !.doubt = b]
    OBVIOUS
  <1>4. y \in Request /\ y.pc = "done" /\ y.email = None /\ y.code = req[r].code
        /\ y.id = req[r].id
    BY <1>1, <1>3 DEF Request, Points
  <1>5. y.doubt = b /\ y.won = TRUE
    BY <1>1, <1>3 DEF Request
  <1>6. req' = [req EXCEPT ![r] = y]
    BY <1>1, <1>2, <1>3 DEF Request, Apply
  <1> QED
    BY <1>2, <1>4, <1>5, <1>6, BecomesSo

-----------------------------------------------------------------------------
(* Types *)

LEMMA Amounts ==
  /\ None \notin Requests /\ None \notin Emails
  /\ MaxAttempts \in Nat \ {0} /\ CodeTtl \in Nat \ {0}
  /\ Cooldown \in Nat /\ MaxTime \in Nat
  BY AccountsAssumption

PastType ==
  [proved : SUBSET Emails, contested : BOOLEAN, dead : SUBSET Requests,
   replaced : SUBSET Requests, overlapped : BOOLEAN]

LEMMA EmptyRows == NoOtp \in OtpRow /\ NoChange \in ChangeRow
  BY DEF NoOtp, OtpRow, NoChange, ChangeRow, Codes

LEMMA InitTypeOK == Init => TypeOK
  <1> SUFFICES ASSUME Init PROVE TypeOK
    OBVIOUS
  <1>1. Idle \in Request
    BY DEF Idle, Request, Points, Codes
  <1>2. past \in PastType
    BY DEF Init, PastType
  <1>3. change.attempts <= MaxAttempts
    BY Amounts DEF Init, NoChange
  <1> QED
    BY <1>1, <1>2, <1>3, EmptyRows, Amounts DEF Init, TypeOK, PastType

\* What is put down for the properties keeps its type.
LEMMA PastTypes ==
  ASSUME TypeOK
  PROVE  /\ \A S \in SUBSET Requests : [past EXCEPT !.dead = S] \in PastType
         /\ \A S, T \in SUBSET Requests :
              [past EXCEPT !.dead = S, !.replaced = T] \in PastType
         /\ \A S, T \in SUBSET Requests : \A b \in BOOLEAN :
              [past EXCEPT !.dead = S, !.replaced = T, !.contested = b] \in PastType
         /\ \A b \in BOOLEAN : [past EXCEPT !.contested = b] \in PastType
         /\ \A b \in BOOLEAN : [past EXCEPT !.overlapped = b] \in PastType
         /\ \A S \in SUBSET Emails : [past EXCEPT !.proved = S] \in PastType
  BY DEF TypeOK, PastType

LEMMA Named ==
  ASSUME TypeOK
  PROVE  /\ {otp.code} \ {None} \subseteq Requests
         /\ {change.id} \ {None} \subseteq Requests
         /\ past.dead \in SUBSET Requests /\ past.replaced \in SUBSET Requests
         /\ past.proved \in SUBSET Emails
         /\ past.contested \in BOOLEAN /\ past.overlapped \in BOOLEAN
  BY DEF TypeOK, OtpRow, ChangeRow, Codes

\* The requests keep their type, whatever step is taken.
LEMMA RequestsType == TypeOK /\ [Next]_vars => req' \in [Requests -> Request]
  <1> SUFFICES ASSUME TypeOK, [Next]_vars PROVE req' \in [Requests -> Request]
    OBVIOUS
  <1>1. CASE UNCHANGED req
    BY <1>1 DEF TypeOK
  <1>2. ASSUME NEW r \in Requests, Finish(r) PROVE req' \in [Requests -> Request]
    BY <1>2, FinishEnds DEF Ends
  <1>3. ASSUME NEW r \in Requests, NEW pc \in Points, Goto(r, pc)
        PROVE  req' \in [Requests -> Request]
    BY <1>3, GotoGoes DEF Goes
  <1>4. ASSUME NEW r \in Requests, NEW pc \in Points, NEW goes, GoOrFinish(r, goes, pc)
        PROVE  req' \in [Requests -> Request]
    BY <1>2, <1>3, <1>4 DEF GoOrFinish
  <1>5. ASSUME NEW r \in Requests,
               NEW pc, NEW email, NEW code, NEW id, NEW doubt, NEW won,
               Becomes(r, pc, email, code, id, doubt, won)
        PROVE  req' \in [Requests -> Request]
    BY <1>5 DEF Becomes
  <1>6. ASSUME NEW r \in Requests, NEW e \in Emails,
               NEW pc \in {"cooldown", "previous", "available"},
               req' = [req EXCEPT ![r].pc = pc, ![r].email = e]
        PROVE  req' \in [Requests -> Request]
    BY <1>6, AskedDoes DEF Becomes
  <1>7. CASE UNCHANGED vars \/ Tick \/ CleanupOtp \/ \E e \in Emails : OthersTake(e) \/ OthersLeave(e)
    BY <1>1, <1>7 DEF vars, Tick, CleanupOtp, OthersTake, OthersLeave
  <1>8. ASSUME NEW r \in Requests, \/ WaitForCooldown(r) \/ Create(r) \/ Upsert(r) \/ Mail(r)
                                   \/ Withdraw(r)
        PROVE  req' \in [Requests -> Request]
    BY <1>2, <1>3, <1>4, <1>8 DEF WaitForCooldown, Create, Upsert, Mail, Withdraw, Points
  <1>9. ASSUME NEW r \in Requests, \/ FindOtp(r) \/ IncrementOtp(r) \/ DeleteOtp(r)
                                   \/ MarkVerified(r) \/ ConsumeOtp(r)
        PROVE  req' \in [Requests -> Request]
    <2>1. CASE FindOtp(r)
      BY <1>4, <2>1 DEF FindOtp, Points
    <2>2. CASE IncrementOtp(r) \/ DeleteOtp(r) \/ MarkVerified(r)
      BY <1>2, <1>4, <2>2 DEF IncrementOtp, DeleteOtp, MarkVerified, Points
    <2>3. CASE ConsumeOtp(r)
      BY <1>2, <2>3, ConsumeOtpDoes DEF ConsumeOtp, Affected, Becomes
    <2> QED
      BY <1>9, <2>1, <2>2, <2>3
  <1>10. ASSUME NEW r \in Requests, \/ FindPrevious(r) \/ FindConflicting(r)
                                    \/ RejectCode(r) \/ DropChange(r) \/ FindOccupied(r)
                                    \/ ApplyContactPatch(r) \/ Abandon(r)
        PROVE  req' \in [Requests -> Request]
    <2>1. CASE FindPrevious(r)
      BY <1>4, <2>1 DEF FindPrevious, Points
    <2>2. CASE FindConflicting(r)
      BY <1>4, <2>2 DEF FindConflicting, Points
    <2>3. CASE RejectCode(r) \/ DropChange(r) \/ Abandon(r)
      BY <1>2, <1>4, <2>3 DEF RejectCode, DropChange, Abandon, Points
    <2>4. CASE FindOccupied(r)
      BY <1>3, <2>4 DEF FindOccupied, Points
    <2>5. CASE ApplyContactPatch(r)
      BY <1>2, <1>3, <2>5 DEF ApplyContactPatch, Points
    <2> QED
      BY <1>10, <2>1, <2>2, <2>3, <2>4, <2>5
  <1>11. ASSUME NEW r \in Requests, NEW c \in Codes, VerifyEmail(r, c) \/ Confirm(r, c)
        PROVE  req' \in [Requests -> Request]
    BY <1>11, VerifyEmailDoes, ConfirmDoes DEF Becomes
  <1>12. ASSUME NEW r \in Requests, NEW e \in Emails,
                RequestVerifyEmail(r) \/ RequestChange(r, e) \/ UpdateUser(r, e)
        PROVE  req' \in [Requests -> Request]
    <2>1. user.email \in Emails
      BY DEF TypeOK
    <2> QED
      BY <1>6, <1>12, <2>1 DEF RequestVerifyEmail, RequestChange, UpdateUser
  <1>13. ASSUME NEW r \in Requests, RequestVerifyEmail(r) PROVE req' \in [Requests -> Request]
    <2>1. user.email \in Emails
      BY DEF TypeOK
    <2> QED
      BY <1>6, <1>13, <2>1 DEF RequestVerifyEmail
  <1>14. ASSUME NEW r \in Requests, Replace(r) \/ Apply(r) PROVE req' \in [Requests -> Request]
    <2>1. CASE Replace(r)
      BY <2>1, ReplaceDoes DEF Becomes
    <2>2. CASE Apply(r)
      BY <1>2, <1>3, <2>2, ApplyDoes DEF Apply, Becomes, Points
    <2> QED
      BY <1>14, <2>1, <2>2
  <1> QED
    BY <1>7, <1>8, <1>9, <1>10, <1>11, <1>12, <1>13, <1>14 DEF Next

LEMMA TypeStep == Sound /\ [Next]_vars => TypeOK'
  <1> SUFFICES ASSUME TypeOK, Locals, Names, [Next]_vars PROVE TypeOK'
    BY DEF Sound
  <1> USE Amounts
  <1>a. req' \in [Requests -> Request]
    BY RequestsType
  <1>b. /\ past \in PastType /\ otp \in OtpRow /\ change \in ChangeRow
        /\ change.attempts \in Nat /\ change.attempts <= MaxAttempts
        /\ otp.attempts \in Nat /\ now \in Nat
        /\ user \in [email : Emails, verified : BOOLEAN] /\ taken \subseteq Emails \ {user.email}
        /\ sentTo \in [Requests -> Emails \cup {None}]
    BY DEF TypeOK, PastType, OtpRow, ChangeRow
  \* What changes no row but those that are named.
  <1>c. ASSUME now' \in Nat, user' \in [email : Emails, verified : BOOLEAN],
               taken' \subseteq Emails \ {user'.email},
               otp' \in OtpRow, change' \in ChangeRow, change'.attempts <= MaxAttempts,
               sentTo' \in [Requests -> Emails \cup {None}], past' \in PastType
        PROVE  TypeOK'
    BY <1>a, <1>c DEF TypeOK, PastType
  <1>0. CASE UNCHANGED <<now, user, taken, otp, change, sentTo, past>>
    BY <1>0, <1>b, <1>c
  <1>1. CASE Tick
    <2>1. past' \in PastType
      BY <1>1, PastTypes, Named DEF Tick
    <2> QED
      BY <1>1, <1>b, <1>c, <2>1 DEF Tick, rows
  <1>2. CASE CleanupOtp
    BY <1>2, <1>b, <1>c, EmptyRows DEF CleanupOtp
  <1>3. ASSUME NEW e \in Emails, OthersTake(e) PROVE TypeOK'
    <2>1. PICK b \in BOOLEAN : b <=> past.contested \/ e = change.newEmail
      OBVIOUS
    <2>2. past' = [past EXCEPT !.contested = b]
      BY <1>3, <2>1 DEF OthersTake
    <2>3. past' \in PastType
      BY <2>2, PastTypes
    <2> QED
      BY <1>3, <1>b, <1>c, <2>3 DEF OthersTake, rows
  <1>4. ASSUME NEW e \in Emails, OthersLeave(e) PROVE TypeOK'
    BY <1>4, <1>b, <1>c DEF OthersLeave, rows
  <1>5. ASSUME NEW r \in Requests, Upsert(r) PROVE TypeOK'
    <2>1. past' \in PastType
      BY <1>5, PastTypes, Named DEF Upsert
    <2>2. otp' \in OtpRow
      BY <1>5, <1>b DEF Upsert, OtpRow, Codes
    <2> QED
      BY <1>5, <1>b, <1>c, <2>1, <2>2 DEF Upsert
  <1>6. ASSUME NEW r \in Requests, Mail(r) PROVE TypeOK'
    <2>1. req[r].email \in Emails \cup {None}
      BY DEF TypeOK, Request
    <2>2. sentTo' \in [Requests -> Emails \cup {None}]
      BY <1>6, <1>b, <2>1 DEF Mail
    <2> QED
      BY <1>6, <1>b, <1>c, <2>2 DEF Mail
  <1>7. ASSUME NEW r \in Requests, Withdraw(r) \/ DeleteOtp(r) PROVE TypeOK'
    <2>1. past' \in PastType
      BY <1>7, PastTypes, Named DEF Withdraw, DeleteOtp
    <2> QED
      BY <1>7, <1>b, <1>c, <2>1, EmptyRows DEF Withdraw, Withdrawn, DeleteOtp
  <1>8. ASSUME NEW r \in Requests, IncrementOtp(r) PROVE TypeOK'
    <2>1. CASE otp = NoOtp
      BY <1>8, <1>b, <1>c, <2>1 DEF IncrementOtp
    <2>2. CASE otp # NoOtp
      <3>0. PICK n \in Nat : n = otp.attempts + 1
        BY <1>b
      <3>a. otp' = [otp EXCEPT !.attempts = n, !.updatedAt = now]
        BY <1>8, <2>2, <3>0 DEF IncrementOtp
      <3>1. otp' \in OtpRow
        BY <1>b, <3>a DEF OtpRow
      <3>2. past' \in PastType
        <4>1. CASE otp.attempts + 1 >= MaxAttempts /\ otp.code \in Requests
          BY <1>8, <2>2, <4>1, PastTypes, Named DEF IncrementOtp
        <4>2. CASE ~(otp.attempts + 1 >= MaxAttempts)
          BY <1>8, <2>2, <4>2, PastTypes, Named DEF IncrementOtp
        <4>3. CASE otp.code = None
          BY <2>2, <4>3 DEF Names
        <4> QED
          BY <1>b, <4>1, <4>2, <4>3 DEF OtpRow, Codes
      <3> QED
        BY <1>8, <1>b, <1>c, <3>1, <3>2 DEF IncrementOtp
    <2> QED
      BY <2>1, <2>2
  <1>9. ASSUME NEW r \in Requests, ConsumeOtp(r) PROVE TypeOK'
    BY <1>9, <1>b, <1>c, EmptyRows DEF ConsumeOtp
  <1>10. ASSUME NEW r \in Requests, MarkVerified(r) PROVE TypeOK'
    <2>1. sentTo[req[r].code] \in Emails
      BY <1>10, <1>b DEF MarkVerified, At, Locals, Fits, Known
    <2>2. past' \in PastType
      BY <1>10, <2>1, PastTypes, Named DEF MarkVerified
    <2>3. user' \in [email : Emails, verified : BOOLEAN] /\ user'.email = user.email
      BY <1>10, <1>b DEF MarkVerified
    <2> QED
      BY <1>10, <1>b, <1>c, <2>2, <2>3 DEF MarkVerified
  <1>11. ASSUME NEW r \in Requests, Replace(r) PROVE TypeOK'
    <2>1. req[r].email \in Emails
      BY <1>11 DEF Replace, At, Locals, Fits
    <2>2. sentTo' \in [Requests -> Emails \cup {None}]
      BY <1>11, <1>b, <2>1 DEF Replace
    <2>3. PICK x \in ChangeRow :
            x = [id |-> r, newEmail |-> req[r].email, attempts |-> 0,
                 expiresAt |-> now + CodeTtl, createdAt |-> now]
      <3>1. now + CodeTtl \in Nat /\ r \in Codes
        BY <1>b DEF Codes
      <3> QED
        BY <1>b, <2>1, <3>1 DEF ChangeRow
    <2>4. change' = x /\ x.attempts = 0
      BY <1>11, <2>3 DEF Replace
    <2>5. PICK b \in BOOLEAN : b <=> req[r].email \in taken
      OBVIOUS
    <2>6. past' = [past EXCEPT !.dead = @ \cup ({change.id} \ {None}),
                              !.replaced = @ \cup ({change.id} \ {None}), !.contested = b]
      BY <1>11, <2>5 DEF Replace
    <2>7. past' \in PastType
      BY <2>6, PastTypes, Named
    <2> QED
      BY <1>11, <1>b, <1>c, <2>2, <2>3, <2>4, <2>7 DEF Replace
  <1>12. ASSUME NEW r \in Requests, RejectCode(r) PROVE TypeOK'
    <2>1. CASE ~Counts(r)
      <3>1. past' = [past EXCEPT !.dead = past.dead]
        BY <1>12, <2>1 DEF RejectCode
      <3>2. past' \in PastType
        BY <3>1, PastTypes, Named
      <3> QED
        BY <1>12, <1>b, <1>c, <2>1, <3>2 DEF RejectCode
    <2>2. CASE Counts(r)
      <3>1. change.id \in Requests
        BY <1>12, <2>2 DEF Counts, RejectCode, At, Locals, Fits, Known
      <3>2. change' = [change EXCEPT !.attempts = change.attempts + 1]
        BY <1>12, <2>2 DEF RejectCode
      <3>3. change' \in ChangeRow /\ change'.attempts <= MaxAttempts
        BY <1>b, <2>2, <3>2 DEF ChangeRow, Counts
      <3>4. past' \in PastType
        BY <1>12, <3>1, PastTypes, Named DEF RejectCode
      <3> QED
        BY <1>12, <1>b, <1>c, <3>3, <3>4 DEF RejectCode
    <2> QED
      BY <2>1, <2>2
  <1>13. ASSUME NEW r \in Requests, DropChange(r) PROVE TypeOK'
    <2>1. NoChange.attempts <= MaxAttempts
      BY DEF NoChange
    <2> QED
      BY <1>13, <1>b, <1>c, <2>1, EmptyRows DEF DropChange
  <1>14. ASSUME NEW r \in Requests, Apply(r) PROVE TypeOK'
    <2>1. CASE change.id = req[r].id /\ req[r].email \notin taken
      <3>1. req[r].email \in Emails /\ req[r].email = sentTo[req[r].code]
        BY <1>14, <1>b DEF Apply, At, Locals, Fits, Known
      <3>2. PICK x \in [email : Emails, verified : BOOLEAN] :
              x = [email |-> req[r].email, verified |-> TRUE]
        BY <3>1
      <3>3. user' = x /\ x.email = req[r].email
        BY <1>14, <2>1, <3>2 DEF Apply
      <3>4. past' = [past EXCEPT !.proved = @ \cup {sentTo[req[r].code]}]
        BY <1>14, <2>1 DEF Apply
      <3>5. past' \in PastType
        BY <3>1, <3>4, PastTypes, Named
      <3>6. NoChange.attempts <= MaxAttempts
        BY DEF NoChange
      <3>7. change' = NoChange
        BY <1>14, <2>1 DEF Apply
      <3> QED
        BY <1>14, <1>b, <1>c, <2>1, <3>3, <3>5, <3>6, <3>7, EmptyRows DEF Apply
    <2>2. CASE ~(change.id = req[r].id /\ req[r].email \notin taken)
      BY <1>14, <1>b, <1>c, <2>2 DEF Apply
    <2> QED
      BY <2>1, <2>2
  <1>15. ASSUME NEW r \in Requests, ApplyContactPatch(r) PROVE TypeOK'
    <2>1. CASE req[r].email \in taken
      BY <1>15, <1>b, <1>c, <2>1 DEF ApplyContactPatch
    <2>2. CASE req[r].email \notin taken
      <3>1. req[r].email \in Emails
        BY <1>15 DEF ApplyContactPatch, At, Locals, Fits
      <3>2. PICK x \in [email : Emails, verified : BOOLEAN] :
              x = [email |-> req[r].email, verified |-> FALSE]
        BY <3>1
      <3>3. user' = x /\ x.email = req[r].email
        BY <1>15, <2>2, <3>2 DEF ApplyContactPatch, Patched
      <3>4. PICK b \in BOOLEAN : b <=> Overlap(r)
        OBVIOUS
      <3>5. past' = [past EXCEPT !.overlapped = b]
        BY <1>15, <2>2, <3>4 DEF ApplyContactPatch, Overlap
      <3>6. past' \in PastType
        BY <3>5, PastTypes
      <3> QED
        BY <1>15, <1>b, <1>c, <2>2, <3>3, <3>6 DEF ApplyContactPatch
    <2> QED
      BY <2>1, <2>2
  <1>16. ASSUME NEW r \in Requests,
                \/ RequestVerifyEmail(r) \/ WaitForCooldown(r) \/ Create(r) \/ FindOtp(r)
                \/ FindPrevious(r) \/ FindConflicting(r) \/ FindOccupied(r) \/ Abandon(r)
                \/ \E c \in Codes : VerifyEmail(r, c) \/ Confirm(r, c)
                \/ \E e \in Emails : RequestChange(r, e) \/ UpdateUser(r, e)
         PROVE  UNCHANGED <<now, user, taken, otp, change, sentTo, past>>
    BY <1>16 DEF RequestVerifyEmail, WaitForCooldown, Create, FindOtp, FindPrevious,
         FindConflicting, FindOccupied, Abandon, VerifyEmail, Confirm, RequestChange,
         UpdateUser, rows
  <1>17. CASE UNCHANGED vars
    BY <1>0, <1>17 DEF vars, rows
  <1> QED
    BY <1>0, <1>1, <1>2, <1>3, <1>4, <1>5, <1>6, <1>7, <1>8, <1>9, <1>10, <1>11, <1>12, <1>13,
       <1>14, <1>15, <1>16, <1>17 DEF Next

-----------------------------------------------------------------------------
(* What a request has at hand *)

\* The steps of a request that leave all rows alone.
Quiet(r) ==
  \/ RequestVerifyEmail(r) \/ WaitForCooldown(r) \/ Create(r) \/ FindOtp(r)
  \/ FindPrevious(r) \/ FindConflicting(r) \/ FindOccupied(r) \/ Abandon(r)
  \/ \E c \in Codes : VerifyEmail(r, c) \/ Confirm(r, c)
  \/ \E e \in Emails : RequestChange(r, e) \/ UpdateUser(r, e)

\* Those of the code for the address of the user, and those of a change.
OfOtp(r) ==
  \/ Upsert(r) \/ Mail(r) \/ Withdraw(r) \/ IncrementOtp(r) \/ DeleteOtp(r)
  \/ ConsumeOtp(r) \/ MarkVerified(r)

OfChange(r) ==
  Replace(r) \/ RejectCode(r) \/ DropChange(r) \/ Apply(r) \/ ApplyContactPatch(r)

LEMMA NextIs ==
  Next <=> \/ Tick \/ CleanupOtp
           \/ \E e \in Emails : OthersTake(e) \/ OthersLeave(e)
           \/ \E r \in Requests : Quiet(r) \/ OfOtp(r) \/ OfChange(r)
  BY DEF Next, Quiet, OfOtp, OfChange

LEMMA QuietLeaves ==
  ASSUME NEW r \in Requests, Quiet(r)
  PROVE  UNCHANGED <<now, user, taken, otp, change, sentTo, past>>
  BY DEF Quiet, RequestVerifyEmail, WaitForCooldown, Create, FindOtp, FindPrevious,
     FindConflicting, FindOccupied, Abandon, VerifyEmail, Confirm, RequestChange, UpdateUser, rows

\* A step of one request leaves the others alone, and neither what was made nor what was
\* accepted is taken back.
Steady(r) ==
  /\ \A q \in Requests \ {r} : req'[q] = req[q]
  /\ req[r].pc \in {"mail", "withdraw"} => req'[r].pc \in {"mail", "withdraw", "done"}
  /\ req[r].pc # "done"
  /\ req[r].won => req'[r].won /\ req'[r].code = req[r].code /\ req'[r].doubt = req[r].doubt
                   /\ req'[r].pc = "done"

\* Which requests are where they started.
LEMMA AtStart ==
  ASSUME Sound, NEW r \in Requests, req[r].pc \notin {"mark", "done"}
  PROVE  ~req[r].won /\ req[r].won = FALSE
  BY DEF Sound, TypeOK, Locals, Fits, Request

LEMMA EndsSteady ==
  ASSUME NEW r \in Requests, Ends(r), req[r].pc # "done"
  PROVE  Steady(r)
  BY DEF Ends, Steady

LEMMA GoesSteady ==
  ASSUME NEW r \in Requests, NEW pc, Goes(r, pc), ~req[r].won, req[r].pc # "done",
         req[r].pc \in {"mail", "withdraw"} => pc \in {"mail", "withdraw", "done"}
  PROVE  Steady(r)
  BY DEF Goes, Steady

LEMMA BecomesSteady ==
  ASSUME NEW r \in Requests, NEW pc, NEW email, NEW code, NEW id, NEW doubt, NEW won,
         Becomes(r, pc, email, code, id, doubt, won),
         ~req[r].won, req[r].pc \notin {"mail", "withdraw", "done"}
  PROVE  Steady(r)
  BY DEF Becomes, Steady

\* The place a request has after its step, where that is told by its end or a way on.
LEMMA QuietGoes ==
  ASSUME Sound, NEW r \in Requests, Quiet(r)
  PROVE  Steady(r) /\ Fits(req[r], sentTo)' /\ req'[r].won = req[r].won
  <1> SUFFICES ASSUME TypeOK PROVE Steady(r) /\ Fits(req'[r], sentTo) /\ req'[r].won = req[r].won
    BY QuietLeaves DEF Sound, Fits, Known
  <1>1. Fits(req[r], sentTo)
    BY DEF Sound, Locals
  <1>2. ASSUME Ends(r), req[r].pc # "done"
        PROVE  Steady(r) /\ Fits(req'[r], sentTo) /\ req'[r].won = req[r].won
    BY <1>1, <1>2, EndsSteady DEF Ends, Fits
  <1>3. ASSUME NEW pc, Goes(r, pc), req[r].pc \notin {"mail", "withdraw", "mark", "done"}
        PROVE  /\ Steady(r) /\ req'[r].won = req[r].won /\ ~req'[r].won
               /\ req'[r].pc = pc /\ req'[r].email = req[r].email
               /\ req'[r].code = req[r].code /\ req'[r].id = req[r].id
    BY <1>3, GoesSteady, AtStart DEF Goes
  <1>4. ASSUME NEW pc, NEW email, NEW code, NEW id, NEW doubt,
               Becomes(r, pc, email, code, id, doubt, req[r].won),
               req[r].pc = "idle"
        PROVE  /\ Steady(r) /\ req'[r].won = req[r].won /\ ~req'[r].won
               /\ req'[r].pc = pc /\ req'[r].email = email
               /\ req'[r].code = code /\ req'[r].id = id
    BY <1>4, BecomesSteady, AtStart DEF Becomes
  <1>5. CASE RequestVerifyEmail(r)
    <2>1. user.email \in Emails
      BY DEF TypeOK
    <2>2. Becomes(r, "cooldown", user.email, req[r].code, req[r].id, req[r].doubt, req[r].won)
      BY <1>5, <2>1, AskedDoes DEF RequestVerifyEmail
    <2>3. req[r].pc = "idle"
      BY <1>5 DEF RequestVerifyEmail, At
    <2>4. /\ Steady(r) /\ req'[r].won = req[r].won /\ ~req'[r].won
          /\ req'[r].pc = "cooldown" /\ req'[r].email = user.email
      BY <1>4, <2>2, <2>3
    <2> QED
      BY <2>1, <2>4 DEF Fits
  <1>6. CASE WaitForCooldown(r) \/ Create(r) \/ FindPrevious(r) \/ FindConflicting(r)
    <2>1. PICK pc \in {"create", "upsert", "conflict", "replace", "patch"} : Goes(r, pc) \/ Ends(r)
      BY <1>6, GoOrFinishDoes DEF WaitForCooldown, Create, FindPrevious, FindConflicting, Points
    <2>2. req[r].pc \in {"cooldown", "create", "previous", "conflict", "available"}
      BY <1>6 DEF WaitForCooldown, Create, FindPrevious, FindConflicting, At
    <2>3. CASE Goes(r, pc)
      BY <1>1, <1>3, <2>1, <2>2, <2>3 DEF Fits
    <2> QED
      BY <1>2, <2>1, <2>2, <2>3
  <1>7. CASE FindOtp(r)
    <2>1. PICK pc \in {"delete", "consume", "increment"} :
            /\ Goes(r, pc) \/ Ends(r)
            /\ pc = "consume" => otp.code = req[r].code
            /\ Ends(r) \/ otp # NoOtp
      BY <1>7, GoOrFinishDoes DEF FindOtp, Points
    <2>2. req[r].pc = "find"
      BY <1>7 DEF FindOtp, At
    <2>3. CASE Goes(r, pc) /\ otp # NoOtp
      <3>1. pc = "consume" => Known(req[r].code, sentTo)
        BY <1>1, <2>1, <2>2, <2>3 DEF Sound, Names, Fits
      <3> QED
        BY <1>3, <2>1, <2>2, <2>3, <3>1 DEF Fits
    <2> QED
      BY <1>2, <2>1, <2>2, <2>3
  <1>8. CASE FindOccupied(r)
    <2>1. PICK pc \in {"drop", "apply"} : Goes(r, pc)
      BY <1>8, GotoGoes DEF FindOccupied, Points
    <2>2. req[r].pc = "occupied"
      BY <1>8 DEF FindOccupied, At
    <2> QED
      BY <1>1, <1>3, <2>1, <2>2 DEF Fits
  <1>9. CASE Abandon(r)
    BY <1>2, <1>9, FinishEnds DEF Abandon
  <1>10. ASSUME NEW c \in Codes, VerifyEmail(r, c)
         PROVE  Steady(r) /\ Fits(req'[r], sentTo) /\ req'[r].won = req[r].won
    <2>1. PICK b \in BOOLEAN : Becomes(r, "find", req[r].email, c, req[r].id, b, req[r].won)
      BY <1>10, VerifyEmailDoes
    <2>2. c = None \/ Known(c, sentTo)
      BY <1>10 DEF VerifyEmail, Entered, Sent, Known
    <2> QED
      <3>1. req[r].pc = "idle"
        BY <1>10 DEF VerifyEmail, At
      <3>2. /\ Steady(r) /\ req'[r].won = req[r].won /\ ~req'[r].won
            /\ req'[r].pc = "find" /\ req'[r].code = c
        BY <1>4, <2>1, <3>1
      <3> QED
        BY <2>2, <3>2 DEF Fits
  <1>11. ASSUME NEW c \in Codes, Confirm(r, c)
         PROVE  Steady(r) /\ Fits(req'[r], sentTo) /\ req'[r].won = req[r].won
    <2>1. PICK pc \in {"drop", "occupied", "reject"}, b \in BOOLEAN :
            /\ Becomes(r, pc, change.newEmail, c, change.id, b, req[r].won)
            /\ pc = "occupied" => change.id = c
      BY <1>11, ConfirmDoes
    <2>2. Known(change.id, sentTo) /\ sentTo[change.id] = change.newEmail
      BY <1>11 DEF Confirm, Sound, Names, Known, TypeOK, ChangeRow, Codes
    <2>3. req[r].pc = "idle"
      BY <1>11 DEF Confirm, At
    <2>4. /\ Steady(r) /\ req'[r].won = req[r].won /\ ~req'[r].won
          /\ req'[r].pc = pc /\ req'[r].email = change.newEmail
          /\ req'[r].code = c /\ req'[r].id = change.id
      BY <1>4, <2>1, <2>3
    <2> QED
      BY <2>1, <2>2, <2>4 DEF Fits
  <1>12. ASSUME NEW e \in Emails, RequestChange(r, e) \/ UpdateUser(r, e)
         PROVE  Steady(r) /\ Fits(req'[r], sentTo) /\ req'[r].won = req[r].won
    <2>1. PICK pc \in {"previous", "available"} :
            Becomes(r, pc, e, req[r].code, req[r].id, req[r].doubt, req[r].won)
      BY <1>12, AskedDoes DEF RequestChange, UpdateUser
    <2>2. req[r].pc = "idle"
      BY <1>12 DEF RequestChange, UpdateUser, At
    <2>3. /\ Steady(r) /\ req'[r].won = req[r].won /\ ~req'[r].won
          /\ req'[r].pc = pc /\ req'[r].email = e
      BY <1>4, <2>1, <2>2
    <2> QED
      BY <2>1, <2>3 DEF Fits
  <1> QED
    BY <1>5, <1>6, <1>7, <1>8, <1>9, <1>10, <1>11, <1>12 DEF Quiet

\* A mail that was sent stays where it was sent to.
LEMMA SentStays ==
  ASSUME Sound, [Next]_vars
  PROVE  \A c \in Requests : sentTo[c] # None => sentTo'[c] = sentTo[c]
  <1>1. \A c \in Requests : sentTo[c] # None => req[c].pc = "done"
    BY DEF Sound, Names
  <1>2. sentTo \in [Requests -> Emails \cup {None}]
    BY DEF Sound, TypeOK
  <1>3. CASE UNCHANGED sentTo
    BY <1>3
  <1>4. ASSUME NEW r \in Requests, Mail(r) \/ Replace(r)
        PROVE  \A c \in Requests : sentTo[c] # None => sentTo'[c] = sentTo[c]
    BY <1>1, <1>2, <1>4 DEF Mail, Replace, At
  <1>5. ASSUME NEW r \in Requests, OfOtp(r) \/ OfChange(r)
        PROVE  UNCHANGED sentTo \/ Mail(r) \/ Replace(r)
    BY <1>5 DEF OfOtp, OfChange, Upsert, Withdraw, IncrementOtp, DeleteOtp, ConsumeOtp,
       MarkVerified, RejectCode, DropChange, Apply, ApplyContactPatch
  <1>6. CASE UNCHANGED vars \/ Tick \/ CleanupOtp \/ \E e \in Emails : OthersTake(e) \/ OthersLeave(e)
    BY <1>3, <1>6 DEF vars, rows, Tick, CleanupOtp, OthersTake, OthersLeave
  <1> QED
    BY <1>3, <1>4, <1>5, <1>6, NextIs, QuietLeaves

LEMMA KnownStays ==
  ASSUME Sound, [Next]_vars
  PROVE  \A x : Fits(x, sentTo) => Fits(x, sentTo')
  BY SentStays DEF Fits, Known

LEMMA ActsGo ==
  ASSUME Sound, TypeOK', NEW r \in Requests, OfOtp(r) \/ OfChange(r), [Next]_vars
  PROVE  Steady(r) /\ Fits(req'[r], sentTo')
  <1>1. Fits(req[r], sentTo) /\ TypeOK
    BY DEF Sound, Locals
  <1>2. ASSUME Ends(r), req[r].pc # "done"
        PROVE  Steady(r) /\ Fits(req'[r], sentTo')
    <2>1. Fits(req'[r], sentTo)
      BY <1>1, <1>2 DEF Ends, Fits
    <2> QED
      BY <1>2, <2>1, EndsSteady, KnownStays
  <1>3. ASSUME NEW pc, Goes(r, pc), req[r].pc \notin {"mark", "done"},
               req[r].pc \in {"mail", "withdraw"} => pc \in {"mail", "withdraw", "done"}
        PROVE  /\ Steady(r) /\ ~req'[r].won
               /\ req'[r].pc = pc /\ req'[r].email = req[r].email
               /\ req'[r].code = req[r].code /\ req'[r].id = req[r].id
    <2>1. ~req[r].won
      BY <1>3, AtStart
    <2> QED
      BY <1>3, <2>1, GoesSteady DEF Goes
  <1>4. CASE Upsert(r)
    <2>1. Goes(r, "mail") /\ req[r].pc = "upsert"
      BY <1>1, <1>4, GotoGoes DEF Upsert, At, Points
    <2>2. Fits(req'[r], sentTo)
      BY <1>1, <1>3, <2>1 DEF Fits
    <2> QED
      BY <1>3, <2>1, <2>2, KnownStays
  <1>5. CASE Mail(r)
    <2>1. Ends(r) \/ Goes(r, "withdraw")
      BY <1>1, <1>5, FinishEnds, GotoGoes DEF Mail, Points
    <2>2. req[r].pc = "mail"
      BY <1>5 DEF Mail, At
    <2>3. CASE Goes(r, "withdraw")
      <3>1. /\ Steady(r) /\ ~req'[r].won /\ req'[r].pc = "withdraw"
        BY <1>3, <2>2, <2>3
      <3> QED
        BY <3>1 DEF Fits
    <2> QED
      BY <1>2, <2>1, <2>2, <2>3
  <1>6. CASE Withdraw(r) \/ DeleteOtp(r) \/ MarkVerified(r) \/ DropChange(r)
    BY <1>1, <1>2, <1>6, FinishEnds DEF Withdraw, DeleteOtp, MarkVerified, DropChange, At
  <1>7. CASE IncrementOtp(r)
    <2>1. Ends(r) \/ Goes(r, "delete")
      BY <1>1, <1>7, FinishEnds, GoOrFinishDoes DEF IncrementOtp, Points
    <2>2. req[r].pc = "increment"
      BY <1>7 DEF IncrementOtp, At
    <2>3. CASE Goes(r, "delete")
      <3>1. Steady(r) /\ ~req'[r].won /\ req'[r].pc = "delete"
        BY <1>3, <2>2, <2>3
      <3> QED
        BY <3>1 DEF Fits
    <2> QED
      BY <1>2, <2>1, <2>2, <2>3
  <1>8. CASE ConsumeOtp(r)
    <2>1. CASE otp.code = req[r].code
      <3>1. PICK b \in BOOLEAN : Becomes(r, "mark", req[r].email, req[r].code, req[r].id, b, TRUE)
        BY <1>1, <1>8, <2>1, ConsumeOtpDoes
      <3>2. req[r].pc = "consume"
        BY <1>8 DEF ConsumeOtp, At
      <3>3. Steady(r)
        BY <3>1, <3>2, AtStart, BecomesSteady
      <3>4. Fits(req'[r], sentTo)
        BY <1>1, <3>1, <3>2 DEF Becomes, Fits
      <3> QED
        BY <3>3, <3>4, KnownStays
    <2>2. CASE otp.code # req[r].code
      BY <1>1, <1>2, <1>8, <2>2, FinishEnds DEF ConsumeOtp, Affected, At
    <2> QED
      BY <2>1, <2>2
  <1>9. CASE Replace(r)
    <2>1. Becomes(r, "done", None, None, None, FALSE, FALSE) /\ req[r].pc = "replace"
      BY <1>1, <1>9, ReplaceDoes DEF Replace, At
    <2>2. Steady(r)
      BY <2>1, AtStart, BecomesSteady
    <2> QED
      BY <2>1, <2>2 DEF Becomes, Fits
  <1>10. CASE RejectCode(r)
    <2>1. Ends(r) \/ Goes(r, "drop")
      BY <1>1, <1>10, GoOrFinishDoes DEF RejectCode, Points
    <2>2. req[r].pc = "reject"
      BY <1>10 DEF RejectCode, At
    <2>3. CASE Goes(r, "drop")
      <3>1. Steady(r) /\ ~req'[r].won /\ req'[r].pc = "drop" /\ req'[r].id = req[r].id
        BY <1>3, <2>2, <2>3
      <3>2. Fits(req'[r], sentTo)
        BY <1>1, <2>2, <3>1 DEF Fits
      <3> QED
        BY <3>1, <3>2, KnownStays
    <2> QED
      BY <1>2, <2>1, <2>2, <2>3
  <1>11. CASE Apply(r)
    <2>1. req[r].pc = "apply"
      BY <1>11 DEF Apply, At
    <2>2. CASE change.id # req[r].id
      BY <1>1, <1>2, <1>11, <2>1, <2>2, FinishEnds DEF Apply
    <2>3. CASE change.id = req[r].id /\ req[r].email \in taken
      <3>1. Goes(r, "drop")
        BY <1>1, <1>11, <2>3, GotoGoes DEF Apply, Points
      <3>2. Steady(r) /\ ~req'[r].won /\ req'[r].pc = "drop" /\ req'[r].id = req[r].id
        BY <1>3, <2>1, <3>1
      <3>3. Fits(req'[r], sentTo)
        BY <1>1, <2>1, <3>2 DEF Fits
      <3> QED
        BY <3>2, <3>3, KnownStays
    <2>4. CASE change.id = req[r].id /\ req[r].email \notin taken
      <3>1. PICK b \in BOOLEAN : Becomes(r, "done", None, req[r].code, req[r].id, b, TRUE)
        BY <1>1, <1>11, <2>4, ApplyDoes
      <3>2. Steady(r)
        BY <2>1, <3>1, AtStart, BecomesSteady
      <3>3. Fits(req'[r], sentTo)
        BY <1>1, <2>1, <3>1 DEF Becomes, Fits
      <3> QED
        BY <3>2, <3>3, KnownStays
    <2> QED
      BY <2>2, <2>3, <2>4
  <1>12. CASE ApplyContactPatch(r)
    <2>1. Ends(r) \/ Goes(r, "create")
      BY <1>1, <1>12, FinishEnds, GotoGoes DEF ApplyContactPatch, Points
    <2>2. req[r].pc = "patch"
      BY <1>12 DEF ApplyContactPatch, At
    <2>3. CASE Goes(r, "create")
      <3>1. Steady(r) /\ ~req'[r].won /\ req'[r].pc = "create" /\ req'[r].email = req[r].email
        BY <1>3, <2>2, <2>3
      <3>2. Fits(req'[r], sentTo)
        BY <1>1, <2>2, <3>1 DEF Fits
      <3> QED
        BY <3>1, <3>2, KnownStays
    <2> QED
      BY <1>2, <2>1, <2>2, <2>3
  <1> QED
    BY <1>4, <1>5, <1>6, <1>7, <1>8, <1>9, <1>10, <1>11, <1>12 DEF OfOtp, OfChange

\* Nobody's request moves but in a step of its own.
LEMMA NobodyMoves ==
  ASSUME UNCHANGED vars \/ Tick \/ CleanupOtp \/ \E e \in Emails : OthersTake(e) \/ OthersLeave(e)
  PROVE  UNCHANGED req
  BY DEF vars, rows, Tick, CleanupOtp, OthersTake, OthersLeave

LEMMA StepSteady ==
  ASSUME Sound, [Next]_vars
  PROVE  UNCHANGED req \/ \E r \in Requests : Steady(r)
  <1>1. TypeOK'
    BY TypeStep
  <1> QED
    BY <1>1, NobodyMoves, QuietGoes, ActsGo, NextIs

LEMMA LocalsStep == Sound /\ [Next]_vars => Locals'
  <1> SUFFICES ASSUME Sound, [Next]_vars PROVE \A q \in Requests : Fits(req'[q], sentTo')
    BY DEF Locals, Fits, Known
  <1>0. TypeOK'
    BY TypeStep
  <1>1. \A q \in Requests : Fits(req[q], sentTo')
    BY KnownStays DEF Sound, Locals
  <1>2. CASE UNCHANGED req
    BY <1>1, <1>2
  <1>3. ASSUME NEW r \in Requests, Steady(r), Fits(req'[r], sentTo')
        PROVE  \A q \in Requests : Fits(req'[q], sentTo')
    BY <1>1, <1>3 DEF Steady
  <1>4. ASSUME NEW r \in Requests, Quiet(r) PROVE Steady(r) /\ Fits(req'[r], sentTo')
    BY <1>4, QuietGoes, QuietLeaves DEF Fits, Known
  <1>5. ASSUME NEW r \in Requests, OfOtp(r) \/ OfChange(r) PROVE Steady(r) /\ Fits(req'[r], sentTo')
    BY <1>0, <1>5, ActsGo
  <1> QED
    BY <1>2, <1>3, <1>4, <1>5, NobodyMoves, NextIs

-----------------------------------------------------------------------------
(* Names *)

Made == {"mail", "withdraw", "done"}

LEMMA MadeStays ==
  ASSUME Sound, [Next]_vars, NEW c \in Requests
  PROVE  /\ req[c].pc \in Made => req'[c].pc \in Made
         /\ req[c].pc = "done" => req'[c].pc = "done"
  <1>1. CASE UNCHANGED req
    BY <1>1
  <1>2. ASSUME NEW r \in Requests, Steady(r)
        PROVE  /\ req[c].pc \in Made => req'[c].pc \in Made
               /\ req[c].pc = "done" => req'[c].pc = "done"
    BY <1>2 DEF Steady, Made
  <1> QED
    BY <1>1, <1>2, StepSteady

\* A row of otp that stays as it was, loses nothing but attempts, or goes.
OtpStays ==
  \/ otp' = NoOtp
  \/ otp'.code = otp.code /\ (otp' = otp \/ otp.code # None)

ChangeStays ==
  \/ change' = NoChange
  \/ change' = change
  \/ change'.id = change.id /\ change'.newEmail = change.newEmail /\ change.id # None

LEMMA NamesKept ==
  ASSUME Sound, [Next]_vars, OtpStays, ChangeStays, UNCHANGED sentTo,
         past'.dead \subseteq past.dead \cup {otp.code, change.id},
         past'.replaced \subseteq past.replaced \cup {otp.code, change.id}
  PROVE  Names'
  <1>1. NoOtp.code = None /\ NoChange.id = None
    BY DEF NoOtp, NoChange
  <1>2. Names
    BY DEF Sound
  <1>3. \A c \in Requests :
          /\ c \in {otp.code, change.id} \cup past.dead \cup past.replaced => req'[c].pc \in Made
          /\ sentTo[c] # None => req'[c].pc = "done"
    BY <1>2, MadeStays DEF Names, Made
  <1>4. /\ otp'.code = None => otp' = NoOtp
        /\ otp'.code \in {otp.code, None}
    BY <1>1, <1>2 DEF Names, OtpStays
  <1>5. /\ change'.id = None => change' = NoChange
        /\ change'.id # None => change'.id = change.id /\ change'.newEmail = change.newEmail
    BY <1>1, <1>2 DEF Names, ChangeStays
  <1>6. change'.id # None => change'.newEmail # None /\ sentTo'[change'.id] = change'.newEmail
    BY <1>2, <1>5 DEF Names
  <1>7. otp'.code # None => otp'.code # change'.id
    BY <1>2, <1>4, <1>5 DEF Names
  <1>8. \A c \in Requests :
          /\ c \in {otp'.code, change'.id} \cup past'.dead \cup past'.replaced => req'[c].pc \in Made
          /\ sentTo'[c] # None => req'[c].pc = "done"
    <2>1. TAKE c \in Requests
    <2>2. c # None
      BY Amounts
    <2> QED
      BY <1>3, <1>4, <1>5, <2>2
  <1> QED
    BY <1>4, <1>5, <1>6, <1>7, <1>8 DEF Names, Made

LEMMA NamesStep == Sound /\ [Next]_vars => Names'
  <1> SUFFICES ASSUME Sound, [Next]_vars PROVE Names'
    OBVIOUS
  <1>a. TypeOK /\ Names /\ TypeOK'
    BY TypeStep DEF Sound
  <1>b. past \in PastType /\ sentTo \in [Requests -> Emails \cup {None}]
    BY <1>a DEF TypeOK, PastType
  <1>c. CASE UNCHANGED <<otp, change, sentTo>> /\ past'.dead = past.dead /\ past'.replaced = past.replaced
    BY <1>c, NamesKept DEF OtpStays, ChangeStays
  <1>0. CASE UNCHANGED vars
    BY <1>c, <1>0 DEF vars, rows
  <1>1. CASE Tick
    <2>1. /\ past'.replaced = past.replaced
          /\ past'.dead \subseteq past.dead \cup {otp.code, change.id}
      BY <1>1, <1>b DEF Tick, PastType
    <2> QED
      BY <1>1, <2>1, NamesKept DEF Tick, rows, OtpStays, ChangeStays
  <1>2. CASE CleanupOtp
    BY <1>2, NamesKept DEF CleanupOtp, OtpStays, ChangeStays
  <1>3. ASSUME NEW e \in Emails, OthersTake(e) \/ OthersLeave(e) PROVE Names'
    BY <1>3, <1>b, <1>c DEF OthersTake, OthersLeave, rows, PastType
  <1>4. ASSUME NEW r \in Requests, Quiet(r) PROVE Names'
    BY <1>4, <1>c, QuietLeaves
  <1>5. ASSUME NEW r \in Requests, Upsert(r) PROVE Names'
    <2>1. /\ otp'.code = r /\ change' = change /\ sentTo' = sentTo /\ req'[r].pc \in Made
          /\ req[r].pc = "upsert"
      BY <1>5, <1>a, GotoGoes DEF Upsert, At, Goes, Points, Made
    <2>2. /\ past'.dead \subseteq past.dead \cup {otp.code}
          /\ past'.replaced \subseteq past.replaced \cup {otp.code}
      BY <1>5, <1>b DEF Upsert, PastType
    <2>3. r # None /\ r # change.id
      BY <1>a, <2>1, Amounts DEF Names, Made
    <2>4. \A c \in Requests :
            /\ c \in {otp'.code, change'.id} \cup past'.dead \cup past'.replaced => req'[c].pc \in Made
            /\ sentTo'[c] # None => req'[c].pc = "done"
      BY <1>a, <2>1, <2>2, MadeStays DEF Names, Made
    <2> QED
      BY <1>a, <2>1, <2>3, <2>4 DEF Names, Made
  <1>6. ASSUME NEW r \in Requests, Mail(r) PROVE Names'
    <2>1. CASE UNCHANGED sentTo
      BY <1>6, <1>c, <2>1 DEF Mail
    <2>2. CASE Finish(r) /\ sentTo' = [sentTo EXCEPT ![r] = req[r].email]
      <3>1. req[r].pc = "mail" /\ req'[r].pc = "done"
        BY <1>6, <1>a, <2>2, FinishEnds DEF Mail, At, Ends
      <3>2. sentTo[r] = None
        BY <1>a, <3>1 DEF Names
      <3>3. \A c \in Requests :
              /\ c \in {otp.code, change.id} \cup past.dead \cup past.replaced => req'[c].pc \in Made
              /\ sentTo'[c] # None => req'[c].pc = "done"
        BY <1>a, <1>b, <2>2, <3>1, MadeStays DEF Names, Made
      <3>4. change.id # None => sentTo'[change.id] = change.newEmail
        BY <1>a, SentStays DEF Names, TypeOK, ChangeRow, Codes
      <3> QED
        BY <1>6, <1>a, <3>3, <3>4 DEF Mail, Names, Made
    <2> QED
      BY <1>6, <2>1, <2>2 DEF Mail
  <1>7. ASSUME NEW r \in Requests, Withdraw(r) \/ DeleteOtp(r) PROVE Names'
    <2>1. /\ past'.replaced = past.replaced
          /\ past'.dead \subseteq past.dead \cup {otp.code}
      BY <1>7, <1>b DEF Withdraw, DeleteOtp, PastType
    <2> QED
      BY <1>7, <2>1, NamesKept DEF Withdraw, Withdrawn, DeleteOtp, OtpStays, ChangeStays
  <1>8. ASSUME NEW r \in Requests, IncrementOtp(r) PROVE Names'
    <2>1. CASE otp = NoOtp
      BY <1>8, <1>c, <2>1 DEF IncrementOtp
    <2>2. CASE otp # NoOtp
      <3>1. otp'.code = otp.code /\ otp.code # None
        BY <1>8, <1>a, <2>2 DEF IncrementOtp, TypeOK, OtpRow, Names
      <3>2. /\ past'.replaced = past.replaced
            /\ past'.dead \subseteq past.dead \cup {otp.code}
        BY <1>8, <1>b, <2>2 DEF IncrementOtp, PastType
      <3> QED
        BY <1>8, <3>1, <3>2, NamesKept DEF IncrementOtp, OtpStays, ChangeStays
    <2> QED
      BY <2>1, <2>2
  <1>9. ASSUME NEW r \in Requests, ConsumeOtp(r) PROVE Names'
    BY <1>9, NamesKept DEF ConsumeOtp, OtpStays, ChangeStays
  <1>10. ASSUME NEW r \in Requests, MarkVerified(r) PROVE Names'
    BY <1>10, <1>b, <1>c DEF MarkVerified, PastType
  <1>11. ASSUME NEW r \in Requests, Replace(r) PROVE Names'
    <2>1. /\ change'.id = r /\ change'.newEmail = req[r].email /\ otp' = otp
          /\ req'[r].pc = "done" /\ req[r].pc = "replace"
          /\ sentTo' = [sentTo EXCEPT ![r] = req[r].email]
      BY <1>11, <1>a, ReplaceDoes DEF Replace, At, Becomes
    <2>2. /\ past'.dead \subseteq past.dead \cup {change.id}
          /\ past'.replaced \subseteq past.replaced \cup {change.id}
      BY <1>11, <1>b DEF Replace, PastType
    <2>3. r # None /\ r # otp.code /\ req[r].email \in Emails /\ req[r].email # None
      BY <1>a, <2>1, Amounts DEF Names, Made, Sound, Locals, Fits
    <2>4. \A c \in Requests :
            /\ c \in {otp'.code, change'.id} \cup past'.dead \cup past'.replaced => req'[c].pc \in Made
            /\ sentTo'[c] # None => req'[c].pc = "done"
      BY <1>a, <1>b, <2>1, <2>2, MadeStays DEF Names, Made
    <2>5. sentTo'[r] = req[r].email
      BY <1>b, <2>1
    <2> QED
      BY <1>a, <2>1, <2>3, <2>4, <2>5 DEF Names, Made
  <1>12. ASSUME NEW r \in Requests, RejectCode(r) PROVE Names'
    <2>1. /\ past'.replaced = past.replaced
          /\ past'.dead \subseteq past.dead \cup {change.id}
      BY <1>12, <1>b DEF RejectCode, PastType
    <2>2. ChangeStays
      <3>1. Counts(r) => change.id # None
        BY <1>12, Amounts DEF RejectCode, At, Counts, Sound, Locals, Fits, Known
      <3>2. Counts(r) => change'.id = change.id /\ change'.newEmail = change.newEmail
        BY <1>12, <1>a DEF RejectCode, TypeOK, ChangeRow
      <3> QED
        BY <1>12, <3>1, <3>2 DEF RejectCode, ChangeStays
    <2> QED
      BY <1>12, <2>1, <2>2, NamesKept DEF RejectCode, OtpStays
  <1>13. ASSUME NEW r \in Requests, DropChange(r) PROVE Names'
    BY <1>13, NamesKept DEF DropChange, OtpStays, ChangeStays
  <1>14. ASSUME NEW r \in Requests, Apply(r) PROVE Names'
    <2>1. past'.dead = past.dead /\ past'.replaced = past.replaced
      BY <1>14, <1>b DEF Apply, PastType
    <2> QED
      BY <1>14, <2>1, NamesKept DEF Apply, OtpStays, ChangeStays
  <1>15. ASSUME NEW r \in Requests, ApplyContactPatch(r) PROVE Names'
    BY <1>15, <1>b, <1>c DEF ApplyContactPatch, PastType
  <1> QED
    BY <1>0, <1>1, <1>2, <1>3, <1>4, <1>5, <1>6, <1>7, <1>8, <1>9, <1>10, <1>11, <1>12, <1>13,
       <1>14, <1>15, NextIs DEF OfOtp, OfChange

LEMMA InitSound == Init => Sound
  <1> SUFFICES ASSUME Init PROVE Sound
    OBVIOUS
  <1>1. Locals
    BY DEF Init, Locals, Fits, Idle
  <1>2. Names
    BY Amounts DEF Init, Names, NoOtp, NoChange
  <1> QED
    BY <1>1, <1>2, InitTypeOK DEF Sound

LEMMA SoundHolds == Spec => []Sound
  <1>1. Sound /\ [Next]_vars => Sound'
    BY TypeStep, LocalsStep, NamesStep DEF Sound
  <1> QED
    BY <1>1, InitSound, PTL DEF Spec

\* Accounts: the rows and requests have their types, no address has two owners, and the
\* wrong inputs of a change never exceed the limit.
THEOREM TypeCorrect == Spec => []TypeOK
  BY SoundHolds, PTL DEF Sound

-----------------------------------------------------------------------------
(* Codes work once, and while they are good *)

\* A row gets its name from a request that had made no code before.
LEMMA NewNames ==
  ASSUME Sound, [Next]_vars
  PROVE  /\ otp'.code \in {otp.code, None} \cup {r \in Requests : req[r].pc = "upsert"}
         /\ change'.id \in {change.id, None} \cup {r \in Requests : req[r].pc = "replace"}
  <1>1. NoOtp.code = None /\ NoChange.id = None
    BY DEF NoOtp, NoChange
  <1>2. CASE UNCHANGED <<otp, change>>
    BY <1>2
  <1>3. CASE CleanupOtp
    BY <1>1, <1>3 DEF CleanupOtp
  <1>4. CASE UNCHANGED vars \/ Tick \/ \E e \in Emails : OthersTake(e) \/ OthersLeave(e)
    BY <1>2, <1>4 DEF vars, rows, Tick, OthersTake, OthersLeave
  <1>5. ASSUME NEW r \in Requests, OfOtp(r)
        PROVE  /\ otp'.code \in {otp.code, None} \cup {q \in Requests : req[q].pc = "upsert"}
               /\ change' = change
    <2>1. CASE Upsert(r)
      BY <2>1 DEF Upsert, At
    <2>2. CASE IncrementOtp(r)
      BY <2>2 DEF IncrementOtp, Sound, TypeOK, OtpRow
    <2>3. CASE Mail(r) \/ Withdraw(r) \/ DeleteOtp(r) \/ ConsumeOtp(r) \/ MarkVerified(r)
      BY <1>1, <2>3 DEF Mail, Withdraw, Withdrawn, DeleteOtp, ConsumeOtp, MarkVerified
    <2> QED
      BY <1>5, <2>1, <2>2, <2>3 DEF OfOtp
  <1>6. ASSUME NEW r \in Requests, OfChange(r)
        PROVE  /\ change'.id \in {change.id, None} \cup {q \in Requests : req[q].pc = "replace"}
               /\ otp' = otp
    <2>1. CASE Replace(r)
      BY <2>1 DEF Replace, At
    <2>2. CASE RejectCode(r)
      BY <2>2 DEF RejectCode, Sound, TypeOK, ChangeRow
    <2>3. CASE DropChange(r) \/ Apply(r) \/ ApplyContactPatch(r)
      BY <1>1, <2>3 DEF DropChange, Apply, ApplyContactPatch
    <2> QED
      BY <1>6, <2>1, <2>2, <2>3 DEF OfChange
  <1> QED
    BY <1>2, <1>3, <1>4, <1>5, <1>6, QuietLeaves, NextIs

\* The steps that accept the code of their request, whose row goes.
AcceptsOtp(r) ==
  /\ ConsumeOtp(r) /\ otp.code = req[r].code /\ req[r].pc = "consume"
  /\ otp' = NoOtp /\ change' = change

AcceptsChange(r) ==
  /\ Apply(r) /\ change.id = req[r].id /\ req[r].email \notin taken
  /\ req[r].pc = "apply" /\ req[r].code = req[r].id
  /\ change' = NoChange /\ otp' = otp

\* The others accept nothing.
LEMMA Acceptance ==
  ASSUME Sound, [Next]_vars
  PROVE  \/ UNCHANGED req
         \/ \E r \in Requests :
              /\ Steady(r)
              /\ \/ req'[r].won = req[r].won
                 \/ AcceptsOtp(r) /\ req'[r].code = req[r].code
                 \/ AcceptsChange(r) /\ req'[r].code = req[r].code
  <1>0. TypeOK /\ TypeOK'
    BY TypeStep DEF Sound
  <1>1. ASSUME NEW r \in Requests, OfOtp(r) \/ OfChange(r)
        PROVE  /\ Steady(r)
               /\ \/ req'[r].won = req[r].won
                  \/ AcceptsOtp(r) /\ req'[r].code = req[r].code
                  \/ AcceptsChange(r) /\ req'[r].code = req[r].code
    <2>1. Steady(r)
      BY <1>0, <1>1, ActsGo
    <2>2. CASE Upsert(r)
      BY <1>0, <2>1, <2>2, GotoGoes DEF Upsert, Goes, Points
    <2>3. CASE Mail(r)
      BY <1>0, <2>1, <2>3, FinishEnds, GotoGoes DEF Mail, Ends, Goes, Points
    <2>4. CASE Withdraw(r) \/ DeleteOtp(r) \/ MarkVerified(r) \/ DropChange(r)
      BY <1>0, <2>1, <2>4, FinishEnds DEF Withdraw, DeleteOtp, MarkVerified, DropChange, Ends
    <2>5. CASE IncrementOtp(r)
      <3>1. Ends(r) \/ Goes(r, "delete")
        BY <1>0, <2>5, FinishEnds, GoOrFinishDoes DEF IncrementOtp, Points
      <3> QED
        BY <2>1, <3>1 DEF Ends, Goes
    <2>6. CASE RejectCode(r)
      <3>1. Ends(r) \/ Goes(r, "drop")
        BY <1>0, <2>6, GoOrFinishDoes DEF RejectCode, Points
      <3> QED
        BY <2>1, <3>1 DEF Ends, Goes
    <2>7. CASE ApplyContactPatch(r)
      <3>1. Ends(r) \/ Goes(r, "create")
        BY <1>0, <2>7, FinishEnds, GotoGoes DEF ApplyContactPatch, Points
      <3> QED
        BY <2>1, <3>1 DEF Ends, Goes
    <2>8. CASE Replace(r)
      <3>1. req'[r].won = FALSE
        BY <1>0, <2>8, ReplaceDoes DEF Becomes
      <3>2. req[r].won = FALSE
        BY <2>8, AtStart DEF Replace, At
      <3> QED
        BY <2>1, <3>1, <3>2
    <2>9. CASE ConsumeOtp(r)
      <3>1. CASE otp.code = req[r].code
        <4>1. req'[r].code = req[r].code
          BY <1>0, <2>9, <3>1, ConsumeOtpDoes DEF Becomes
        <4> QED
          BY <2>1, <2>9, <3>1, <4>1 DEF ConsumeOtp, Affected, At, AcceptsOtp
      <3>2. CASE otp.code # req[r].code
        BY <1>0, <2>1, <2>9, <3>2, FinishEnds DEF ConsumeOtp, Affected, Ends
      <3> QED
        BY <3>1, <3>2
    <2>10. CASE Apply(r)
      <3>1. CASE change.id # req[r].id
        BY <1>0, <2>1, <2>10, <3>1, FinishEnds DEF Apply, Ends
      <3>2. CASE change.id = req[r].id /\ req[r].email \in taken
        BY <1>0, <2>1, <2>10, <3>2, GotoGoes DEF Apply, Goes, Points
      <3>3. CASE change.id = req[r].id /\ req[r].email \notin taken
        <4>1. req'[r].code = req[r].code
          BY <1>0, <2>10, <3>3, ApplyDoes DEF Becomes
        <4>2. req[r].pc = "apply" /\ req[r].code = req[r].id
          BY <2>10 DEF Apply, At, Sound, Locals, Fits
        <4> QED
          BY <2>1, <2>10, <3>3, <4>1, <4>2 DEF Apply, AcceptsChange
      <3> QED
        BY <3>1, <3>2, <3>3
    <2> QED
      BY <1>1, <2>2, <2>3, <2>4, <2>5, <2>6, <2>7, <2>8, <2>9, <2>10 DEF OfOtp, OfChange
  <1> QED
    BY <1>1, NobodyMoves, QuietGoes, NextIs

LEMMA OnceStep == Sound /\ Once /\ [Next]_vars => Once'
  <1> SUFFICES ASSUME Sound, Once, [Next]_vars PROVE Once'
    OBVIOUS
  <1>1. \A c \in Requests : Known(c, sentTo) /\ c \notin {otp.code, change.id} =>
          c \notin {otp'.code, change'.id}
    <2>1. \A c \in Requests : Known(c, sentTo) => req[c].pc = "done" /\ c # None
      BY Amounts DEF Sound, Names, Known
    <2> QED
      BY <2>1, NewNames
  <1>2. \A q \in Accepted : Known(req[q].code, sentTo) /\ req[q].code \notin {otp'.code, change'.id}
    BY <1>1 DEF Sound, Locals, Fits, Once, Accepted, Known
  <1>3. CASE UNCHANGED req
    BY <1>2, <1>3 DEF Once, Accepted, CodeOnce
  <1>4. ASSUME NEW r \in Requests, Steady(r), req'[r].won = req[r].won PROVE Once'
    BY <1>2, <1>4 DEF Once, Accepted, CodeOnce, Steady
  <1>5. ASSUME NEW r \in Requests, Steady(r), req'[r].code = req[r].code,
               Known(req[r].code, sentTo),
               \/ req[r].code = otp.code /\ otp' = NoOtp /\ change' = change
               \/ req[r].code = change.id /\ change' = NoChange /\ otp' = otp
        PROVE  Once'
    <2>1. NoOtp.code = None /\ NoChange.id = None /\ req[r].code # None
      BY <1>5, Amounts DEF NoOtp, NoChange, Known
    <2>2. req[r].code \notin {otp'.code, change'.id}
      BY <1>5, <2>1 DEF Sound, Names
    <2>3. \A q \in Requests \ {r} : req'[q].won =>
            req[q].won /\ req'[q].code = req[q].code /\ req[q].code # req[r].code
      BY <1>5 DEF Steady, Once, Accepted
    <2> QED
      BY <1>2, <1>5, <2>2, <2>3 DEF Once, Accepted, CodeOnce
  <1>6. ASSUME NEW r \in Requests, AcceptsOtp(r) \/ AcceptsChange(r)
        PROVE  /\ Known(req[r].code, sentTo)
               /\ \/ req[r].code = otp.code /\ otp' = NoOtp /\ change' = change
                  \/ req[r].code = change.id /\ change' = NoChange /\ otp' = otp
    BY <1>6 DEF AcceptsOtp, AcceptsChange, Sound, Locals, Fits
  <1> QED
    BY <1>3, <1>4, <1>5, <1>6, Acceptance

\* What is dead stays dead.
LEMMA DeadStays ==
  ASSUME Sound, [Next]_vars
  PROVE  past.dead \subseteq past'.dead
  <1>0. past \in PastType
    BY DEF Sound, TypeOK, PastType
  <1>1. CASE UNCHANGED past
    BY <1>1
  <1>2. CASE UNCHANGED vars \/ CleanupOtp \/ Tick \/ \E e \in Emails : OthersTake(e) \/ OthersLeave(e)
    BY <1>0, <1>2 DEF vars, CleanupOtp, Tick, OthersTake, OthersLeave, PastType
  <1>3. ASSUME NEW r \in Requests, OfOtp(r) PROVE past.dead \subseteq past'.dead
    <2>1. CASE IncrementOtp(r)
      BY <1>0, <2>1 DEF IncrementOtp, PastType
    <2>2. CASE Upsert(r) \/ Mail(r) \/ Withdraw(r) \/ DeleteOtp(r) \/ ConsumeOtp(r) \/ MarkVerified(r)
      BY <1>0, <2>2 DEF Upsert, Mail, Withdraw, DeleteOtp, ConsumeOtp, MarkVerified, PastType
    <2> QED
      BY <1>3, <2>1, <2>2 DEF OfOtp
  <1>4. ASSUME NEW r \in Requests, OfChange(r) PROVE past.dead \subseteq past'.dead
    <2>1. CASE RejectCode(r)
      BY <1>0, <2>1 DEF RejectCode, PastType
    <2>2. CASE Replace(r) \/ DropChange(r) \/ Apply(r) \/ ApplyContactPatch(r)
      BY <1>0, <2>2, ZenonT(30) DEF Replace, DropChange, Apply, ApplyContactPatch, PastType
    <2> QED
      BY <1>4, <2>1, <2>2 DEF OfChange
  <1> QED
    BY <1>1, <1>2, <1>3, <1>4, QuietLeaves, NextIs

\* Rows that keep their name and spend no attempts back, while the named ones die.
LEMMA RowsAliveKept ==
  ASSUME Sound, RowsAlive, TypeOK', now <= now',
         past'.replaced = past.replaced,
         \/ otp' = NoOtp
         \/ /\ otp'.code = otp.code
            /\ otp'.expireAt = otp.expireAt /\ otp.attempts <= otp'.attempts
            /\ otp'.code \in past'.dead \ past.dead /\ otp'.code # None =>
                 otp.expireAt <= now' \/ otp'.attempts >= MaxAttempts,
         \/ change' = NoChange
         \/ /\ change'.id = change.id
            /\ change'.expiresAt = change.expiresAt /\ change.attempts <= change'.attempts
            /\ change'.id \in past'.dead \ past.dead /\ change'.id # None =>
                 change.expiresAt <= now' \/ change'.attempts >= MaxAttempts
  PROVE  RowsAlive'
  <1>1. NoOtp.code = None /\ NoChange.id = None
    BY DEF NoOtp, NoChange
  <1>2. None \notin past'.dead /\ None \notin past'.replaced
    BY Amounts DEF TypeOK, PastType
  <1>3. /\ now \in Nat /\ now' \in Nat
        /\ otp.attempts \in Nat /\ otp'.attempts \in Nat /\ otp.expireAt \in Nat
        /\ change.attempts \in Nat /\ change'.attempts \in Nat /\ change.expiresAt \in Nat
        /\ otp'.expireAt \in Nat /\ change'.expiresAt \in Nat
    BY DEF Sound, TypeOK, OtpRow, ChangeRow
  <1>4. otp'.code \notin past'.replaced /\ change'.id \notin past'.replaced
    BY <1>1, <1>2 DEF RowsAlive
  <1>5. otp'.code \in past'.dead => otp'.expireAt <= now' \/ otp'.attempts >= MaxAttempts
    <2>1. CASE otp' = NoOtp
      BY <1>1, <1>2, <2>1
    <2>2. CASE otp' # NoOtp
      BY <1>2, <1>3, <2>2, Amounts DEF RowsAlive, Spoiled
    <2> QED
      BY <2>1, <2>2
  <1>6. change'.id \in past'.dead => change'.expiresAt <= now' \/ change'.attempts >= MaxAttempts
    <2>1. CASE change' = NoChange
      BY <1>1, <1>2, <2>1
    <2>2. CASE change' # NoChange
      BY <1>2, <1>3, <2>2, Amounts DEF RowsAlive, Spoiled
    <2> QED
      BY <2>1, <2>2
  <1> QED
    BY <1>4, <1>5, <1>6 DEF RowsAlive, Spoiled

LEMMA RowsAliveStep == Sound /\ RowsAlive /\ [Next]_vars => RowsAlive'
  <1> SUFFICES ASSUME Sound, RowsAlive, [Next]_vars PROVE RowsAlive'
    OBVIOUS
  <1>a. TypeOK /\ Names /\ TypeOK' /\ Names'
    BY TypeStep, NamesStep DEF Sound
  <1>b. /\ past \in PastType /\ now \in Nat
        /\ otp.attempts \in Nat /\ change.attempts \in Nat
        /\ otp \in OtpRow /\ change \in ChangeRow
    BY <1>a DEF TypeOK, PastType, OtpRow, ChangeRow
  <1>c. CASE UNCHANGED <<now, otp, change>> /\ past'.dead = past.dead /\ past'.replaced = past.replaced
    BY <1>c DEF RowsAlive, Spoiled
  <1>0. CASE UNCHANGED vars
    BY <1>c, <1>0 DEF vars, rows
  <1>1. CASE Tick
    <2>1. /\ past'.replaced = past.replaced
          /\ past'.dead = past.dead \cup {c \in {otp.code} : c # None /\ otp.expireAt <= now'}
                            \cup {c \in {change.id} : c # None /\ change.expiresAt <= now'}
      BY <1>1, <1>b DEF Tick, PastType
    <2>2. now' = now + 1 /\ otp' = otp /\ change' = change
      BY <1>1 DEF Tick, rows
    <2>3. otp.code # None => otp.code # change.id
      BY <1>a DEF Names
    <2> QED
      BY <1>a, <1>b, <2>1, <2>2, <2>3, RowsAliveKept
  <1>2. CASE CleanupOtp
    BY <1>2, <1>a, <1>b, RowsAliveKept DEF CleanupOtp
  <1>3. ASSUME NEW e \in Emails, OthersTake(e) \/ OthersLeave(e) PROVE RowsAlive'
    BY <1>3, <1>b, <1>c DEF OthersTake, OthersLeave, rows, PastType
  <1>4. ASSUME NEW r \in Requests, Quiet(r) PROVE RowsAlive'
    BY <1>4, <1>c, QuietLeaves
  <1>5. ASSUME NEW r \in Requests, Upsert(r) PROVE RowsAlive'
    <2>1. /\ otp'.code = r /\ change' = change /\ now' = now
          /\ past'.dead = past.dead \cup ({otp.code} \ {None})
          /\ past'.replaced = past.replaced \cup ({otp.code} \ {None})
          /\ req[r].pc = "upsert"
      BY <1>5, <1>b DEF Upsert, At, PastType
    <2>2. r \notin past'.dead /\ r \notin past'.replaced
      BY <1>a, <2>1 DEF Names
    <2>3. change.id # otp.code \/ otp.code = None
      BY <1>a DEF Names
    <2> QED
      BY <2>1, <2>2, <2>3 DEF RowsAlive, Spoiled
  <1>6. ASSUME NEW r \in Requests, Mail(r) PROVE RowsAlive'
    BY <1>6, <1>c DEF Mail
  <1>7. ASSUME NEW r \in Requests, Withdraw(r) \/ DeleteOtp(r) PROVE RowsAlive'
    <2>1. /\ past'.replaced = past.replaced /\ otp' = NoOtp /\ change' = change /\ now' = now
          /\ past'.dead = past.dead \cup ({otp.code} \ {None})
      BY <1>7, <1>b DEF Withdraw, Withdrawn, DeleteOtp, PastType
    <2>2. otp.code # None => otp.code # change.id
      BY <1>a DEF Names
    <2> QED
      BY <1>a, <1>b, <2>1, <2>2, RowsAliveKept
  <1>8. ASSUME NEW r \in Requests, IncrementOtp(r) PROVE RowsAlive'
    <2>1. CASE otp = NoOtp
      BY <1>8, <1>c, <2>1 DEF IncrementOtp
    <2>2. CASE otp # NoOtp
      <3>1. /\ otp'.code = otp.code /\ otp'.attempts = otp.attempts + 1
            /\ otp'.expireAt = otp.expireAt /\ change' = change /\ now' = now
        BY <1>8, <1>b, <2>2 DEF IncrementOtp, OtpRow
      <3>2. /\ past'.replaced = past.replaced
            /\ past'.dead = IF otp.attempts + 1 >= MaxAttempts THEN past.dead \cup {otp.code}
                            ELSE past.dead
        BY <1>8, <1>b, <2>2 DEF IncrementOtp, PastType
      <3>3. otp.code # None => otp.code # change.id
        BY <1>a DEF Names
      <3> QED
        BY <1>a, <1>b, <3>1, <3>2, <3>3, RowsAliveKept
    <2> QED
      BY <2>1, <2>2
  <1>9. ASSUME NEW r \in Requests, ConsumeOtp(r) PROVE RowsAlive'
    <2>1. /\ otp' = NoOtp \/ otp' = otp
          /\ past' = past /\ change' = change /\ now' = now
      BY <1>9 DEF ConsumeOtp
    <2> QED
      BY <1>a, <1>b, <2>1, RowsAliveKept
  <1>10. ASSUME NEW r \in Requests, MarkVerified(r) PROVE RowsAlive'
    BY <1>10, <1>b, <1>c DEF MarkVerified, PastType
  <1>11. ASSUME NEW r \in Requests, Replace(r) PROVE RowsAlive'
    <2>1. /\ change'.id = r /\ otp' = otp /\ now' = now
          /\ past'.dead = past.dead \cup ({change.id} \ {None})
          /\ past'.replaced = past.replaced \cup ({change.id} \ {None})
          /\ req[r].pc = "replace"
      BY <1>11, <1>b DEF Replace, At, PastType
    <2>2. r \notin past'.dead /\ r \notin past'.replaced
      BY <1>a, <2>1 DEF Names
    <2>3. change.id # otp.code \/ otp.code = None
      BY <1>a DEF Names
    <2> QED
      BY <2>1, <2>2, <2>3 DEF RowsAlive, Spoiled
  <1>12. ASSUME NEW r \in Requests, RejectCode(r) PROVE RowsAlive'
    <2>1. CASE ~Counts(r)
      BY <1>12, <1>b, <1>c, <2>1 DEF RejectCode, PastType
    <2>2. CASE Counts(r)
      <3>1. /\ change'.id = change.id /\ change'.attempts = change.attempts + 1
            /\ change'.expiresAt = change.expiresAt /\ otp' = otp /\ now' = now
        BY <1>12, <1>b, <2>2 DEF RejectCode, ChangeRow
      <3>2. /\ past'.replaced = past.replaced
            /\ past'.dead = IF change.attempts + 1 = MaxAttempts THEN past.dead \cup {change.id}
                            ELSE past.dead
        BY <1>12, <1>b, <2>2 DEF RejectCode, PastType
      <3>3. otp.code # None => otp.code # change.id
        BY <1>a DEF Names
      <3> QED
        BY <1>a, <1>b, <3>1, <3>2, <3>3, Amounts, RowsAliveKept
    <2> QED
      BY <2>1, <2>2
  <1>13. ASSUME NEW r \in Requests, DropChange(r) \/ Apply(r) PROVE RowsAlive'
    <2>1. /\ change' = NoChange \/ change' = change
          /\ past'.dead = past.dead /\ past'.replaced = past.replaced
          /\ otp' = otp /\ now' = now
      BY <1>13, <1>b DEF DropChange, Apply, PastType
    <2> QED
      BY <1>a, <1>b, <2>1, RowsAliveKept
  <1>14. ASSUME NEW r \in Requests, ApplyContactPatch(r) PROVE RowsAlive'
    BY <1>14, <1>b, <1>c DEF ApplyContactPatch, PastType
  <1> QED
    BY <1>0, <1>1, <1>2, <1>3, <1>4, <1>5, <1>6, <1>7, <1>8, <1>9, <1>10, <1>11, <1>12, <1>13,
       <1>14, NextIs DEF OfOtp, OfChange

LEMMA SureStays ==
  ASSUME Sound, [Next]_vars
  PROVE  \A x : Sure(x, past.dead) => Sure(x, past'.dead)
  BY DeadStays DEF Sure

\* A request that goes on goes to its acceptance only without a doubt.
LEMMA MovesSure ==
  ASSUME Sound, NEW r \in Requests, Sure(req[r], past.dead)
  PROVE  /\ Ends(r) => Sure(req'[r], past.dead)
         /\ \A pc : /\ Goes(r, pc) /\ pc # "find" /\ ~req[r].won
                    /\ pc \in {"consume", "occupied", "apply"} => ~req[r].doubt
                    => Sure(req'[r], past.dead)
  BY DEF Ends, Goes, Sure

LEMMA QuietSure ==
  ASSUME Sound, RowsAlive, ChecksSure, NEW r \in Requests, Quiet(r)
  PROVE  Sure(req'[r], past.dead)
  <1>1. TypeOK /\ Sure(req[r], past.dead)
    BY DEF Sound, ChecksSure
  <1>2. ASSUME req[r].pc \notin {"mark", "done"} PROVE ~req[r].won
    BY <1>2, AtStart
  <1>3. CASE RequestVerifyEmail(r) \/ \E e \in Emails : RequestChange(r, e) \/ UpdateUser(r, e)
    <2>1. PICK pc \in {"cooldown", "previous", "available"}, e \in Emails :
            Becomes(r, pc, e, req[r].code, req[r].id, req[r].doubt, req[r].won)
      <3>1. user.email \in Emails
        BY <1>1 DEF TypeOK
      <3> QED
        BY <1>1, <1>3, <3>1, AskedDoes DEF RequestVerifyEmail, RequestChange, UpdateUser
    <2>2. req[r].pc = "idle"
      BY <1>3 DEF RequestVerifyEmail, RequestChange, UpdateUser, At
    <2> QED
      BY <1>2, <2>1, <2>2 DEF Becomes, Sure
  <1>4. CASE WaitForCooldown(r) \/ Create(r) \/ FindPrevious(r) \/ FindConflicting(r)
    <2>1. PICK pc \in {"create", "upsert", "conflict", "replace", "patch"} : Goes(r, pc) \/ Ends(r)
      BY <1>1, <1>4, GoOrFinishDoes DEF WaitForCooldown, Create, FindPrevious, FindConflicting, Points
    <2>2. req[r].pc \in {"cooldown", "create", "previous", "conflict", "available"}
      BY <1>4 DEF WaitForCooldown, Create, FindPrevious, FindConflicting, At
    <2> QED
      BY <1>1, <1>2, <2>1, <2>2, MovesSure
  <1>5. CASE FindOtp(r)
    <2>1. PICK pc \in {"delete", "consume", "increment"} :
            /\ Goes(r, pc) \/ Ends(r)
            /\ pc = "consume" => otp.code = req[r].code /\ ~Spoiled(otp.expireAt, otp.attempts)
      BY <1>1, <1>5, GoOrFinishDoes DEF FindOtp, Points
    <2>2. req[r].pc = "find"
      BY <1>5 DEF FindOtp, At
    <2>3. pc = "consume" => ~req[r].doubt
      BY <1>1, <2>1, <2>2 DEF RowsAlive, Sure
    <2> QED
      BY <1>1, <1>2, <2>1, <2>2, <2>3, MovesSure
  <1>6. CASE FindOccupied(r)
    <2>1. PICK pc \in {"drop", "apply"} : Goes(r, pc)
      BY <1>1, <1>6, GotoGoes DEF FindOccupied, Points
    <2>2. req[r].pc = "occupied"
      BY <1>6 DEF FindOccupied, At
    <2>3. ~req[r].doubt
      BY <1>1, <2>2 DEF Sure
    <2> QED
      BY <1>1, <1>2, <2>1, <2>2, <2>3, MovesSure
  <1>7. CASE Abandon(r)
    BY <1>1, <1>7, FinishEnds, MovesSure DEF Abandon
  <1>8. ASSUME NEW c \in Codes, VerifyEmail(r, c) PROVE Sure(req'[r], past.dead)
    <2>1. PICK b \in BOOLEAN : /\ b <=> c \in past.dead
                               /\ Becomes(r, "find", req[r].email, c, req[r].id, b, req[r].won)
      BY <1>1, <1>8, VerifyEmailDoes
    <2>2. ~req[r].won
      BY <1>2, <1>8 DEF VerifyEmail, At
    <2> QED
      BY <2>1, <2>2 DEF Becomes, Sure
  <1>9. ASSUME NEW c \in Codes, Confirm(r, c) PROVE Sure(req'[r], past.dead)
    <2>1. PICK pc \in {"drop", "occupied", "reject"}, b \in BOOLEAN :
            /\ b <=> c \in past.dead
            /\ Becomes(r, pc, change.newEmail, c, change.id, b, req[r].won)
            /\ pc = "drop" <=> Spoiled(change.expiresAt, change.attempts)
            /\ pc = "occupied" => change.id = c
      BY <1>1, <1>9, ConfirmDoes
    <2>2. ~req[r].won
      BY <1>2, <1>9 DEF Confirm, At
    <2>3. pc = "occupied" => ~b
      BY <2>1 DEF RowsAlive
    <2> QED
      BY <2>1, <2>2, <2>3 DEF Becomes, Sure
  <1> QED
    BY <1>3, <1>4, <1>5, <1>6, <1>7, <1>8, <1>9 DEF Quiet

LEMMA ActsSure ==
  ASSUME Sound, RowsAlive, ChecksSure, NEW r \in Requests, OfOtp(r) \/ OfChange(r)
  PROVE  Sure(req'[r], past.dead)
  <1>1. TypeOK /\ Sure(req[r], past.dead)
    BY DEF Sound, ChecksSure
  <1>2. ASSUME req[r].pc \notin {"mark", "done"} PROVE ~req[r].won
    BY <1>2, AtStart
  <1>3. CASE Upsert(r)
    BY <1>1, <1>2, <1>3, GotoGoes, MovesSure DEF Upsert, At, Points
  <1>4. CASE Mail(r)
    <2>1. Ends(r) \/ Goes(r, "withdraw")
      BY <1>1, <1>4, FinishEnds, GotoGoes DEF Mail, Points
    <2> QED
      BY <1>1, <1>2, <1>4, <2>1, MovesSure DEF Mail, At
  <1>5. CASE Withdraw(r) \/ DeleteOtp(r) \/ MarkVerified(r) \/ DropChange(r)
    BY <1>1, <1>5, FinishEnds, MovesSure DEF Withdraw, DeleteOtp, MarkVerified, DropChange
  <1>6. CASE IncrementOtp(r)
    <2>1. Ends(r) \/ Goes(r, "delete")
      BY <1>1, <1>6, FinishEnds, GoOrFinishDoes DEF IncrementOtp, Points
    <2> QED
      BY <1>1, <1>2, <1>6, <2>1, MovesSure DEF IncrementOtp, At
  <1>7. CASE ConsumeOtp(r)
    <2>1. CASE otp.code = req[r].code
      <3>1. PICK b \in BOOLEAN :
              /\ b <=> req[r].doubt \/ req[r].code \in past.replaced
              /\ Becomes(r, "mark", req[r].email, req[r].code, req[r].id, b, TRUE)
        BY <1>1, <1>7, <2>1, ConsumeOtpDoes
      <3>2. ~b
        BY <1>1, <1>7, <2>1, <3>1 DEF ConsumeOtp, At, Sure, RowsAlive
      <3> QED
        BY <3>1, <3>2 DEF Becomes, Sure
    <2>2. CASE otp.code # req[r].code
      BY <1>1, <1>7, <2>2, FinishEnds, MovesSure DEF ConsumeOtp, Affected
    <2> QED
      BY <2>1, <2>2
  <1>8. CASE Replace(r)
    BY <1>1, <1>8, ReplaceDoes DEF Becomes, Sure
  <1>9. CASE RejectCode(r)
    <2>1. Ends(r) \/ Goes(r, "drop")
      BY <1>1, <1>9, GoOrFinishDoes DEF RejectCode, Points
    <2> QED
      BY <1>1, <1>2, <1>9, <2>1, MovesSure DEF RejectCode, At
  <1>10. CASE Apply(r)
    <2>1. CASE change.id # req[r].id
      BY <1>1, <1>10, <2>1, FinishEnds, MovesSure DEF Apply
    <2>2. CASE change.id = req[r].id /\ req[r].email \in taken
      <3>1. Goes(r, "drop")
        BY <1>1, <1>10, <2>2, GotoGoes DEF Apply, Points
      <3> QED
        BY <1>1, <1>2, <1>10, <3>1, MovesSure DEF Apply, At
    <2>3. CASE change.id = req[r].id /\ req[r].email \notin taken
      <3>1. PICK b \in BOOLEAN :
              /\ b <=> req[r].doubt \/ req[r].code \in past.replaced
              /\ Becomes(r, "done", None, req[r].code, req[r].id, b, TRUE)
        BY <1>1, <1>10, <2>3, ApplyDoes
      <3>2. req[r].pc = "apply" /\ req[r].code = req[r].id
        BY <1>10 DEF Apply, At, Sound, Locals, Fits
      <3>3. ~b
        BY <1>1, <2>3, <3>1, <3>2 DEF Sure, RowsAlive
      <3> QED
        BY <3>1, <3>3 DEF Becomes, Sure
    <2> QED
      BY <2>1, <2>2, <2>3
  <1>11. CASE ApplyContactPatch(r)
    <2>1. Ends(r) \/ Goes(r, "create")
      BY <1>1, <1>11, FinishEnds, GotoGoes DEF ApplyContactPatch, Points
    <2> QED
      BY <1>1, <1>2, <1>11, <2>1, MovesSure DEF ApplyContactPatch, At
  <1> QED
    BY <1>3, <1>4, <1>5, <1>6, <1>7, <1>8, <1>9, <1>10, <1>11 DEF OfOtp, OfChange

LEMMA ChecksSureStep == Sound /\ RowsAlive /\ ChecksSure /\ [Next]_vars => ChecksSure'
  <1> SUFFICES ASSUME Sound, RowsAlive, ChecksSure, [Next]_vars
               PROVE  \A q \in Requests : Sure(req'[q], past'.dead)
    BY DEF ChecksSure, Sure
  <1>1. \A q \in Requests : Sure(req[q], past'.dead)
    BY SureStays DEF ChecksSure
  <1>2. CASE UNCHANGED req
    BY <1>1, <1>2
  <1>3. ASSUME NEW r \in Requests, Steady(r), Sure(req'[r], past.dead)
        PROVE  \A q \in Requests : Sure(req'[q], past'.dead)
    BY <1>1, <1>3, SureStays DEF Steady
  <1>4. ASSUME NEW r \in Requests, Quiet(r) \/ OfOtp(r) \/ OfChange(r)
        PROVE  Steady(r) /\ Sure(req'[r], past.dead)
    <2>1. TypeOK'
      BY TypeStep
    <2> QED
      BY <1>4, <2>1, QuietGoes, ActsGo, QuietSure, ActsSure
  <1> QED
    BY <1>2, <1>3, <1>4, NobodyMoves, NextIs

LEMMA InitCodes == Init => Once /\ RowsAlive /\ ChecksSure
  <1> SUFFICES ASSUME Init PROVE Once /\ RowsAlive /\ ChecksSure
    OBVIOUS
  <1>1. \A r \in Requests : req[r] = Idle /\ ~req[r].won /\ req[r].pc = "idle"
    BY DEF Init, Idle
  <1>2. past.dead = {} /\ past.replaced = {}
    BY DEF Init
  <1> QED
    BY <1>1, <1>2 DEF Once, CodeOnce, Accepted, RowsAlive, ChecksSure, Sure

\* OtpService.check, EmailChangeService.confirm: of the checks of one code one succeeds, and
\* such a code was good when the check began and had not been replaced by its end.
THEOREM CodesSoundHolds == Spec => []CodesSound
  <1>1. Init => Sound /\ Once /\ RowsAlive /\ ChecksSure
    BY InitSound, InitCodes
  <1>2. Sound /\ Once /\ RowsAlive /\ ChecksSure /\ [Next]_vars
          => (Sound /\ Once /\ RowsAlive /\ ChecksSure)'
    BY TypeStep, LocalsStep, NamesStep, OnceStep, RowsAliveStep, ChecksSureStep DEF Sound
  <1>3. Once /\ ChecksSure => CodesSound
    BY DEF Once, ChecksSure, Sure, CodesSound, AcceptedAlive, Accepted
  <1> QED
    BY <1>1, <1>2, <1>3, PTL DEF Spec

-----------------------------------------------------------------------------
(* Requests of change do not vanish *)

\* A request of change keeps its address and end, and gets no attempts back.
LEMMA ChangeGrows ==
  ASSUME Sound, [Next]_vars, change'.id = change.id, change.id # None
  PROVE  /\ change'.newEmail = change.newEmail
         /\ change'.expiresAt = change.expiresAt
         /\ change.attempts \in Nat /\ change'.attempts \in Nat /\ change.expiresAt \in Nat
         /\ change.attempts <= change'.attempts
         /\ now \in Nat /\ now' \in Nat /\ now <= now'
  <1>1. TypeOK /\ TypeOK'
    BY TypeStep DEF Sound
  <1>2. /\ change.attempts \in Nat /\ change'.attempts \in Nat /\ change.expiresAt \in Nat
        /\ now \in Nat /\ now' \in Nat
    BY <1>1 DEF TypeOK, ChangeRow
  <1>3. now <= now'
    <2>1. CASE Tick
      BY <1>2, <2>1 DEF Tick
    <2>2. ASSUME NEW r \in Requests, OfOtp(r) \/ OfChange(r) PROVE now' = now
      BY <2>2 DEF OfOtp, OfChange, Upsert, Mail, Withdraw, IncrementOtp, DeleteOtp, ConsumeOtp,
         MarkVerified, Replace, RejectCode, DropChange, Apply, ApplyContactPatch
    <2>3. CASE UNCHANGED vars \/ CleanupOtp \/ \E e \in Emails : OthersTake(e) \/ OthersLeave(e)
      <3>1. now' = now
        BY <2>3 DEF vars, rows, CleanupOtp, OthersTake, OthersLeave
      <3> QED
        BY <1>2, <3>1
    <2> QED
      BY <1>2, <2>1, <2>2, <2>3, QuietLeaves, NextIs
  <1>4. /\ change'.newEmail = change.newEmail /\ change'.expiresAt = change.expiresAt
        /\ change.attempts <= change'.attempts
    <2>1. CASE change' = change
      BY <1>2, <2>1
    <2>2. NoChange.id = None
      BY DEF NoChange
    <2>3. ASSUME NEW r \in Requests, Replace(r) PROVE FALSE
      BY <2>3 DEF Replace, At, Sound, Names
    <2>4. ASSUME NEW r \in Requests, RejectCode(r), change' # change
          PROVE  /\ change'.newEmail = change.newEmail /\ change'.expiresAt = change.expiresAt
                 /\ change.attempts <= change'.attempts
      BY <1>1, <1>2, <2>4 DEF RejectCode, TypeOK, ChangeRow
    <2>5. ASSUME NEW r \in Requests, DropChange(r) \/ Apply(r) \/ ApplyContactPatch(r) \/ OfOtp(r)
          PROVE  change' = change \/ change' = NoChange
      BY <2>5 DEF OfOtp, Upsert, Mail, Withdraw, IncrementOtp, DeleteOtp, ConsumeOtp,
         MarkVerified, DropChange, Apply, ApplyContactPatch
    <2>6. CASE UNCHANGED vars \/ Tick \/ CleanupOtp \/ \E e \in Emails : OthersTake(e) \/ OthersLeave(e)
      BY <2>1, <2>6 DEF vars, rows, Tick, CleanupOtp, OthersTake, OthersLeave
    <2> QED
      BY <2>1, <2>2, <2>3, <2>4, <2>5, <2>6, QuietLeaves, NextIs DEF OfChange
  <1> QED
    BY <1>2, <1>3, <1>4

\* Whoever contests the address of a request does so until another one is made.
LEMMA ContestedStays ==
  ASSUME Sound, [Next]_vars
  PROVE  \/ past.contested => past'.contested
         \/ \E r \in Requests : Replace(r)
  <1>0. past \in PastType
    BY DEF Sound, TypeOK, PastType
  <1>1. CASE UNCHANGED past
    BY <1>1
  <1>2. CASE UNCHANGED vars \/ CleanupOtp \/ Tick
    BY <1>0, <1>2 DEF vars, CleanupOtp, Tick, PastType
  <1>3. ASSUME NEW e \in Emails, OthersTake(e) \/ OthersLeave(e), past.contested
        PROVE  past'.contested
    BY <1>0, <1>3 DEF OthersTake, OthersLeave, PastType
  <1>4. ASSUME NEW r \in Requests, OfOtp(r), past.contested PROVE past'.contested
    <2>1. CASE IncrementOtp(r)
      BY <1>0, <1>4, <2>1 DEF IncrementOtp, PastType
    <2>2. CASE Upsert(r) \/ Mail(r) \/ Withdraw(r) \/ DeleteOtp(r) \/ ConsumeOtp(r) \/ MarkVerified(r)
      BY <1>0, <1>4, <2>2 DEF Upsert, Mail, Withdraw, DeleteOtp, ConsumeOtp, MarkVerified, PastType
    <2> QED
      BY <1>4, <2>1, <2>2 DEF OfOtp
  <1>5. ASSUME NEW r \in Requests, OfChange(r), past.contested, ~Replace(r) PROVE past'.contested
    <2>1. CASE RejectCode(r)
      BY <1>0, <1>5, <2>1 DEF RejectCode, PastType
    <2>2. CASE DropChange(r) \/ Apply(r) \/ ApplyContactPatch(r)
      BY <1>0, <1>5, <2>2 DEF DropChange, Apply, ApplyContactPatch, PastType
    <2> QED
      BY <1>5, <2>1, <2>2 DEF OfChange
  <1> QED
    BY <1>1, <1>2, <1>3, <1>4, <1>5, QuietLeaves, NextIs

\* The address of a request of change that is being confirmed is that of its row.
LEMMA SameAddress ==
  ASSUME Sound, NEW r \in Requests, req[r].pc \in {"occupied", "apply"}, change.id = req[r].id
  PROVE  change.id # None /\ req[r].email = change.newEmail
  BY Amounts DEF Sound, Locals, Fits, Known, Names

\* A request that comes to its removal has a reason.
LEMMA ReasonToDrop ==
  ASSUME Sound, Kept, NEW r \in Requests, Quiet(r) \/ OfOtp(r) \/ OfChange(r),
         [Next]_vars, req'[r].pc = "drop", req'[r].id = change'.id
  PROVE  Reason'
  <1>1. TypeOK /\ TypeOK'
    BY TypeStep DEF Sound
  <1>2. Steady(r)
    BY <1>1, QuietGoes, ActsGo
  <1>3. ASSUME Ends(r) PROVE FALSE
    BY <1>3 DEF Ends
  <1>4. ASSUME NEW pc, Goes(r, pc) PROVE pc = "drop" /\ req'[r].id = req[r].id
    BY <1>4 DEF Goes
  <1>5. ASSUME NEW pc, NEW email, NEW code, NEW id, NEW doubt, NEW won,
               Becomes(r, pc, email, code, id, doubt, won)
        PROVE  pc = "drop"
    BY <1>5 DEF Becomes
  <1>6. CASE Quiet(r)
    <2>1. UNCHANGED <<now, user, taken, otp, change, sentTo, past>>
      BY <1>6, QuietLeaves
    <2>2. SUFFICES Reason
      BY <2>1 DEF Reason, Spoiled
    <2>3. CASE RequestVerifyEmail(r) \/ \E e \in Emails : RequestChange(r, e) \/ UpdateUser(r, e)
      <3>1. user.email \in Emails
        BY <1>1 DEF TypeOK
      <3> QED
        BY <1>1, <1>5, <2>3, <3>1, AskedDoes DEF RequestVerifyEmail, RequestChange, UpdateUser
    <2>4. CASE WaitForCooldown(r) \/ Create(r) \/ FindPrevious(r) \/ FindConflicting(r)
      <3>1. PICK pc \in {"create", "upsert", "conflict", "replace", "patch"} : Goes(r, pc) \/ Ends(r)
        BY <1>1, <2>4, GoOrFinishDoes DEF WaitForCooldown, Create, FindPrevious, FindConflicting, Points
      <3> QED
        BY <1>3, <1>4, <3>1
    <2>5. CASE FindOtp(r)
      <3>1. PICK pc \in {"delete", "consume", "increment"} : Goes(r, pc) \/ Ends(r)
        BY <1>1, <2>5, GoOrFinishDoes DEF FindOtp, Points
      <3> QED
        BY <1>3, <1>4, <3>1
    <2>6. CASE FindOccupied(r)
      <3>1. PICK pc \in {"drop", "apply"} : Goes(r, pc) /\ (pc = "drop" => req[r].email \in taken)
        BY <1>1, <2>6, GotoGoes DEF FindOccupied, Points
      <3>2. req[r].email \in taken /\ req[r].id = change.id
        BY <1>4, <2>1, <3>1
      <3>3. change.id # None /\ change.newEmail \in taken
        BY <2>6, <3>2, SameAddress DEF FindOccupied, At
      <3> QED
        BY <3>3 DEF Kept, Reason
    <2>7. CASE Abandon(r)
      BY <1>1, <1>3, <2>7, FinishEnds DEF Abandon
    <2>8. ASSUME NEW c \in Codes, VerifyEmail(r, c) PROVE Reason
      BY <1>1, <1>5, <2>8, VerifyEmailDoes
    <2>9. ASSUME NEW c \in Codes, Confirm(r, c) PROVE Reason
      <3>1. PICK pc \in {"drop", "occupied", "reject"}, b \in BOOLEAN :
              /\ Becomes(r, pc, change.newEmail, c, change.id, b, req[r].won)
              /\ pc = "drop" <=> Spoiled(change.expiresAt, change.attempts)
        BY <1>1, <2>9, ConfirmDoes
      <3> QED
        BY <1>5, <3>1 DEF Reason
    <2> QED
      BY <1>6, <2>3, <2>4, <2>5, <2>6, <2>7, <2>8, <2>9 DEF Quiet
  <1>7. CASE Upsert(r)
    BY <1>1, <1>4, <1>7, GotoGoes DEF Upsert, Points
  <1>8. CASE Mail(r)
    BY <1>1, <1>3, <1>4, <1>8, FinishEnds, GotoGoes DEF Mail, Points
  <1>9. CASE Withdraw(r) \/ DeleteOtp(r) \/ MarkVerified(r) \/ DropChange(r)
    BY <1>1, <1>3, <1>9, FinishEnds DEF Withdraw, DeleteOtp, MarkVerified, DropChange
  <1>10. CASE IncrementOtp(r)
    <2>1. Ends(r) \/ Goes(r, "delete")
      BY <1>1, <1>10, FinishEnds, GoOrFinishDoes DEF IncrementOtp, Points
    <2> QED
      BY <1>3, <1>4, <2>1
  <1>11. CASE ConsumeOtp(r)
    <2>1. CASE otp.code = req[r].code
      BY <1>1, <1>5, <1>11, <2>1, ConsumeOtpDoes
    <2>2. CASE otp.code # req[r].code
      BY <1>1, <1>3, <1>11, <2>2, FinishEnds DEF ConsumeOtp, Affected
    <2> QED
      BY <2>1, <2>2
  <1>12. CASE Replace(r)
    BY <1>1, <1>5, <1>12, ReplaceDoes
  <1>13. CASE RejectCode(r)
    <2>1. Goes(r, "drop")
      BY <1>1, <1>3, <1>13, GoOrFinishDoes DEF RejectCode, Points
    <2>2. Known(req[r].id, sentTo) /\ req'[r].id = req[r].id
      BY <1>4, <1>13, <2>1 DEF RejectCode, At, Sound, Locals, Fits
    <2>3. change.id = req[r].id
      BY <1>13, <2>2 DEF RejectCode, Counts
    <2>4. change.attempts \in Nat /\ change \in ChangeRow
      BY <1>1 DEF TypeOK, ChangeRow
    <2>5. CASE change.attempts < MaxAttempts
      <3>1. Counts(r)
        BY <2>3, <2>5 DEF Counts
      <3>2. change.attempts + 1 >= MaxAttempts
        BY <1>1, <1>3, <1>13, <3>1, FinishEnds DEF RejectCode, GoOrFinish
      <3>3. change'.attempts = change.attempts + 1
        BY <1>13, <2>4, <3>1 DEF RejectCode, ChangeRow
      <3> QED
        BY <2>4, <3>2, <3>3 DEF Reason, Spoiled
    <2>6. CASE ~(change.attempts < MaxAttempts)
      <3>1. change' = change
        BY <1>13, <2>6 DEF RejectCode, Counts
      <3> QED
        BY <2>4, <2>6, <3>1, Amounts DEF Reason, Spoiled
    <2> QED
      BY <2>5, <2>6
  <1>14. CASE Apply(r)
    <2>1. CASE change.id # req[r].id
      BY <1>1, <1>3, <1>14, <2>1, FinishEnds DEF Apply
    <2>2. CASE change.id = req[r].id /\ req[r].email \in taken
      <3>1. change.id # None /\ change.newEmail \in taken
        BY <1>14, <2>2, SameAddress DEF Apply, At
      <3> QED
        BY <1>14, <2>2, <3>1 DEF Kept, Reason, Apply
    <2>3. CASE change.id = req[r].id /\ req[r].email \notin taken
      BY <1>1, <1>5, <1>14, <2>3, ApplyDoes
    <2> QED
      BY <2>1, <2>2, <2>3
  <1>15. CASE ApplyContactPatch(r)
    BY <1>1, <1>3, <1>4, <1>15, FinishEnds, GotoGoes DEF ApplyContactPatch, Points
  <1> QED
    BY <1>6, <1>7, <1>8, <1>9, <1>10, <1>11, <1>12, <1>13, <1>14, <1>15 DEF OfOtp, OfChange

\* Only a new request of change changes the name in the row.
LEMMA ChangeNamed ==
  ASSUME Sound, [Next]_vars
  PROVE  \/ change'.id \in {change.id, None}
         \/ \E r \in Requests : Replace(r)
  <1>1. NoChange.id = None
    BY DEF NoChange
  <1>2. CASE UNCHANGED change
    BY <1>2
  <1>3. CASE UNCHANGED vars \/ Tick \/ CleanupOtp \/ \E e \in Emails : OthersTake(e) \/ OthersLeave(e)
    BY <1>2, <1>3 DEF vars, rows, Tick, CleanupOtp, OthersTake, OthersLeave
  <1>4. ASSUME NEW r \in Requests, OfOtp(r) PROVE UNCHANGED change
    BY <1>4 DEF OfOtp, Upsert, Mail, Withdraw, IncrementOtp, DeleteOtp, ConsumeOtp, MarkVerified
  <1>5. ASSUME NEW r \in Requests, OfChange(r), ~Replace(r)
        PROVE  change'.id \in {change.id, None}
    <2>1. CASE RejectCode(r)
      BY <2>1 DEF RejectCode, Sound, TypeOK, ChangeRow
    <2>2. CASE DropChange(r) \/ Apply(r) \/ ApplyContactPatch(r)
      BY <1>1, <2>2 DEF DropChange, Apply, ApplyContactPatch
    <2> QED
      BY <1>5, <2>1, <2>2 DEF OfChange
  <1> QED
    BY <1>2, <1>3, <1>4, <1>5, QuietLeaves, NextIs

\* Whoever takes the address of a request of change contests it.
LEMMA TakenContested ==
  ASSUME Sound, [Next]_vars, change.newEmail \in taken', change.newEmail \notin taken
  PROVE  past'.contested
  <1>1. CASE UNCHANGED taken
    BY <1>1
  <1>2. CASE UNCHANGED vars \/ Tick \/ CleanupOtp
    BY <1>1, <1>2 DEF vars, Tick, CleanupOtp
  <1>3. ASSUME NEW e \in Emails, OthersTake(e) PROVE past'.contested
    <2>1. e = change.newEmail
      BY <1>3 DEF OthersTake
    <2>2. past \in PastType
      BY DEF Sound, TypeOK, PastType
    <2> QED
      BY <1>3, <2>1, <2>2 DEF OthersTake, PastType
  <1>4. ASSUME NEW e \in Emails, OthersLeave(e) PROVE FALSE
    BY <1>4 DEF OthersLeave
  <1>5. ASSUME NEW r \in Requests, OfOtp(r) \/ OfChange(r) PROVE UNCHANGED taken
    BY <1>5 DEF OfOtp, OfChange, Upsert, Mail, Withdraw, IncrementOtp, DeleteOtp, ConsumeOtp,
       MarkVerified, Replace, RejectCode, DropChange, Apply, ApplyContactPatch
  <1> QED
    BY <1>1, <1>2, <1>3, <1>4, <1>5, QuietLeaves, NextIs

LEMMA KeptStep == Sound /\ Kept /\ [Next]_vars => Kept'
  <1> SUFFICES ASSUME Sound, Kept, [Next]_vars PROVE Kept'
    OBVIOUS
  <1>0. /\ ~(\E r \in Requests : Replace(r)) => (past.contested => past'.contested)
        /\ ~(\E r \in Requests : Replace(r)) => change'.id \in {change.id, None}
    BY ContestedStays, ChangeNamed
  <1>1. ASSUME change'.id # None, change'.newEmail \in taken' PROVE past'.contested
    <2>1. ASSUME NEW r \in Requests, Replace(r) PROVE past'.contested
      <3>1. change'.newEmail = req[r].email /\ taken' = taken
        BY <2>1 DEF Replace
      <3>2. past \in PastType
        BY DEF Sound, TypeOK, PastType
      <3> QED
        BY <1>1, <2>1, <3>1, <3>2 DEF Replace, PastType
    <2>2. CASE ~ \E r \in Requests : Replace(r)
      <3>1. change'.id = change.id /\ change.id # None
        BY <1>0, <1>1, <2>2
      <3>2. change'.newEmail = change.newEmail
        BY <3>1, ChangeGrows
      <3>3. CASE change.newEmail \in taken
        BY <1>0, <2>2, <3>1, <3>3 DEF Kept
      <3>4. CASE change.newEmail \notin taken
        BY <1>1, <3>2, <3>4, TakenContested
      <3> QED
        BY <3>3, <3>4
    <2> QED
      BY <2>1, <2>2
  <1>2. ASSUME NEW r \in Requests, req'[r].pc = "drop", req'[r].id = change'.id PROVE Reason'
    <2>1. CASE Quiet(r) \/ OfOtp(r) \/ OfChange(r)
      BY <1>2, <2>1, ReasonToDrop
    <2>2. CASE req'[r] = req[r]
      <3>1. Known(req[r].id, sentTo) /\ req[r].id = change'.id
        BY <1>2, <2>2 DEF Sound, Locals, Fits
      <3>2. PICK c \in Requests : c = change'.id /\ sentTo[c] # None
        BY <3>1 DEF Known
      <3>3. req[c].pc = "done" /\ change'.id # None
        BY <3>2, Amounts DEF Sound, Names
      <3>4. ~ \E q \in Requests : Replace(q)
        <4>1. ASSUME NEW q \in Requests, Replace(q) PROVE c = q /\ req[q].pc = "replace"
          BY <3>2, <4>1 DEF Replace, At
        <4> QED
          BY <3>3, <4>1
      <3>5. change.id = change'.id
        BY <1>0, <3>3, <3>4
      <3>6. Reason
        BY <1>2, <2>2, <3>1, <3>5 DEF Kept
      <3>7. /\ change'.expiresAt = change.expiresAt
            /\ change.attempts \in Nat /\ change'.attempts \in Nat /\ change.expiresAt \in Nat
            /\ change.attempts <= change'.attempts
            /\ now \in Nat /\ now' \in Nat /\ now <= now'
        BY <3>3, <3>5, ChangeGrows
      <3>8. CASE past.contested
        BY <1>0, <3>4, <3>8 DEF Reason
      <3>9. CASE change.expiresAt <= now
        BY <3>7, <3>9 DEF Reason, Spoiled
      <3>10. CASE change.attempts >= MaxAttempts
        BY <3>7, <3>10, Amounts DEF Reason, Spoiled
      <3> QED
        BY <3>6, <3>8, <3>9, <3>10 DEF Reason, Spoiled
    <2>3. req'[r] = req[r] \/ Quiet(r) \/ OfOtp(r) \/ OfChange(r)
      <3>1. CASE UNCHANGED vars \/ Tick \/ CleanupOtp
                 \/ \E e \in Emails : OthersTake(e) \/ OthersLeave(e)
        BY <3>1, NobodyMoves
      <3>2. ASSUME NEW q \in Requests, Quiet(q) \/ OfOtp(q) \/ OfChange(q), q # r
            PROVE  req'[r] = req[r]
        <4>1. TypeOK'
          BY TypeStep
        <4> QED
          BY <3>2, <4>1, QuietGoes, ActsGo DEF Steady
      <3> QED
        BY <3>1, <3>2, NextIs
    <2> QED
      BY <2>1, <2>2, <2>3
  <1> QED
    BY <1>1, <1>2 DEF Kept

LEMMA InitKept == Init => Kept
  BY DEF Init, Kept, NoChange, Idle

\* What one step may do to the request of change.
ChangeKeptBy ==
  \/ change = NoChange
  \/ change'.id = change.id
  \/ change'.id # None
  \/ Spoiled(change.expiresAt, change.attempts)
  \/ user' = [email |-> change.newEmail, verified |-> TRUE]
  \/ past.contested

LEMMA ChangeKeptStep == Sound /\ Kept /\ [Next]_vars => [ChangeKeptBy]_vars
  <1> SUFFICES ASSUME Sound, Kept, [Next]_vars, change.id # None, change'.id = None
               PROVE  ChangeKeptBy
    BY DEF ChangeKeptBy, Sound, Names
  <1>1. change' # change
    OBVIOUS
  <1>2. CASE UNCHANGED vars \/ Tick \/ CleanupOtp \/ \E e \in Emails : OthersTake(e) \/ OthersLeave(e)
    BY <1>1, <1>2 DEF vars, rows, Tick, CleanupOtp, OthersTake, OthersLeave
  <1>3. ASSUME NEW r \in Requests, OfOtp(r) PROVE FALSE
    BY <1>1, <1>3 DEF OfOtp, Upsert, Mail, Withdraw, IncrementOtp, DeleteOtp, ConsumeOtp, MarkVerified
  <1>4. ASSUME NEW r \in Requests, Replace(r) \/ RejectCode(r) \/ ApplyContactPatch(r)
        PROVE  FALSE
    BY <1>1, <1>4, Amounts DEF Replace, RejectCode, ApplyContactPatch, Sound, TypeOK, ChangeRow
  <1>5. ASSUME NEW r \in Requests, DropChange(r) PROVE ChangeKeptBy
    <2>1. req[r].pc = "drop" /\ req[r].id = change.id
      BY <1>1, <1>5 DEF DropChange, SameRequest, At
    <2> QED
      BY <2>1 DEF Kept, Reason, ChangeKeptBy
  <1>6. ASSUME NEW r \in Requests, Apply(r) PROVE ChangeKeptBy
    <2>1. change.id = req[r].id /\ user' = [email |-> req[r].email, verified |-> TRUE]
      BY <1>1, <1>6 DEF Apply
    <2>2. req[r].email = change.newEmail
      BY <1>6, <2>1, SameAddress DEF Apply, At
    <2> QED
      BY <2>1, <2>2 DEF ChangeKeptBy
  <1>7. ASSUME NEW r \in Requests, Quiet(r) PROVE FALSE
    BY <1>1, <1>7, QuietLeaves
  <1> QED
    BY <1>2, <1>3, <1>4, <1>5, <1>6, <1>7, NextIs DEF OfChange

\* A request of change that was made stays until it is applied, replaced, expired or
\* exhausted, or until its address has become another's (EmailChangeService).
THEOREM ChangeKeptHolds == Spec => ChangeKept
  <1>1. Init => Sound /\ Kept
    BY InitSound, InitKept
  <1>2. Sound /\ Kept /\ [Next]_vars => (Sound /\ Kept)'
    BY TypeStep, LocalsStep, NamesStep, KeptStep DEF Sound
  <1>3. Sound /\ Kept /\ [Next]_vars => [ChangeKeptBy]_vars
    BY ChangeKeptStep
  <1>4. [ChangeKeptBy]_vars =>
          [\/ change = NoChange
           \/ change'.id = change.id
           \/ change'.id # None
           \/ Spoiled(change.expiresAt, change.attempts)
           \/ user' = [email |-> change.newEmail, verified |-> TRUE]
           \/ past.contested]_vars
    BY DEF ChangeKeptBy
  <1> QED
    BY <1>1, <1>2, <1>3, <1>4, PTL DEF Spec, ChangeKept

-----------------------------------------------------------------------------
(* Verified addresses were proved *)

\* The two requests that mail a code.
LEMMA SentBy ==
  ASSUME Sound, [Next]_vars, NEW c \in Requests
  PROVE  \/ sentTo'[c] = sentTo[c]
         \/ req[c].pc \in {"mail", "replace"} /\ sentTo'[c] = req[c].email
  <1>1. sentTo \in [Requests -> Emails \cup {None}]
    BY DEF Sound, TypeOK
  <1>2. CASE UNCHANGED sentTo
    BY <1>2
  <1>3. CASE UNCHANGED vars \/ Tick \/ CleanupOtp \/ \E e \in Emails : OthersTake(e) \/ OthersLeave(e)
    BY <1>2, <1>3 DEF vars, rows, Tick, CleanupOtp, OthersTake, OthersLeave
  <1>4. ASSUME NEW r \in Requests, OfOtp(r), ~Mail(r) PROVE UNCHANGED sentTo
    BY <1>4 DEF OfOtp, Upsert, Withdraw, IncrementOtp, DeleteOtp, ConsumeOtp, MarkVerified
  <1>5. ASSUME NEW r \in Requests, OfChange(r), ~Replace(r) PROVE UNCHANGED sentTo
    BY <1>5 DEF OfChange, RejectCode, DropChange, Apply, ApplyContactPatch
  <1>6. ASSUME NEW r \in Requests, Mail(r) \/ Replace(r), c # r PROVE sentTo'[c] = sentTo[c]
    BY <1>1, <1>6 DEF Mail, Replace
  <1>7. ASSUME Mail(c) \/ Replace(c)
        PROVE  \/ sentTo'[c] = sentTo[c]
               \/ req[c].pc \in {"mail", "replace"} /\ sentTo'[c] = req[c].email
    BY <1>1, <1>7 DEF Mail, Replace, At
  <1> QED
    BY <1>2, <1>3, <1>4, <1>5, <1>6, <1>7, QuietLeaves, NextIs

\* The code of the user stays about his address.
LEMMA CodeAbout ==
  ASSUME Sound, AboutIt, [Next]_vars, otp'.code # None
  PROVE  sentTo'[otp'.code] \in {None, user.email}
  <1>1. PICK c : c = otp'.code
    OBVIOUS
  <1>2. c = otp.code \/ (c \in Requests /\ req[c].pc = "upsert")
    BY <1>1, NewNames
  <1>3. c \in Requests
    BY <1>1, <1>2 DEF Sound, TypeOK, OtpRow, Codes
  <1>4. CASE req[c].pc = "upsert"
    <2>1. sentTo[c] = None
      BY <1>3, <1>4 DEF Sound, Names
    <2> QED
      BY <1>1, <1>3, <1>4, <2>1, SentBy
  <1>5. CASE c = otp.code
    <2>1. sentTo[c] \in {None, user.email}
      BY <1>1, <1>5 DEF AboutIt
    <2>2. req[c].pc \in Made
      BY <1>3, <1>5 DEF Sound, Names, Made
    <2>3. CASE sentTo'[c] = sentTo[c]
      BY <1>1, <2>1, <2>3
    <2>4. CASE req[c].pc = "mail" /\ sentTo'[c] = req[c].email
      BY <1>1, <1>3, <2>4 DEF AboutIt, About
    <2> QED
      BY <1>3, <2>2, <2>3, <2>4, SentBy DEF Made
  <1> QED
    BY <1>2, <1>4, <1>5

\* What is about the address now is so after the step.
LEMMA AboutStays ==
  ASSUME Sound, [Next]_vars, user.email \in Emails
  PROVE  \A x : Fits(x, sentTo') /\ About(x, user.email, sentTo) => About(x, user.email, sentTo')
  <1> SUFFICES ASSUME NEW x, Fits(x, sentTo'), About(x, user.email, sentTo)
               PROVE  About(x, user.email, sentTo')
    OBVIOUS
  <1>1. CASE x.pc \in {"consume", "mark"}
    <2>1. x.code \in Requests
      BY <1>1 DEF Fits, Known
    <2>2. sentTo[x.code] = user.email /\ user.email # None
      BY <1>1, Amounts DEF About
    <2>3. sentTo'[x.code] = sentTo[x.code]
      BY <2>1, <2>2, SentStays
    <2> QED
      BY <1>1, <2>2, <2>3 DEF About
  <1>2. CASE x.pc \notin {"consume", "mark"}
    BY <1>2 DEF About
  <1> QED
    BY <1>1, <1>2

\* The ways of a request.
LEMMA MovesAbout ==
  ASSUME NEW r \in Requests, NEW email, About(req[r], email, sentTo)
  PROVE  /\ Ends(r) => About(req'[r], email, sentTo)
         /\ \A pc : /\ Goes(r, pc) /\ pc \notin {"consume", "mark", "cooldown"}
                    /\ pc \in {"create", "upsert", "mail"} =>
                         req[r].pc \in {"cooldown", "create", "upsert", "mail"}
                    => About(req'[r], email, sentTo)
  BY DEF Ends, Goes, About

LEMMA QuietAbout ==
  ASSUME Sound, AboutIt, NEW r \in Requests, Quiet(r)
  PROVE  About(req'[r], user.email, sentTo)
  <1>1. TypeOK
    BY DEF Sound
  <1>2. About(req[r], user.email, sentTo) /\ user.email \in Emails
    BY <1>1 DEF AboutIt, TypeOK
  <1>3. ASSUME NEW pc, NEW email, NEW code, NEW id, NEW doubt, NEW won,
               Becomes(r, pc, email, code, id, doubt, won)
        PROVE  req'[r].pc = pc /\ req'[r].email = email
    BY <1>3 DEF Becomes
  <1>4. CASE RequestVerifyEmail(r)
    <2>1. Becomes(r, "cooldown", user.email, req[r].code, req[r].id, req[r].doubt, req[r].won)
      BY <1>1, <1>2, <1>4, AskedDoes DEF RequestVerifyEmail
    <2> QED
      BY <2>1 DEF Becomes, About
  <1>5. ASSUME NEW e \in Emails, RequestChange(r, e) \/ UpdateUser(r, e)
        PROVE  About(req'[r], user.email, sentTo)
    <2>1. req'[r].pc \in {"previous", "available"}
      BY <1>1, <1>3, <1>5, AskedDoes, ZenonT(30) DEF RequestChange, UpdateUser
    <2> QED
      BY <2>1 DEF About
  <1>6. CASE WaitForCooldown(r) \/ Create(r)
    <2>1. PICK pc \in {"create", "upsert"} : Goes(r, pc) \/ Ends(r)
      BY <1>1, <1>6, GoOrFinishDoes DEF WaitForCooldown, Create, Points
    <2>2. req[r].pc \in {"cooldown", "create"}
      BY <1>6 DEF WaitForCooldown, Create, At
    <2> QED
      BY <1>2, <2>1, <2>2, MovesAbout
  <1>7. CASE FindPrevious(r) \/ FindConflicting(r)
    <2>1. PICK pc \in {"conflict", "replace", "patch"} : Goes(r, pc) \/ Ends(r)
      BY <1>1, <1>7, GoOrFinishDoes DEF FindPrevious, FindConflicting, Points
    <2> QED
      BY <1>2, <2>1, MovesAbout
  <1>8. CASE FindOccupied(r)
    <2>1. PICK pc \in {"drop", "apply"} : Goes(r, pc)
      BY <1>1, <1>8, GotoGoes DEF FindOccupied, Points
    <2> QED
      BY <1>2, <2>1, MovesAbout
  <1>9. CASE FindOtp(r)
    <2>1. PICK pc \in {"delete", "consume", "increment"} :
            /\ Goes(r, pc) \/ Ends(r)
            /\ Goes(r, pc) => otp # NoOtp
            /\ pc = "consume" => otp.code = req[r].code
      BY <1>1, <1>9, GoOrFinishDoes DEF FindOtp, Points, Goes, Ends
    <2>2. CASE Ends(r) \/ pc # "consume"
      BY <1>2, <2>1, <2>2, MovesAbout
    <2>3. CASE Goes(r, pc) /\ pc = "consume"
      <3>1. otp.code # None /\ otp.code = req[r].code
        BY <2>1, <2>3 DEF Sound, Names
      <3>2. Known(req[r].code, sentTo)
        BY <1>9, <3>1 DEF Sound, Locals, Fits, FindOtp, At
      <3>3. sentTo[req[r].code] = user.email
        BY <3>1, <3>2 DEF AboutIt, Known
      <3> QED
        BY <2>3, <3>3 DEF About, Goes
    <2> QED
      BY <2>1, <2>2, <2>3
  <1>10. CASE Abandon(r)
    BY <1>1, <1>2, <1>10, FinishEnds, MovesAbout DEF Abandon
  <1>11. ASSUME NEW c \in Codes, VerifyEmail(r, c) PROVE About(req'[r], user.email, sentTo)
    <2>1. req'[r].pc = "find"
      BY <1>1, <1>3, <1>11, VerifyEmailDoes
    <2> QED
      BY <2>1 DEF About
  <1>12. ASSUME NEW c \in Codes, Confirm(r, c) PROVE About(req'[r], user.email, sentTo)
    <2>1. req'[r].pc \in {"drop", "occupied", "reject"}
      BY <1>1, <1>3, <1>12, ConfirmDoes
    <2> QED
      BY <2>1 DEF About
  <1> QED
    BY <1>4, <1>5, <1>6, <1>7, <1>8, <1>9, <1>10, <1>11, <1>12 DEF Quiet

LEMMA ActsAbout ==
  ASSUME Sound, AboutIt, NEW r \in Requests, OfOtp(r) \/ OfChange(r), UNCHANGED user
  PROVE  About(req'[r], user.email, sentTo)
  <1>1. TypeOK
    BY DEF Sound
  <1>2. About(req[r], user.email, sentTo)
    BY DEF AboutIt
  <1>3. CASE Upsert(r)
    BY <1>1, <1>2, <1>3, GotoGoes, MovesAbout DEF Upsert, Points, At
  <1>4. CASE Mail(r)
    <2>1. Ends(r) \/ Goes(r, "withdraw")
      BY <1>1, <1>4, FinishEnds, GotoGoes DEF Mail, Points
    <2> QED
      BY <1>2, <2>1, MovesAbout
  <1>5. CASE Withdraw(r) \/ DeleteOtp(r) \/ MarkVerified(r) \/ DropChange(r)
    BY <1>1, <1>2, <1>5, FinishEnds, MovesAbout DEF Withdraw, DeleteOtp, MarkVerified, DropChange
  <1>6. CASE IncrementOtp(r) \/ RejectCode(r)
    <2>1. PICK pc \in {"delete", "drop"} : Ends(r) \/ Goes(r, pc)
      BY <1>1, <1>6, FinishEnds, GoOrFinishDoes DEF IncrementOtp, RejectCode, Points
    <2> QED
      BY <1>2, <2>1, MovesAbout
  <1>7. CASE ConsumeOtp(r)
    <2>1. CASE otp.code = req[r].code
      <3>1. sentTo[req[r].code] = user.email
        BY <1>2, <1>7 DEF About, ConsumeOtp, At
      <3>2. req'[r].pc = "mark" /\ req'[r].code = req[r].code
        BY <1>1, <1>7, <2>1, ConsumeOtpDoes DEF Becomes
      <3> QED
        BY <3>1, <3>2 DEF About
    <2>2. CASE otp.code # req[r].code
      BY <1>1, <1>2, <1>7, <2>2, FinishEnds, MovesAbout DEF ConsumeOtp, Affected
    <2> QED
      BY <2>1, <2>2
  <1>8. CASE Replace(r)
    BY <1>1, <1>8, ReplaceDoes DEF Becomes, About
  <1>9. CASE Apply(r)
    <2>1. CASE change.id # req[r].id
      BY <1>1, <1>2, <1>9, <2>1, FinishEnds, MovesAbout DEF Apply
    <2>2. CASE change.id = req[r].id /\ req[r].email \in taken
      BY <1>1, <1>2, <1>9, <2>2, GotoGoes, MovesAbout DEF Apply, Points
    <2>3. CASE change.id = req[r].id /\ req[r].email \notin taken
      <3>1. req'[r].pc = "done"
        BY <1>1, <1>9, <2>3, ApplyDoes DEF Becomes
      <3> QED
        BY <3>1 DEF About
    <2> QED
      BY <2>1, <2>2, <2>3
  <1>10. CASE ApplyContactPatch(r)
    <2>1. CASE req[r].email \in taken
      BY <1>1, <1>2, <1>10, <2>1, FinishEnds, MovesAbout DEF ApplyContactPatch
    <2>2. CASE req[r].email \notin taken
      <3>1. user.email = req[r].email
        BY <1>10, <2>2 DEF ApplyContactPatch, Patched
      <3>2. Goes(r, "create")
        BY <1>1, <1>10, <2>2, GotoGoes DEF ApplyContactPatch, Points
      <3> QED
        BY <3>1, <3>2 DEF About, Goes
    <2> QED
      BY <2>1, <2>2
  <1> QED
    BY <1>3, <1>4, <1>5, <1>6, <1>7, <1>8, <1>9, <1>10 DEF OfOtp, OfChange

LEMMA AboutItStep ==
  ASSUME Sound, AboutIt, [Next]_vars, UNCHANGED user
  PROVE  AboutIt'
  <1>1. Locals' /\ TypeOK' /\ user.email \in Emails
    BY LocalsStep, TypeStep DEF Sound, TypeOK
  <1>2. ASSUME NEW r \in Requests PROVE About(req'[r], user.email, sentTo')
    <2>1. About(req[r], user.email, sentTo) /\ Fits(req'[r], sentTo')
      BY <1>1 DEF AboutIt, Locals
    <2>2. About(req'[r], user.email, sentTo)
      <3>1. CASE req'[r] = req[r]
        BY <2>1, <3>1
      <3>2. CASE UNCHANGED vars \/ Tick \/ CleanupOtp
                 \/ \E e \in Emails : OthersTake(e) \/ OthersLeave(e)
        BY <3>1, <3>2, NobodyMoves
      <3>3. ASSUME NEW q \in Requests, Quiet(q) \/ OfOtp(q) \/ OfChange(q), q # r
            PROVE  req'[r] = req[r]
        BY <1>1, <3>3, QuietGoes, ActsGo DEF Steady
      <3> QED
        BY <3>1, <3>2, <3>3, QuietAbout, ActsAbout, NextIs
    <2> QED
      BY <1>1, <2>1, <2>2, AboutStays
  <1> QED
    BY <1>2, CodeAbout DEF AboutIt

\* The steps that change the user.
LEMMA UserMoves ==
  ASSUME Sound, [Next]_vars
  PROVE  \/ /\ UNCHANGED user
            /\ past'.overlapped = past.overlapped /\ past'.proved = past.proved
         \/ \E r \in Requests : \/ MarkVerified(r)
                                \/ Apply(r) /\ change.id = req[r].id /\ req[r].email \notin taken
                                \/ ApplyContactPatch(r) /\ req[r].email \notin taken
  <1>0. past \in PastType
    BY DEF Sound, TypeOK, PastType
  <1>1. CASE UNCHANGED vars \/ Tick \/ CleanupOtp
    BY <1>0, <1>1 DEF vars, rows, Tick, CleanupOtp, PastType
  <1>2. ASSUME NEW e \in Emails, OthersTake(e) \/ OthersLeave(e)
        PROVE  /\ UNCHANGED user
               /\ past'.overlapped = past.overlapped /\ past'.proved = past.proved
    BY <1>0, <1>2 DEF rows, OthersTake, OthersLeave, PastType
  <1>3. ASSUME NEW r \in Requests, OfOtp(r), ~MarkVerified(r)
        PROVE  /\ UNCHANGED user
               /\ past'.overlapped = past.overlapped /\ past'.proved = past.proved
    <2>1. CASE IncrementOtp(r)
      BY <1>0, <2>1 DEF IncrementOtp, PastType
    <2>2. CASE Upsert(r) \/ Mail(r) \/ Withdraw(r) \/ DeleteOtp(r) \/ ConsumeOtp(r)
      BY <1>0, <2>2 DEF Upsert, Mail, Withdraw, DeleteOtp, ConsumeOtp, PastType
    <2> QED
      BY <1>3, <2>1, <2>2 DEF OfOtp
  <1>4. ASSUME NEW r \in Requests, Replace(r) \/ RejectCode(r) \/ DropChange(r)
        PROVE  /\ UNCHANGED user
               /\ past'.overlapped = past.overlapped /\ past'.proved = past.proved
    BY <1>0, <1>4 DEF Replace, RejectCode, DropChange, PastType
  <1>5. ASSUME NEW r \in Requests, Apply(r), ~(change.id = req[r].id /\ req[r].email \notin taken)
        PROVE  /\ UNCHANGED user
               /\ past'.overlapped = past.overlapped /\ past'.proved = past.proved
    BY <1>5 DEF Apply
  <1>6. ASSUME NEW r \in Requests, ApplyContactPatch(r), req[r].email \in taken
        PROVE  /\ UNCHANGED user
               /\ past'.overlapped = past.overlapped /\ past'.proved = past.proved
    BY <1>6 DEF ApplyContactPatch
  <1> QED
    BY <1>1, <1>2, <1>3, <1>4, <1>5, <1>6, QuietLeaves, NextIs DEF OfChange

LEMMA ProofsStep == Sound /\ Proofs /\ [Next]_vars => Proofs'
  <1> SUFFICES ASSUME Sound, Proofs, [Next]_vars PROVE Proofs'
    OBVIOUS
  <1>0. past \in PastType /\ user \in [email : Emails, verified : BOOLEAN]
    BY DEF Sound, TypeOK, PastType
  <1>1. CASE UNCHANGED user /\ past'.overlapped = past.overlapped /\ past'.proved = past.proved
    BY <1>1, AboutItStep DEF Proofs, VerifiedByProof
  <1>2. ASSUME NEW r \in Requests, MarkVerified(r) PROVE Proofs'
    <2>1. /\ user'.email = user.email /\ user'.verified
          /\ past'.proved = past.proved \cup {sentTo[req[r].code]}
          /\ past'.overlapped = past.overlapped
      BY <1>0, <1>2 DEF MarkVerified, PastType
    <2>2. ~user.verified /\ ~past.overlapped => sentTo[req[r].code] = user.email
      BY <1>2 DEF Proofs, AboutIt, About, MarkVerified, At
    <2> QED
      BY <2>1, <2>2 DEF Proofs, VerifiedByProof
  <1>3. ASSUME NEW r \in Requests, Apply(r), change.id = req[r].id, req[r].email \notin taken
        PROVE  Proofs'
    <2>1. /\ user'.email = req[r].email /\ user'.verified
          /\ past'.proved = past.proved \cup {sentTo[req[r].code]}
      BY <1>0, <1>3 DEF Apply, PastType
    <2>2. sentTo[req[r].code] = req[r].email
      BY <1>3 DEF Sound, Locals, Fits, Apply, At
    <2> QED
      BY <2>1, <2>2 DEF Proofs, VerifiedByProof
  <1>4. ASSUME NEW r \in Requests, ApplyContactPatch(r), req[r].email \notin taken
        PROVE  Proofs'
    <2>1. /\ user'.email = req[r].email /\ ~user'.verified
          /\ otp' = otp /\ sentTo' = sentTo
      BY <1>4 DEF ApplyContactPatch, Patched
    <2>2. past'.overlapped <=> Overlap(r)
      <3>1. PICK b \in BOOLEAN : b <=> Overlap(r)
        OBVIOUS
      <3> QED
        BY <1>0, <1>4, <3>1 DEF ApplyContactPatch, PastType
    <2>3. Goes(r, "create")
      BY <1>4, GotoGoes DEF ApplyContactPatch, Points, Sound
    <2>4. ASSUME ~Overlap(r) PROVE AboutIt'
      <3>1. otp'.code = None
        BY <2>1, <2>4 DEF Overlap, NoOtp
      <3>2. ASSUME NEW q \in Requests, q # r PROVE About(req'[q], user'.email, sentTo')
        <4>1. req'[q] = req[q]
          BY <2>3, <3>2 DEF Goes
        <4> QED
          BY <2>4, <3>2, <4>1 DEF Overlap, About
      <3>3. About(req'[r], user'.email, sentTo')
        BY <2>1, <2>3 DEF About, Goes
      <3> QED
        BY <3>1, <3>2, <3>3 DEF AboutIt
    <2> QED
      BY <2>1, <2>2, <2>4 DEF Proofs, VerifiedByProof
  <1> QED
    BY <1>1, <1>2, <1>3, <1>4, UserMoves

LEMMA InitProofs == Init => Proofs
  BY DEF Init, Proofs, VerifiedByProof, AboutIt, About, NoOtp, Idle

\* A verified address was proved by a code mailed to it, unless an administrator wrote it
\* beside a code for an earlier one (verifyEmail, EmailChangeService.confirm, updateUser).
THEOREM VerifiedByProofHolds == Spec => []VerifiedByProof
  <1>1. Init => Sound /\ Proofs
    BY InitSound, InitProofs
  <1>2. Sound /\ Proofs /\ [Next]_vars => (Sound /\ Proofs)'
    BY TypeStep, LocalsStep, NamesStep, ProofsStep DEF Sound
  <1>3. Proofs => VerifiedByProof
    BY DEF Proofs
  <1> QED
    BY <1>1, <1>2, <1>3, PTL DEF Spec

=============================================================================

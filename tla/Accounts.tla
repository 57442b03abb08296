------------------------------ MODULE Accounts ------------------------------
(***************************************************************************)
(* The e-mail address of one user: its verification by a mailed code, its  *)
(* change by the user, who proves the new address by a code, its change by *)
(* an administrator, which leaves the new address to be verified.          *)
(*                                                                         *)
(* A user has at most one code (table otp) and one request of change       *)
(* (email_change_requests).  Each call is interrupted at its awaits; only  *)
(* Replace and Apply are transactions of several statements.               *)
(***************************************************************************)
EXTENDS Naturals

CONSTANTS
  Requests,       \* one call each
  Emails,         \* addresses
  None,           \* no code, no address
  MaxAttempts,    \* OTP_MAX_ATTEMPTS and EMAIL_CHANGE_MAX_ATTEMPTS
  CodeTtl,        \* otp.expireMinutes and EMAIL_CHANGE_TTL_MINUTES
  Cooldown,       \* the three resend cooldowns, of a minute each
  MaxTime         \* bound of the clock

ASSUME AccountsAssumption ==
  /\ None \notin Requests \cup Emails
  /\ {MaxAttempts, CodeTtl} \subseteq Nat \ {0}
  /\ {Cooldown, MaxTime} \subseteq Nat

VARIABLES
  now,       \* the clock
  user,      \* the row of the user
  taken,     \* the addresses of other users
  otp,       \* the row of otp
  change,    \* the row of email_change_requests
  sentTo,    \* where the code of each request was mailed
  req,       \* the state of every request
  past       \* history, for the properties

vars == <<now, user, taken, otp, change, sentTo, req, past>>

rows == <<user, otp, change, sentTo>>

-----------------------------------------------------------------------------
(* Data *)

\* A code is named after the request that made it.
Codes == Requests \cup {None}

OtpRow == [code : Codes, attempts : Nat, expireAt : Nat, sentAt : Nat, updatedAt : Nat]

NoOtp == [code |-> None, attempts |-> 0, expireAt |-> 0, sentAt |-> 0, updatedAt |-> 0]

\* A request of change and its code have one name.
ChangeRow == [id : Codes, newEmail : Emails \cup {None}, attempts : Nat,
              expiresAt : Nat, createdAt : Nat]

NoChange == [id |-> None, newEmail |-> None, attempts |-> 0,
             expiresAt |-> 0, createdAt |-> 0]

\* A request waits for what its pc names.
Points == {"idle", "done",
           "cooldown", "create", "upsert", "mail", "withdraw",       \* a code
           "find", "increment", "delete", "consume", "mark",         \* its check
           "previous", "conflict", "replace",                        \* a change
           "reject", "drop", "occupied", "apply",                    \* its check
           "available", "patch"}                                     \* updateUser

\* email: the address in question; code: the one presented, None if it is wrong;
\* id: the request of change as read; doubt: whether the code was no good when the
\* check began; won: whether it was accepted.
Request == [pc : Points, email : Emails \cup {None}, code : Codes, id : Codes,
            doubt : BOOLEAN, won : BOOLEAN]

Idle == [pc |-> "idle", email |-> None, code |-> None, id |-> None,
         doubt |-> FALSE, won |-> FALSE]

At(r, pc) == req[r].pc = pc

Goto(r, pc) == req' = [req EXCEPT ![r].pc = pc]

\* A request that made a code or had one accepted leaves a trace.
Traced(r) == req[r].pc \in {"mail", "withdraw"} \/ req[r].won

\* Such a request is answered for good; a client may make any other one again.
Finish(r) ==
  req' = [req EXCEPT ![r] =
            IF Traced(r) THEN [@ EXCEPT !.pc = "done", !.email = None] ELSE Idle]

\* A request goes on at one of two points, or is over.
GoOrFinish(r, goes, pc) == IF goes THEN Goto(r, pc) ELSE Finish(r)

Sent == {c \in Requests : sentTo[c] # None}

Init ==
  /\ now = 0
  /\ user \in [email : Emails, verified : BOOLEAN]
  /\ taken \in SUBSET (Emails \ {user.email})
  /\ otp = NoOtp
  /\ change = NoChange
  /\ sentTo = [c \in Requests |-> None]
  /\ req = [r \in Requests |-> Idle]
  /\ past = [proved |-> IF user.verified THEN {user.email} ELSE {}, contested |-> FALSE, dead |-> {},
             replaced |-> {}, overlapped |-> FALSE]

-----------------------------------------------------------------------------
(* A code for the address of the user *)

\* requestVerifyEmail reads the user.
RequestVerifyEmail(r) ==
  /\ At(r, "idle") /\ ~user.verified
  /\ req' = [req EXCEPT ![r].pc = "cooldown", ![r].email = user.email]
  /\ UNCHANGED <<now, taken, rows, past>>

\* ... and the code: one that was touched a moment ago is left alone.
WaitForCooldown(r) ==
  /\ At(r, "cooldown")
  /\ GoOrFinish(r, otp = NoOtp \/ now >= otp.updatedAt + Cooldown, "create")
  /\ UNCHANGED <<now, taken, rows, past>>

\* OtpService.create reads it once more: not again within the cooldown.
Create(r) ==
  /\ At(r, "create")
  /\ GoOrFinish(r, otp = NoOtp \/ now >= otp.sentAt + Cooldown, "upsert")
  /\ UNCHANGED <<now, taken, rows, past>>

\* The code before, if there was one, is replaced.
Upsert(r) ==
  /\ At(r, "upsert")
  /\ otp' = [code |-> r, attempts |-> 0, expireAt |-> now + CodeTtl,
              sentAt |-> now, updatedAt |-> now]
  /\ Goto(r, "mail")
  /\ past' = [past EXCEPT !.dead = @ \cup ({otp.code} \ {None}),
                          !.replaced = @ \cup ({otp.code} \ {None})]
  /\ UNCHANGED <<now, taken, user, change, sentTo>>

\* The mail is put into the queue, or it is not.
Mail(r) ==
  /\ At(r, "mail")
  /\ \/ /\ sentTo' = [sentTo EXCEPT ![r] = req[r].email]
        /\ Finish(r)
     \/ /\ Goto(r, "withdraw")
        /\ UNCHANGED sentTo
  /\ UNCHANGED <<now, taken, user, otp, change, past>>

\* The row of the user is deleted, whichever code it has got by now.
Withdrawn == NoOtp

Withdraw(r) ==
  /\ At(r, "withdraw")
  /\ otp' = Withdrawn
  /\ Finish(r)
  /\ past' = [past EXCEPT !.dead = @ \cup ({otp.code} \ {None})]
  /\ UNCHANGED <<now, taken, user, change, sentTo>>

-----------------------------------------------------------------------------
(* Its check *)

\* What a client enters: a code out of a mail, or a wrong one.
Entered == Sent \cup {None}

\* verifyEmail reads the user.
VerifyEmail(r, c) ==
  /\ At(r, "idle") /\ c \in Entered /\ ~user.verified
  /\ req' = [req EXCEPT ![r].pc = "find", ![r].code = c, ![r].doubt = c \in past.dead]
  /\ UNCHANGED <<now, taken, rows, past>>

\* Expired or exhausted.
Spoiled(expiry, attempts) == expiry <= now \/ attempts >= MaxAttempts

\* OtpService.check reads the code and compares.
FindOtp(r) ==
  /\ At(r, "find")
  /\ GoOrFinish(r, otp # NoOtp,
                IF Spoiled(otp.expireAt, otp.attempts) THEN "delete"
                ELSE IF otp.code = req[r].code THEN "consume" ELSE "increment")
  /\ UNCHANGED <<now, taken, rows, past>>

\* incrementAttempts of whichever code the user has got by now.
IncrementOtp(r) ==
  LET n == otp.attempts + 1 IN
    /\ At(r, "increment")
    /\ IF otp = NoOtp
       THEN Finish(r) /\ UNCHANGED <<otp, past>>
       ELSE /\ otp' = [otp EXCEPT !.attempts = n, !.updatedAt = now]
            /\ GoOrFinish(r, n >= MaxAttempts, "delete")
            /\ past' = [past EXCEPT
                 !.dead = IF n >= MaxAttempts THEN @ \cup {otp.code} ELSE @]
    /\ UNCHANGED <<now, taken, user, change, sentTo>>

\* The row of the user is deleted, whichever code it has got by now.
DeleteOtp(r) ==
  /\ At(r, "delete")
  /\ otp' = NoOtp
  /\ Finish(r)
  /\ past' = [past EXCEPT !.dead = @ \cup ({otp.code} \ {None})]
  /\ UNCHANGED <<now, taken, user, change, sentTo>>

\* Slip: who found the code goes on, whether or not it deletes it.
FoundIt(r) == At(r, "consume")

\* The DELETE by user and code affects a row.
Affected(r) == otp.code = req[r].code

ConsumeOtp(r) ==
  /\ At(r, "consume")
  /\ IF Affected(r)
     THEN /\ req' = [req EXCEPT ![r].pc = "mark", ![r].won = TRUE,
                                ![r].doubt = @ \/ req[r].code \in past.replaced]
          /\ otp' = NoOtp
     ELSE Finish(r) /\ UNCHANGED otp
  /\ UNCHANGED <<now, taken, user, change, sentTo, past>>

\* emailVerified is set, of whichever address the user has got by now.
MarkVerified(r) ==
  /\ At(r, "mark")
  /\ user' = [user EXCEPT !.verified = TRUE]
  /\ Finish(r)
  /\ past' = [past EXCEPT !.proved = @ \cup {sentTo[req[r].code]}]
  /\ UNCHANGED <<now, taken, otp, change, sentTo>>

\* otp.cleanup, every half hour.
CleanupOtp ==
  /\ otp # NoOtp /\ otp.expireAt <= now
  /\ otp' = NoOtp
  /\ UNCHANGED <<now, taken, user, change, sentTo, req, past>>

-----------------------------------------------------------------------------
(* Change of the address by the user *)

\* updateMyUser with an address: the user is read.
RequestChange(r, e) ==
  /\ At(r, "idle") /\ e # user.email
  /\ req' = [req EXCEPT ![r].pc = "previous", ![r].email = e]
  /\ UNCHANGED <<now, taken, rows, past>>

\* The previous request is read: not again within the cooldown.
FindPrevious(r) ==
  /\ At(r, "previous")
  /\ GoOrFinish(r, change = NoChange \/ now >= change.createdAt + Cooldown, "conflict")
  /\ UNCHANGED <<now, taken, rows, past>>

\* findConflicting, for a change and for an update by the administrator.
FindConflicting(r) ==
  /\ req[r].pc \in {"conflict", "available"}
  /\ GoOrFinish(r, req[r].email \notin taken,
                IF At(r, "conflict") THEN "replace" ELSE "patch")
  /\ UNCHANGED <<now, taken, rows, past>>

\* One transaction deletes the previous request, inserts this one and queues its mail;
\* it may fail on the unique index beside a parallel one (Abandon).
Replace(r) ==
  /\ At(r, "replace")
  /\ change' = [id |-> r, newEmail |-> req[r].email, attempts |-> 0,
                expiresAt |-> now + CodeTtl, createdAt |-> now]
  /\ sentTo' = [sentTo EXCEPT ![r] = req[r].email]
  /\ req' = [req EXCEPT ![r] = [Idle EXCEPT !.pc = "done"]]
  /\ past' = [past EXCEPT !.dead = @ \cup ({change.id} \ {None}),
                          !.replaced = @ \cup ({change.id} \ {None}),
                          !.contested = req[r].email \in taken]
  /\ UNCHANGED <<now, taken, user, otp>>

\* confirm reads the request and compares the code; all wrong ones are alike.
Confirm(r, c) ==
  /\ At(r, "idle") /\ change # NoChange /\ c \in Entered \cap {change.id, None}
  /\ req' = [req EXCEPT ![r] = [@ EXCEPT
       !.code = c, !.id = change.id, !.doubt = c \in past.dead, !.email = change.newEmail,
       !.pc = IF Spoiled(change.expiresAt, change.attempts) THEN "drop"
              ELSE IF change.id = c THEN "occupied" ELSE "reject"]]
  /\ UNCHANGED <<now, taken, rows, past>>

\* The UPDATE by id, as long as the limit is not reached, affects a row.
Counts(r) == change.id = req[r].id /\ change.attempts < MaxAttempts

\* A wrong code counts; the last one allowed ends the request.
RejectCode(r) ==
  LET n == IF Counts(r) THEN change.attempts + 1 ELSE MaxAttempts IN
    /\ At(r, "reject")
    /\ change' = IF Counts(r) THEN [change EXCEPT !.attempts = n] ELSE change
    /\ GoOrFinish(r, n >= MaxAttempts, "drop")
    /\ past' = [past EXCEPT !.dead =
                  IF Counts(r) /\ n = MaxAttempts THEN @ \cup {change.id} ELSE @]
    /\ UNCHANGED <<now, taken, user, otp, sentTo>>

\* Slip: the request of the user goes, whichever it is.
AnyRequest(r) == change # NoChange

\* The DELETE by id finds its row.
SameRequest(r) == change.id = req[r].id

DropChange(r) ==
  /\ At(r, "drop")
  /\ change' = IF SameRequest(r) THEN NoChange ELSE change
  /\ Finish(r)
  /\ UNCHANGED <<now, taken, user, otp, sentTo, past>>

\* The user and whoever else may have the address are read.
FindOccupied(r) ==
  /\ At(r, "occupied")
  /\ Goto(r, IF req[r].email \in taken THEN "drop" ELSE "apply")
  /\ UNCHANGED <<now, taken, rows, past>>

\* One transaction deletes the request and writes the address; it is undone if the
\* address has an owner by now.
Apply(r) ==
  /\ At(r, "apply")
  /\ IF change.id # req[r].id
     THEN Finish(r) /\ UNCHANGED <<user, change, past>>
     ELSE IF req[r].email \in taken
     THEN Goto(r, "drop") /\ UNCHANGED <<user, change, past>>
     ELSE /\ change' = NoChange
          /\ user' = [email |-> req[r].email, verified |-> TRUE]
          /\ req' = [req EXCEPT ![r].pc = "done", ![r].email = None, ![r].won = TRUE,
                                ![r].doubt = @ \/ req[r].code \in past.replaced]
          /\ past' = [past EXCEPT !.proved = @ \cup {sentTo[req[r].code]}]
  /\ UNCHANGED <<now, taken, otp, sentTo>>

-----------------------------------------------------------------------------
(* Change of the address by an administrator *)

\* updateUser reads the user; an address he has already is no change.
UpdateUser(r, e) ==
  /\ At(r, "idle") /\ e # user.email
  /\ req' = [req EXCEPT ![r].pc = "available", ![r].email = e]
  /\ UNCHANGED <<now, taken, rows, past>>

\* Slip: the new address passes as verified.
PatchedEmail(r) == [user EXCEPT !.email = req[r].email]

Patched(r) == [email |-> req[r].email, verified |-> FALSE]

\* A code, its making or its check is under way, which is about an earlier address.
Overlap(r) ==
  \/ otp # NoOtp
  \/ \E q \in Requests \ {r} :
       req[q].pc \in {"cooldown", "create", "upsert", "mail", "find", "consume", "mark"}

\* The address is written, unless it has an owner by now; a code is to be sent.
ApplyContactPatch(r) ==
  /\ At(r, "patch")
  /\ IF req[r].email \in taken
     THEN Finish(r) /\ UNCHANGED <<user, past>>
     ELSE /\ user' = Patched(r)
          /\ Goto(r, "create")
          /\ past' = [past EXCEPT !.overlapped = Overlap(r)]
  /\ UNCHANGED <<now, taken, otp, change, sentTo>>

-----------------------------------------------------------------------------
(* The environment *)

\* Another user takes an address that is free, or gives one up.
OthersTake(e) ==
  /\ e \notin taken \cup {user.email}
  /\ taken' = taken \cup {e}
  /\ past' = [past EXCEPT !.contested = @ \/ e = change.newEmail]
  /\ UNCHANGED <<now, rows, req>>

OthersLeave(e) ==
  /\ e \in taken
  /\ taken' = taken \ {e}
  /\ UNCHANGED <<now, rows, req, past>>

\* A replica dies, or a query throws: a request ends where it is.
Abandon(r) ==
  /\ req[r].pc \notin {"idle", "done"}
  /\ Finish(r)
  /\ UNCHANGED <<now, taken, rows, past>>

\* Time passes.
Tick ==
  /\ now < MaxTime
  /\ now' = now + 1
  /\ past' = [past EXCEPT !.dead =
                @ \cup {c \in {otp.code} : c # None /\ otp.expireAt <= now'}
                  \cup {c \in {change.id} : c # None /\ change.expiresAt <= now'}]
  /\ UNCHANGED <<taken, rows, req>>

Next ==
  \/ Tick \/ CleanupOtp
  \/ \E e \in Emails : OthersTake(e) \/ OthersLeave(e)
  \/ \E r \in Requests :
       \/ RequestVerifyEmail(r) \/ WaitForCooldown(r) \/ Create(r) \/ Upsert(r)
       \/ Mail(r) \/ Withdraw(r)
       \/ FindOtp(r) \/ IncrementOtp(r) \/ DeleteOtp(r) \/ ConsumeOtp(r)
       \/ MarkVerified(r)
       \/ \E c \in Codes : VerifyEmail(r, c) \/ Confirm(r, c)
       \/ \E e \in Emails : RequestChange(r, e) \/ UpdateUser(r, e)
       \/ FindPrevious(r) \/ FindConflicting(r) \/ Replace(r)
       \/ RejectCode(r) \/ DropChange(r) \/ FindOccupied(r) \/ Apply(r)
       \/ ApplyContactPatch(r)
       \/ Abandon(r)

Spec == Init /\ [][Next]_vars

-----------------------------------------------------------------------------
(* Properties *)

\* Everything has its type, no address has two owners, and the wrong inputs of a
\* change never exceed the limit.
TypeOK ==
  /\ now \in Nat
  /\ user \in [email : Emails, verified : BOOLEAN]
  /\ taken \subseteq Emails \ {user.email}
  /\ otp \in OtpRow
  /\ change \in ChangeRow /\ change.attempts <= MaxAttempts
  /\ sentTo \in [Requests -> Emails \cup {None}]
  /\ req \in [Requests -> Request]
  /\ past \in [proved : SUBSET Emails, contested : BOOLEAN, dead : SUBSET Requests,
               replaced : SUBSET Requests, overlapped : BOOLEAN]

Accepted == {r \in Requests : req[r].won}

\* OtpService.check, EmailChangeService.confirm: of the checks of one code, parallel
\* or not, one succeeds.
CodeOnce == \A q, r \in Accepted : req[q].code = req[r].code => q = r

\* A code that succeeds had neither expired nor had its wrong inputs when the check
\* began, and no new code had taken its place until the end of it.
AcceptedAlive == \A r \in Accepted : ~req[r].doubt

\* A check that succeeds is the only one of its code, and the code was good.
CodesSound == CodeOnce /\ AcceptedAlive

\* A verified address was proved by a code that was mailed to it, unless an
\* administrator wrote it while a code for an earlier address was around.
VerifiedByProof ==
  user.verified => user.email \in past.proved \/ past.overlapped

\* A request of change stays until it is applied, replaced after the cooldown, expired,
\* exhausted, or its address has become another's.
ChangeKept ==
  [][\/ change = NoChange
     \/ change'.id = change.id
     \/ change'.id # None
     \/ Spoiled(change.expiresAt, change.attempts)
     \/ user' = [email |-> change.newEmail, verified |-> TRUE]
     \/ past.contested]_vars
=============================================================================

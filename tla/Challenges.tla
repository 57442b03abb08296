------------------------------ MODULE Challenges ------------------------------
(***************************************************************************)
(* Logins that answer a challenge: the devices of one user, each with the  *)
(* public key it registered and the nonce it was last given (biometric),   *)
(* and his passkeys, with a table of the challenges given out for them.    *)
(* Users share no row, so one is enough.                                   *)
(*                                                                         *)
(* Every request is a member of Requests; the key it registers, and the    *)
(* nonce or challenge it is given, are known by its name.  A request reads *)
(* a row, keeps a copy of it, and goes on with the copy.  TypeORM's save   *)
(* of a row with an id is a SELECT by that id and, a step later, an UPDATE *)
(* of the columns in which the copy differs from what was SELECTed, or an  *)
(* INSERT if nothing was; an update or a delete by condition is decided on *)
(* the row in one step.  A challenge expires at some moment after it was   *)
(* given out.                                                              *)
(***************************************************************************)
EXTENDS Naturals, FiniteSets

CONSTANTS
  Requests,
  Devices,     \* device ids of the user
  Credentials, \* credential ids of his authenticators
  MaxDevices,  \* MAX_DEVICES_PER_USER
  First,       \* the registrations that were made before
  None

ASSUME ChallengesAssumption ==
  /\ MaxDevices \in Nat \ {0}
  /\ First \notin Requests /\ None \notin Requests \cup {First}

VARIABLES
  biometrics, \* the row of each device, or None
  passkeys,   \* the registration each credential's row comes from, or None
  challenges, \* rows of passkey_challenges
  expired,    \* nonces and challenges whose time is over
  req,        \* the requests
  retired     \* history: keys taken away while nobody was about to save a copy of them

vars == <<biometrics, passkeys, challenges, expired, req, retired>>

-----------------------------------------------------------------------------
(* Data *)

Kinds ==
  {"none", "register", "nonce", "signature",
   "options", "allowed", "attestation", "assertion"}

Steps ==
  {"idle", "found", "counted", "accepted", "selected", "updated", "opened", "done", "over"}

Keys == Requests \cup {First}

\* id: the primary key of the row, the name of the registration that inserted it.
Row == [id : Keys, key : Keys, nonce : Requests \cup {None}]

\* What a save writes: some columns of a row that is there, or all of them with the id.
Columns == {"id", "key", "nonce"}

\* on: the device or credential; copy: what was read of it; with: the challenge presented;
\* writes: what the SELECT of a save left it to write.
Request == [kind : Kinds, step : Steps, on : Devices \cup Credentials \cup {None},
            copy : Row \cup Keys \cup {None}, with : Requests \cup {None},
            writes : SUBSET Columns]

Idle == [kind |-> "none", step |-> "idle", on |-> None, copy |-> None, with |-> None,
         writes |-> {}]

Starts(r) == req[r].step = "idle"

At(r, kinds, step) == req[r].kind \in kinds /\ req[r].step = step

Goes(r, step) == req' = [req EXCEPT ![r].step = step]

Selects(r, columns) == req' = [req EXCEPT ![r].step = "selected", ![r].writes = columns]

Registered == {d \in Devices : biometrics[d] # None}

\* What the client got as an answer, which is what it can sign.
Given(kinds) == {r \in Requests : req[r].kind \in kinds /\ req[r].step = "done"}

Answers == {"signature", "attestation", "assertion"}

Accepted(r) == req[r].kind \in Answers /\ req[r].step \in {"accepted", "selected", "updated", "opened", "done"}

KeysInUse(rows, creds) ==
  {rows[d].key : d \in {e \in Devices : rows[e] # None}}
  \cup {creds[c] : c \in {e \in Credentials : creds[e] # None}}

\* A nonce request is to write this key back: it has yet to SELECT the row it holds a copy
\* of, or found the row gone or with another key.
Pending(q, k) ==
  \E r \in Requests :
    /\ q[r].kind = "nonce" /\ q[r].copy # None /\ q[r].copy.key = k
    /\ q[r].step = "found" \/ (q[r].step = "selected" /\ "key" \in q[r].writes)

Retires ==
  retired' = retired \cup
    {k \in KeysInUse(biometrics, passkeys) \ KeysInUse(biometrics', passkeys') : ~ Pending(req', k)}

-----------------------------------------------------------------------------
Init ==
  /\ \E D \in SUBSET Devices :
       /\ Cardinality(D) <= MaxDevices
       /\ biometrics = [d \in Devices |->
            IF d \in D THEN [id |-> First, key |-> First, nonce |-> None] ELSE None]
  /\ \E C \in SUBSET Credentials :
       passkeys = [c \in Credentials |-> IF c \in C THEN First ELSE None]
  /\ challenges = {}
  /\ expired = {}
  /\ req = [r \in Requests |-> Idle]
  /\ retired = {}

-----------------------------------------------------------------------------
(* BiometricService *)

FindDevice(r, kind, d) ==
  /\ Starts(r)
  /\ req' = [req EXCEPT ![r] =
       [kind |-> kind, step |-> "found", on |-> d, copy |-> biometrics[d], with |-> None,
        writes |-> {}]]
  /\ UNCHANGED <<biometrics, passkeys, challenges, expired, retired>>

\* Slip: a device that is registered again keeps its nonce.
KeyAlone(r) ==
  IF req[r].kind = "register" THEN [req[r].copy EXCEPT !.key = r]
                              ELSE [req[r].copy EXCEPT !.nonce = r]

\* What registerBiometric of a known device and generateNonce make of their copy.
Entity(r) ==
  IF req[r].kind = "register" THEN [req[r].copy EXCEPT !.key = r, !.nonce = None]
                              ELSE [req[r].copy EXCEPT !.nonce = r]

\* The device still has the row that was read.
SameRow(r, d) == d \in Registered /\ biometrics[d].id = req[r].copy.id

\* The SELECT of save: what differs from the row of that id, or all if there is none.
SelectDevice(r) ==
  /\ At(r, {"register", "nonce"}, "found") /\ req[r].copy # None
  /\ LET d == req[r].on
     IN  Selects(r, IF SameRow(r, d)
                      THEN {c \in {"key", "nonce"} : biometrics[d][c] # Entity(r)[c]}
                      ELSE Columns)
  /\ UNCHANGED <<biometrics, passkeys, challenges, expired, retired>>

\* Its INSERT, which the unique index refuses when the device has got a row meanwhile.
InsertAgain(r) ==
  /\ At(r, {"register", "nonce"}, "selected") /\ "id" \in req[r].writes
  /\ IF req[r].on \in Registered
       THEN Goes(r, "over") /\ UNCHANGED biometrics
       ELSE Goes(r, "done") /\ biometrics' = [biometrics EXCEPT ![req[r].on] = Entity(r)]
  /\ UNCHANGED <<passkeys, challenges, expired>>
  /\ Retires

\* Its UPDATE by id, of no row if that one is gone.
UpdateDevice(r) ==
  /\ At(r, {"register", "nonce"}, "selected") /\ "id" \notin req[r].writes
  /\ Goes(r, "done")
  /\ LET d == req[r].on
         written(c) == IF c \in req[r].writes THEN Entity(r)[c] ELSE biometrics[d][c]
     IN  IF SameRow(r, d)
           THEN biometrics' = [biometrics EXCEPT ![d] =
                  [id |-> @.id, key |-> written("key"), nonce |-> written("nonce")]]
           ELSE UNCHANGED biometrics
  /\ UNCHANGED <<passkeys, challenges, expired>>
  /\ Retires

CountDevices(r) ==
  /\ At(r, {"register"}, "found") /\ req[r].copy = None
  /\ Goes(r, IF Cardinality(Registered) >= MaxDevices THEN "over" ELSE "counted")
  /\ UNCHANGED <<biometrics, passkeys, challenges, expired, retired>>

\* createAndSave of an entity without an id is an INSERT alone.
InsertDevice(r) ==
  /\ At(r, {"register"}, "counted")
  /\ IF req[r].on \in Registered
       THEN Goes(r, "over") /\ UNCHANGED biometrics
       ELSE /\ Goes(r, "done")
            /\ biometrics' = [biometrics EXCEPT ![req[r].on] = [id |-> r, key |-> r, nonce |-> None]]
  /\ UNCHANGED <<passkeys, challenges, expired, retired>>

\* generateNonce for an unknown device: the answer is the same and nothing is stored.
AnswerUnknown(r) ==
  /\ At(r, {"nonce"}, "found") /\ req[r].copy = None
  /\ Goes(r, "done")
  /\ UNCHANGED <<biometrics, passkeys, challenges, expired, retired>>

\* verifyBiometricSignature: the device is found, with this nonce, in time.
FindNonce(r, d, n) ==
  /\ Starts(r)
  /\ n \in Given({"nonce"})
  /\ req' = [req EXCEPT ![r] =
       [kind |-> "signature", on |-> d, copy |-> biometrics[d], with |-> n, writes |-> {},
        step |-> IF d \in Registered /\ biometrics[d].nonce = n /\ n \notin expired
                 THEN "found" ELSE "over"]]
  /\ UNCHANGED <<biometrics, passkeys, challenges, expired, retired>>

\* Slip: the nonce is taken from the row whatever it is.
ConsumedById(r, d) == SameRow(r, d)

\* BiometricRepository.consumeChallenge
Consumed(r, d) ==
  /\ SameRow(r, d)
  /\ biometrics[d].nonce = req[r].with /\ req[r].with \notin expired

\* The nonce goes first, and then the signature is compared with the key of the copy.
ConsumeNonce(r) ==
  /\ At(r, {"signature"}, "found")
  /\ IF Consumed(r, req[r].on)
       THEN /\ biometrics' = [biometrics EXCEPT ![req[r].on].nonce = None]
            /\ \E step \in {"accepted", "over"} : Goes(r, step)
       ELSE Goes(r, "over") /\ UNCHANGED biometrics
  /\ UNCHANGED <<passkeys, challenges, expired, retired>>

\* Slip: the copy of the device is written back whole, as a new row if need be.
SaveUsed(r) ==
  /\ At(r, {"signature"}, "opened")
  /\ Goes(r, "done")
  /\ biometrics' = [biometrics EXCEPT ![req[r].on] = [req[r].copy EXCEPT !.nonce = None]]
  /\ UNCHANGED <<passkeys, challenges, expired>>
  /\ Retires

\* lastUsedAt of the row of that id, if there still is one.
MarkUsed(r) ==
  /\ At(r, {"signature"}, "opened")
  /\ Goes(r, "done")
  /\ UNCHANGED <<biometrics, passkeys, challenges, expired, retired>>

DeleteDevice(d) ==
  /\ d \in Registered
  /\ biometrics' = [biometrics EXCEPT ![d] = None]
  /\ UNCHANGED <<passkeys, challenges, expired, req>>
  /\ Retires

-----------------------------------------------------------------------------
(* PasskeysService *)

\* generateAuthenticationOptions: a user without passkeys gets an answer nobody can sign.
FindKeys(r) ==
  /\ Starts(r)
  /\ req' = [req EXCEPT ![r] = [Idle EXCEPT !.kind = "allowed",
       !.step = IF \E c \in Credentials : passkeys[c] # None THEN "found" ELSE "over"]]
  /\ UNCHANGED <<biometrics, passkeys, challenges, expired, retired>>

\* generateRegistrationOptions, which has nothing to check.
AskRegistration(r) ==
  /\ Starts(r)
  /\ req' = [req EXCEPT ![r] = [Idle EXCEPT !.kind = "options", !.step = "found"]]
  /\ UNCHANGED <<biometrics, passkeys, challenges, expired, retired>>

CreateChallenge(r) ==
  /\ At(r, {"options", "allowed"}, "found")
  /\ challenges' = challenges \cup {r}
  /\ Goes(r, "done")
  /\ UNCHANGED <<biometrics, passkeys, expired, retired>>

\* verifyRegistration takes an unknown credential, verifyAuthentication a known one.  Any
\* challenge that was given out can be signed for either.
FindCredential(r, kind, c, n) ==
  /\ Starts(r)
  /\ n \in Given({"options", "allowed"})
  /\ req' = [req EXCEPT ![r] =
       [kind |-> kind, on |-> c, copy |-> passkeys[c], with |-> n, writes |-> {},
        step |-> IF (kind = "assertion") = (passkeys[c] # None) THEN "found" ELSE "over"]]
  /\ UNCHANGED <<biometrics, passkeys, challenges, expired, retired>>

\* Slip: the last of the user's challenges ends them all.
Cleared(n) == {}

\* What PasskeyChallengeRepository.consumeChallenge deletes: exactly the one signed.
Others(n) == challenges \ {n}

ConsumeChallenge(r) ==
  /\ At(r, {"attestation", "assertion"}, "found")
  /\ IF req[r].with \in challenges \ expired
       THEN /\ challenges' = Others(req[r].with)
            /\ \E step \in {"accepted", "over"} : Goes(r, step)
       ELSE Goes(r, "over") /\ UNCHANGED challenges
  /\ UNCHANGED <<biometrics, passkeys, expired, retired>>

\* createAndSave of an entity with its id: the SELECT finds the row of a credential that was
\* registered meanwhile, whose columns are then replaced.
SelectPasskey(r) ==
  /\ At(r, {"attestation"}, "accepted")
  /\ Selects(r, IF passkeys[req[r].on] = None THEN Columns ELSE {"key"})
  /\ UNCHANGED <<biometrics, passkeys, challenges, expired, retired>>

\* The INSERT, which the primary key may refuse, or the UPDATE, which may find no row.
SavePasskey(r) ==
  /\ At(r, {"attestation"}, "selected")
  /\ LET c == req[r].on
         inserts == "id" \in req[r].writes
         there == passkeys[c] # None
     IN  /\ passkeys' = IF inserts = there THEN passkeys ELSE [passkeys EXCEPT ![c] = r]
         /\ Goes(r, IF inserts /\ there THEN "over" ELSE "done")
  /\ UNCHANGED <<biometrics, challenges, expired>>
  /\ Retires

\* counter and lastUsed of the row of that id, if there still is one.
UpdateCounter(r) ==
  /\ At(r, {"assertion"}, "accepted")
  /\ Goes(r, "updated")
  /\ UNCHANGED <<biometrics, passkeys, challenges, expired, retired>>

\* AuthService.completeLogin, which may fail: before lastUsedAt of a device is written,
\* after the counter of a passkey is.
OpenSession(r) ==
  /\ \/ At(r, {"signature"}, "accepted") /\ \E step \in {"opened", "over"} : Goes(r, step)
     \/ At(r, {"assertion"}, "updated") /\ \E step \in {"done", "over"} : Goes(r, step)
  /\ UNCHANGED <<biometrics, passkeys, challenges, expired, retired>>

DeletePasskey(c) ==
  /\ passkeys[c] # None
  /\ passkeys' = [passkeys EXCEPT ![c] = None]
  /\ UNCHANGED <<biometrics, challenges, expired, req>>
  /\ Retires

\* PasskeyChallengeCleanupJob
Cleanup ==
  /\ challenges' = challenges \ expired
  /\ UNCHANGED <<biometrics, passkeys, expired, req, retired>>

-----------------------------------------------------------------------------
(* Time, and the whole *)

Expire(n) ==
  /\ n \in Requests \ expired
  /\ \/ req[n].kind = "nonce" /\ req[n].step # "over"
     \/ n \in Given({"options", "allowed"})
  /\ expired' = expired \cup {n}
  /\ UNCHANGED <<biometrics, passkeys, challenges, req, retired>>

OfDevice(r) ==
  \/ \E d \in Devices :
       \/ \E kind \in {"register", "nonce"} : FindDevice(r, kind, d)
       \/ \E n \in Requests : FindNonce(r, d, n)
  \/ SelectDevice(r) \/ InsertAgain(r) \/ UpdateDevice(r)
  \/ CountDevices(r) \/ InsertDevice(r) \/ AnswerUnknown(r)
  \/ ConsumeNonce(r) \/ MarkUsed(r)

OfPasskey(r) ==
  \/ FindKeys(r) \/ AskRegistration(r) \/ CreateChallenge(r)
  \/ \E c \in Credentials, n \in Requests, kind \in {"attestation", "assertion"} :
       FindCredential(r, kind, c, n)
  \/ ConsumeChallenge(r) \/ SelectPasskey(r) \/ SavePasskey(r) \/ UpdateCounter(r)

Next ==
  \/ \E r \in Requests : OfDevice(r) \/ OfPasskey(r) \/ OpenSession(r) \/ Expire(r)
  \/ \E d \in Devices : DeleteDevice(d)
  \/ \E c \in Credentials : DeletePasskey(c)
  \/ Cleanup

Spec == Init /\ [][Next]_vars

-----------------------------------------------------------------------------
(* Properties *)

TypeOK ==
  /\ biometrics \in [Devices -> Row \cup {None}]
  /\ passkeys \in [Credentials -> Keys \cup {None}]
  /\ challenges \subseteq Requests
  /\ expired \subseteq Requests
  /\ req \in [Requests -> Request]
  /\ retired \subseteq Keys

\* A nonce or a challenge is good for one answer: of all the requests that present it, at
\* the same time or after each other, at most one gets past the comparison.
OneAnswerEach ==
  \A r, s \in Requests : Accepted(r) /\ Accepted(s) /\ req[r].with = req[s].with => r = s

\* A nonce that a registration found in the row it replaces the key of is never answered
\* with the new key, whatever saves and answers of others it overlaps.
FoundNonceReset ==
  \A r, s \in Requests :
    /\ req[r].kind = "register" /\ req[r].copy # None
    /\ Accepted(s) /\ req[s].kind = "signature" /\ req[s].with = req[r].copy.nonce
    => req[s].copy.key # r

\* "Registering the key of a device again resets the nonce that was given out"
\* (modules/biometric/README.md): when it is registered the device has no nonce.
RegistrationResetsNonce ==
  [][\A r \in Requests :
       LET d == req[r].on
       IN  req[r].kind = "register" /\ req[r].step # "done" /\ req'[r].step = "done"
             /\ biometrics'[d] # None
           => biometrics'[d].nonce = None]_vars

\* A device or passkey that is removed, and a key that is replaced, stay away, whatever the
\* requests that had read them do afterwards, unless a nonce was about to be saved with
\* the copy of the key.
RetiredStayAway == KeysInUse(biometrics, passkeys) \cap retired = {}

\* A passkey challenge that was given out can be answered until its time is over or it is
\* presented, whatever else is asked for, answered or cleaned up.
OthersSpareChallenge ==
  \A n \in Given({"options", "allowed"}) :
    n \in expired \/ n \in challenges \/ \E r \in Requests : req[r].with = n
=============================================================================

---------------------------- MODULE Challenges_proofs ----------------------------
(***************************************************************************)
(* Safety of two components, for every value of their constants: of        *)
(* Challenges, for any requests, devices, credentials and limit, and, from *)
(* "Who is online" on, of Presence, for any connections, replicas and time *)
(* to live.  The components have no state in common.                       *)
(***************************************************************************)
EXTENDS Challenges, Presence, TLAPS

-----------------------------------------------------------------------------
(* The inductive invariant *)

OfDevices == {"register", "nonce", "signature"}

\* What a request of each kind has at hand.
Shapes ==
  \A r \in Requests :
    /\ req[r].step = "idle" <=> req[r].kind = "none"
    /\ req[r].kind \notin Answers => req[r].with = None
    /\ req[r].kind \in OfDevices => req[r].on \in Devices /\ req[r].copy \in Row \cup {None}
    /\ req[r].kind \in {"attestation", "assertion"} => req[r].on \in Credentials
    /\ req[r].kind = "nonce" => req[r].step \in {"found", "selected", "done", "over"}
    /\ req[r].kind \in {"options", "allowed"} => req[r].step \in {"found", "done", "over"}

\* What a save is to write: the nonce that was made for it always, as no row can have it yet.
Saving ==
  \A r \in Requests : At(r, {"register", "nonce"}, "selected") =>
    /\ req[r].copy # None
    /\ req[r].kind = "nonce" => "nonce" \in req[r].writes
    /\ "id" \in req[r].writes => req[r].writes = Columns

\* An answer presents what was given out for its kind.
Answering ==
  \A r \in Requests :
    /\ req[r].kind = "signature" =>
         /\ req[r].with \in Given({"nonce"})
         /\ req[r].step # "over" => req[r].copy # None
    /\ req[r].kind \in {"attestation", "assertion"} =>
         req[r].with \in Given({"options", "allowed"})

\* The nonce of a row was given out for the device.
Nonces ==
  \A d \in Devices : biometrics[d] # None /\ biometrics[d].nonce # None =>
    /\ biometrics[d].nonce \in Given({"nonce"})
    /\ req[biometrics[d].nonce].on = d

\* What was accepted is gone from the rows.
Used ==
  /\ challenges \subseteq Given({"options", "allowed"})
  /\ \A r \in Requests : Accepted(r) =>
       /\ req[r].kind = "signature" =>
            \A d \in Devices : biometrics[d] # None => biometrics[d].nonce # req[r].with
       /\ req[r].kind # "signature" => req[r].with \notin challenges

Sound == TypeOK /\ Shapes /\ Saving /\ Answering /\ Nonces /\ Used

\* A key comes from a registration that was completed.
Made(q, k) ==
  \/ k = First
  \/ k \in Requests /\ q[k].kind \in {"register", "attestation"} /\ q[k].step = "done"

InUse == KeysInUse(biometrics, passkeys)

KeysMade ==
  /\ \A k \in InUse \cup retired : Made(req, k)
  /\ \A r \in Requests : req[r].kind \in {"nonce", "signature"} /\ req[r].copy # None =>
       Made(req, req[r].copy.key)

\* A nonce about to be saved keeps its key from being retired.
CopiesLive == \A k \in Keys : Pending(req, k) => k \notin retired

\* A nonce that a registration found stays where it was given out, never beside the new key,
\* neither in a row nor in a request that answers it.
Resets ==
  \A r \in Requests : \A n \in Requests :
    req[r].kind = "register" /\ req[r].copy # None /\ req[r].copy.nonce = n =>
      /\ n \in Given({"nonce"}) /\ req[n].on = req[r].on
      /\ \A d \in Devices : biometrics[d] # None /\ biometrics[d].nonce = n =>
           /\ biometrics[d].key # r
           /\ req[r].step = "selected" => "nonce" \in req[r].writes
      /\ \A s \in Requests :
           req[s].kind = "signature" /\ req[s].with = n /\ req[s].step # "over" =>
             req[s].copy.key # r

-----------------------------------------------------------------------------
(* Types *)

\* Any step is one of a request, of time, of the owner or of the cleanup.
LEMMA GoesType ==
  ASSUME TypeOK, NEW r \in Requests, NEW step \in Steps, Goes(r, step)
  PROVE  req' \in [Requests -> Request]
  BY DEF TypeOK, Goes, Request

LEMMA SelectsType ==
  ASSUME TypeOK, NEW r \in Requests, NEW columns \in SUBSET Columns, Selects(r, columns)
  PROVE  req' \in [Requests -> Request]
  <1>1. [req[r] EXCEPT !.step = "selected", !.writes = columns] \in Request
    BY DEF TypeOK, Request, Steps
  <1>2. req' = [req EXCEPT ![r] = [req[r] EXCEPT !.step = "selected", !.writes = columns]]
    BY DEF TypeOK, Selects
  <1> QED
    BY <1>1, <1>2 DEF TypeOK

\* What a save makes of its copy.
LEMMA EntityRow ==
  ASSUME TypeOK, Shapes, NEW r \in Requests, req[r].kind \in {"register", "nonce"},
         req[r].copy # None
  PROVE  /\ Entity(r) \in Row
         /\ req[r].copy \in Row /\ req[r].on \in Devices
         /\ req[r].kind = "register" => Entity(r).key = r /\ Entity(r).nonce = None
         /\ req[r].kind = "nonce" => Entity(r).key = req[r].copy.key /\ Entity(r).nonce = r
  <1>1. req[r].copy \in Row /\ req[r].on \in Devices
    BY DEF Shapes, OfDevices
  <1>2. CASE req[r].kind = "register"
    BY <1>1, <1>2 DEF Entity, Row, Keys
  <1>3. CASE req[r].kind = "nonce"
    BY <1>1, <1>3 DEF Entity, Row, Keys
  <1> QED
    BY <1>1, <1>2, <1>3

\* What the UPDATE of a save leaves in the row.
LEMMA UpdatedRow ==
  ASSUME TypeOK, Shapes, Saving, NEW r \in Requests, UpdateDevice(r)
  PROVE  LET d == req[r].on
         IN  /\ d \in Devices /\ req[r].copy # None
             /\ \/ UNCHANGED biometrics
                \/ \E row \in Row :
                     /\ biometrics[d] # None
                     /\ biometrics' = [biometrics EXCEPT ![d] = row]
                     /\ row.key = IF "key" \in req[r].writes THEN Entity(r).key ELSE biometrics[d].key
                     /\ row.nonce = IF "nonce" \in req[r].writes THEN Entity(r).nonce
                                                                 ELSE biometrics[d].nonce
  <1> DEFINE d == req[r].on
             key == IF "key" \in req[r].writes THEN Entity(r).key ELSE biometrics[d].key
             nonce == IF "nonce" \in req[r].writes THEN Entity(r).nonce ELSE biometrics[d].nonce
             row == [id |-> biometrics[d].id, key |-> key, nonce |-> nonce]
  <1>1. req[r].copy # None /\ req[r].kind \in {"register", "nonce"}
    BY DEF UpdateDevice, Saving, At
  <1>2. Entity(r) \in Row /\ d \in Devices
    BY <1>1, EntityRow
  <1>3. CASE ~ SameRow(r, d)
    BY <1>1, <1>2, <1>3 DEF UpdateDevice
  <1>4. CASE SameRow(r, d)
    <2>1. biometrics[d] # None /\ biometrics[d] \in Row
      BY <1>2, <1>4 DEF SameRow, Registered, TypeOK
    <2>2. biometrics' = [biometrics EXCEPT ![d] = row]
      BY <1>2, <1>4 DEF UpdateDevice
    <2>3. row \in Row /\ row.key = key /\ row.nonce = nonce
      BY <1>2, <2>1 DEF Row
    <2> HIDE DEF row
    <2> QED
      BY <1>1, <1>2, <2>1, <2>2, <2>3
  <1> QED
    BY <1>3, <1>4

LEMMA RetiresType ==
  ASSUME biometrics' \in [Devices -> Row \cup {None}],
         passkeys' \in [Credentials -> Keys \cup {None}],
         TypeOK, Retires
  PROVE  retired' \subseteq Keys
  <1>1. KeysInUse(biometrics, passkeys) \subseteq Keys \cup {biometrics[d].key : d \in {e \in Devices : biometrics[e] # None}} \cup {passkeys[c] : c \in {e \in Credentials : passkeys[e] # None}}
    BY DEF KeysInUse
  <1>2. \A d \in Devices : biometrics[d] # None => biometrics[d].key \in Keys
    BY DEF TypeOK, Row
  <1>3. \A c \in Credentials : passkeys[c] # None => passkeys[c] \in Keys
    BY DEF TypeOK
  <1>4. KeysInUse(biometrics, passkeys) \subseteq Keys
    BY <1>2, <1>3 DEF KeysInUse
  <1> QED
    BY <1>4 DEF TypeOK, Retires

LEMMA InitTypeOK == Init => TypeOK
  BY ChallengesAssumption DEF Init, TypeOK, Request, Idle, Kinds, Steps, Row, Keys

LEMMA TypeStep == TypeOK /\ Shapes /\ Saving /\ [Next]_vars => TypeOK'
  <1> SUFFICES ASSUME TypeOK, Shapes, Saving, [Next]_vars PROVE TypeOK'
    OBVIOUS
  <1>0. CASE UNCHANGED vars
    BY <1>0 DEF vars, TypeOK
  <1>1. ASSUME NEW r \in Requests, NEW d \in Devices, NEW kind \in {"register", "nonce"},
               FindDevice(r, kind, d)
        PROVE  TypeOK'
    BY <1>1 DEF FindDevice, TypeOK, Request, Kinds, Steps
  <1>2. ASSUME NEW r \in Requests, NEW d \in Devices, NEW n \in Requests, FindNonce(r, d, n)
        PROVE  TypeOK'
    BY <1>2 DEF FindNonce, TypeOK, Request, Kinds, Steps
  <1>3. ASSUME NEW r \in Requests, SelectDevice(r) PROVE TypeOK'
    BY <1>3, SelectsType DEF SelectDevice, TypeOK, Columns
  <1>4. ASSUME NEW r \in Requests, InsertAgain(r) PROVE TypeOK'
    <2>1. Entity(r) \in Row
      BY <1>4, EntityRow DEF InsertAgain, Saving, At
    <2>2. req' \in [Requests -> Request]
      BY <1>4, GoesType DEF InsertAgain, Steps
    <2>3. biometrics' \in [Devices -> Row \cup {None}]
      BY <1>4, <2>1 DEF InsertAgain, TypeOK
    <2> QED
      BY <1>4, <2>2, <2>3, RetiresType DEF InsertAgain, TypeOK
  <1>5. ASSUME NEW r \in Requests, UpdateDevice(r) PROVE TypeOK'
    <2>1. req' \in [Requests -> Request]
      BY <1>5, GoesType DEF UpdateDevice, Steps
    <2>2. biometrics' \in [Devices -> Row \cup {None}]
      BY <1>5, UpdatedRow DEF TypeOK
    <2> QED
      BY <1>5, <2>1, <2>2, RetiresType DEF UpdateDevice, TypeOK
  <1>6. ASSUME NEW r \in Requests, CountDevices(r) \/ AnswerUnknown(r) PROVE TypeOK'
    BY <1>6, GoesType DEF CountDevices, AnswerUnknown, TypeOK, Steps
  <1>7. ASSUME NEW r \in Requests, InsertDevice(r) PROVE TypeOK'
    <2>1. [id |-> r, key |-> r, nonce |-> None] \in Row
      BY DEF Row, Keys
    <2>2. req' \in [Requests -> Request]
      BY <1>7, GoesType DEF InsertDevice, Steps
    <2> QED
      BY <1>7, <2>1, <2>2 DEF InsertDevice, TypeOK
  <1>8. ASSUME NEW r \in Requests, ConsumeNonce(r) PROVE TypeOK'
    <2>1. req' \in [Requests -> Request]
      BY <1>8, GoesType DEF ConsumeNonce, Steps
    <2>2. biometrics' \in [Devices -> Row \cup {None}]
      BY <1>8 DEF ConsumeNonce, Consumed, SameRow, Registered, TypeOK, Row
    <2> QED
      BY <1>8, <2>1, <2>2 DEF ConsumeNonce, TypeOK
  <1>9. ASSUME NEW r \in Requests, MarkUsed(r) PROVE TypeOK'
    BY <1>9, GoesType DEF MarkUsed, TypeOK, Steps
  <1>10. ASSUME NEW r \in Requests, FindKeys(r) PROVE TypeOK'
    BY <1>10 DEF FindKeys, TypeOK, Request, Idle, Kinds, Steps
  <1>11. ASSUME NEW r \in Requests, AskRegistration(r) PROVE TypeOK'
    BY <1>11 DEF AskRegistration, TypeOK, Request, Idle, Kinds, Steps
  <1>12. ASSUME NEW r \in Requests, CreateChallenge(r) PROVE TypeOK'
    BY <1>12, GoesType DEF CreateChallenge, TypeOK, Steps
  <1>13. ASSUME NEW r \in Requests, NEW c \in Credentials, NEW n \in Requests,
                NEW kind \in {"attestation", "assertion"}, FindCredential(r, kind, c, n)
         PROVE  TypeOK'
    BY <1>13 DEF FindCredential, TypeOK, Request, Kinds, Steps
  <1>14. ASSUME NEW r \in Requests, ConsumeChallenge(r) PROVE TypeOK'
    BY <1>14, GoesType DEF ConsumeChallenge, Others, TypeOK, Steps
  <1>15. ASSUME NEW r \in Requests, SelectPasskey(r) PROVE TypeOK'
    BY <1>15, SelectsType DEF SelectPasskey, TypeOK, Columns
  <1>16. ASSUME NEW r \in Requests, SavePasskey(r) PROVE TypeOK'
    <2>1. req' \in [Requests -> Request]
      BY <1>16, GoesType DEF SavePasskey, Steps
    <2>2. passkeys' \in [Credentials -> Keys \cup {None}]
      BY <1>16 DEF SavePasskey, TypeOK, Keys
    <2> QED
      BY <1>16, <2>1, <2>2, RetiresType DEF SavePasskey, TypeOK
  <1>17. ASSUME NEW r \in Requests, UpdateCounter(r) PROVE TypeOK'
    BY <1>17, GoesType DEF UpdateCounter, TypeOK, Steps
  <1>18. ASSUME NEW r \in Requests, OpenSession(r) PROVE TypeOK'
    BY <1>18, GoesType DEF OpenSession, TypeOK, Steps
  <1>19. ASSUME NEW r \in Requests, Expire(r) PROVE TypeOK'
    BY <1>19 DEF Expire, TypeOK
  <1>20. ASSUME NEW d \in Devices, DeleteDevice(d) PROVE TypeOK'
    BY <1>20, RetiresType DEF DeleteDevice, TypeOK
  <1>21. ASSUME NEW c \in Credentials, DeletePasskey(c) PROVE TypeOK'
    BY <1>21, RetiresType DEF DeletePasskey, TypeOK
  <1>22. CASE Cleanup
    BY <1>22 DEF Cleanup, TypeOK
  <1> QED
    BY <1>0, <1>1, <1>2, <1>3, <1>4, <1>5, <1>6, <1>7, <1>8, <1>9, <1>10, <1>11, <1>12, <1>13,
       <1>14, <1>15, <1>16, <1>17, <1>18, <1>19, <1>20, <1>21, <1>22 DEF Next, OfDevice, OfPasskey

-----------------------------------------------------------------------------
(* What requests have at hand *)

\* Steps that start a request and change nothing else.
Begins(r, q) ==
  /\ req[r].step = "idle"
  /\ req' = [req EXCEPT ![r] = q]
  /\ UNCHANGED <<biometrics, passkeys, challenges, expired, retired>>

\* A request goes on, and all but its step and what it is to write stays.
GoesOn(r) ==
  \/ \E step \in Steps \ {"idle"} : Goes(r, step)
  \/ \E columns \in SUBSET Columns : Selects(r, columns)

\* A request goes on, or none does; requests that are done or over do not go on.
Continues ==
  \/ req' = req
  \/ \E r \in Requests :
       /\ req[r].step \notin {"idle", "done", "over"}
       /\ GoesOn(r)
       /\ req[r].kind = "nonce" => req'[r].step \in {"selected", "done", "over"}
       /\ req[r].kind \in {"options", "allowed"} => req'[r].step \in {"done", "over"}

\* A new request of a kind, with what it found.
Opening(r) ==
  \/ \E d \in Devices, kind \in {"register", "nonce"} : FindDevice(r, kind, d)
  \/ \E d \in Devices, n \in Requests : FindNonce(r, d, n)
  \/ FindKeys(r) \/ AskRegistration(r)
  \/ \E c \in Credentials, n \in Requests, kind \in {"attestation", "assertion"} :
       FindCredential(r, kind, c, n)

LEMMA Opens ==
  ASSUME NEW r \in Requests, Opening(r)
  PROVE  \E q : Begins(r, q)
  BY DEF Opening, FindDevice, FindNonce, FindKeys, AskRegistration, FindCredential, Begins, Starts

LEMMA AsksWith ==
  ASSUME NEW r \in Requests, FindKeys(r) \/ AskRegistration(r)
  PROVE  \E kind \in {"options", "allowed"}, step \in {"found", "over"} :
           req' = [req EXCEPT ![r] = [kind |-> kind, step |-> step, on |-> None,
                                      copy |-> None, with |-> None, writes |-> {}]]
  BY ZenonT(30) DEF FindKeys, AskRegistration, Idle

LEMMA OpensTo ==
  ASSUME TypeOK, NEW r \in Requests, Opening(r)
  PROVE  req'[r].step \in {"found", "over"}
  <1>1. CASE FindKeys(r) \/ AskRegistration(r)
    BY <1>1, AsksWith DEF TypeOK
  <1>2. CASE ~ (FindKeys(r) \/ AskRegistration(r))
    BY <1>2 DEF Opening, FindDevice, FindNonce, FindCredential, TypeOK
  <1> QED
    BY <1>1, <1>2

\* What one that goes on keeps.
LEMMA GoesOnKeeps ==
  ASSUME TypeOK, NEW r \in Requests, GoesOn(r)
  PROVE  /\ req'[r].kind = req[r].kind /\ req'[r].on = req[r].on
         /\ req'[r].copy = req[r].copy /\ req'[r].with = req[r].with
         /\ req'[r].step \in Steps \ {"idle"}
         /\ \A s \in Requests : s # r => req'[s] = req[s]
  BY DEF GoesOn, Goes, Selects, TypeOK, Request, Steps

LEMMA ActsGoOn ==
  ASSUME TypeOK, NEW r \in Requests, OfDevice(r) \/ OfPasskey(r) \/ OpenSession(r), ~ Opening(r)
  PROVE  /\ GoesOn(r)
         /\ req[r].step \notin {"idle", "done", "over"}
         /\ req[r].kind = "nonce" => req'[r].step \in {"selected", "done", "over"}
         /\ req[r].kind \in {"options", "allowed"} => req'[r].step \in {"done", "over"}
  <1>1. CASE SelectDevice(r) \/ SelectPasskey(r)
    <2>1. \E columns \in SUBSET Columns : Selects(r, columns)
      BY <1>1 DEF SelectDevice, SelectPasskey, Columns
    <2> QED
      BY <1>1, <2>1 DEF SelectDevice, SelectPasskey, Selects, At, GoesOn, Steps, TypeOK, Request
  <1>2. CASE InsertAgain(r) \/ UpdateDevice(r) \/ InsertDevice(r) \/ AnswerUnknown(r)
    BY <1>2 DEF InsertAgain, UpdateDevice, InsertDevice, AnswerUnknown, At, Goes, GoesOn, Steps,
       TypeOK, Request
  <1>3. CASE CountDevices(r) \/ ConsumeNonce(r) \/ MarkUsed(r) \/ CreateChallenge(r)
    BY <1>3 DEF CountDevices, ConsumeNonce, MarkUsed, CreateChallenge, At, Goes, GoesOn, Steps,
       TypeOK, Request
  <1>4. CASE ConsumeChallenge(r) \/ SavePasskey(r) \/ UpdateCounter(r) \/ OpenSession(r)
    BY <1>4 DEF ConsumeChallenge, SavePasskey, UpdateCounter, OpenSession, At, Goes, GoesOn, Steps,
       TypeOK, Request
  <1> QED
    BY <1>1, <1>2, <1>3, <1>4 DEF OfDevice, OfPasskey, Opening

LEMMA OpensOrContinues ==
  ASSUME TypeOK, [Next]_vars
  PROVE  Continues \/ (\E r \in Requests : Opening(r))
  <1>0. CASE UNCHANGED vars
    BY <1>0 DEF vars, Continues
  <1>1. ASSUME NEW r \in Requests, OfDevice(r) \/ OfPasskey(r) \/ OpenSession(r)
        PROVE  Continues \/ Opening(r)
    BY <1>1, ActsGoOn DEF Continues
  <1>2. ASSUME NEW r \in Requests, Expire(r) PROVE Continues
    BY <1>2 DEF Expire, Continues
  <1>3. CASE (\E d \in Devices : DeleteDevice(d)) \/ (\E c \in Credentials : DeletePasskey(c)) \/ Cleanup
    BY <1>3 DEF DeleteDevice, DeletePasskey, Cleanup, Continues
  <1> QED
    BY <1>0, <1>1, <1>2, <1>3 DEF Next

\* What a step leaves of a request that has begun.
LEMMA ContinuesKeeps ==
  ASSUME TypeOK, Continues, NEW r \in Requests
  PROVE  /\ req'[r].kind = req[r].kind /\ req'[r].on = req[r].on
         /\ req'[r].copy = req[r].copy /\ req'[r].with = req[r].with
         /\ \/ req'[r] = req[r]
            \/ req[r].step \notin {"idle", "done", "over"} /\ req'[r].step \in Steps \ {"idle"}
  BY GoesOnKeeps DEF Continues

\* What was given out stays given out, with its device and key.
LEMMA GivenStays ==
  ASSUME TypeOK, [Next]_vars, NEW n \in Requests, req[n].step \in {"done", "over"}
  PROVE  req'[n] = req[n]
  <1>1. CASE Continues
    BY <1>1, ContinuesKeeps
  <1>2. ASSUME NEW r \in Requests, Opening(r) PROVE req'[n] = req[n]
    BY <1>2, Opens DEF Begins, TypeOK
  <1> QED
    BY <1>1, <1>2, OpensOrContinues

LEMMA ShapesStep == TypeOK /\ Shapes /\ [Next]_vars => Shapes'
  <1> SUFFICES ASSUME TypeOK, Shapes, [Next]_vars PROVE Shapes'
    OBVIOUS
  <1>1. CASE Continues
    <2>1. ASSUME NEW r \in Requests, req'[r] # req[r]
          PROVE  /\ req[r].step \notin {"idle", "done", "over"}
                 /\ req[r].kind = "nonce" => req'[r].step \in {"selected", "done", "over"}
                 /\ req[r].kind \in {"options", "allowed"} => req'[r].step \in {"done", "over"}
      BY <1>1, <2>1, GoesOnKeeps DEF Continues
    <2> QED
      BY <1>1, <2>1, ContinuesKeeps DEF Shapes
  <1>2. ASSUME NEW r \in Requests, Opening(r) PROVE Shapes'
    <2>1. ASSUME NEW d \in Devices, NEW kind \in {"register", "nonce"}, FindDevice(r, kind, d)
          PROVE Shapes'
      BY <2>1 DEF FindDevice, Shapes, TypeOK, OfDevices, Answers
    <2>2. ASSUME NEW d \in Devices, NEW n \in Requests, FindNonce(r, d, n) PROVE Shapes'
      BY <2>2 DEF FindNonce, Shapes, TypeOK, OfDevices, Answers
    <2>3. ASSUME FindKeys(r) \/ AskRegistration(r) PROVE Shapes'
      <3>1. PICK kind \in {"options", "allowed"}, step \in {"found", "over"} :
              req' = [req EXCEPT ![r] = [kind |-> kind, step |-> step, on |-> None,
                                         copy |-> None, with |-> None, writes |-> {}]]
        BY <2>3, AsksWith
      <3> QED
        BY <3>1 DEF Shapes, TypeOK, OfDevices, Answers
    <2>4. ASSUME NEW c \in Credentials, NEW n \in Requests,
                 NEW kind \in {"attestation", "assertion"}, FindCredential(r, kind, c, n)
          PROVE Shapes'
      BY <2>4 DEF FindCredential, Shapes, TypeOK, OfDevices, Answers
    <2> QED
      BY <1>2, <2>1, <2>2, <2>3, <2>4 DEF Opening
  <1> QED
    BY <1>1, <1>2, OpensOrContinues

\* A request that is at its save after a step was so before, or has just SELECTed.
LEMMA SavingStep == Sound /\ [Next]_vars => Saving'
  <1> SUFFICES ASSUME Sound, [Next]_vars, NEW r \in Requests,
                      req'[r].kind \in {"register", "nonce"}, req'[r].step = "selected"
               PROVE  /\ req'[r].copy # None
                      /\ req'[r].kind = "nonce" => "nonce" \in req'[r].writes
                      /\ "id" \in req'[r].writes => req'[r].writes = Columns
    BY DEF Saving, At
  <1>1. CASE req'[r] = req[r]
    BY <1>1 DEF Sound, Saving, At
  <1>2. ASSUME NEW s \in Requests, Opening(s) PROVE req'[r] = req[r]
    BY <1>2, Opens, OpensTo DEF Begins, Sound, TypeOK
  <1>3. CASE Continues /\ req'[r] # req[r]
    <2>1. SelectDevice(r)
      <3>1. ASSUME NEW s \in Requests, OfDevice(s) \/ OfPasskey(s) \/ OpenSession(s)
            PROVE  s = r /\ ~ Opening(r)
        BY <1>2, <1>3, <3>1, ActsGoOn, GoesOnKeeps DEF Sound
      <3>2. OfDevice(r) \/ OfPasskey(r) \/ OpenSession(r)
        BY <1>3, <3>1 DEF Next, vars, Expire, DeleteDevice, DeletePasskey, Cleanup
      <3>3. req[r].kind \in {"register", "nonce"}
        BY <1>3, ContinuesKeeps DEF Sound
      <3>4. ~ (InsertAgain(r) \/ UpdateDevice(r) \/ CountDevices(r) \/ InsertDevice(r) \/ AnswerUnknown(r))
        BY DEF InsertAgain, UpdateDevice, CountDevices, InsertDevice, AnswerUnknown, Goes,
           Sound, TypeOK, Request
      <3> QED
        BY <3>1, <3>2, <3>3, <3>4 DEF OfDevice, OfPasskey, OpenSession, Opening, ConsumeNonce,
           MarkUsed, CreateChallenge, ConsumeChallenge, SelectPasskey, SavePasskey, UpdateCounter, At
    <2> DEFINE d == req[r].on
               columns == IF SameRow(r, d) THEN {c \in {"key", "nonce"} : biometrics[d][c] # Entity(r)[c]}
                                           ELSE Columns
    <2>2. req[r].copy # None /\ req[r].kind \in {"register", "nonce"} /\ req[r].step = "found"
      BY <2>1 DEF SelectDevice, At
    <2>3. req'[r].writes = columns /\ req'[r].kind = req[r].kind /\ req'[r].copy = req[r].copy
      BY <2>1 DEF SelectDevice, Selects, Sound, TypeOK, Request
    <2>4. SameRow(r, d) /\ req[r].kind = "nonce" => biometrics[d].nonce # Entity(r).nonce
      <3>1. req[r].kind = "nonce" => Entity(r).nonce = r
        BY <2>2, EntityRow DEF Sound
      <3>2. r \notin Given({"nonce"}) /\ r # None
        BY <2>2, ChallengesAssumption DEF Given
      <3> QED
        BY <3>1, <3>2 DEF Sound, Nonces, SameRow, Registered
    <2>5. /\ "nonce" \in Columns
          /\ SameRow(r, d) => "id" \notin columns
      BY DEF Columns
    <2> QED
      BY <2>2, <2>3, <2>4, <2>5
  <1> QED
    BY <1>1, <1>2, <1>3, OpensOrContinues DEF Sound

-----------------------------------------------------------------------------
(* Nonces, challenges and their answers *)

LEMMA GivenKept ==
  ASSUME TypeOK, [Next]_vars, NEW kinds
  PROVE  /\ Given(kinds) \subseteq Given(kinds)'
         /\ \A n \in Given(kinds) : n \in Requests /\ req'[n] = req[n]
  BY GivenStays DEF Given

LEMMA AnsweringStep == Sound /\ [Next]_vars => Answering'
  <1> SUFFICES ASSUME Sound, [Next]_vars, NEW r \in Requests
               PROVE  /\ req'[r].kind = "signature" =>
                           /\ req'[r].with \in Given({"nonce"})'
                           /\ req'[r].step # "over" => req'[r].copy # None
                      /\ req'[r].kind \in {"attestation", "assertion"} =>
                           req'[r].with \in Given({"options", "allowed"})'
    BY DEF Answering
  <1>1. CASE req'[r] = req[r]
    BY <1>1, GivenKept DEF Sound, Answering
  <1>2. CASE Continues
    <2>1. /\ req'[r].kind = req[r].kind /\ req'[r].with = req[r].with /\ req'[r].copy = req[r].copy
          /\ req'[r] = req[r] \/ req[r].step # "over"
      BY <1>2, ContinuesKeeps DEF Sound
    <2> QED
      BY <1>1, <2>1, GivenKept DEF Sound, Answering
  <1>3. ASSUME Opening(r) PROVE req'[r].kind \notin Answers \/ \E n \in Requests :
           \/ \E d \in Devices : FindNonce(r, d, n)
           \/ \E c \in Credentials, kind \in {"attestation", "assertion"} : FindCredential(r, kind, c, n)
    <2>1. CASE FindKeys(r) \/ AskRegistration(r)
      <3>1. PICK kind \in {"options", "allowed"}, step \in {"found", "over"} :
              req' = [req EXCEPT ![r] = [kind |-> kind, step |-> step, on |-> None,
                                         copy |-> None, with |-> None, writes |-> {}]]
        BY <2>1, AsksWith
      <3> QED
        BY <3>1 DEF Sound, TypeOK, Answers
    <2>2. ASSUME NEW d \in Devices, NEW kind \in {"register", "nonce"}, FindDevice(r, kind, d)
          PROVE req'[r].kind \notin Answers
      BY <2>2 DEF FindDevice, Sound, TypeOK, Answers
    <2> QED
      BY <1>3, <2>1, <2>2 DEF Opening
  <1>4. ASSUME NEW d \in Devices, NEW n \in Requests, FindNonce(r, d, n)
        PROVE  /\ req'[r].kind = "signature" /\ req'[r].with \in Given({"nonce"})'
               /\ req'[r].step # "over" => req'[r].copy # None
    <2>1. n \in Given({"nonce"})'
      BY <1>4, GivenKept DEF FindNonce, Sound
    <2>2. /\ req'[r].kind = "signature" /\ req'[r].with = n /\ req'[r].copy = biometrics[d]
          /\ req'[r].step # "over" => d \in Registered
      BY <1>4 DEF FindNonce, Sound, TypeOK
    <2>3. d \in Registered => biometrics[d] # None
      BY DEF Registered
    <2> QED
      BY <2>1, <2>2, <2>3
  <1>5. ASSUME NEW c \in Credentials, NEW n \in Requests,
               NEW kind \in {"attestation", "assertion"}, FindCredential(r, kind, c, n)
        PROVE  req'[r].kind = kind /\ req'[r].with \in Given({"options", "allowed"})'
    BY <1>5, GivenKept DEF FindCredential, Sound, TypeOK
  <1>6. ASSUME NEW s \in Requests, Opening(s), s # r PROVE req'[r] = req[r]
    BY <1>6, Opens DEF Begins, Sound, TypeOK
  <1> QED
    BY <1>1, <1>2, <1>3, <1>4, <1>5, <1>6, OpensOrContinues DEF Answers, Sound

\* Who writes the rows of devices.
LEMMA DeviceWriters ==
  ASSUME [Next]_vars
  PROVE  \/ UNCHANGED biometrics
         \/ \E r \in Requests : InsertAgain(r) \/ UpdateDevice(r) \/ InsertDevice(r) \/ ConsumeNonce(r)
         \/ \E e \in Devices : DeleteDevice(e)
  <1>1. ASSUME NEW r \in Requests, OfDevice(r)
        PROVE  \/ UNCHANGED biometrics
               \/ InsertAgain(r) \/ UpdateDevice(r) \/ InsertDevice(r) \/ ConsumeNonce(r)
    BY <1>1 DEF OfDevice, FindDevice, FindNonce, SelectDevice, CountDevices, AnswerUnknown, MarkUsed
  <1>2. ASSUME NEW r \in Requests, OfPasskey(r) \/ OpenSession(r) \/ Expire(r) PROVE UNCHANGED biometrics
    BY <1>2 DEF OfPasskey, FindKeys, AskRegistration, CreateChallenge, FindCredential,
                ConsumeChallenge, SelectPasskey, SavePasskey, UpdateCounter, OpenSession, Expire
  <1>3. ASSUME NEW c \in Credentials, DeletePasskey(c) PROVE UNCHANGED biometrics
    BY <1>3 DEF DeletePasskey
  <1> QED
    BY <1>1, <1>2, <1>3 DEF Next, Cleanup, vars

\* A registration writes its own key and takes the nonce away, but for a column the SELECT
\* left out.
RegisterWrites(r, d) ==
  /\ At(r, {"register"}, "selected") \/ At(r, {"register"}, "counted")
  /\ Goes(r, "done")
  /\ biometrics'[d].key = r \/ (biometrics[d] # None /\ biometrics'[d].key = biometrics[d].key)
  /\ \/ biometrics'[d].nonce = None
     \/ /\ biometrics[d] # None /\ biometrics'[d].nonce = biometrics[d].nonce
        /\ req[r].on = d /\ At(r, {"register"}, "selected") /\ "nonce" \notin req[r].writes

\* A nonce is written, and the key of its copy if that was missed at the SELECT.
NonceWrites(r, d) ==
  /\ At(r, {"nonce"}, "selected") /\ req[r].on = d
  /\ Goes(r, "done")
  /\ biometrics'[d].nonce = r
  /\ \/ Pending(req, biometrics'[d].key)
     \/ biometrics[d] # None /\ biometrics'[d].key = biometrics[d].key

\* Every change of a row of a device.
LEMMA DeviceRows ==
  ASSUME Sound, [Next]_vars, NEW d \in Devices, biometrics'[d] # None
  PROVE  \/ biometrics'[d] = biometrics[d]
         \/ biometrics[d] # None /\ biometrics'[d].key = biometrics[d].key /\ biometrics'[d].nonce = None
         \/ \E r \in Requests : RegisterWrites(r, d) \/ NonceWrites(r, d)
  <1>1. CASE UNCHANGED biometrics
    BY <1>1
  <1>2. ASSUME NEW r \in Requests, InsertAgain(r), biometrics'[d] # biometrics[d]
        PROVE  RegisterWrites(r, d) \/ NonceWrites(r, d)
    <2>1. /\ req[r].kind \in {"register", "nonce"} /\ req[r].step = "selected"
          /\ req[r].copy # None /\ req[r].writes = Columns
      BY <1>2 DEF InsertAgain, At, Sound, Saving
    <2>2. Goes(r, "done") /\ req[r].on = d /\ biometrics'[d] = Entity(r)
      BY <1>2 DEF InsertAgain, Sound, TypeOK
    <2>3. CASE req[r].kind = "register"
      <3>1. Entity(r).key = r /\ Entity(r).nonce = None
        BY <2>1, <2>3, EntityRow DEF Sound
      <3> QED
        BY <2>1, <2>2, <2>3, <3>1 DEF RegisterWrites, At
    <2>4. CASE req[r].kind = "nonce"
      <3>1. Entity(r).key = req[r].copy.key /\ Entity(r).nonce = r
        BY <2>1, <2>4, EntityRow DEF Sound
      <3>2. Pending(req, biometrics'[d].key)
        BY <2>1, <2>2, <2>4, <3>1 DEF Pending, Columns
      <3> QED
        BY <2>1, <2>2, <2>4, <3>1, <3>2 DEF NonceWrites, At
    <2> QED
      BY <2>1, <2>3, <2>4
  <1>3. ASSUME NEW r \in Requests, UpdateDevice(r), biometrics'[d] # biometrics[d]
        PROVE  RegisterWrites(r, d) \/ NonceWrites(r, d)
    <2>1. /\ req[r].kind \in {"register", "nonce"} /\ req[r].step = "selected" /\ Goes(r, "done")
      BY <1>3 DEF UpdateDevice, At
    <2>2. /\ req[r].on = d /\ req[r].copy # None /\ biometrics[d] # None
          /\ biometrics'[d].key = IF "key" \in req[r].writes THEN Entity(r).key ELSE biometrics[d].key
          /\ biometrics'[d].nonce = IF "nonce" \in req[r].writes THEN Entity(r).nonce
                                                                  ELSE biometrics[d].nonce
      BY <1>3, UpdatedRow DEF Sound, TypeOK
    <2>3. CASE req[r].kind = "register"
      <3>1. Entity(r).key = r /\ Entity(r).nonce = None
        BY <2>2, <2>3, EntityRow DEF Sound
      <3> QED
        BY <2>1, <2>2, <2>3, <3>1 DEF RegisterWrites, At
    <2>4. CASE req[r].kind = "nonce"
      <3>1. Entity(r).key = req[r].copy.key /\ Entity(r).nonce = r
        BY <2>2, <2>4, EntityRow DEF Sound
      <3>2. "nonce" \in req[r].writes
        BY <2>1, <2>4 DEF Sound, Saving, At
      <3>3. "key" \in req[r].writes => Pending(req, biometrics'[d].key)
        BY <2>1, <2>2, <2>4, <3>1 DEF Pending
      <3> QED
        BY <2>1, <2>2, <2>4, <3>1, <3>2, <3>3 DEF NonceWrites, At
    <2> QED
      BY <2>1, <2>3, <2>4
  <1>4. ASSUME NEW r \in Requests, InsertDevice(r), biometrics'[d] # biometrics[d]
        PROVE  RegisterWrites(r, d)
    BY <1>4 DEF InsertDevice, RegisterWrites, Sound, TypeOK
  <1>5. ASSUME NEW r \in Requests, ConsumeNonce(r), biometrics'[d] # biometrics[d]
        PROVE  biometrics[d] # None /\ biometrics'[d].key = biometrics[d].key /\ biometrics'[d].nonce = None
    <2>1. Consumed(r, req[r].on)
      BY <1>5 DEF ConsumeNonce
    <2>2. req[r].on \in Devices /\ biometrics[req[r].on] \in Row /\ biometrics[req[r].on] # None
      BY <2>1 DEF Consumed, SameRow, Registered, Sound, TypeOK
    <2> QED
      BY <1>5, <2>1, <2>2 DEF ConsumeNonce, Sound, TypeOK, Row
  <1>6. ASSUME NEW e \in Devices, DeleteDevice(e) PROVE biometrics'[d] = biometrics[d]
    BY <1>6 DEF DeleteDevice, Sound, TypeOK
  <1> QED
    BY <1>1, <1>2, <1>3, <1>4, <1>5, <1>6, DeviceWriters

\* A row has the nonce it had, or none, or one that is given out in this step.
LEMMA NonceOfRow ==
  ASSUME Sound, [Next]_vars, NEW d \in Devices, biometrics'[d] # None
  PROVE  \/ biometrics'[d].nonce = None
         \/ biometrics[d] # None /\ biometrics'[d].nonce = biometrics[d].nonce
         \/ \E r \in Requests : /\ At(r, {"nonce"}, "selected") /\ req[r].on = d
                                /\ Goes(r, "done") /\ biometrics'[d].nonce = r
  BY DeviceRows DEF RegisterWrites, NonceWrites

LEMMA NoncesStep == Sound /\ [Next]_vars => Nonces'
  <1> SUFFICES ASSUME Sound, [Next]_vars, NEW d \in Devices,
                      biometrics'[d] # None, biometrics'[d].nonce # None
               PROVE  /\ biometrics'[d].nonce \in Given({"nonce"})'
                      /\ req'[biometrics'[d].nonce].on = d
    BY DEF Nonces
  <1>1. CASE biometrics[d] # None /\ biometrics'[d].nonce = biometrics[d].nonce
    BY <1>1, GivenKept DEF Sound, Nonces
  <1>2. ASSUME NEW r \in Requests, At(r, {"nonce"}, "selected"), req[r].on = d,
               Goes(r, "done"), biometrics'[d].nonce = r
        PROVE  /\ biometrics'[d].nonce \in Given({"nonce"})'
               /\ req'[biometrics'[d].nonce].on = d
    BY <1>2 DEF At, Goes, Given, Sound, TypeOK, Request
  <1> QED
    BY <1>1, <1>2, NonceOfRow

\* An answer is accepted in the step that consumes what it presents.
LEMMA AcceptedBy ==
  ASSUME Sound, [Next]_vars, NEW r \in Requests, Accepted(r)'
  PROVE  /\ req'[r].kind = req[r].kind /\ req'[r].with = req[r].with
         /\ req'[r].copy = req[r].copy /\ req[r].kind \in Answers
         /\ \/ Accepted(r)
            \/ ConsumeNonce(r) /\ Consumed(r, req[r].on) /\ At(r, {"signature"}, "found")
            \/ /\ ConsumeChallenge(r) /\ req[r].with \in challenges
               /\ At(r, {"attestation", "assertion"}, "found")
  <1>1. CASE Continues
    <2>1. /\ req'[r].kind = req[r].kind /\ req'[r].with = req[r].with
          /\ req'[r].copy = req[r].copy /\ req[r].kind \in Answers
      BY <1>1, ContinuesKeeps DEF Sound, Accepted
    <2>2. ASSUME ~ Accepted(r)
          PROVE  \/ ConsumeNonce(r) /\ Consumed(r, req[r].on) /\ At(r, {"signature"}, "found")
                 \/ /\ ConsumeChallenge(r) /\ req[r].with \in challenges
                    /\ At(r, {"attestation", "assertion"}, "found")
      <3>1. req'[r].step \in {"accepted", "selected", "updated", "opened", "done"} /\ req'[r] # req[r]
        BY <2>2 DEF Accepted
      <3>2. req[r].step \notin {"accepted", "selected", "updated", "opened", "done"}
        BY <2>1, <2>2 DEF Accepted
      <3>3. ~ Opening(r)
        <4>1. Opening(r) => req[r].step = "idle"
          BY Opens DEF Begins
        <4>2. req[r].step = "idle" => req[r].kind \notin Answers
          BY DEF Sound, Shapes, Answers
        <4> QED
          BY <2>1, <4>1, <4>2
      <3>4. ASSUME NEW s \in Requests, OfDevice(s) \/ OfPasskey(s) \/ OpenSession(s)
            PROVE  s = r
        <4>1. Opening(s) => \E q : Begins(s, q)
          BY Opens
        <4>2. ~ Opening(s) => GoesOn(s)
          BY <3>4, ActsGoOn DEF Sound
        <4> QED
          BY <3>1, <4>1, <4>2, GoesOnKeeps DEF Begins, Sound, TypeOK
      <3>5. OfDevice(r) \/ OfPasskey(r) \/ OpenSession(r)
        <4>1. req' # req
          BY <3>1
        <4> QED
          BY <3>4, <4>1 DEF Next, vars, Expire, DeleteDevice, DeletePasskey, Cleanup
      <3>6. ConsumeNonce(r) \/ ConsumeChallenge(r)
        BY <2>1, <3>2, <3>3, <3>5 DEF Opening, OfDevice, OfPasskey, OpenSession, SelectDevice,
           InsertAgain, UpdateDevice, InsertDevice, AnswerUnknown, CountDevices, MarkUsed,
           CreateChallenge, SelectPasskey, SavePasskey, UpdateCounter, At, Answers
      <3> QED
        BY <3>1, <3>6 DEF ConsumeNonce, ConsumeChallenge, Goes, Sound, TypeOK, Request, At
    <2> QED
      BY <2>1, <2>2
  <1>2. ASSUME NEW s \in Requests, Opening(s)
        PROVE  req'[r] = req[r]
    <2>1. CASE s = r
      BY <1>2, <2>1, OpensTo DEF Accepted, Sound
    <2>2. CASE s # r
      BY <1>2, <2>2, Opens DEF Begins, Sound, TypeOK
    <2> QED
      BY <2>1, <2>2
  <1>3. req'[r] = req[r] => Accepted(r) /\ req[r].kind \in Answers
    BY DEF Accepted
  <1> QED
    BY <1>1, <1>2, <1>3, OpensOrContinues DEF Sound

LEMMA UsedStep == Sound /\ [Next]_vars => Used'
  <1> SUFFICES ASSUME Sound, [Next]_vars PROVE Used'
    OBVIOUS
  <1>1. challenges' \subseteq challenges \/ \E r \in Requests : CreateChallenge(r)
    <2>1. ASSUME NEW r \in Requests, OfDevice(r) \/ OpenSession(r) \/ Expire(r)
          PROVE  UNCHANGED challenges
      BY <2>1 DEF OfDevice, FindDevice, SelectDevice, InsertAgain, UpdateDevice, CountDevices,
         InsertDevice, AnswerUnknown, FindNonce, ConsumeNonce, MarkUsed, OpenSession, Expire
    <2>2. ASSUME NEW r \in Requests, OfPasskey(r)
          PROVE  challenges' \subseteq challenges \/ CreateChallenge(r)
      BY <2>2 DEF OfPasskey, FindKeys, AskRegistration, FindCredential, ConsumeChallenge, Others,
         SelectPasskey, SavePasskey, UpdateCounter
    <2> QED
      BY <2>1, <2>2 DEF Next, vars, DeleteDevice, DeletePasskey, Cleanup
  <1>2. challenges' \subseteq Given({"options", "allowed"})'
    <2>1. ASSUME NEW r \in Requests, CreateChallenge(r) PROVE r \in Given({"options", "allowed"})'
      BY <2>1 DEF CreateChallenge, At, Goes, Given, Sound, TypeOK, Request
    <2> QED
      BY <1>1, <2>1, GivenKept DEF CreateChallenge, Sound, Used
  <1>3. ASSUME NEW r \in Requests, Accepted(r)', req'[r].kind = "signature",
               NEW d \in Devices, biometrics'[d] # None
        PROVE  biometrics'[d].nonce # req'[r].with
    <2> DEFINE n == req[r].with
    <2>1. n \in Given({"nonce"}) /\ n \in Requests /\ n # None /\ req'[r].with = n
          /\ req[r].kind = "signature"
      BY <1>3, AcceptedBy, GivenKept, ChallengesAssumption DEF Sound, Answering
    <2>2. CASE biometrics'[d].nonce = None
      BY <2>1, <2>2
    <2>3. ASSUME NEW s \in Requests, At(s, {"nonce"}, "selected"), biometrics'[d].nonce = s
          PROVE  biometrics'[d].nonce # n
      BY <2>1, <2>3 DEF Given, At
    <2>4. CASE biometrics[d] # None /\ biometrics'[d].nonce = biometrics[d].nonce
      <3>1. CASE Accepted(r)
        BY <1>3, <2>1, <2>4, <3>1 DEF Sound, Used
      <3>2. CASE ConsumeNonce(r) /\ Consumed(r, req[r].on)
        <4>1. biometrics[req[r].on].nonce = n /\ biometrics[req[r].on] # None /\ req[r].on \in Devices
          BY <3>2 DEF Consumed, SameRow, Registered
        <4>2. req[n].on = req[r].on
          BY <2>1, <4>1 DEF Sound, Nonces
        <4>3. CASE d = req[r].on
          BY <2>1, <3>2, <4>1, <4>3 DEF ConsumeNonce, Sound, TypeOK, Row
        <4>4. CASE d # req[r].on
          BY <1>3, <2>1, <2>4, <4>2, <4>4 DEF Sound, Nonces
        <4> QED
          BY <4>3, <4>4
      <3> QED
        BY <1>3, <2>1, <3>1, <3>2, AcceptedBy DEF At
    <2> QED
      BY <1>3, <2>1, <2>2, <2>3, <2>4, NonceOfRow
  <1>4. ASSUME NEW r \in Requests, Accepted(r)', req'[r].kind # "signature"
        PROVE  req'[r].with \notin challenges'
    <2>1. /\ req'[r].with = req[r].with /\ req[r].kind \in {"attestation", "assertion"}
          /\ req[r].with \in Given({"options", "allowed"})
      BY <1>4, AcceptedBy DEF Answers, Sound, Answering
    <2>2. CASE ConsumeChallenge(r) /\ req[r].with \in challenges
      <3>1. \A s \in Requests : Accepted(s) /\ s = r => Accepted(r)
        OBVIOUS
      <3>2. req'[r].step # "over"
        BY <1>4 DEF Accepted
      <3> QED
        BY <2>1, <2>2, <3>2 DEF ConsumeChallenge, Others, Goes, Sound, TypeOK, Request
    <2>3. CASE Accepted(r)
      <3>1. req[r].with \notin challenges
        BY <2>1, <2>3 DEF Sound, Used
      <3>2. ASSUME NEW s \in Requests, CreateChallenge(s) PROVE s # req[r].with
        BY <2>1, <3>2 DEF CreateChallenge, At, Given
      <3> QED
        BY <1>1, <2>1, <3>1, <3>2 DEF CreateChallenge
    <2> QED
      BY <1>4, <2>1, <2>2, <2>3, AcceptedBy DEF At
  <1> QED
    BY <1>2, <1>3, <1>4 DEF Used

LEMMA InitSound == Init => Sound
  <1> SUFFICES ASSUME Init PROVE Sound
    OBVIOUS
  <1>1. \A r \in Requests : req[r] = Idle
    BY DEF Init
  <1>2. Shapes /\ Answering
    BY <1>1 DEF Shapes, Answering, Idle, Answers, OfDevices
  <1>5. Saving
    BY <1>1 DEF Saving, At, Idle
  <1>3. Nonces
    BY DEF Init, Nonces
  <1>4. Used
    BY <1>1 DEF Init, Used, Accepted, Idle, Answers
  <1> QED
    BY <1>2, <1>3, <1>4, <1>5, InitTypeOK DEF Sound

LEMMA SoundStep == Sound /\ [Next]_vars => Sound'
  BY TypeStep, ShapesStep, SavingStep, AnsweringStep, NoncesStep, UsedStep DEF Sound

\* Every variable keeps its type, for any requests, devices, credentials and limit.
THEOREM TypeCorrect == Spec => []TypeOK
  <1>1. Sound => TypeOK
    BY DEF Sound
  <1> QED
    BY <1>1, InitSound, SoundStep, PTL DEF Spec

LEMMA OneAnswerStep == Sound /\ OneAnswerEach /\ [Next]_vars => OneAnswerEach'
  <1> SUFFICES ASSUME Sound, OneAnswerEach, [Next]_vars, NEW r \in Requests, NEW s \in Requests,
                      Accepted(r)', Accepted(s)', req'[r].with = req'[s].with
               PROVE  r = s
    BY DEF OneAnswerEach
  <1>1. /\ req[r].with = req[s].with
        /\ req[r].kind \in Answers /\ req[s].kind \in Answers
        /\ req[r].kind = "signature" <=> req[s].kind = "signature"
    <2>1. \A q \in {r, s} : /\ req[q].kind \in Answers /\ req'[q].with = req[q].with
                            /\ req[q].kind = "signature" => req[q].with \in Given({"nonce"})
                            /\ req[q].kind # "signature" => req[q].with \in Given({"options", "allowed"})
      BY AcceptedBy DEF Sound, Answering, Answers
    <2> QED
      BY <2>1 DEF Given
  \* What one of them consumes was not consumed by the other.
  <1>2. ASSUME NEW a \in {r, s}, NEW b \in {r, s}, Accepted(a)', ~ Accepted(a), Accepted(b)
        PROVE  FALSE
    <2>1. CASE ConsumeNonce(a) /\ Consumed(a, req[a].on) /\ At(a, {"signature"}, "found")
      <3>1. req[a].on \in Devices /\ biometrics[req[a].on] # None
            /\ biometrics[req[a].on].nonce = req[b].with
        BY <1>1, <2>1 DEF Consumed, SameRow, Registered
      <3> QED
        BY <1>1, <1>2, <2>1, <3>1 DEF Sound, Used, At
    <2>2. CASE req[a].with \in challenges /\ At(a, {"attestation", "assertion"}, "found")
      BY <1>1, <1>2, <2>2 DEF Sound, Used, At
    <2> QED
      BY <1>2, <2>1, <2>2, AcceptedBy
  <1>3. CASE ~ Accepted(r) /\ ~ Accepted(s)
    <2>1. \E step : Goes(r, step)
      BY <1>3, AcceptedBy DEF ConsumeNonce, ConsumeChallenge
    <2>2. req'[s] # req[s]
      BY <1>3 DEF Accepted
    <2> QED
      BY <2>1, <2>2 DEF Goes, Sound, TypeOK
  <1> QED
    BY <1>1, <1>2, <1>3 DEF OneAnswerEach

\* A nonce or a challenge is good for one answer, however many present it.
THEOREM OneAnswerEachHolds == Spec => []OneAnswerEach
  <1>1. Init => OneAnswerEach
    BY DEF Init, OneAnswerEach, Accepted, Idle, Answers
  <1> QED
    BY <1>1, InitSound, SoundStep, OneAnswerStep, PTL DEF Spec

LEMMA WithStays ==
  ASSUME Sound, [Next]_vars, NEW r \in Requests, req[r].with # None
  PROVE  req'[r].with = req[r].with
  <1>1. CASE Continues
    BY <1>1, ContinuesKeeps DEF Sound
  <1>2. ASSUME NEW s \in Requests, Opening(s) PROVE req'[r].with = req[r].with
    <2>1. s # r
      BY <1>2, Opens DEF Begins, Sound, Shapes, Answers
    <2> QED
      BY <1>2, <2>1, Opens DEF Begins, Sound, TypeOK
  <1> QED
    BY <1>1, <1>2, OpensOrContinues DEF Sound

LEMMA SparedStep == Sound /\ OthersSpareChallenge /\ [Next]_vars => OthersSpareChallenge'
  <1> SUFFICES ASSUME Sound, OthersSpareChallenge, [Next]_vars,
                      NEW n \in Requests, n \in Given({"options", "allowed"})'
               PROVE  n \in expired' \/ n \in challenges' \/ \E r \in Requests : req'[r].with = n
    BY DEF OthersSpareChallenge, Given
  <1>0. n # None /\ expired \subseteq expired'
    BY ChallengesAssumption DEF Next, vars, OfDevice, OfPasskey, FindDevice, SelectDevice,
       InsertAgain, UpdateDevice, CountDevices, InsertDevice, AnswerUnknown, FindNonce,
       ConsumeNonce, MarkUsed, DeleteDevice, FindKeys, AskRegistration, CreateChallenge,
       FindCredential, ConsumeChallenge, SelectPasskey, SavePasskey, UpdateCounter, OpenSession,
       DeletePasskey, Cleanup, Expire
  \* Only its creation makes a challenge one that was given out.
  <1>1. n \in Given({"options", "allowed"}) \/ CreateChallenge(n)
    <2>1. ASSUME NEW r \in Requests, OfDevice(r) \/ OfPasskey(r) \/ OpenSession(r),
                 ~ Opening(r), req'[n] # req[n]
          PROVE  r = n
      BY <2>1, ActsGoOn, GoesOnKeeps DEF Sound
    <2>2. ASSUME NEW r \in Requests, Opening(r) PROVE n \in Given({"options", "allowed"})
      <3>1. r # n
        BY <2>2, OpensTo DEF Given, Sound
      <3> QED
        BY <2>2, <3>1, Opens DEF Begins, Given, Sound, TypeOK
    <2>3. CASE req'[n] = req[n]
      BY <2>3 DEF Given
    <2>4. ASSUME OfDevice(n) \/ OfPasskey(n) \/ OpenSession(n), ~ Opening(n)
          PROVE  n \in Given({"options", "allowed"}) \/ CreateChallenge(n)
      <3>1. req'[n].kind \in {"options", "allowed"}
        BY DEF Given
      <3>2. CASE Continues
        <4>1. req[n].kind \in {"options", "allowed"}
          BY <3>1, <3>2, ContinuesKeeps DEF Sound
        <4> QED
          BY <2>4, <4>1 DEF Opening, OfDevice, OfPasskey, OpenSession, SelectDevice, InsertAgain,
             UpdateDevice, InsertDevice, AnswerUnknown, CountDevices, ConsumeNonce, MarkUsed,
             ConsumeChallenge, SelectPasskey, SavePasskey, UpdateCounter, At
      <3>3. CASE \E r \in Requests : Opening(r)
        BY <2>2, <3>3
      <3> QED
        BY <3>2, <3>3, OpensOrContinues DEF Sound
    <2>5. CASE Next /\ req' # req
      BY <2>1, <2>2, <2>3, <2>4, <2>5 DEF Next, Expire, DeleteDevice, DeletePasskey, Cleanup
    <2> QED
      BY <2>3, <2>5 DEF vars
  <1>2. CASE CreateChallenge(n)
    BY <1>2 DEF CreateChallenge
  <1>3. ASSUME n \in Given({"options", "allowed"}), n \in challenges, n \notin challenges'
        PROVE  n \in expired' \/ \E r \in Requests : req'[r].with = n
    <2>1. \/ Cleanup
          \/ \E r \in Requests : ConsumeChallenge(r) /\ n = req[r].with
      <3>1. ASSUME NEW r \in Requests, OfDevice(r) \/ OfPasskey(r) \/ OpenSession(r) \/ Expire(r)
            PROVE  ConsumeChallenge(r) /\ n = req[r].with
        BY <1>3, <3>1 DEF OfDevice, OfPasskey, FindDevice, SelectDevice, InsertAgain, UpdateDevice,
           CountDevices, InsertDevice, AnswerUnknown, FindNonce, ConsumeNonce, MarkUsed, FindKeys,
           AskRegistration, CreateChallenge, FindCredential, ConsumeChallenge, Others,
           SelectPasskey, SavePasskey, UpdateCounter, OpenSession, Expire
      <3> QED
        BY <1>3, <3>1 DEF Next, vars, DeleteDevice, DeletePasskey
    <2>2. CASE Cleanup
      BY <1>3, <2>2 DEF Cleanup
    <2>3. ASSUME NEW r \in Requests, n = req[r].with PROVE req'[r].with = n
      BY <1>0, <2>3, WithStays
    <2> QED
      BY <2>1, <2>2, <2>3
  <1>4. CASE n \in Given({"options", "allowed"})
    BY <1>0, <1>3, <1>4, WithStays DEF OthersSpareChallenge
  <1> QED
    BY <1>1, <1>2, <1>4

\* A challenge that was given out can be answered until its time is over or it is presented.
THEOREM OthersSpareChallengeHolds == Spec => []OthersSpareChallenge
  <1>1. Init => OthersSpareChallenge
    BY DEF Init, OthersSpareChallenge, Given, Idle
  <1> QED
    BY <1>1, InitSound, SoundStep, SparedStep, PTL DEF Spec

-----------------------------------------------------------------------------
(* Keys *)

LEMMA InUseOf ==
  ASSUME NEW k
  PROVE  /\ k \in InUse <=> \/ \E d \in Devices : biometrics[d] # None /\ biometrics[d].key = k
                            \/ \E c \in Credentials : passkeys[c] = k /\ k # None
         /\ k \in InUse' <=> \/ \E d \in Devices : biometrics'[d] # None /\ biometrics'[d].key = k
                             \/ \E c \in Credentials : passkeys'[c] = k /\ k # None
  BY DEF InUse, KeysInUse

\* Where a row of a device has its key from.
LEMMA KeyOfRow ==
  ASSUME Sound, [Next]_vars, NEW d \in Devices, biometrics'[d] # None
  PROVE  \/ biometrics[d] # None /\ biometrics'[d].key = biometrics[d].key
         \/ \E r \in Requests : /\ biometrics'[d].key = r
                                /\ req[r].kind = "register" /\ req[r].step \in {"selected", "counted"}
                                /\ Goes(r, "done")
         \/ Pending(req, biometrics'[d].key)
  BY DeviceRows DEF RegisterWrites, NonceWrites, At

LEMMA KeyOfPasskey ==
  ASSUME Sound, [Next]_vars, NEW c \in Credentials
  PROVE  \/ passkeys'[c] \in {passkeys[c], None}
         \/ \E r \in Requests : /\ passkeys'[c] = r /\ At(r, {"attestation"}, "selected")
                                /\ Goes(r, "done")
  <1>1. ASSUME NEW r \in Requests, OfDevice(r) \/ OpenSession(r) \/ Expire(r)
        PROVE  UNCHANGED passkeys
    BY <1>1 DEF OfDevice, FindDevice, SelectDevice, InsertAgain, UpdateDevice, CountDevices,
       InsertDevice, AnswerUnknown, FindNonce, ConsumeNonce, MarkUsed, OpenSession, Expire
  <1>2. ASSUME NEW r \in Requests, OfPasskey(r), ~ SavePasskey(r)
        PROVE  UNCHANGED passkeys
    BY <1>2 DEF OfPasskey, FindKeys, AskRegistration, CreateChallenge, FindCredential,
       ConsumeChallenge, SelectPasskey, UpdateCounter
  <1>3. ASSUME NEW r \in Requests, SavePasskey(r), passkeys'[c] # passkeys[c]
        PROVE  passkeys'[c] = r /\ At(r, {"attestation"}, "selected") /\ Goes(r, "done")
    <2>1. ("id" \in req[r].writes) # (passkeys[req[r].on] # None)
      BY <1>3 DEF SavePasskey
    <2> QED
      BY <1>3, <2>1 DEF SavePasskey, Sound, TypeOK
  <1>4. ASSUME NEW e \in Credentials, DeletePasskey(e)
        PROVE  passkeys'[c] \in {passkeys[c], None}
    BY <1>4 DEF DeletePasskey, Sound, TypeOK
  <1>5. CASE UNCHANGED passkeys
    BY <1>5
  <1> QED
    BY <1>1, <1>2, <1>3, <1>4, <1>5 DEF Next, vars, DeleteDevice, Cleanup

\* A key that comes into use was just registered, or was about to be saved with a nonce.
LEMMA InUseStep ==
  ASSUME Sound, [Next]_vars, NEW k \in InUse'
  PROVE  \/ k \in InUse
         \/ k \in Requests /\ ~ Made(req, k) /\ Made(req', k)
         \/ Pending(req, k)
  <1>1. ASSUME NEW r \in Requests, req[r].kind \in {"register", "attestation"}, req[r].step # "done",
               Goes(r, "done")
        PROVE  ~ Made(req, r) /\ Made(req', r)
    <2>1. req'[r].kind = req[r].kind /\ req'[r].step = "done"
      BY <1>1 DEF Goes, Sound, TypeOK, Request
    <2> QED
      BY <1>1, <2>1, ChallengesAssumption DEF Made
  <1>2. ASSUME NEW d \in Devices, biometrics'[d] # None, biometrics'[d].key = k
        PROVE  \/ k \in InUse
               \/ k \in Requests /\ ~ Made(req, k) /\ Made(req', k)
               \/ Pending(req, k)
    <2>1. CASE biometrics[d] # None /\ biometrics'[d].key = biometrics[d].key
      BY <1>2, <2>1, InUseOf
    <2>2. ASSUME NEW r \in Requests, biometrics'[d].key = r,
                 req[r].kind = "register", req[r].step \in {"selected", "counted"}, Goes(r, "done")
          PROVE  k \in Requests /\ ~ Made(req, k) /\ Made(req', k)
      BY <1>1, <1>2, <2>2
    <2> QED
      BY <1>2, <2>1, <2>2, KeyOfRow
  <1>3. ASSUME NEW c \in Credentials, passkeys'[c] = k, k # None
        PROVE  k \in InUse \/ (k \in Requests /\ ~ Made(req, k) /\ Made(req', k))
    <2>1. CASE passkeys'[c] \in {passkeys[c], None}
      BY <1>3, <2>1, InUseOf
    <2>2. ASSUME NEW r \in Requests, passkeys'[c] = r, At(r, {"attestation"}, "selected"),
                 Goes(r, "done")
          PROVE  k \in Requests /\ ~ Made(req, k) /\ Made(req', k)
      BY <1>1, <1>3, <2>2 DEF At
    <2> QED
      BY <2>1, <2>2, KeyOfPasskey
  <1> QED
    BY <1>2, <1>3, InUseOf

\* What is retired was in use, is so no more, and nobody is about to save it.
LEMMA RetiredStep ==
  ASSUME [Next]_vars, NEW k \in retired', k \notin retired
  PROVE  k \in InUse /\ k \notin InUse' /\ ~ Pending(req', k)
  <1>1. Retires \/ UNCHANGED retired
    <2>1. ASSUME NEW r \in Requests, OfDevice(r) PROVE Retires \/ UNCHANGED retired
      BY <2>1 DEF OfDevice, FindDevice, SelectDevice, InsertAgain, UpdateDevice, CountDevices,
         InsertDevice, AnswerUnknown, FindNonce, ConsumeNonce, MarkUsed
    <2>2. ASSUME NEW r \in Requests, OfPasskey(r) \/ OpenSession(r) \/ Expire(r)
          PROVE  Retires \/ UNCHANGED retired
      BY <2>2 DEF OfPasskey, FindKeys, AskRegistration, CreateChallenge, FindCredential,
         ConsumeChallenge, SelectPasskey, SavePasskey, UpdateCounter, OpenSession, Expire
    <2> QED
      BY <2>1, <2>2 DEF Next, vars, DeleteDevice, DeletePasskey, Cleanup
  <1> QED
    BY <1>1 DEF Retires, InUse

LEMMA MadeStays ==
  ASSUME Sound, [Next]_vars, NEW k, Made(req, k)
  PROVE  Made(req', k)
  BY GivenStays DEF Sound, Made

\* A request that has the copy of a device read it when it began.
LEMMA CopyStays ==
  ASSUME Sound, [Next]_vars, NEW r \in Requests,
         req'[r].kind \in {"nonce", "signature"}, req'[r].copy # None
  PROVE  \/ req[r].kind = req'[r].kind /\ req[r].copy = req'[r].copy /\ req[r].step # "idle"
         \/ req'[r].copy.key \in InUse /\ UNCHANGED retired
  <1>1. CASE Continues
    BY <1>1, ContinuesKeeps DEF Sound, Shapes
  <1>2. ASSUME NEW s \in Requests, Opening(s), s # r
        PROVE  req[r].kind = req'[r].kind /\ req[r].copy = req'[r].copy /\ req[r].step # "idle"
    BY <1>2, Opens DEF Begins, Sound, TypeOK, Shapes
  <1>3. ASSUME Opening(r) PROVE req'[r].copy.key \in InUse /\ UNCHANGED retired
    <2>1. CASE FindKeys(r) \/ AskRegistration(r)
      BY <2>1, AsksWith DEF Sound, TypeOK
    <2>2. ASSUME NEW d \in Devices, NEW kind \in {"register", "nonce"}, FindDevice(r, kind, d)
          PROVE  req'[r].copy.key \in InUse /\ UNCHANGED retired
      BY <2>2, InUseOf DEF FindDevice, Sound, TypeOK
    <2>3. ASSUME NEW d \in Devices, NEW n \in Requests, FindNonce(r, d, n)
          PROVE  req'[r].copy.key \in InUse /\ UNCHANGED retired
      BY <2>3, InUseOf DEF FindNonce, Sound, TypeOK
    <2>4. CASE ~ (FindKeys(r) \/ AskRegistration(r))
      BY <1>3, <2>2, <2>3, <2>4 DEF Opening, FindCredential, Sound, TypeOK
    <2> QED
      BY <2>1, <2>4
  <1> QED
    BY <1>1, <1>2, <1>3, OpensOrContinues DEF Sound

\* A key is to be saved with a nonce since the copy was read.
LEMMA PendingStep ==
  ASSUME Sound, [Next]_vars, NEW k, Pending(req', k)
  PROVE  Pending(req, k) \/ (k \in InUse /\ UNCHANGED retired)
  <1>1. PICK r \in Requests :
          /\ req'[r].kind = "nonce" /\ req'[r].copy # None /\ req'[r].copy.key = k
          /\ req'[r].step = "found" \/ (req'[r].step = "selected" /\ "key" \in req'[r].writes)
    BY DEF Pending
  <1>2. CASE req[r].kind = "nonce" /\ req[r].copy = req'[r].copy /\ req[r].step # "idle"
    <2>1. CASE req'[r] = req[r]
      BY <1>1, <2>1 DEF Pending
    <2>2. CASE req'[r] # req[r]
      <3>1. req[r].step \in {"found", "selected", "done", "over"}
        BY <1>2 DEF Sound, Shapes
      <3>2. req[r].step \notin {"done", "over"}
        BY <2>2, GivenStays DEF Sound
      <3>3. req[r].step # "selected"
        <4>1. ASSUME req[r].step = "selected" PROVE FALSE
          <5>1. ASSUME NEW s \in Requests, OfDevice(s) \/ OfPasskey(s) \/ OpenSession(s)
                PROVE  s = r
            <6>1. Opening(s) => \E q : Begins(s, q)
              BY Opens
            <6>2. ~ Opening(s) => GoesOn(s)
              BY <5>1, ActsGoOn DEF Sound
            <6> QED
              BY <2>2, <6>1, <6>2, GoesOnKeeps DEF Begins, Sound, TypeOK
          <5>2. OfDevice(r) \/ OfPasskey(r) \/ OpenSession(r)
            <6>1. req' # req
              BY <2>2
            <6> QED
              BY <5>1, <6>1 DEF Next, vars, Expire, DeleteDevice, DeletePasskey, Cleanup
          <5>3. InsertAgain(r) \/ UpdateDevice(r)
            BY <1>2, <4>1, <5>2 DEF OfDevice, OfPasskey, OpenSession, FindDevice, FindNonce, FindKeys,
               AskRegistration, FindCredential, Starts, SelectDevice, InsertDevice, AnswerUnknown,
               CountDevices, ConsumeNonce, MarkUsed, CreateChallenge, ConsumeChallenge,
               SelectPasskey, SavePasskey, UpdateCounter, At
          <5>4. req'[r].step \in {"done", "over"}
            BY <5>3 DEF InsertAgain, UpdateDevice, Goes, Sound, TypeOK, Request
          <5> QED
            BY <1>1, <5>4
        <4> QED
          BY <4>1
      <3> QED
        BY <1>1, <1>2, <3>1, <3>2, <3>3 DEF Pending
    <2> QED
      BY <2>1, <2>2
  <1>3. CASE req'[r].copy.key \in InUse /\ UNCHANGED retired
    BY <1>1, <1>3
  <1> QED
    BY <1>1, <1>2, <1>3, CopyStays

LEMMA KeysMadeStep == Sound /\ KeysMade /\ [Next]_vars => KeysMade'
  <1> SUFFICES ASSUME Sound, KeysMade, [Next]_vars PROVE KeysMade'
    OBVIOUS
  <1>1. ASSUME NEW k, Pending(req, k) PROVE Made(req, k)
    BY <1>1 DEF Pending, KeysMade
  <1>2. ASSUME NEW k \in InUse' PROVE Made(req', k)
    BY <1>1, <1>2, InUseStep, MadeStays DEF KeysMade
  <1>3. ASSUME NEW k \in retired' PROVE Made(req', k)
    BY <1>3, RetiredStep, MadeStays DEF KeysMade
  <1>4. ASSUME NEW r \in Requests, req'[r].kind \in {"nonce", "signature"}, req'[r].copy # None
        PROVE  Made(req', req'[r].copy.key)
    <2> DEFINE k == req'[r].copy.key
    <2>1. Made(req, k)
      BY <1>4, CopyStays DEF KeysMade
    <2> QED
      BY <2>1, MadeStays DEF Made
  <1> QED
    BY <1>2, <1>3, <1>4 DEF KeysMade

LEMMA KeysStep ==
  Sound /\ KeysMade /\ CopiesLive /\ RetiredStayAway /\ [Next]_vars
    => CopiesLive' /\ RetiredStayAway'
  <1> SUFFICES ASSUME Sound, KeysMade, CopiesLive, RetiredStayAway, [Next]_vars
               PROVE  CopiesLive' /\ RetiredStayAway'
    OBVIOUS
  <1>1. CopiesLive'
    <2> SUFFICES ASSUME NEW k \in Keys, Pending(req', k), k \in retired' PROVE FALSE
      BY DEF CopiesLive
    <2>1. k \in retired
      BY RetiredStep
    <2>2. CASE Pending(req, k)
      BY <2>1, <2>2 DEF CopiesLive
    <2>3. CASE k \in InUse
      BY <2>1, <2>3 DEF RetiredStayAway, InUse
    <2> QED
      BY <2>2, <2>3, PendingStep
  <1>2. RetiredStayAway'
    <2> SUFFICES ASSUME NEW k \in InUse', k \in retired' PROVE FALSE
      BY DEF RetiredStayAway, InUse
    <2>1. k \in retired
      BY RetiredStep
    <2>2. k \notin InUse /\ Made(req, k) /\ k \in Keys
      BY <2>1 DEF RetiredStayAway, InUse, KeysMade, Sound, TypeOK
    <2> QED
      BY <2>1, <2>2, InUseStep DEF CopiesLive
  <1> QED
    BY <1>1, <1>2

LEMMA InitKeys == Init => KeysMade /\ CopiesLive /\ RetiredStayAway
  <1> SUFFICES ASSUME Init PROVE KeysMade /\ CopiesLive /\ RetiredStayAway
    OBVIOUS
  <1>1. \A k \in InUse : k = First
    BY InUseOf DEF Init
  <1> QED
    BY <1>1 DEF Init, Idle, KeysMade, Made, CopiesLive, Pending, RetiredStayAway

\* What was removed or replaced stays away, unless a nonce was about to be saved with it.
THEOREM RetiredStayAwayHolds == Spec => []RetiredStayAway
  BY InitKeys, InitSound, SoundStep, KeysMadeStep, KeysStep, PTL DEF Spec

-----------------------------------------------------------------------------
(* The nonces that registrations found *)

\* A registration whose key is in a row, or in a copy of one, has been completed.
LEMMA KeyIsDone ==
  ASSUME Sound, KeysMade, NEW r \in Requests, req[r].kind = "register"
  PROVE  /\ \A d \in Devices : biometrics[d] # None /\ biometrics[d].key = r => req[r].step = "done"
         /\ \A s \in Requests :
              req[s].kind \in {"nonce", "signature"} /\ req[s].copy # None /\ req[s].copy.key = r
                => req[r].step = "done"
  <1>1. Made(req, r) => req[r].step = "done"
    BY ChallengesAssumption DEF Made
  <1> QED
    BY <1>1, InUseOf DEF KeysMade

\* What a registration found is told when it begins, and its copy then stays.
LEMMA RegisterBegins ==
  ASSUME Sound, [Next]_vars, NEW r \in Requests, req'[r].kind = "register", req'[r].copy # None
  PROVE  \/ req[r].kind = "register" /\ req[r].copy = req'[r].copy /\ req[r].on = req'[r].on
         \/ /\ req'[r].step = "found" /\ req'[r].on \in Devices
            /\ req'[r].copy = biometrics[req'[r].on] /\ req[r].step = "idle"
            /\ UNCHANGED biometrics
  <1>1. CASE Continues
    BY <1>1, ContinuesKeeps DEF Sound
  <1>2. ASSUME NEW s \in Requests, Opening(s), s # r PROVE req'[r] = req[r]
    BY <1>2, Opens DEF Begins, Sound, TypeOK
  <1>3. ASSUME Opening(r)
        PROVE  /\ req'[r].step = "found" /\ req'[r].on \in Devices
               /\ req'[r].copy = biometrics[req'[r].on] /\ req[r].step = "idle"
               /\ UNCHANGED biometrics
    <2>1. CASE FindKeys(r) \/ AskRegistration(r)
      BY <2>1, AsksWith DEF Sound, TypeOK
    <2>2. ASSUME NEW d \in Devices, NEW kind \in {"register", "nonce"}, FindDevice(r, kind, d)
          PROVE  /\ req'[r].step = "found" /\ req'[r].on \in Devices
                 /\ req'[r].copy = biometrics[req'[r].on] /\ req[r].step = "idle"
                 /\ UNCHANGED biometrics
      BY <2>2 DEF FindDevice, Starts, Sound, TypeOK
    <2>3. CASE ~ (FindKeys(r) \/ AskRegistration(r))
      BY <1>3, <2>2, <2>3 DEF Opening, FindNonce, FindCredential, Sound, TypeOK
    <2> QED
      BY <2>1, <2>3
  <1> QED
    BY <1>1, <1>2, <1>3, OpensOrContinues DEF Sound

\* A nonce is found by who presents it in the row it is stored in, with the key of the row.
LEMMA SignatureBegins ==
  ASSUME Sound, [Next]_vars, NEW s \in Requests, req'[s].kind = "signature", req'[s].step # "over"
  PROVE  \/ /\ req[s].kind = "signature" /\ req[s].copy = req'[s].copy
            /\ req[s].with = req'[s].with /\ req[s].step # "over"
         \/ \E d \in Devices : /\ biometrics[d] # None /\ biometrics[d].nonce = req'[s].with
                               /\ biometrics[d].key = req'[s].copy.key
  <1>1. CASE Continues
    BY <1>1, ContinuesKeeps DEF Sound
  <1>2. ASSUME NEW q \in Requests, Opening(q), q # s PROVE req'[s] = req[s]
    BY <1>2, Opens DEF Begins, Sound, TypeOK
  <1>3. ASSUME Opening(s)
        PROVE  \E d \in Devices : /\ biometrics[d] # None /\ biometrics[d].nonce = req'[s].with
                                  /\ biometrics[d].key = req'[s].copy.key
    <2>1. CASE FindKeys(s) \/ AskRegistration(s)
      BY <2>1, AsksWith DEF Sound, TypeOK
    <2>2. ASSUME NEW d \in Devices, NEW n \in Requests, FindNonce(s, d, n)
          PROVE  /\ biometrics[d] # None /\ biometrics[d].nonce = req'[s].with
                 /\ biometrics[d].key = req'[s].copy.key
      BY <2>2 DEF FindNonce, Registered, Sound, TypeOK
    <2>3. CASE ~ (FindKeys(s) \/ AskRegistration(s))
      BY <1>3, <2>2, <2>3 DEF Opening, FindDevice, FindCredential, Sound, TypeOK
    <2> QED
      BY <2>1, <2>3
  <1> QED
    BY <1>1, <1>2, <1>3, OpensOrContinues DEF Sound

\* A row that has a nonce given out before has had it all along, and a key that comes to it
\* comes with a registration that left the nonce out.
LEMMA OldNonce ==
  ASSUME Sound, [Next]_vars, NEW d \in Devices, biometrics'[d] # None,
         biometrics'[d].nonce \in Given({"nonce"})
  PROVE  /\ biometrics[d] # None /\ biometrics[d].nonce = biometrics'[d].nonce
         /\ \/ biometrics'[d].key = biometrics[d].key
            \/ \E r \in Requests : /\ At(r, {"register"}, "selected") /\ req[r].on = d
                                   /\ "nonce" \notin req[r].writes
                                   /\ biometrics'[d].key = r
  <1>1. biometrics'[d].nonce # None
    BY ChallengesAssumption DEF Given
  <1>2. ASSUME NEW r \in Requests, NonceWrites(r, d) PROVE FALSE
    BY <1>2 DEF NonceWrites, Given, At
  <1> QED
    BY <1>1, <1>2, DeviceRows DEF RegisterWrites

\* Until it has SELECTed a registration leaves nothing out of its save but a nonce it does
\* not see in the row.
LEMMA LeavesOut ==
  ASSUME Sound, [Next]_vars, NEW r \in Requests, At(r, {"register"}, "selected")',
         "nonce" \notin req'[r].writes
  PROVE  \/ req'[r] = req[r]
         \/ SameRow(r, req[r].on) /\ biometrics[req[r].on].nonce = None
  <1>1. ASSUME NEW s \in Requests, Opening(s) PROVE req'[r] = req[r]
    BY <1>1, Opens, OpensTo DEF Begins, At, Sound, TypeOK
  <1>2. CASE Continues /\ req'[r] # req[r]
    <2>1. SelectDevice(r)
      <3>1. ASSUME NEW s \in Requests, OfDevice(s) \/ OfPasskey(s) \/ OpenSession(s)
            PROVE  s = r /\ ~ Opening(r)
        BY <1>1, <1>2, <3>1, ActsGoOn, GoesOnKeeps DEF Sound
      <3>2. OfDevice(r) \/ OfPasskey(r) \/ OpenSession(r)
        BY <1>2, <3>1 DEF Next, vars, Expire, DeleteDevice, DeletePasskey, Cleanup
      <3>3. req[r].kind = "register"
        BY <1>2, ContinuesKeeps DEF Sound, At
      <3>4. ~ (InsertAgain(r) \/ UpdateDevice(r) \/ CountDevices(r) \/ InsertDevice(r))
        BY DEF InsertAgain, UpdateDevice, CountDevices, InsertDevice, Goes, At, Sound, TypeOK, Request
      <3> QED
        BY <3>1, <3>2, <3>3, <3>4 DEF OfDevice, OfPasskey, OpenSession, Opening, AnswerUnknown,
           ConsumeNonce, MarkUsed, CreateChallenge, ConsumeChallenge, SelectPasskey, SavePasskey,
           UpdateCounter, At
    <2> DEFINE d == req[r].on
               columns == IF SameRow(r, d) THEN {c \in {"key", "nonce"} : biometrics[d][c] # Entity(r)[c]}
                                           ELSE Columns
    <2>2. req'[r].writes = columns
      BY <2>1 DEF SelectDevice, Selects, Sound, TypeOK, Request
    <2>3. SameRow(r, d) /\ biometrics[d].nonce = Entity(r).nonce
      BY <2>2 DEF Columns
    <2>4. Entity(r).nonce = None
      <3>1. req[r].kind = "register"
        BY <1>2, ContinuesKeeps DEF Sound, At
      <3> QED
        BY <2>1, <3>1, EntityRow DEF SelectDevice, Sound
    <2> QED
      BY <2>1, <2>2, <2>3, <2>4
  <1> QED
    BY <1>1, <1>2, OpensOrContinues DEF Sound

LEMMA ResetsStep == Sound /\ KeysMade /\ Resets /\ [Next]_vars => Resets'
  <1> SUFFICES ASSUME Sound, KeysMade, Resets, [Next]_vars, NEW r \in Requests, NEW n \in Requests,
                      req'[r].kind = "register", req'[r].copy # None, req'[r].copy.nonce = n
               PROVE  /\ n \in Given({"nonce"})' /\ req'[n].on = req'[r].on
                      /\ \A d \in Devices : biometrics'[d] # None /\ biometrics'[d].nonce = n =>
                           /\ biometrics'[d].key # r
                           /\ req'[r].step = "selected" => "nonce" \in req'[r].writes
                      /\ \A s \in Requests :
                           req'[s].kind = "signature" /\ req'[s].with = n /\ req'[s].step # "over" =>
                             req'[s].copy.key # r
    BY DEF Resets
  <1>0. n # None
    BY ChallengesAssumption
  <1>1. CASE /\ req'[r].step = "found" /\ req'[r].on \in Devices
             /\ req'[r].copy = biometrics[req'[r].on] /\ req[r].step = "idle"
             /\ UNCHANGED biometrics
    <2>1. n \in Given({"nonce"}) /\ req[n].on = req'[r].on
      BY <1>0, <1>1 DEF Sound, Nonces
    <2>2. ~ Made(req, r)
      BY <1>1, ChallengesAssumption DEF Made
    <2>3. ASSUME NEW d \in Devices, biometrics[d] # None PROVE biometrics[d].key # r
      BY <2>2, <2>3, InUseOf DEF KeysMade
    <2>4. ASSUME NEW s \in Requests, req'[s].kind = "signature", req'[s].step # "over"
          PROVE  req'[s].copy.key # r
      <3>1. ASSUME req[s].kind = "signature", req[s].copy = req'[s].copy, req[s].step # "over"
            PROVE  req'[s].copy.key # r
        <4>1. req[s].copy # None
          BY <3>1 DEF Sound, Answering
        <4> QED
          BY <2>2, <3>1, <4>1 DEF KeysMade
      <3> QED
        BY <2>3, <2>4, <3>1, SignatureBegins
    <2> QED
      BY <1>1, <2>1, <2>3, <2>4, GivenKept DEF Sound
  <1>2. CASE req[r].kind = "register" /\ req[r].copy = req'[r].copy /\ req[r].on = req'[r].on
    <2>1. n \in Given({"nonce"}) /\ req[n].on = req[r].on
      BY <1>2 DEF Resets
    <2>2. ASSUME NEW d \in Devices, biometrics'[d] # None, biometrics'[d].nonce = n
          PROVE  /\ biometrics'[d].key # r
                 /\ req'[r].step = "selected" => "nonce" \in req'[r].writes
      <3>1. /\ biometrics[d] # None /\ biometrics[d].nonce = n
            /\ \/ biometrics'[d].key = biometrics[d].key
               \/ \E s \in Requests : /\ At(s, {"register"}, "selected") /\ req[s].on = d
                                      /\ "nonce" \notin req[s].writes /\ biometrics'[d].key = s
        BY <2>1, <2>2, OldNonce
      <3>2. /\ biometrics[d].key # r
            /\ req[r].step = "selected" => "nonce" \in req[r].writes
        BY <1>2, <3>1 DEF Resets
      <3>3. biometrics'[d].key # r
        BY <3>1, <3>2 DEF At
      <3>4. ASSUME req'[r].step = "selected", "nonce" \notin req'[r].writes PROVE FALSE
        <4>1. SameRow(r, req[r].on) /\ biometrics[req[r].on].nonce = None
          BY <3>2, <3>4, LeavesOut DEF At
        <4>2. req[n].on = d
          BY <1>0, <3>1 DEF Sound, Nonces
        <4> QED
          BY <1>0, <2>1, <3>1, <4>1, <4>2
      <3> QED
        BY <3>3, <3>4
    <2>3. ASSUME NEW s \in Requests, req'[s].kind = "signature", req'[s].with = n, req'[s].step # "over"
          PROVE  req'[s].copy.key # r
      <3>1. CASE /\ req[s].kind = "signature" /\ req[s].copy = req'[s].copy
                 /\ req[s].with = req'[s].with /\ req[s].step # "over"
        BY <1>2, <2>3, <3>1 DEF Resets
      <3>2. ASSUME NEW d \in Devices, biometrics[d] # None, biometrics[d].nonce = n,
                   biometrics[d].key = req'[s].copy.key
            PROVE  req'[s].copy.key # r
        BY <1>2, <3>2 DEF Resets
      <3> QED
        BY <2>3, <3>1, <3>2, SignatureBegins
    <2>4. n \in Given({"nonce"})' /\ req'[n].on = req'[r].on
      BY <1>2, <2>1, GivenKept DEF Sound
    <2> QED
      BY <2>2, <2>3, <2>4
  <1> QED
    BY <1>1, <1>2, RegisterBegins

\* A nonce that a registration found is never answered with the key it registers.
THEOREM FoundNonceResetHolds == Spec => []FoundNonceReset
  <1>1. Init => Resets
    BY DEF Init, Idle, Resets
  <1>2. Sound /\ Resets => FoundNonceReset
    BY DEF Sound, Answering, Given, Resets, FoundNonceReset, Accepted
  <1> QED
    BY <1>1, <1>2, InitKeys, InitSound, SoundStep, KeysMadeStep, ResetsStep, PTL DEF Spec

(***************************************************************************)
(* Who is online (Presence)                                                *)
(***************************************************************************)

\* Where the connections are.  Only replicas that are up have clients, a listening
\* connection has one, and offline is told by who found the set empty.
Placed ==
  \A s \in Sockets :
    /\ conn[s].stage # "new" => conn[s].at \in Replicas
    /\ Open(s) => conn[s].stage # "new" /\ replica[conn[s].at] = "up"
    /\ conn[s].stage = "listening" => Open(s)
    /\ conn[s].stage = "telling" => conn[s].first

\* A replica knows connections of its own, and while its heart beats every entered one.
Locals ==
  /\ \A r \in Replicas : \A s \in local[r] : conn[s].at = r /\ conn[s].stage # "new"
  /\ \A s \in Sockets : Entered(s) /\ Beating(conn[s].at) => s \in local[conn[s].at]

\* Once nobody is known the key ages with the time that passes.
Ages == ttl <= Ttl - gone /\ (Known # {} => gone = 0)

Holding == {"entered", "announced", "listening", "leaving"}

\* Whose entry is in the set.
Entries ==
  \A s \in store :
    \/ conn[s].stage \in Holding
    \/ s \in astray
    \/ conn[s].stage = "over" /\ replica[conn[s].at] = "dead" /\ lost

Undisturbed == ~lost /\ astray = {}

\* Somebody answers for an online event: he is online, or finds out whether he was the last.
OnlineHasCause ==
  Undisturbed /\ told = "online" =>
    \E s \in Sockets : conn[s].stage \in Holding \cup {"left", "telling"}

\* Somebody will tell that the user is back.
Owes(s) == conn[s].stage \in {"asked", "entered"} /\ conn[s].first

\* Nobody was online when the last offline event came, so the next one who asks knows
\* that he is the first.
Present(s) == s \in store \/ (conn[s].stage = "asked" /\ ~conn[s].first)

ReturnIsTold ==
  Undisturbed /\ ~overtaken /\ told = "offline" /\ (\E s \in Sockets : Present(s)) =>
    \E s \in Sockets : Owes(s)

PresenceInv ==
  /\ PresenceTypeOK /\ Placed /\ Locals /\ Ages /\ Entries
  /\ OnlineHasCause /\ ReturnIsTold

\* The entry of a connection outlives the heartbeats that fail.
Outlives(s) ==
  s \in store /\ ttl >= Ttl - failures - (IF conn[s].at \in due THEN 1 ELSE 0)

Beats == \A s \in Sockets : Entered(s) /\ Beating(conn[s].at) => Outlives(s)

-----------------------------------------------------------------------------
(* What the steps make of the connections *)

\* One connection changes, and where it is does not.
Becomes(s, stage, open, first) ==
  /\ conn' \in [Sockets -> Conn]
  /\ \A t \in Sockets \ {s} : conn'[t] = conn[t]
  /\ conn'[s].stage = stage /\ conn'[s].at = conn[s].at
  /\ conn'[s].open = open /\ conn'[s].first = first

LEMMA ConnectTurns ==
  ASSUME PresenceTypeOK, NEW s \in Sockets, NEW r \in Replicas, Connect(s, r)
  PROVE  /\ conn' \in [Sockets -> Conn]
         /\ \A t \in Sockets \ {s} : conn'[t] = conn[t]
         /\ conn'[s] = [stage |-> "asking", at |-> r, open |-> TRUE, first |-> FALSE]
BY DEF PresenceTypeOK, Connect, Conn, Stages

LEMMA AskTurns ==
  ASSUME PresenceTypeOK, NEW s \in Sockets, Ask(s)
  PROVE  \/ Becomes(s, "asked", conn[s].open, store = {}) /\ failures' = failures
         \/ Becomes(s, "over", conn[s].open, conn[s].first) /\ Fails
BY DEF PresenceTypeOK, Ask, Becomes, Conn, Stages

LEMMA RegisterTurns ==
  ASSUME PresenceTypeOK, NEW s \in Sockets, Register(s)
  PROVE  \/ Becomes(s, "entered", conn[s].open, conn[s].first) /\ Added(s)
              /\ failures' = failures /\ astray' = astray
         \/ Becomes(s, "over", conn[s].open, conn[s].first) /\ UNCHANGED redis
              /\ Fails /\ astray' = astray \cup {s}
BY DEF PresenceTypeOK, Register, Becomes, Conn, Stages

LEMMA AnnounceTurns ==
  ASSUME PresenceTypeOK, NEW s \in Sockets, Announce(s)
  PROVE  Becomes(s, "announced", conn[s].open, FALSE)
BY DEF PresenceTypeOK, Announce, Becomes, Conn, Stages

LEMMA ListenTurns ==
  ASSUME PresenceTypeOK, NEW s \in Sockets, Listen(s)
  PROVE  \/ Becomes(s, "listening", TRUE, conn[s].first) /\ Open(s) /\ astray' = astray
         \/ Becomes(s, "over", FALSE, conn[s].first) /\ ~Open(s) /\ astray' = astray \cup {s}
BY DEF PresenceTypeOK, Listen, Becomes, Conn, Stages, Open

LEMMA DisconnectTurns ==
  ASSUME PresenceTypeOK, NEW s \in Sockets, Disconnect(s)
  PROVE  \/ /\ Becomes(s, "leaving", FALSE, conn[s].first)
            /\ conn[s].stage = "listening" /\ Forget(conn[s].at, s)
         \/ /\ Becomes(s, conn[s].stage, FALSE, conn[s].first)
            /\ conn[s].stage # "listening" /\ UNCHANGED local
<1>1. CASE conn[s].stage = "listening"
  <2>1. conn' = [conn EXCEPT ![s].open = FALSE, ![s].stage = "leaving"] /\ Forget(conn[s].at, s)
    BY <1>1 DEF Disconnect
  <2>2. QED
    BY <1>1, <2>1 DEF PresenceTypeOK, Becomes, Conn, Stages
<1>2. CASE conn[s].stage # "listening"
  <2>1. conn' = [conn EXCEPT ![s].open = FALSE] /\ UNCHANGED local
    BY <1>2 DEF Disconnect
  <2>2. conn \in [Sockets -> Conn]
    BY DEF PresenceTypeOK
  <2>3. Becomes(s, conn[s].stage, FALSE, conn[s].first)
    BY <2>1, <2>2 DEF Becomes, Conn
  <2>4. QED
    BY <1>2, <2>1, <2>3
<1>3. QED
  BY <1>1, <1>2

LEMMA UnregisterTurns ==
  ASSUME PresenceTypeOK, NEW s \in Sockets, Unregister(s)
  PROVE  \/ Becomes(s, "left", conn[s].open, conn[s].first) /\ Removed({s})
              /\ failures' = failures /\ astray' = astray
         \/ Becomes(s, "over", conn[s].open, conn[s].first) /\ UNCHANGED redis
              /\ Fails /\ astray' = astray \cup {s}
BY DEF PresenceTypeOK, Unregister, Becomes, Conn, Stages

LEMMA AskAgainTurns ==
  ASSUME PresenceTypeOK, NEW s \in Sockets, AskAgain(s)
  PROVE  \/ Becomes(s, "telling", conn[s].open, TRUE) /\ store = {}
              /\ failures' = failures /\ astray' = astray
         \/ Becomes(s, "over", conn[s].open, FALSE) /\ store # {}
              /\ failures' = failures /\ astray' = astray
         \/ Becomes(s, "over", conn[s].open, conn[s].first)
              /\ Fails /\ astray' = astray \cup {s}
BY DEF PresenceTypeOK, AskAgain, NoneLeft, Becomes, Conn, Stages

LEMMA TellTurns ==
  ASSUME PresenceTypeOK, NEW s \in Sockets, Tell(s)
  PROVE  Becomes(s, "over", conn[s].open, FALSE)
BY DEF PresenceTypeOK, Tell, Becomes, Conn, Stages

\* Of many connections the replica leaves the place and the answers as they are.
Keeps == \A s \in Sockets : conn'[s].at = conn[s].at /\ conn'[s].first = conn[s].first

LEMMA StopTurns ==
  ASSUME PresenceTypeOK, NEW r \in Replicas, Stop(r)
  PROVE  /\ conn' \in [Sockets -> Conn] /\ Keeps
         /\ \A s \in Sockets :
              IF conn[s].at = r
              THEN /\ conn'[s].open = FALSE
                   /\ conn[s].stage = "listening" => conn'[s].stage = "leaving"
                   /\ conn[s].stage # "listening" => conn'[s].stage = conn[s].stage
              ELSE conn'[s] = conn[s]
<1>1. conn' = [s \in Sockets |->
        IF s \notin On(r) THEN conn[s]
        ELSE [conn[s] EXCEPT !.open = FALSE,
                             !.stage = IF @ = "listening" THEN "leaving" ELSE @]]
  BY DEF Stop
<1>2. ASSUME NEW s \in Sockets PROVE
        /\ conn'[s] \in Conn /\ conn'[s].at = conn[s].at /\ conn'[s].first = conn[s].first
        /\ IF conn[s].at = r
           THEN /\ conn'[s].open = FALSE
                /\ conn[s].stage = "listening" => conn'[s].stage = "leaving"
                /\ conn[s].stage # "listening" => conn'[s].stage = conn[s].stage
           ELSE conn'[s] = conn[s]
  <2>1. conn[s] \in Conn
    BY DEF PresenceTypeOK
  <2>2. CASE s \notin On(r)
    BY <1>1, <2>1, <2>2 DEF On
  <2>3. CASE s \in On(r)
    <3>1. conn'[s] = [conn[s] EXCEPT !.open = FALSE,
                        !.stage = IF conn[s].stage = "listening" THEN "leaving" ELSE conn[s].stage]
      BY <1>1, <2>3
    <3>2. QED
      BY <2>1, <2>3, <3>1 DEF On, Conn, Stages
  <2>4. QED
    BY <2>2, <2>3
<1>3. QED
  BY <1>1, <1>2 DEF Keeps

LEMMA ExitTurns ==
  ASSUME PresenceTypeOK, NEW r \in Replicas, Exit(r)
  PROVE  /\ conn' \in [Sockets -> Conn] /\ Keeps
         /\ \A s \in Sockets :
              IF conn[s].at = r
              THEN conn'[s].stage = "over" /\ conn'[s].open = conn[s].open
              ELSE conn'[s] = conn[s]
BY DEF PresenceTypeOK, Exit, On, Keeps, Conn, Stages

LEMMA CrashTurns ==
  ASSUME PresenceTypeOK, NEW r \in Replicas, Crash(r)
  PROVE  /\ conn' \in [Sockets -> Conn] /\ Keeps
         /\ \A s \in Sockets :
              IF conn[s].at = r
              THEN conn'[s].stage = "over" /\ conn'[s].open = FALSE
              ELSE conn'[s] = conn[s]
<1>1. conn' = [s \in Sockets |->
        IF s \in On(r) THEN [conn[s] EXCEPT !.open = FALSE, !.stage = "over"] ELSE conn[s]]
  BY DEF Crash
<1>2. ASSUME NEW s \in Sockets PROVE
        /\ conn'[s] \in Conn /\ conn'[s].at = conn[s].at /\ conn'[s].first = conn[s].first
        /\ IF conn[s].at = r
           THEN conn'[s].stage = "over" /\ conn'[s].open = FALSE
           ELSE conn'[s] = conn[s]
  <2>1. conn[s] \in Conn
    BY DEF PresenceTypeOK
  <2>2. QED
    BY <1>1, <2>1 DEF On, Conn, Stages
<1>3. QED
  BY <1>1, <1>2 DEF Keeps

-----------------------------------------------------------------------------
(* Types *)

\* What a stopping registry does to the set and to what the replicas know, rejected or not.
LEMMA RegistryStops ==
  ASSUME PresenceTypeOK, NEW r \in Replicas, StopRegistry(r)
  PROVE  /\ \E S \in SUBSET local[r] : Removed(S)
         /\ store' \subseteq store /\ (ttl' = ttl \/ ttl' = 0)
         /\ \A q \in Replicas : q # r => local'[q] = local[q]
         /\ \A q \in Replicas : local'[q] \subseteq local[q]
<1>1. \E S \in SUBSET local[r] : Removed(S)
  BY DEF StopRegistry
<1>2. local' = local \/ local' = [local EXCEPT ![r] = {}]
  BY DEF StopRegistry
<1>3. store' \subseteq store /\ (ttl' = ttl \/ ttl' = 0)
  BY <1>1 DEF Removed
<1>4. \A q \in Replicas : (q # r => local'[q] = local[q]) /\ local'[q] \subseteq local[q]
  BY <1>2 DEF PresenceTypeOK
<1>5. QED
  BY <1>1, <1>3, <1>4

LEMMA PresenceTypeStep == PresenceTypeOK /\ [PresenceNext]_presenceVars => PresenceTypeOK'
<1> SUFFICES ASSUME PresenceTypeOK, [PresenceNext]_presenceVars PROVE PresenceTypeOK'
  OBVIOUS
<1> USE PresenceAssumption
<1>1. ASSUME NEW s \in Sockets, NEW r \in Replicas, Connect(s, r) PROVE PresenceTypeOK'
  BY <1>1, ConnectTurns DEF Connect, PresenceTypeOK, redis, history
<1>2. ASSUME NEW s \in Sockets, Ask(s) PROVE PresenceTypeOK'
  BY <1>2, AskTurns DEF Ask, Becomes, Fails, PresenceTypeOK, redis, history
<1>3. ASSUME NEW s \in Sockets, Register(s) PROVE PresenceTypeOK'
  <2>1. conn' \in [Sockets -> Conn] /\ local' \in [Replicas -> SUBSET Sockets]
    <3>1. conn' \in [Sockets -> Conn]
      BY <1>3, RegisterTurns DEF Becomes
    <3>2. local' = [local EXCEPT ![conn[s].at] = @ \cup {s}]
      BY <1>3 DEF Register
    <3>3. QED
      BY <3>1, <3>2 DEF PresenceTypeOK
  <2>2. store' \subseteq Sockets /\ ttl' \in 0..Ttl /\ (store' = {} <=> ttl' = 0)
    BY <1>3, RegisterTurns DEF Added, PresenceTypeOK, redis
  <2>3. failures' \in 0..MaxFailures /\ astray' \subseteq Sockets /\ gone' \in 0..Ttl
    BY <1>3, RegisterTurns DEF Register, Fails, PresenceTypeOK
  <2>4. QED
    BY <1>3, <2>1, <2>2, <2>3 DEF Register, PresenceTypeOK
<1>4. ASSUME NEW s \in Sockets, Announce(s) PROVE PresenceTypeOK'
  BY <1>4, AnnounceTurns DEF Announce, Becomes, PresenceTypeOK, redis, Conn
<1>5. ASSUME NEW s \in Sockets, Listen(s) PROVE PresenceTypeOK'
  BY <1>5, ListenTurns DEF Listen, Becomes, PresenceTypeOK, redis
<1>6. ASSUME NEW s \in Sockets, Disconnect(s) PROVE PresenceTypeOK'
  <2>1. conn' \in [Sockets -> Conn]
    BY <1>6, DisconnectTurns DEF Becomes
  <2>2. local' \in [Replicas -> SUBSET Sockets]
    <3>1. local' = local \/ local' = [local EXCEPT ![conn[s].at] = @ \ {s}]
      BY <1>6, DisconnectTurns DEF Forget
    <3>2. QED
      BY <3>1 DEF PresenceTypeOK
  <2>3. QED
    BY <1>6, <2>1, <2>2 DEF Disconnect, PresenceTypeOK, redis, history
<1>7. ASSUME NEW s \in Sockets, Unregister(s) PROVE PresenceTypeOK'
  <2>1. conn' \in [Sockets -> Conn] /\ failures' \in 0..MaxFailures /\ astray' \subseteq Sockets
    <3>1. conn' \in [Sockets -> Conn]
      BY <1>7, UnregisterTurns DEF Becomes
    <3>2. failures' = failures \/ Fails
      BY <1>7, UnregisterTurns
    <3>3. astray' = astray \/ astray' = astray \cup {s}
      BY <1>7, UnregisterTurns
    <3>4. QED
      BY <3>1, <3>2, <3>3 DEF Fails, PresenceTypeOK
  <2>2. store' \subseteq Sockets /\ ttl' \in 0..Ttl /\ (store' = {} <=> ttl' = 0)
    BY <1>7, UnregisterTurns DEF Removed, PresenceTypeOK, redis
  <2>3. QED
    BY <1>7, <2>1, <2>2 DEF Unregister, PresenceTypeOK
<1>8. ASSUME NEW s \in Sockets, AskAgain(s) PROVE PresenceTypeOK'
  <2>1. conn' \in [Sockets -> Conn] /\ failures' \in 0..MaxFailures /\ astray' \subseteq Sockets
    <3>1. conn' \in [Sockets -> Conn]
      BY <1>8, AskAgainTurns DEF Becomes
    <3>2. failures' = failures \/ Fails
      BY <1>8, AskAgainTurns
    <3>3. astray' = astray \/ astray' = astray \cup {s}
      BY <1>8, AskAgainTurns
    <3>4. QED
      BY <3>1, <3>2, <3>3 DEF Fails, PresenceTypeOK
  <2>2. QED
    BY <1>8, <2>1 DEF AskAgain, PresenceTypeOK, redis
<1>9. ASSUME NEW s \in Sockets, Tell(s) PROVE PresenceTypeOK'
  BY <1>9, TellTurns DEF Tell, Becomes, PresenceTypeOK, redis
<1>10. ASSUME NEW r \in Replicas, Stop(r) PROVE PresenceTypeOK'
  BY <1>10, StopTurns DEF Stop, PresenceTypeOK, redis, history
<1>11. ASSUME NEW r \in Replicas, StopRegistry(r) PROVE PresenceTypeOK'
  <2>1. PICK S \in SUBSET local[r] : Removed(S)
    BY <1>11, RegistryStops
  <2>2. store' \subseteq Sockets /\ ttl' \in 0..Ttl /\ (store' = {} <=> ttl' = 0)
    BY <2>1, PresenceAssumption DEF Removed, PresenceTypeOK
  <2>3. local' \in [Replicas -> SUBSET Sockets] /\ failures' \in 0..MaxFailures
    BY <1>11, PresenceAssumption DEF StopRegistry, Fails, PresenceTypeOK
  <2>4. replica' \in [Replicas -> {"up", "stopping", "stopped", "exited", "dead"}]
    BY <1>11 DEF StopRegistry, PresenceTypeOK
  <2>5. lost' \in BOOLEAN
    BY <1>11 DEF StopRegistry, PresenceTypeOK
  <2>6. QED
    BY <1>11, <2>2, <2>3, <2>4, <2>5 DEF StopRegistry, PresenceTypeOK
<1>12. ASSUME NEW r \in Replicas, Exit(r) PROVE PresenceTypeOK'
  BY <1>12, ExitTurns DEF Exit, On, PresenceTypeOK, redis
<1>13. ASSUME NEW r \in Replicas, Crash(r) PROVE PresenceTypeOK'
  BY <1>13, CrashTurns DEF Crash, PresenceTypeOK, redis
<1>14. ASSUME NEW r \in Replicas, Beat(r) PROVE PresenceTypeOK'
  BY <1>14 DEF Beat, Touched, Fails, PresenceTypeOK, history
<1>15. CASE Tick
  <2>1. store' \subseteq Sockets /\ ttl' \in 0..Ttl /\ (store' = {} <=> ttl' = 0)
    BY <1>15 DEF Tick, KeyAges, PresenceTypeOK
  <2>2. due' \subseteq Replicas /\ gone' \in 0..Ttl
    BY <1>15 DEF Tick, PresenceTypeOK
  <2>3. QED
    BY <1>15, <2>1, <2>2 DEF Tick, PresenceTypeOK
<1>16. CASE UNCHANGED presenceVars
  BY <1>16 DEF PresenceTypeOK, presenceVars, redis, history
<1>17. QED
  BY <1>1, <1>2, <1>3, <1>4, <1>5, <1>6, <1>7, <1>8, <1>9, <1>10, <1>11, <1>12,
     <1>13, <1>14, <1>15, <1>16 DEF PresenceNext

-----------------------------------------------------------------------------
(* Places *)

LEMMA PlacedBecomes ==
  ASSUME PresenceTypeOK, Placed, NEW s \in Sockets, replica' = replica,
         conn' \in [Sockets -> Conn],
         \A t \in Sockets \ {s} : conn'[t] = conn[t],
         conn'[s].at = conn[s].at,
         conn[s].stage # "new", conn'[s].stage # "new",
         conn'[s].open = TRUE => conn[s].open = TRUE,
         conn'[s].stage = "listening" => conn'[s].open = TRUE,
         conn'[s].stage = "telling" => conn'[s].first = TRUE
  PROVE  Placed'
<1>1. ASSUME NEW t \in Sockets PROVE
        /\ conn'[t].stage # "new" => conn'[t].at \in Replicas
        /\ conn'[t].open = TRUE => conn'[t].stage # "new" /\ replica'[conn'[t].at] = "up"
        /\ conn'[t].stage = "listening" => conn'[t].open = TRUE
        /\ conn'[t].stage = "telling" => conn'[t].first = TRUE
  <2>1. CASE t = s
    BY <2>1 DEF Placed, Open
  <2>2. CASE t # s
    <3>1. conn'[t] = conn[t] /\ conn[t] \in Conn
      BY <2>2 DEF PresenceTypeOK
    <3>2. QED
      BY <3>1 DEF Placed, Open, Conn
  <2>3. QED
    BY <2>1, <2>2
<1>2. \A t \in Sockets : conn'[t].open \in BOOLEAN /\ conn'[t].first \in BOOLEAN
  BY DEF Conn
<1>3. QED
  BY <1>1, <1>2 DEF Placed, Open

LEMMA PlacedOf ==
  ASSUME PresenceTypeOK, Placed, NEW r \in Replicas,
         conn' \in [Sockets -> Conn], Keeps,
         \A q \in Replicas : q # r => replica'[q] = replica[q],
         \A s \in Sockets :
           IF conn[s].at = r
           THEN /\ conn'[s].open = FALSE /\ conn'[s].stage # "listening"
                /\ conn'[s].stage = "telling" => conn[s].stage = "telling"
           ELSE conn'[s] = conn[s]
  PROVE  Placed'
<1>1. ASSUME NEW s \in Sockets, conn[s].at = r
      PROVE  /\ conn'[s].at = r /\ conn'[s].open = FALSE /\ conn'[s].stage # "listening"
             /\ conn'[s].stage = "telling" => conn'[s].first
  BY <1>1 DEF Keeps, Placed
<1>2. ASSUME NEW s \in Sockets, conn[s].at # r
      PROVE  /\ conn'[s] = conn[s]
             /\ conn[s].at \in Replicas => replica'[conn[s].at] = replica[conn[s].at]
  BY <1>2
<1>3. ASSUME NEW s \in Sockets PROVE
        /\ conn'[s].stage # "new" => conn'[s].at \in Replicas
        /\ Open(s)' => conn'[s].stage # "new" /\ replica'[conn'[s].at] = "up"
        /\ conn'[s].stage = "listening" => Open(s)'
        /\ conn'[s].stage = "telling" => conn'[s].first
  <2>1. CASE conn[s].at = r
    BY <1>1, <2>1 DEF Open
  <2>2. CASE conn[s].at # r
    BY <1>2, <2>2 DEF Placed, Open
  <2>3. QED
    BY <2>1, <2>2
<1>4. QED
  BY <1>3 DEF Placed, Open

LEMMA PlacedStep ==
  PresenceTypeOK /\ Placed /\ [PresenceNext]_presenceVars => Placed'
<1> SUFFICES ASSUME PresenceTypeOK, Placed, [PresenceNext]_presenceVars PROVE Placed'
  OBVIOUS
<1>1. ASSUME NEW s \in Sockets, NEW r \in Replicas, Connect(s, r) PROVE Placed'
  BY <1>1, ConnectTurns DEF Connect, Placed, Open
<1>2. ASSUME NEW s \in Sockets, Ask(s) PROVE Placed'
  <2>1. replica' = replica /\ conn[s].stage = "asking"
    BY <1>2 DEF Ask
  <2>2. ASSUME Becomes(s, "asked", conn[s].open, store = {}) PROVE Placed'
    BY <2>1, <2>2, PlacedBecomes DEF Becomes
  <2>3. ASSUME Becomes(s, "over", conn[s].open, conn[s].first) PROVE Placed'
    BY <2>1, <2>3, PlacedBecomes DEF Becomes
  <2>4. QED
    BY <1>2, <2>2, <2>3, AskTurns
<1>3. ASSUME NEW s \in Sockets, Register(s) PROVE Placed'
  <2>1. replica' = replica /\ conn[s].stage = "asked"
    BY <1>3 DEF Register
  <2>2. ASSUME Becomes(s, "entered", conn[s].open, conn[s].first) PROVE Placed'
    BY <2>1, <2>2, PlacedBecomes DEF Becomes
  <2>3. ASSUME Becomes(s, "over", conn[s].open, conn[s].first) PROVE Placed'
    BY <2>1, <2>3, PlacedBecomes DEF Becomes
  <2>4. QED
    BY <1>3, <2>2, <2>3, RegisterTurns
<1>4. ASSUME NEW s \in Sockets, Announce(s) PROVE Placed'
  <2>1. replica' = replica /\ conn[s].stage = "entered"
    BY <1>4 DEF Announce
  <2>2. QED
    BY <2>1, <1>4, AnnounceTurns, PlacedBecomes DEF Becomes
<1>5. ASSUME NEW s \in Sockets, Listen(s) PROVE Placed'
  <2>1. replica' = replica /\ conn[s].stage = "announced"
    BY <1>5 DEF Listen
  <2>2. QED
    BY <2>1, <1>5, ListenTurns, PlacedBecomes DEF Becomes, Open
<1>6. ASSUME NEW s \in Sockets, Disconnect(s) PROVE Placed'
  <2>1. replica' = replica /\ conn[s].stage # "new"
    BY <1>6 DEF Disconnect, Placed
  <2>2. QED
    <3>1. CASE Becomes(s, "leaving", FALSE, conn[s].first)
      BY <2>1, <3>1, PlacedBecomes DEF Becomes
    <3>2. CASE Becomes(s, conn[s].stage, FALSE, conn[s].first) /\ conn[s].stage # "listening"
      BY <2>1, <3>2, PlacedBecomes DEF Becomes, Placed
    <3>3. QED
      BY <1>6, <3>1, <3>2, DisconnectTurns
<1>7. ASSUME NEW s \in Sockets, Unregister(s) PROVE Placed'
  <2>1. replica' = replica /\ conn[s].stage = "leaving"
    BY <1>7 DEF Unregister
  <2>2. ASSUME Becomes(s, "left", conn[s].open, conn[s].first) PROVE Placed'
    BY <2>1, <2>2, PlacedBecomes DEF Becomes
  <2>3. ASSUME Becomes(s, "over", conn[s].open, conn[s].first) PROVE Placed'
    BY <2>1, <2>3, PlacedBecomes DEF Becomes
  <2>4. QED
    BY <1>7, <2>2, <2>3, UnregisterTurns
<1>8. ASSUME NEW s \in Sockets, AskAgain(s) PROVE Placed'
  <2>1. replica' = replica /\ conn[s].stage = "left"
    BY <1>8 DEF AskAgain
  <2>2. ASSUME Becomes(s, "telling", conn[s].open, TRUE) PROVE Placed'
    BY <2>1, <2>2, PlacedBecomes DEF Becomes
  <2>3. ASSUME Becomes(s, "over", conn[s].open, FALSE) PROVE Placed'
    BY <2>1, <2>3, PlacedBecomes DEF Becomes
  <2>4. ASSUME Becomes(s, "over", conn[s].open, conn[s].first) PROVE Placed'
    BY <2>1, <2>4, PlacedBecomes DEF Becomes
  <2>5. QED
    BY <1>8, <2>2, <2>3, <2>4, AskAgainTurns
<1>9. ASSUME NEW s \in Sockets, Tell(s) PROVE Placed'
  <2>1. replica' = replica /\ conn[s].stage = "telling"
    BY <1>9 DEF Tell
  <2>2. QED
    BY <2>1, <1>9, TellTurns, PlacedBecomes DEF Becomes
<1>10. ASSUME NEW r \in Replicas, Stop(r) PROVE Placed'
  <2>1. \A q \in Replicas : q # r => replica'[q] = replica[q]
    BY <1>10 DEF Stop, PresenceTypeOK
  <2>2. conn' \in [Sockets -> Conn] /\ Keeps
    BY <1>10, StopTurns
  <2>3. ASSUME NEW s \in Sockets PROVE
          IF conn[s].at = r
          THEN /\ conn'[s].open = FALSE /\ conn'[s].stage # "listening"
               /\ conn'[s].stage = "telling" => conn[s].stage = "telling"
          ELSE conn'[s] = conn[s]
    BY <1>10, StopTurns
  <2>4. QED
    BY <2>1, <2>2, <2>3, PlacedOf
<1>11. ASSUME NEW r \in Replicas, StopRegistry(r) PROVE Placed'
  BY <1>11 DEF StopRegistry, PresenceTypeOK, Placed, Open
<1>12. ASSUME NEW r \in Replicas, Exit(r) PROVE Placed'
  <2>1. \A q \in Replicas : q # r => replica'[q] = replica[q]
    BY <1>12 DEF Exit, PresenceTypeOK
  <2>2. ASSUME NEW s \in Sockets, conn[s].at = r PROVE conn'[s].open = FALSE /\ r \in Replicas
    BY <1>12, <2>2, ExitTurns DEF Exit, PresenceTypeOK, Conn, Placed, Open
  <2>3. conn' \in [Sockets -> Conn] /\ Keeps
    BY <1>12, ExitTurns
  <2>4. ASSUME NEW s \in Sockets PROVE
          IF conn[s].at = r
          THEN /\ conn'[s].open = FALSE /\ conn'[s].stage # "listening"
               /\ conn'[s].stage = "telling" => conn[s].stage = "telling"
          ELSE conn'[s] = conn[s]
    BY <1>12, <2>2, ExitTurns
  <2>5. QED
    BY <2>1, <2>3, <2>4, PlacedOf
<1>13. ASSUME NEW r \in Replicas, Crash(r) PROVE Placed'
  <2>1. \A q \in Replicas : q # r => replica'[q] = replica[q]
    BY <1>13 DEF Crash, PresenceTypeOK
  <2>2. conn' \in [Sockets -> Conn] /\ Keeps
    BY <1>13, CrashTurns
  <2>3. ASSUME NEW s \in Sockets PROVE
          IF conn[s].at = r
          THEN /\ conn'[s].open = FALSE /\ conn'[s].stage # "listening"
               /\ conn'[s].stage = "telling" => conn[s].stage = "telling"
          ELSE conn'[s] = conn[s]
    BY <1>13, CrashTurns
  <2>4. QED
    BY <2>1, <2>2, <2>3, PlacedOf
<1>14. ASSUME NEW r \in Replicas, Beat(r) PROVE Placed'
  BY <1>14 DEF Beat, Placed, Open
<1>15. CASE Tick
  BY <1>15 DEF Tick, Placed, Open
<1>16. CASE UNCHANGED presenceVars
  BY <1>16 DEF presenceVars, Placed, Open
<1>17. QED
  BY <1>1, <1>2, <1>3, <1>4, <1>5, <1>6, <1>7, <1>8, <1>9, <1>10, <1>11, <1>12,
     <1>13, <1>14, <1>15, <1>16 DEF PresenceNext

-----------------------------------------------------------------------------
(* What one connection does for the others *)

\* One connection that has begun changes, where it is does not.
Moves(s) ==
  /\ conn' \in [Sockets -> Conn]
  /\ \A t \in Sockets \ {s} : conn'[t] = conn[t]
  /\ conn'[s].at = conn[s].at
  /\ conn[s].stage # "new" /\ conn'[s].stage # "new"

Serves(s) ==
  Ask(s) \/ Register(s) \/ Announce(s) \/ Listen(s)
    \/ Disconnect(s) \/ Unregister(s) \/ AskAgain(s) \/ Tell(s)

LEMMA ServesMoves ==
  ASSUME PresenceTypeOK, Placed, NEW s \in Sockets, Serves(s)
  PROVE  Moves(s) /\ replica' = replica /\ lost' = lost /\ astray \subseteq astray'
<1>1. CASE Ask(s)
  BY <1>1, AskTurns DEF Ask, Becomes, Moves, history
<1>2. CASE Register(s)
  <2>1. conn[s].stage = "asked" /\ replica' = replica /\ lost' = lost
    BY <1>2 DEF Register
  <2>2. QED
    BY <1>2, <2>1, RegisterTurns DEF Becomes, Moves
<1>3. CASE Announce(s)
  BY <1>3, AnnounceTurns DEF Announce, Becomes, Moves
<1>4. CASE Listen(s)
  BY <1>4, ListenTurns DEF Listen, Becomes, Moves
<1>5. CASE Disconnect(s)
  BY <1>5, DisconnectTurns DEF Disconnect, Becomes, Moves, Placed, history
<1>6. CASE Unregister(s)
  <2>1. conn[s].stage = "leaving" /\ replica' = replica /\ lost' = lost
    BY <1>6 DEF Unregister
  <2>2. QED
    BY <1>6, <2>1, UnregisterTurns DEF Becomes, Moves
<1>7. CASE AskAgain(s)
  <2>1. conn[s].stage = "left" /\ replica' = replica /\ lost' = lost
    BY <1>7 DEF AskAgain
  <2>2. QED
    BY <1>7, <2>1, AskAgainTurns DEF Becomes, Moves
<1>8. CASE Tell(s)
  BY <1>8, TellTurns DEF Tell, Becomes, Moves
<1>9. QED
  BY <1>1, <1>2, <1>3, <1>4, <1>5, <1>6, <1>7, <1>8 DEF Serves

-----------------------------------------------------------------------------
(* What a replica knows *)

LEMMA LocalsMoves ==
  ASSUME PresenceTypeOK, Placed, Locals, NEW s \in Sockets, Moves(s), replica' = replica,
         \A r \in Replicas : local'[r] \subseteq Sockets,
         \A r \in Replicas : local'[r] \subseteq local[r] \cup {s},
         \A r \in Replicas : local[r] \subseteq local'[r] \cup {s},
         \A r \in Replicas : s \in local'[r] => conn[s].at = r,
         Entered(s)' /\ Beating(conn[s].at) => s \in local'[conn[s].at]
  PROVE  Locals'
<1>1. ASSUME NEW r \in Replicas, NEW t \in local'[r] PROVE conn'[t].at = r /\ conn'[t].stage # "new"
  <2>1. CASE t = s
    BY <1>1, <2>1 DEF Moves
  <2>2. CASE t # s
    BY <1>1, <2>2 DEF Moves, Locals
  <2>3. QED
    BY <2>1, <2>2
<1>2. ASSUME NEW t \in Sockets, Entered(t)', Beating(conn[t].at)
      PROVE  t \in local'[conn[t].at]
  <2>1. CASE t = s
    BY <1>2, <2>1
  <2>2. CASE t # s
    <3>1. Entered(t) /\ t \in local[conn[t].at]
      BY <1>2, <2>2 DEF Moves, Entered, Locals
    <3>2. conn[t].at \in Replicas
      BY <3>1 DEF Entered, Placed
    <3>3. QED
      BY <2>2, <3>1, <3>2
  <2>3. QED
    BY <2>1, <2>2
<1>3. QED
  BY <1>1, <1>2 DEF Locals, Moves, Beating

LEMMA LocalsStep ==
  PresenceTypeOK /\ Placed /\ Locals /\ [PresenceNext]_presenceVars => Locals'
<1> SUFFICES ASSUME PresenceTypeOK, Placed, Locals, [PresenceNext]_presenceVars PROVE Locals'
  OBVIOUS
<1>1. ASSUME NEW s \in Sockets, NEW r \in Replicas, Connect(s, r) PROVE Locals'
  <2>1. conn[s].stage = "new" /\ local' = local /\ replica' = replica
    BY <1>1 DEF Connect
  <2>2. \A q \in Replicas : s \notin local[q]
    BY <2>1 DEF Locals
  <2>3. conn'[s].stage = "asking" /\ \A t \in Sockets \ {s} : conn'[t] = conn[t]
    <3>1. conn'[s] = [stage |-> "asking", at |-> r, open |-> TRUE, first |-> FALSE]
      BY <1>1, ConnectTurns
    <3>2. QED
      BY <1>1, <3>1, ConnectTurns
  <2>4. \A q \in Replicas : local[q] \subseteq Sockets
    BY DEF PresenceTypeOK
  <2>5. QED
    BY <2>1, <2>2, <2>3, <2>4 DEF Locals, Entered, Beating
<1>2. ASSUME NEW s \in Sockets, Serves(s) PROVE Locals'
  <2>1. Moves(s) /\ replica' = replica
    BY <1>2, ServesMoves
  <2>2. \A r \in Replicas : local[r] \subseteq Sockets /\ (s \in local[r] => conn[s].at = r)
    BY DEF Locals, PresenceTypeOK
  <2>3. conn[s].at \in Replicas
    BY <2>1 DEF Moves, Placed
  <2>4. CASE local' = local /\ (Entered(s)' => Entered(s))
    <3>1. Entered(s)' /\ Beating(conn[s].at) => s \in local'[conn[s].at]
      BY <2>4 DEF Locals
    <3>2. QED
      BY <2>1, <2>2, <2>4, <3>1, LocalsMoves
  <2>5. CASE local' = [local EXCEPT ![conn[s].at] = @ \cup {s}]
    <3>1. \A r \in Replicas :
            /\ local'[r] \subseteq Sockets
            /\ local'[r] \subseteq local[r] \cup {s} /\ local[r] \subseteq local'[r] \cup {s}
            /\ s \in local'[r] => conn[s].at = r
      BY <2>2, <2>5 DEF PresenceTypeOK
    <3>2. s \in local'[conn[s].at]
      BY <2>3, <2>5 DEF PresenceTypeOK
    <3>3. QED
      BY <2>1, <3>1, <3>2, LocalsMoves
  <2>6. CASE local' = [local EXCEPT ![conn[s].at] = @ \ {s}] /\ ~Entered(s)'
    <3>1. \A r \in Replicas :
            /\ local'[r] \subseteq Sockets
            /\ local'[r] \subseteq local[r] \cup {s} /\ local[r] \subseteq local'[r] \cup {s}
            /\ s \in local'[r] => conn[s].at = r
      BY <2>2, <2>6 DEF PresenceTypeOK
    <3>2. QED
      BY <2>1, <2>6, <3>1, LocalsMoves
  <2>7. CASE Register(s)
    BY <1>2, <2>5, <2>7 DEF Register
  <2>8. CASE Disconnect(s)
    <3>1. CASE Becomes(s, "leaving", FALSE, conn[s].first) /\ Forget(conn[s].at, s)
      BY <2>6, <3>1 DEF Forget, Becomes, Entered
    <3>2. CASE Becomes(s, conn[s].stage, FALSE, conn[s].first) /\ UNCHANGED local
      BY <2>4, <3>2 DEF Becomes, Entered
    <3>3. QED
      BY <2>8, <3>1, <3>2, DisconnectTurns
  <2>9. CASE Ask(s)
    BY <2>4, <2>9, AskTurns DEF Ask, Becomes, Entered
  <2>10. CASE Announce(s)
    BY <2>4, <2>10 DEF Announce, Entered
  <2>11. CASE Listen(s)
    BY <2>4, <2>11 DEF Listen, Entered
  <2>12. CASE Unregister(s)
    <3>1. local' = local /\ conn'[s].stage \in {"left", "over"}
      BY <2>12, UnregisterTurns DEF Unregister, Becomes
    <3>2. QED
      BY <2>4, <3>1 DEF Entered
  <2>13. CASE AskAgain(s)
    <3>1. local' = local /\ conn'[s].stage \in {"telling", "over"}
      BY <2>13, AskAgainTurns DEF AskAgain, Becomes
    <3>2. QED
      BY <2>4, <3>1 DEF Entered
  <2>14. CASE Tell(s)
    BY <2>4, <2>14, TellTurns DEF Tell, Becomes, Entered
  <2>15. QED
    BY <1>2, <2>7, <2>8, <2>9, <2>10, <2>11, <2>12, <2>13, <2>14 DEF Serves
<1>3. ASSUME NEW r \in Replicas,
             \A q \in Replicas : q # r => local'[q] = local[q] /\ replica'[q] = replica[q],
             local'[r] \subseteq local[r],
             Keeps,
             \A s \in Sockets : conn[s].stage # "new" => conn'[s].stage # "new",
             \A s \in Sockets : conn[s].at # r => conn'[s] = conn[s],
             \A s \in Sockets :
               conn[s].at = r /\ Entered(s)' /\ Beating(r)' => s \in local'[r]
      PROVE  Locals'
  <2>1. \A t \in Sockets : conn[t].stage # "new" => conn'[t].stage # "new"
    BY <1>3
  <2>2. ASSUME NEW q \in Replicas, NEW s \in local'[q] PROVE conn'[s].at = q /\ conn'[s].stage # "new"
    <3>1. s \in local[q] /\ s \in Sockets
      BY <1>3, <2>2 DEF PresenceTypeOK
    <3>2. QED
      <4>1. conn[s].at = q /\ conn[s].stage # "new"
        BY <3>1 DEF Locals
      <4>2. conn'[s].at = conn[s].at
        BY <1>3, <3>1 DEF Keeps
      <4>3. QED
        BY <2>1, <3>1, <4>1, <4>2
  <2>3. ASSUME NEW s \in Sockets, Entered(s)', Beating(conn[s].at)' PROVE s \in local'[conn'[s].at]
    <3>1. conn'[s].at = conn[s].at
      BY <1>3 DEF Keeps
    <3>2. CASE conn[s].at = r
      BY <1>3, <2>3, <3>1, <3>2
    <3>3. CASE conn[s].at # r
      <4>1. Entered(s) /\ conn[s].at \in Replicas
        BY <1>3, <2>3, <3>3 DEF Entered, Placed
      <4>2. Beating(conn[s].at)
        BY <1>3, <2>3, <3>1, <3>3, <4>1 DEF Beating
      <4>3. QED
        BY <1>3, <3>1, <3>3, <4>1, <4>2 DEF Locals
    <3>4. QED
      BY <3>2, <3>3
  <2>4. QED
    BY <2>2, <2>3 DEF Locals
<1>4. ASSUME NEW r \in Replicas, Stop(r) PROVE Locals'
  <2>1. /\ \A q \in Replicas : q # r => local'[q] = local[q] /\ replica'[q] = replica[q]
        /\ local'[r] = local[r] \ {s \in On(r) : conn[s].stage = "listening"}
        /\ replica[r] = "up"
    BY <1>4 DEF Stop, PresenceTypeOK
  <2>2. ASSUME NEW s \in Sockets, conn[s].at = r, Entered(s)', Beating(r)' PROVE s \in local'[r]
    <3>1. Entered(s) /\ conn[s].stage # "listening"
      BY <1>4, <2>2, StopTurns DEF Entered
    <3>2. s \in local[r]
      BY <2>1, <2>2, <3>1 DEF Beating, Locals
    <3>3. QED
      BY <2>1, <3>1, <3>2
  <2>3. /\ Keeps
        /\ \A s \in Sockets : conn[s].stage # "new" => conn'[s].stage # "new"
        /\ \A s \in Sockets : conn[s].at # r => conn'[s] = conn[s]
    BY <1>4, StopTurns
  <2>4. ASSUME NEW s \in Sockets PROVE
          conn[s].at = r /\ Entered(s)' /\ Beating(r)' => s \in local'[r]
    BY <2>2
  <2>5. local'[r] \subseteq local[r]
    BY <2>1
  <2>6. QED
    BY <1>3, <2>1, <2>3, <2>4, <2>5
<1>5. ASSUME NEW r \in Replicas, StopRegistry(r) PROVE Locals'
  <2>1. /\ \A q \in Replicas : q # r => local'[q] = local[q] /\ replica'[q] = replica[q]
        /\ local'[r] \subseteq local[r] /\ replica'[r] = "stopped" /\ conn' = conn
    BY <1>5, RegistryStops DEF StopRegistry, PresenceTypeOK
  <2>2. QED
    BY <1>3, <2>1 DEF Beating, Keeps
<1>6. ASSUME NEW r \in Replicas, Exit(r) PROVE Locals'
  <2>1. /\ \A q \in Replicas : q # r => local'[q] = local[q] /\ replica'[q] = replica[q]
        /\ local'[r] = {} /\ replica'[r] = "exited"
    BY <1>6 DEF Exit, PresenceTypeOK
  <2>2. QED
    BY <1>3, <1>6, <2>1, ExitTurns DEF Beating
<1>7. ASSUME NEW r \in Replicas, Crash(r) PROVE Locals'
  <2>1. /\ \A q \in Replicas : q # r => local'[q] = local[q] /\ replica'[q] = replica[q]
        /\ local'[r] = {} /\ replica'[r] = "dead"
    BY <1>7 DEF Crash, PresenceTypeOK
  <2>2. /\ Keeps
        /\ \A s \in Sockets : conn[s].stage # "new" => conn'[s].stage # "new"
        /\ \A s \in Sockets : conn[s].at # r => conn'[s] = conn[s]
    BY <1>7, CrashTurns
  <2>3. QED
    BY <1>3, <2>1, <2>2 DEF Beating
<1>8. ASSUME conn' = conn, local' = local, replica' = replica PROVE Locals'
  BY <1>8 DEF Locals, Entered, Beating
<1>9. ASSUME NEW r \in Replicas, Beat(r) PROVE Locals'
  BY <1>8, <1>9 DEF Beat
<1>10. CASE Tick
  BY <1>8, <1>10 DEF Tick
<1>11. CASE UNCHANGED presenceVars
  BY <1>8, <1>11 DEF presenceVars
<1>12. QED
  BY <1>1, <1>2, <1>4, <1>5, <1>6, <1>7, <1>9, <1>10, <1>11 DEF PresenceNext, Serves

-----------------------------------------------------------------------------
(* The age of the key *)

LEMMA AgesStep ==
  PresenceTypeOK /\ Placed /\ Ages /\ [PresenceNext]_presenceVars => Ages'
<1> SUFFICES ASSUME PresenceTypeOK, Placed, Ages, [PresenceNext]_presenceVars PROVE Ages'
  OBVIOUS
<1> USE PresenceAssumption
<1>1. ttl \in 0..Ttl /\ gone \in 0..Ttl /\ Ttl \in Nat
  BY DEF PresenceTypeOK
<1>2. ASSUME ttl' <= ttl, ttl' \in 0..Ttl, gone' = gone,
             \A r \in Replicas : local'[r] \subseteq local[r]
      PROVE  Ages'
  <2>1. Known' \subseteq Known
    BY <1>2 DEF Known
  <2>2. Ttl \in Nat /\ ttl \in Nat /\ gone \in Nat /\ ttl' \in Nat
    BY <1>1, <1>2
  <2>3. ttl' <= Ttl - gone'
    <3>1. ttl' <= ttl /\ gone' = gone /\ ttl <= Ttl - gone
      BY <1>2 DEF Ages
    <3>2. QED
      BY <2>2, <3>1
  <2>4. QED
    BY <1>2, <2>1, <2>3 DEF Ages
<1>3. ASSUME ttl' \in 0..Ttl, gone' = 0 PROVE Ages'
  <2>1. Ttl \in Nat /\ ttl' \in Nat /\ ttl' <= Ttl
    BY <1>1, <1>3
  <2>2. ttl' <= Ttl - gone'
    <3>1. gone' = 0
      BY <1>3
    <3>2. QED
      BY <2>1, <3>1
  <2>3. QED
    BY <1>3, <2>2 DEF Ages
<1>4. ASSUME NEW s \in Sockets, NEW r \in Replicas, Connect(s, r) PROVE Ages'
  BY <1>1, <1>2, <1>4 DEF Connect, redis, history
<1>5. ASSUME NEW s \in Sockets, Register(s) PROVE Ages'
  <2>1. gone' = 0
    BY <1>5 DEF Register
  <2>2. ttl' \in 0..Ttl
    BY <1>1, <1>5 DEF Register, Added, redis
  <2>3. QED
    BY <1>3, <2>1, <2>2
<1>6. ASSUME NEW s \in Sockets, Ask(s) \/ Announce(s) \/ Listen(s) \/ AskAgain(s) \/ Tell(s)
      PROVE  Ages'
  <2>1. ttl' = ttl /\ gone' = gone /\ local' = local
    BY <1>6 DEF Ask, Announce, Listen, AskAgain, Tell, redis, history
  <2>2. QED
    BY <1>1, <1>2, <2>1
<1>7. ASSUME NEW s \in Sockets, Disconnect(s) PROVE Ages'
  <2>1. ttl' = ttl /\ gone' = gone
    BY <1>7 DEF Disconnect, redis, history
  <2>2. \A r \in Replicas : local'[r] \subseteq local[r]
    BY <1>7 DEF Disconnect, Forget, PresenceTypeOK
  <2>3. QED
    BY <1>1, <1>2, <2>1, <2>2
<1>8. ASSUME NEW s \in Sockets, Unregister(s) PROVE Ages'
  <2>1. local' = local /\ gone' = gone
    BY <1>8 DEF Unregister
  <2>2. ttl' = ttl \/ ttl' = 0
    BY <1>8 DEF Unregister, Removed, redis
  <2>3. QED
    BY <1>1, <1>2, <2>1, <2>2
<1>9. ASSUME NEW r \in Replicas, Stop(r) PROVE Ages'
  <2>1. ttl' = ttl /\ gone' = gone
    BY <1>9 DEF Stop, redis, history
  <2>2. \A q \in Replicas : local'[q] \subseteq local[q]
    BY <1>9 DEF Stop, PresenceTypeOK
  <2>3. QED
    BY <1>1, <1>2, <2>1, <2>2
<1>10. ASSUME NEW r \in Replicas, StopRegistry(r) PROVE Ages'
  <2>1. gone' = gone /\ (ttl' = ttl \/ ttl' = 0)
    BY <1>10, RegistryStops DEF StopRegistry, Removed
  <2>2. \A q \in Replicas : local'[q] \subseteq local[q]
    BY <1>10, RegistryStops
  <2>3. QED
    BY <1>1, <1>2, <2>1, <2>2
<1>11. ASSUME NEW r \in Replicas, Exit(r) \/ Crash(r) PROVE Ages'
  <2>1. ttl' = ttl /\ gone' = gone
    BY <1>11 DEF Exit, Crash, redis
  <2>2. \A q \in Replicas : local'[q] \subseteq local[q]
    BY <1>11 DEF Exit, Crash, PresenceTypeOK
  <2>3. QED
    BY <1>1, <1>2, <2>1, <2>2
<1>12. ASSUME NEW r \in Replicas, Beat(r) PROVE Ages'
  <2>1. gone' = gone /\ local' = local
    BY <1>12 DEF Beat, history
  <2>2. CASE local[r] = {}
    BY <1>1, <1>2, <1>12, <2>1, <2>2 DEF Beat
  <2>3. CASE local[r] # {}
    <3>1. gone = 0
      BY <2>3 DEF Ages, Known
    <3>2. ttl' \in 0..Ttl
      BY <1>1, <1>12, <2>3 DEF Beat, Touched
    <3>3. QED
      BY <1>3, <2>1, <3>1, <3>2
  <2>4. QED
    BY <2>2, <2>3
<1>13. CASE Tick
  <2>1. ttl' = (IF ttl = 0 THEN 0 ELSE ttl - 1) /\ local' = local
    BY <1>13 DEF Tick, KeyAges
  <2>2. gone' = IF Known # {} THEN 0 ELSE IF gone = Ttl THEN gone ELSE gone + 1
    BY <1>13 DEF Tick
  <2>3. ttl' <= Ttl - gone'
    BY <1>1, <2>1, <2>2 DEF Ages
  <2>4. Known' = Known
    BY <2>1 DEF Known
  <2>5. QED
    BY <2>2, <2>3, <2>4 DEF Ages
<1>14. CASE UNCHANGED presenceVars
  BY <1>14 DEF presenceVars, Ages, Known, redis, history
<1>15. QED
  BY <1>4, <1>5, <1>6, <1>7, <1>8, <1>9, <1>10, <1>11, <1>12, <1>13, <1>14 DEF PresenceNext

-----------------------------------------------------------------------------
(* Whose entries are in the set *)

LEMMA EntriesMoves ==
  ASSUME PresenceTypeOK, Entries, NEW s \in Sockets, Moves(s), replica' = replica,
         lost' = lost, astray \subseteq astray', store' \subseteq store \cup {s},
         s \in store' => conn'[s].stage \in Holding \/ s \in astray'
  PROVE  Entries'
<1>1. ASSUME NEW t \in store', t # s PROVE
        \/ conn'[t].stage \in Holding
        \/ t \in astray'
        \/ conn'[t].stage = "over" /\ replica'[conn'[t].at] = "dead" /\ lost'
  <2>1. t \in store /\ conn'[t] = conn[t]
    BY <1>1 DEF Moves, PresenceTypeOK
  <2>2. QED
    BY <2>1 DEF Entries
<1>2. QED
  BY <1>1 DEF Entries, Holding

\* A handler that has not registered has no entry, nor has a listener that has removed it.
LEMMA NoEntry ==
  ASSUME Entries, NEW s \in Sockets, conn[s].stage \in {"new", "asking", "asked", "left", "telling"}
  PROVE  s \notin store \/ s \in astray
BY DEF Entries, Holding

LEMMA EntriesStep ==
  PresenceTypeOK /\ Placed /\ Locals /\ Entries /\ [PresenceNext]_presenceVars => Entries'
<1> SUFFICES ASSUME PresenceTypeOK, Placed, Locals, Entries, [PresenceNext]_presenceVars
    PROVE  Entries'
  OBVIOUS
<1>1. ASSUME NEW s \in Sockets, NEW r \in Replicas, Connect(s, r) PROVE Entries'
  <2>1. /\ conn[s].stage = "new" /\ replica' = replica
        /\ store' = store /\ astray' = astray /\ lost' = lost
    BY <1>1 DEF Connect, redis, history
  <2>2. s \notin store \/ s \in astray
    BY <2>1, NoEntry
  <2>3. \A t \in Sockets \ {s} : conn'[t] = conn[t]
    BY <1>1, ConnectTurns
  <2>4. store \subseteq Sockets
    BY DEF PresenceTypeOK
  <2>5. QED
    BY <2>1, <2>2, <2>3, <2>4 DEF Entries, Holding
<1>2. ASSUME NEW s \in Sockets, Serves(s) PROVE Entries'
  <2>1. Moves(s) /\ replica' = replica /\ lost' = lost /\ astray \subseteq astray'
    BY <1>2, ServesMoves
  <2>2. CASE Ask(s)
    <3>1. store' = store /\ conn[s].stage = "asking"
      BY <2>2 DEF Ask, redis
    <3>2. QED
      BY <2>1, <3>1, NoEntry, EntriesMoves
  <2>3. CASE Register(s)
    <3>1. conn[s].stage = "asked"
      BY <2>3 DEF Register
    <3>2. CASE Becomes(s, "entered", conn[s].open, conn[s].first) /\ Added(s)
      BY <2>1, <3>2, EntriesMoves DEF Added, Becomes, Holding
    <3>3. CASE UNCHANGED redis /\ astray' = astray \cup {s}
      BY <2>1, <3>1, <3>3, NoEntry, EntriesMoves DEF redis
    <3>4. QED
      BY <2>3, <3>2, <3>3, RegisterTurns
  <2>4. CASE Announce(s)
    <3>1. store' = store /\ conn'[s].stage = "announced"
      BY <2>4, AnnounceTurns DEF Announce, redis, Becomes
    <3>2. QED
      BY <2>1, <3>1, EntriesMoves DEF Holding
  <2>5. CASE Listen(s)
    <3>1. store' = store /\ (conn'[s].stage = "listening" \/ s \in astray')
      BY <2>5, ListenTurns DEF Listen, redis, Becomes
    <3>2. QED
      BY <2>1, <3>1, EntriesMoves DEF Holding
  <2>6. CASE Disconnect(s)
    <3>1. store' = store /\ astray' = astray
      BY <2>6 DEF Disconnect, redis, history
    <3>2. CASE conn[s].stage = "over"
      <4>1. replica[conn[s].at] = "up"
        BY <2>6 DEF Disconnect
      <4>2. s \in store => s \in astray
        BY <3>2, <4>1 DEF Entries, Holding
      <4>3. QED
        BY <2>1, <3>1, <4>2, EntriesMoves
    <3>3. CASE conn[s].stage # "over"
      <4>1. conn'[s].stage = conn[s].stage \/ conn'[s].stage = "leaving"
        BY <2>6, DisconnectTurns DEF Becomes
      <4>2. s \in store => conn'[s].stage \in Holding \/ s \in astray
        BY <3>3, <4>1 DEF Entries, Holding
      <4>3. QED
        BY <2>1, <3>1, <4>2, EntriesMoves
    <3>4. QED
      BY <3>2, <3>3
  <2>7. CASE Unregister(s)
    <3>1. CASE Removed({s})
      BY <2>1, <3>1, EntriesMoves DEF Removed
    <3>2. CASE UNCHANGED redis /\ astray' = astray \cup {s}
      BY <2>1, <3>2, EntriesMoves DEF redis
    <3>3. QED
      BY <2>7, <3>1, <3>2, UnregisterTurns
  <2>8. CASE AskAgain(s) \/ Tell(s)
    <3>1. store' = store /\ conn[s].stage \in {"left", "telling"}
      BY <2>8 DEF AskAgain, Tell, redis
    <3>2. QED
      BY <2>1, <3>1, NoEntry, EntriesMoves
  <2>9. QED
    BY <1>2, <2>2, <2>3, <2>4, <2>5, <2>6, <2>7, <2>8 DEF Serves
<1>3. ASSUME NEW r \in Replicas, Stop(r) PROVE Entries'
  <2>1. store' = store /\ astray' = astray /\ lost' = lost /\ store \subseteq Sockets
    BY <1>3 DEF Stop, redis, history, PresenceTypeOK
  <2>2. ASSUME NEW s \in store PROVE
          \/ conn'[s].stage \in Holding
          \/ s \in astray'
          \/ conn'[s].stage = "over" /\ replica'[conn'[s].at] = "dead" /\ lost'
    <3>1. CASE conn[s].stage \in Holding
      BY <1>3, <2>1, <3>1, StopTurns DEF Holding
    <3>2. CASE s \in astray
      BY <2>1, <3>2
    <3>3. CASE conn[s].stage = "over" /\ replica[conn[s].at] = "dead" /\ lost
      <4>1. conn[s].at \in Replicas /\ conn[s].at # r
        BY <1>3, <2>1, <3>3 DEF Stop, Placed
      <4>2. conn'[s] = conn[s]
        BY <1>3, <2>1, <4>1, StopTurns
      <4>3. replica'[conn[s].at] = replica[conn[s].at]
        BY <1>3, <4>1 DEF Stop, PresenceTypeOK
      <4>4. QED
        BY <2>1, <3>3, <4>2, <4>3
    <3>4. QED
      BY <3>1, <3>2, <3>3 DEF Entries
  <2>3. QED
    BY <2>1, <2>2 DEF Entries
<1>4. ASSUME NEW r \in Replicas, StopRegistry(r) PROVE Entries'
  <2>1. store' \subseteq store /\ astray' = astray /\ (lost => lost') /\ conn' = conn
        /\ store \subseteq Sockets /\ replica[r] # "dead"
    BY <1>4, RegistryStops DEF StopRegistry, Removed, PresenceTypeOK
  <2>2. \A q \in Replicas : replica[q] = "dead" => replica'[q] = "dead"
    BY <1>4 DEF StopRegistry, PresenceTypeOK
  <2>3. QED
    BY <2>1, <2>2 DEF Entries, Placed
<1>5. ASSUME NEW r \in Replicas, Exit(r) PROVE Entries'
  <2>1. store' = store /\ astray' = astray \cup {s \in On(r) : Busy(s)} /\ (lost => lost')
        /\ store \subseteq Sockets /\ replica[r] = "stopped"
    BY <1>5 DEF Exit, redis, PresenceTypeOK
  <2>2. ASSUME NEW s \in store PROVE
          \/ conn'[s].stage \in Holding
          \/ s \in astray'
          \/ conn'[s].stage = "over" /\ replica'[conn'[s].at] = "dead" /\ lost'
    <3>1. CASE conn[s].at = r
      <4>1. conn[s].stage # "listening"
        BY <2>1, <3>1 DEF Placed, Open
      <4>2. conn[s].stage \in Holding => s \in astray'
        BY <2>1, <3>1, <4>1 DEF On, Busy, Holding
      <4>3. QED
        BY <2>1, <3>1, <4>2 DEF Entries
    <3>2. CASE conn[s].at # r
      <4>1. conn'[s] = conn[s]
        BY <1>5, <2>1, <3>2, ExitTurns
      <4>2. CASE conn[s].stage = "over" /\ replica[conn[s].at] = "dead" /\ lost
        <5>1. conn[s].at \in Replicas
          BY <2>1, <4>2 DEF Placed
        <5>2. replica'[conn[s].at] = "dead"
          BY <1>5, <3>2, <4>2, <5>1 DEF Exit, PresenceTypeOK
        <5>3. QED
          BY <2>1, <4>1, <4>2, <5>2
      <4>3. QED
        BY <2>1, <4>1, <4>2 DEF Entries
    <3>3. QED
      BY <3>1, <3>2
  <2>3. QED
    BY <2>1, <2>2 DEF Entries
<1>6. ASSUME NEW r \in Replicas, Crash(r) PROVE Entries'
  <2>1. store' = store /\ astray' = astray /\ (lost => lost') /\ store \subseteq Sockets
        /\ replica' = [replica EXCEPT ![r] = "dead"]
    BY <1>6 DEF Crash, redis, PresenceTypeOK
  <2>2. ASSUME NEW s \in store PROVE
          \/ conn'[s].stage \in Holding
          \/ s \in astray'
          \/ conn'[s].stage = "over" /\ replica'[conn'[s].at] = "dead" /\ lost'
    <3>1. CASE conn[s].at = r
      <4>1. conn'[s].stage = "over" /\ conn'[s].at = r /\ replica'[r] = "dead"
        BY <1>6, <2>1, <3>1, CrashTurns DEF Keeps, PresenceTypeOK
      <4>2. CASE conn[s].stage = "listening"
        <5>1. Entered(s) /\ replica[r] = "up"
          BY <2>1, <3>1, <4>2 DEF Placed, Open, Entered
        <5>2. s \in local[r]
          BY <2>1, <3>1, <5>1 DEF Locals, Beating
        <5>3. QED
          BY <1>6, <4>1, <5>2 DEF Crash
      <4>3. CASE conn[s].stage \in Holding \ {"listening"}
        <5>1. s \in On(r) /\ Busy(s)
          BY <2>1, <3>1, <4>3 DEF On, Busy, Holding
        <5>2. QED
          BY <1>6, <4>1, <5>1 DEF Crash
      <4>4. QED
        BY <2>1, <4>1, <4>2, <4>3 DEF Entries
    <3>2. CASE conn[s].at # r
      <4>1. conn'[s] = conn[s]
        BY <1>6, <2>1, <3>2, CrashTurns
      <4>2. CASE conn[s].stage = "over" /\ replica[conn[s].at] = "dead" /\ lost
        <5>1. conn[s].at \in Replicas
          BY <2>1, <4>2 DEF Placed
        <5>2. replica'[conn[s].at] = "dead"
          BY <2>1, <3>2, <4>2, <5>1 DEF PresenceTypeOK
        <5>3. QED
          BY <2>1, <4>1, <4>2, <5>2
      <4>3. QED
        BY <2>1, <4>1, <4>2 DEF Entries
    <3>3. QED
      BY <3>1, <3>2
  <2>3. QED
    BY <2>1, <2>2 DEF Entries
<1>7. ASSUME conn' = conn, replica' = replica, lost' = lost, astray' = astray,
             store' \subseteq store
      PROVE  Entries'
  BY <1>7 DEF Entries
<1>8. ASSUME NEW r \in Replicas, Beat(r) PROVE Entries'
  BY <1>7, <1>8 DEF Beat, history
<1>9. CASE Tick
  BY <1>7, <1>9 DEF Tick, KeyAges
<1>10. CASE UNCHANGED presenceVars
  BY <1>7, <1>10 DEF presenceVars, redis, history
<1>11. QED
  BY <1>1, <1>2, <1>3, <1>4, <1>5, <1>6, <1>8, <1>9, <1>10 DEF PresenceNext, Serves

-----------------------------------------------------------------------------
(* What others are told *)

Attending == Holding \cup {"left", "telling"}

LEMMA OnlineMoves ==
  ASSUME OnlineHasCause, NEW s \in Sockets, Moves(s), lost' = lost, astray \subseteq astray',
         Undisturbed' /\ told' = "online" =>
           \/ conn'[s].stage \in Attending
           \/ told = "online" /\ conn[s].stage \notin Attending
           \/ \E t \in Sockets \ {s} : conn[t].stage \in Attending
  PROVE  OnlineHasCause'
<1>1. Undisturbed' => Undisturbed
  BY DEF Undisturbed
<1>2. ASSUME NEW t \in Sockets, t # s, conn[t].stage \in Attending
      PROVE  \E u \in Sockets : conn'[u].stage \in Attending
  BY <1>2 DEF Moves
<1>3. OnlineHasCause <=>
        (Undisturbed /\ told = "online" => \E u \in Sockets : conn[u].stage \in Attending)
  BY DEF OnlineHasCause, Attending
<1>4. OnlineHasCause' <=>
        (Undisturbed' /\ told' = "online" => \E u \in Sockets : conn'[u].stage \in Attending)
  BY DEF OnlineHasCause, Attending, Holding
<1>5. QED
  BY <1>1, <1>2, <1>3, <1>4

LEMMA OnlineStep ==
  /\ PresenceTypeOK /\ Placed /\ Locals /\ Entries /\ OnlineHasCause
  /\ [PresenceNext]_presenceVars
  => OnlineHasCause'
<1> SUFFICES ASSUME PresenceTypeOK, Placed, Locals, Entries, OnlineHasCause,
                    [PresenceNext]_presenceVars
    PROVE  OnlineHasCause'
  OBVIOUS
<1>1. ASSUME NEW s \in Sockets, NEW r \in Replicas, Connect(s, r) PROVE OnlineHasCause'
  <2>1. conn[s].stage = "new" /\ told' = told /\ astray' = astray /\ lost' = lost
    BY <1>1 DEF Connect, history
  <2>2. \A t \in Sockets \ {s} : conn'[t] = conn[t]
    BY <1>1, ConnectTurns
  <2>3. QED
    BY <2>1, <2>2 DEF OnlineHasCause, Undisturbed, Holding
<1>2. ASSUME NEW s \in Sockets, Serves(s) PROVE OnlineHasCause'
  <2>1. Moves(s) /\ lost' = lost /\ astray \subseteq astray'
    BY <1>2, ServesMoves
  <2>2. CASE Ask(s)
    <3>1. told' = told /\ conn[s].stage \notin Attending
      BY <2>2 DEF Ask, Attending, Holding
    <3>2. QED
      BY <2>1, <3>1, OnlineMoves
  <2>3. CASE Register(s)
    <3>1. told' = told /\ conn[s].stage \notin Attending
      BY <2>3 DEF Register, Attending, Holding
    <3>2. QED
      BY <2>1, <3>1, OnlineMoves
  <2>4. CASE Announce(s)
    <3>1. conn'[s].stage \in Attending
      BY <2>4, AnnounceTurns DEF Becomes, Attending, Holding
    <3>2. QED
      BY <2>1, <3>1, OnlineMoves
  <2>5. CASE Listen(s)
    <3>1. conn'[s].stage \in Attending \/ s \in astray'
      BY <2>5, ListenTurns DEF Becomes, Attending, Holding
    <3>2. QED
      BY <2>1, <3>1, OnlineMoves DEF Undisturbed
  <2>6. CASE Disconnect(s)
    <3>1. told' = told
      BY <2>6 DEF Disconnect
    <3>2. conn'[s].stage \in Attending \/ conn[s].stage \notin Attending
      BY <2>6, DisconnectTurns DEF Becomes, Attending, Holding
    <3>3. QED
      <4>1. CASE told = "online" \/ conn'[s].stage \in Attending
        BY <2>1, <3>1, <3>2, <4>1, OnlineMoves
      <4>2. CASE told # "online"
        BY <3>1, <4>2 DEF OnlineHasCause
      <4>3. QED
        BY <4>1, <4>2
  <2>7. CASE Unregister(s)
    <3>1. conn'[s].stage \in Attending \/ s \in astray'
      BY <2>7, UnregisterTurns DEF Becomes, Attending, Holding
    <3>2. QED
      BY <2>1, <3>1, OnlineMoves DEF Undisturbed
  <2>8. CASE AskAgain(s)
    <3>1. CASE Becomes(s, "telling", conn[s].open, TRUE)
      <4>1. conn'[s].stage \in Attending
        BY <3>1 DEF Becomes, Attending, Holding
      <4>2. QED
        BY <2>1, <4>1, OnlineMoves
    <3>2. CASE store # {} /\ astray' = astray
      <4>1. PICK t \in store : TRUE
        BY <3>2
      <4>2. conn[s].stage = "left" /\ t \in Sockets
        BY <2>8 DEF AskAgain, PresenceTypeOK
      <4>3. ASSUME Undisturbed' PROVE t # s /\ conn[t].stage \in Attending
        BY <2>1, <3>2, <4>1, <4>2, <4>3 DEF Undisturbed, Entries, Attending, Holding
      <4>4. QED
        BY <2>1, <4>2, <4>3, OnlineMoves
    <3>3. CASE astray' = astray \cup {s}
      BY <2>1, <3>3, OnlineMoves DEF Undisturbed
    <3>4. QED
      BY <2>8, <3>1, <3>2, <3>3, AskAgainTurns
  <2>9. CASE Tell(s)
    BY <2>9 DEF Tell, OnlineHasCause
  <2>10. QED
    BY <1>2, <2>2, <2>3, <2>4, <2>5, <2>6, <2>7, <2>8, <2>9 DEF Serves
<1>3. ASSUME told' = told, lost => lost', astray \subseteq astray',
             \A s \in Sockets :
               Undisturbed' /\ conn[s].stage \in Attending => conn'[s].stage \in Attending
      PROVE  OnlineHasCause'
  <2>1. Undisturbed' => Undisturbed
    BY <1>3 DEF Undisturbed
  <2>2. QED
    BY <1>3, <2>1 DEF OnlineHasCause, Attending, Holding
<1>4. ASSUME NEW r \in Replicas, Stop(r) PROVE OnlineHasCause'
  <2>1. told' = told /\ lost' = lost /\ astray' = astray
    BY <1>4 DEF Stop, history
  <2>2. ASSUME NEW s \in Sockets, conn[s].stage \in Attending PROVE conn'[s].stage \in Attending
    BY <1>4, <2>2, StopTurns DEF Attending, Holding
  <2>3. QED
    BY <1>3, <2>1, <2>2
<1>5. ASSUME NEW r \in Replicas, StopRegistry(r) PROVE OnlineHasCause'
  BY <1>3, <1>5 DEF StopRegistry
<1>6. ASSUME NEW r \in Replicas, Exit(r) PROVE OnlineHasCause'
  <2>1. /\ told' = told /\ replica[r] = "stopped" /\ astray \subseteq astray'
        /\ lost' = (lost \/ \E s \in On(r) : Busy(s))
    BY <1>6 DEF Exit
  <2>2. ASSUME NEW s \in Sockets, Undisturbed', conn[s].stage \in Attending
        PROVE  conn'[s].stage \in Attending
    <3>1. CASE conn[s].at = r
      <4>1. conn[s].stage # "listening"
        BY <2>1, <3>1 DEF Placed, Open
      <4>2. Busy(s) /\ s \in On(r)
        BY <2>2, <3>1, <4>1 DEF Busy, On, Attending, Holding
      <4>3. QED
        BY <2>1, <2>2, <4>2 DEF Undisturbed
    <3>2. CASE conn[s].at # r
      BY <1>6, <2>2, <3>2, ExitTurns
    <3>3. QED
      BY <3>1, <3>2
  <2>3. QED
    BY <1>3, <2>1, <2>2
<1>7. ASSUME NEW r \in Replicas, Crash(r) PROVE OnlineHasCause'
  <2>1. /\ told' = told /\ astray' = astray
        /\ lost' = (lost \/ local[r] # {} \/ \E s \in On(r) : Busy(s))
    BY <1>7 DEF Crash
  <2>2. ASSUME NEW s \in Sockets, Undisturbed', conn[s].stage \in Attending
        PROVE  conn'[s].stage \in Attending
    <3>1. CASE conn[s].at = r
      <4>1. CASE conn[s].stage = "listening"
        <5>1. s \in local[r]
          BY <3>1, <4>1 DEF Placed, Open, Entered, Beating, Locals
        <5>2. QED
          BY <2>1, <2>2, <5>1 DEF Undisturbed
      <4>2. CASE conn[s].stage # "listening"
        <5>1. Busy(s) /\ s \in On(r)
          BY <2>2, <3>1, <4>2 DEF Busy, On, Attending, Holding
        <5>2. QED
          BY <2>1, <2>2, <5>1 DEF Undisturbed
      <4>3. QED
        BY <4>1, <4>2
    <3>2. CASE conn[s].at # r
      BY <1>7, <2>2, <3>2, CrashTurns
    <3>3. QED
      BY <3>1, <3>2
  <2>3. QED
    BY <1>3, <2>1, <2>2
<1>8. ASSUME NEW r \in Replicas, Beat(r) PROVE OnlineHasCause'
  BY <1>3, <1>8 DEF Beat, history
<1>9. CASE Tick
  BY <1>3, <1>9 DEF Tick
<1>10. CASE UNCHANGED presenceVars
  BY <1>3, <1>10 DEF presenceVars, history
<1>11. QED
  BY <1>1, <1>2, <1>4, <1>5, <1>6, <1>7, <1>8, <1>9, <1>10 DEF PresenceNext, Serves

LEMMA ReturnMoves ==
  ASSUME PresenceTypeOK, ReturnIsTold, NEW s \in Sockets, Moves(s), lost' = lost,
         astray \subseteq astray', store' \subseteq store \cup {s},
         told' = "offline" => told = "offline",
         told' = "offline" /\ ~overtaken' => ~overtaken,
         Undisturbed' /\ Owes(s) => Owes(s)',
         Undisturbed' /\ Present(s)' => Owes(s)' \/ \E t \in Sockets : Present(t)
  PROVE  ReturnIsTold'
<1> SUFFICES ASSUME Undisturbed', ~overtaken', told' = "offline", NEW t \in Sockets, Present(t)'
    PROVE  \E u \in Sockets : Owes(u)'
  BY DEF ReturnIsTold
<1>1. Undisturbed
  BY DEF Undisturbed
<1>2. \A u \in Sockets \ {s} : conn'[u] = conn[u]
  BY DEF Moves
<1>3. Owes(s)' \/ \E u \in Sockets : Present(u)
  <2>1. CASE t = s
    BY <2>1
  <2>2. CASE t # s
    BY <1>2, <2>2 DEF Present
  <2>3. QED
    BY <2>1, <2>2
<1>4. Owes(s)' \/ \E u \in Sockets : Owes(u)
  BY <1>1, <1>3 DEF ReturnIsTold
<1>5. ASSUME NEW u \in Sockets, Owes(u) PROVE Owes(u)' \/ Owes(s)'
  <2>1. CASE u = s
    BY <1>5, <2>1
  <2>2. CASE u # s
    BY <1>2, <1>5, <2>2 DEF Owes
  <2>3. QED
    BY <2>1, <2>2
<1>6. QED
  BY <1>4, <1>5

LEMMA ReturnStep ==
  /\ PresenceTypeOK /\ Placed /\ ReturnIsTold /\ [PresenceNext]_presenceVars
  => ReturnIsTold'
<1> SUFFICES ASSUME PresenceTypeOK, Placed, ReturnIsTold, [PresenceNext]_presenceVars
    PROVE  ReturnIsTold'
  OBVIOUS
<1>1. ASSUME NEW s \in Sockets, NEW r \in Replicas, Connect(s, r) PROVE ReturnIsTold'
  <2>1. /\ conn[s].stage = "new" /\ told' = told /\ store' = store
        /\ astray' = astray /\ lost' = lost /\ overtaken' = overtaken
    BY <1>1 DEF Connect, redis, history
  <2>2. \A t \in Sockets \ {s} : conn'[t] = conn[t]
    BY <1>1, ConnectTurns
  <2>3. conn'[s].stage = "asking"
    <3>1. conn'[s] = [stage |-> "asking", at |-> r, open |-> TRUE, first |-> FALSE]
      BY <1>1, ConnectTurns
    <3>2. QED
      BY <3>1
  <2>4. \A t \in Sockets : (Present(t)' => Present(t)) /\ (Owes(t) => Owes(t)')
    BY <2>1, <2>2, <2>3 DEF Present, Owes
  <2>5. QED
    BY <2>1, <2>4 DEF ReturnIsTold, Undisturbed
<1>2. ASSUME NEW s \in Sockets, Serves(s) PROVE ReturnIsTold'
  <2>1. Moves(s) /\ lost' = lost /\ astray \subseteq astray'
    BY <1>2, ServesMoves
  <2>2. CASE Ask(s)
    <3>1. told' = told /\ store' = store /\ overtaken' = overtaken /\ ~Owes(s)
      BY <2>2 DEF Ask, redis, history, Owes
    <3>2. CASE Becomes(s, "asked", conn[s].open, store = {})
      <4>1. conn'[s].stage = "asked" /\ conn'[s].first = (store = {})
        BY <3>2 DEF Becomes
      <4>2. CASE store = {}
        <5>1. Owes(s)'
          BY <4>1, <4>2 DEF Owes
        <5>2. QED
          BY <2>1, <3>1, <5>1, ReturnMoves
      <4>3. CASE store # {}
        <5>1. \E t \in Sockets : Present(t)
          BY <4>3 DEF Present, PresenceTypeOK
        <5>2. QED
          BY <2>1, <3>1, <5>1, ReturnMoves
      <4>4. QED
        BY <4>2, <4>3
    <3>3. CASE Becomes(s, "over", conn[s].open, conn[s].first)
      <4>1. Present(s)' => Present(s)
        BY <3>1, <3>3 DEF Present, Becomes
      <4>2. QED
        BY <2>1, <3>1, <4>1, ReturnMoves
    <3>4. QED
      BY <2>2, <3>2, <3>3, AskTurns
  <2>3. CASE Register(s)
    <3>1. told' = told /\ overtaken' = overtaken /\ conn[s].stage = "asked"
      BY <2>3 DEF Register
    <3>2. CASE Becomes(s, "entered", conn[s].open, conn[s].first) /\ Added(s)
      <4>1. conn'[s].stage = "entered" /\ conn'[s].first = conn[s].first
        BY <3>2 DEF Becomes
      <4>2. Owes(s) => Owes(s)'
        BY <4>1 DEF Owes
      <4>3. Owes(s) \/ Present(s)
        BY <3>1 DEF Owes, Present
      <4>4. store' \subseteq store \cup {s}
        BY <3>2 DEF Added
      <4>5. QED
        BY <2>1, <3>1, <4>2, <4>3, <4>4, ReturnMoves
    <3>3. CASE UNCHANGED redis /\ astray' = astray \cup {s}
      <4>1. store' = store /\ ~Undisturbed'
        BY <3>3 DEF redis, Undisturbed
      <4>2. QED
        BY <4>1 DEF ReturnIsTold
    <3>4. QED
      BY <2>3, <3>2, <3>3, RegisterTurns
  <2>4. CASE Announce(s)
    <3>1. store' = store /\ conn[s].stage = "entered"
      BY <2>4 DEF Announce, redis
    <3>2. conn'[s].stage = "announced"
      BY <2>4, AnnounceTurns DEF Becomes
    <3>3. CASE conn[s].first
      <4>1. told' = "online"
        BY <2>4, <3>3 DEF Announce
      <4>2. QED
        BY <4>1 DEF ReturnIsTold
    <3>4. CASE ~conn[s].first
      <4>1. told' = told /\ (overtaken => overtaken')
        BY <2>4, <3>4 DEF Announce
      <4>2. (Present(s)' => Present(s)) /\ ~Owes(s)
        BY <3>1, <3>2, <3>4 DEF Present, Owes
      <4>3. QED
        BY <2>1, <3>1, <4>1, <4>2, ReturnMoves
    <3>5. QED
      BY <3>3, <3>4
  <2>5. CASE Listen(s) \/ Disconnect(s) \/ Unregister(s) \/ AskAgain(s)
    <3>1. told' = told /\ overtaken' = overtaken
      BY <2>5 DEF Listen, Disconnect, Unregister, AskAgain, history
    <3>2. store' \subseteq store
      BY <2>5 DEF Listen, Disconnect, Unregister, AskAgain, Removed, redis
    <3>3. CASE Disconnect(s)
      <4>1. CASE conn'[s].stage = "leaving" /\ conn[s].stage = "listening"
        BY <2>1, <3>1, <3>2, <4>1, ReturnMoves DEF Present, Owes
      <4>2. CASE conn'[s].stage = conn[s].stage /\ conn'[s].first = conn[s].first
        <5>1. (Present(s)' => Present(s)) /\ (Owes(s) => Owes(s)')
          BY <3>2, <4>2 DEF Present, Owes
        <5>2. QED
          BY <2>1, <3>1, <3>2, <5>1, ReturnMoves
      <4>3. QED
        BY <3>3, <4>1, <4>2, DisconnectTurns DEF Becomes
    <3>4. CASE ~Disconnect(s)
      <4>1. conn[s].stage \in {"announced", "leaving", "left"}
        BY <2>5, <3>4 DEF Listen, Unregister, AskAgain
      <4>2. conn'[s].stage \in {"listening", "over", "left", "telling"}
        BY <2>5, <3>4, ListenTurns, UnregisterTurns, AskAgainTurns DEF Becomes
      <4>3. (Present(s)' => Present(s)) /\ ~Owes(s)
        BY <3>2, <4>1, <4>2 DEF Present, Owes
      <4>4. QED
        BY <2>1, <3>1, <3>2, <4>3, ReturnMoves
    <3>5. QED
      BY <3>3, <3>4
  <2>6. CASE Tell(s)
    <3>1. conn[s].first /\ conn[s].stage = "telling" /\ store' = store
      BY <2>6 DEF Tell, Placed, redis
    <3>2. ASSUME ~overtaken', NEW t \in Sockets PROVE ~Present(t)'
      <4>1. t \notin store /\ ~(conn[t].stage = "asked" /\ ~conn[t].first)
        BY <2>6, <3>1, <3>2 DEF Tell
      <4>2. CASE t = s
        BY <2>6, <3>1, <4>1, <4>2, TellTurns DEF Present, Becomes
      <4>3. CASE t # s
        BY <2>1, <3>1, <4>1, <4>3 DEF Present, Moves
      <4>4. QED
        BY <4>2, <4>3
    <3>3. QED
      BY <3>2 DEF ReturnIsTold
  <2>7. QED
    BY <1>2, <2>2, <2>3, <2>4, <2>5, <2>6 DEF Serves
<1>3. ASSUME told' = told, overtaken' = overtaken, lost => lost', astray \subseteq astray',
             \A s \in Sockets : Present(s)' => Present(s),
             \A s \in Sockets : Undisturbed' /\ Owes(s) => Owes(s)'
      PROVE  ReturnIsTold'
  <2>1. Undisturbed' => Undisturbed
    BY <1>3 DEF Undisturbed
  <2>2. QED
    BY <1>3, <2>1 DEF ReturnIsTold
<1>4. ASSUME NEW r \in Replicas, Stop(r) PROVE ReturnIsTold'
  <2>1. /\ told' = told /\ lost' = lost /\ astray' = astray
        /\ overtaken' = overtaken /\ store' = store
    BY <1>4 DEF Stop, history, redis
  <2>2. ASSUME NEW s \in Sockets
        PROVE  (Present(s)' => Present(s)) /\ (Owes(s) => Owes(s)')
    <3>1. conn'[s].first = conn[s].first
      BY <1>4, StopTurns DEF Keeps
    <3>2. \/ conn'[s].stage = conn[s].stage
          \/ conn'[s].stage = "leaving" /\ conn[s].stage = "listening"
      BY <1>4, StopTurns
    <3>3. QED
      BY <2>1, <3>1, <3>2 DEF Present, Owes
  <2>3. QED
    BY <1>3, <2>1, <2>2
<1>5. ASSUME NEW r \in Replicas, StopRegistry(r) PROVE ReturnIsTold'
  <2>1. /\ told' = told /\ astray' = astray /\ overtaken' = overtaken /\ (lost => lost')
        /\ store' \subseteq store /\ conn' = conn
    BY <1>5, RegistryStops DEF StopRegistry, Removed
  <2>2. QED
    BY <1>3, <2>1 DEF Present, Owes
<1>6. ASSUME NEW r \in Replicas, Exit(r) \/ Crash(r) PROVE ReturnIsTold'
  <2>1. /\ told' = told /\ astray \subseteq astray' /\ overtaken' = overtaken /\ store' = store
        /\ (lost => lost') /\ ((\E s \in On(r) : Busy(s)) => lost')
    BY <1>6 DEF Exit, Crash, redis
  <2>2. ASSUME NEW s \in Sockets
        PROVE  conn'[s] = conn[s] \/ (conn[s].at = r /\ conn'[s].stage = "over")
    BY <1>6, ExitTurns, CrashTurns
  <2>3. ASSUME NEW s \in Sockets PROVE Present(s)' => Present(s)
    BY <2>1, <2>2 DEF Present
  <2>4. ASSUME NEW s \in Sockets, Undisturbed', Owes(s) PROVE Owes(s)'
    <3>1. CASE conn'[s] = conn[s]
      BY <2>4, <3>1 DEF Owes
    <3>2. CASE conn[s].at = r
      BY <2>1, <2>4, <3>2 DEF Owes, Busy, On, Undisturbed
    <3>3. QED
      BY <2>2, <3>1, <3>2
  <2>5. QED
    BY <1>3, <2>1, <2>3, <2>4
<1>7. ASSUME NEW r \in Replicas, Beat(r) PROVE ReturnIsTold'
  BY <1>3, <1>7 DEF Beat, history, Present, Owes
<1>8. CASE Tick
  BY <1>3, <1>8 DEF Tick, KeyAges, Present, Owes
<1>9. CASE UNCHANGED presenceVars
  BY <1>3, <1>9 DEF presenceVars, history, redis, Present, Owes
<1>10. QED
  BY <1>1, <1>2, <1>4, <1>5, <1>6, <1>7, <1>8, <1>9 DEF PresenceNext, Serves

-----------------------------------------------------------------------------
(* The heartbeats *)

LEMMA FailureKept ==
  ASSUME PresenceTypeOK, [PresenceNext]_presenceVars
  PROVE  failures' = failures \/ failures' = failures + 1
<1>1. ASSUME NEW s \in Sockets, Serves(s) PROVE failures' = failures \/ failures' = failures + 1
  BY <1>1 DEF Serves, Ask, Register, Announce, Listen, Disconnect, Unregister, AskAgain, Tell, Fails
<1>2. ASSUME NEW r \in Replicas,
             Stop(r) \/ StopRegistry(r) \/ Exit(r) \/ Crash(r) \/ Beat(r)
      PROVE  failures' = failures \/ failures' = failures + 1
  BY <1>2 DEF Stop, StopRegistry, Exit, Crash, Beat, Fails
<1>3. QED
  BY <1>1, <1>2 DEF PresenceNext, Serves, Connect, Tick, presenceVars

LEMMA OutlivesStays ==
  ASSUME PresenceTypeOK, NEW s \in Sockets, Outlives(s),
         conn'[s].at = conn[s].at, s \in store',
         failures' = failures \/ failures' = failures + 1,
         ttl' = ttl \/ ttl' = Ttl,
         conn[s].at \in due => conn[s].at \in due'
  PROVE  Outlives(s)'
<1>1. Ttl \in Nat /\ ttl \in Nat /\ failures \in Nat
  BY PresenceAssumption DEF PresenceTypeOK
<1>2. ttl' \in Nat /\ failures' \in Nat /\ ttl' >= Ttl - failures' - 1
  BY <1>1 DEF Outlives
<1>3. ASSUME conn[s].at \notin due' PROVE ttl' >= Ttl - failures' - 0
  <2>1. ttl >= Ttl - failures
    BY <1>1, <1>3 DEF Outlives
  <2>2. QED
    BY <1>1, <2>1
<1>4. QED
  BY <1>2, <1>3 DEF Outlives

\* What is left while only connections and replicas of others change.
LEMMA BeatsStay ==
  ASSUME PresenceTypeOK, Beats, [PresenceNext]_presenceVars,
         ttl' = ttl \/ ttl' = Ttl,
         \A s \in Sockets : Entered(s)' /\ Beating(conn[s].at)' =>
           \/ Outlives(s)'
           \/ /\ Entered(s) /\ Beating(conn[s].at) /\ conn'[s].at = conn[s].at
              /\ s \in store => s \in store'
              /\ conn[s].at \in due => conn[s].at \in due'
  PROVE  Beats'
<1> SUFFICES ASSUME NEW s \in Sockets, Entered(s)', Beating(conn[s].at)' PROVE Outlives(s)'
  BY DEF Beats
<1>1. CASE /\ Entered(s) /\ Beating(conn[s].at) /\ conn'[s].at = conn[s].at
           /\ s \in store => s \in store'
           /\ conn[s].at \in due => conn[s].at \in due'
  <2>1. Outlives(s)
    BY <1>1 DEF Beats
  <2>2. s \in store'
    BY <1>1, <2>1 DEF Outlives
  <2>3. QED
    BY <1>1, <2>1, <2>2, FailureKept, OutlivesStays
<1>2. QED
  BY <1>1

LEMMA BeatsStep ==
  ASSUME MaxFailures + 2 <= Ttl
  PROVE  PresenceTypeOK /\ Placed /\ Locals /\ Beats /\ [PresenceNext]_presenceVars => Beats'
<1> SUFFICES ASSUME PresenceTypeOK, Placed, Locals, Beats, [PresenceNext]_presenceVars
    PROVE  Beats'
  OBVIOUS
<1>1. ASSUME NEW s \in Sockets, NEW r \in Replicas, Connect(s, r) PROVE Beats'
  <2>1. ttl' = ttl /\ store' = store /\ due' = due /\ replica' = replica
    BY <1>1 DEF Connect, redis
  <2>2. \A t \in Sockets \ {s} : conn'[t] = conn[t]
    BY <1>1, ConnectTurns
  <2>3. conn'[s].stage = "asking"
    <3>1. conn'[s] = [stage |-> "asking", at |-> r, open |-> TRUE, first |-> FALSE]
      BY <1>1, ConnectTurns
    <3>2. QED
      BY <3>1
  <2>4. ASSUME NEW t \in Sockets, Entered(t)', Beating(conn[t].at)'
        PROVE  Entered(t) /\ Beating(conn[t].at) /\ conn'[t].at = conn[t].at
    BY <2>1, <2>2, <2>3, <2>4 DEF Entered, Beating
  <2>5. QED
    BY <2>1, <2>4, BeatsStay
<1>2. ASSUME NEW s \in Sockets, Serves(s) PROVE Beats'
  <2>1. Moves(s) /\ replica' = replica
    BY <1>2, ServesMoves
  <2>2. due' = due
    BY <1>2 DEF Serves, Ask, Register, Announce, Listen, Disconnect, Unregister, AskAgain, Tell
  <2>3. ASSUME NEW t \in Sockets, t # s, Entered(t)', Beating(conn[t].at)'
        PROVE  Entered(t) /\ Beating(conn[t].at) /\ conn'[t].at = conn[t].at
    BY <2>1, <2>3 DEF Moves, Entered, Beating
  <2>4. ASSUME ttl' = ttl \/ ttl' = Ttl, store \subseteq store' \cup {s},
               Entered(s)' => Outlives(s)' \/ (Entered(s) /\ (s \in store => s \in store'))
        PROVE  Beats'
    <3>1. conn'[s].at = conn[s].at
      BY <2>1 DEF Moves
    <3>2. ASSUME NEW t \in Sockets, Entered(t)', Beating(conn[t].at)'
          PROVE  \/ Outlives(t)'
                 \/ /\ Entered(t) /\ Beating(conn[t].at) /\ conn'[t].at = conn[t].at
                    /\ t \in store => t \in store'
                    /\ conn[t].at \in due => conn[t].at \in due'
      <4>1. CASE t = s
        BY <2>1, <2>2, <2>4, <3>1, <3>2, <4>1 DEF Beating
      <4>2. CASE t # s
        BY <2>2, <2>3, <2>4, <3>2, <4>2
      <4>3. QED
        BY <4>1, <4>2
    <3>3. QED
      BY <2>4, <3>2, BeatsStay
  <2>5. CASE UNCHANGED redis /\ (Entered(s)' => Entered(s))
    BY <2>4, <2>5 DEF redis
  <2>6. CASE Ask(s)
    BY <2>5, <2>6, AskTurns DEF Ask, Becomes, Entered
  <2>7. CASE Register(s)
    <3>1. CASE Added(s) /\ failures' = failures
      <4>1. ttl' = Ttl /\ s \in store' /\ store \subseteq store' \cup {s}
        BY <3>1 DEF Added
      <4>2. Ttl >= Ttl - failures - 1 /\ Ttl >= Ttl - failures - 0
        BY PresenceAssumption DEF PresenceTypeOK
      <4>3. Outlives(s)'
        <5>1. ttl' >= Ttl - failures' - 1 /\ ttl' >= Ttl - failures' - 0
          BY <3>1, <4>1, <4>2
        <5>2. QED
          BY <4>1, <5>1 DEF Outlives
      <4>4. QED
        BY <2>4, <4>1, <4>3
    <3>2. CASE UNCHANGED redis /\ Becomes(s, "over", conn[s].open, conn[s].first)
      BY <2>5, <3>2 DEF Becomes, Entered
    <3>3. QED
      BY <2>7, <3>1, <3>2, RegisterTurns
  <2>8. CASE Announce(s)
    BY <2>5, <2>8 DEF Announce, Entered
  <2>9. CASE Listen(s)
    BY <2>5, <2>9 DEF Listen, Entered
  <2>10. CASE Disconnect(s)
    <3>1. conn'[s].stage = "leaving" \/ conn'[s].stage = conn[s].stage
      BY <2>10, DisconnectTurns DEF Becomes
    <3>2. QED
      BY <2>5, <2>10, <3>1 DEF Disconnect, Entered
  <2>11. CASE Unregister(s)
    <3>1. ~Entered(s)'
      BY <2>11, UnregisterTurns DEF Becomes, Entered
    <3>2. CASE UNCHANGED redis
      BY <2>5, <3>1, <3>2
    <3>3. CASE Removed({s})
      <4>1. CASE store \subseteq {s}
        <5>1. ASSUME NEW t \in Sockets, Entered(t)', Beating(conn[t].at)' PROVE FALSE
          <6>1. t # s /\ t \in store
            BY <2>3, <3>1, <5>1 DEF Beats, Outlives
          <6>2. QED
            BY <4>1, <6>1
        <5>2. QED
          BY <5>1 DEF Beats
      <4>2. CASE ~(store \subseteq {s})
        <5>1. ttl' = ttl /\ store \subseteq store' \cup {s}
          BY <3>3, <4>2 DEF Removed
        <5>2. QED
          BY <2>4, <3>1, <5>1
      <4>3. QED
        BY <4>1, <4>2
    <3>4. QED
      BY <2>11, <3>2, <3>3, UnregisterTurns
  <2>12. CASE AskAgain(s)
    <3>1. ~Entered(s)'
      BY <2>12, AskAgainTurns DEF Becomes, Entered
    <3>2. QED
      BY <2>5, <2>12, <3>1 DEF AskAgain
  <2>13. CASE Tell(s)
    BY <2>5, <2>13, TellTurns DEF Tell, Becomes, Entered
  <2>14. QED
    BY <1>2, <2>6, <2>7, <2>8, <2>9, <2>10, <2>11, <2>12, <2>13 DEF Serves
<1>3. ASSUME NEW r \in Replicas, Stop(r) PROVE Beats'
  <2>1. /\ ttl' = ttl /\ store' = store /\ due' = due
        /\ replica' = [replica EXCEPT ![r] = "stopping"] /\ replica[r] = "up"
    BY <1>3 DEF Stop, redis
  <2>2. ASSUME NEW t \in Sockets, Entered(t)', Beating(conn[t].at)'
        PROVE  Entered(t) /\ Beating(conn[t].at) /\ conn'[t].at = conn[t].at
    <3>1. conn'[t].at = conn[t].at /\ Entered(t)
      BY <1>3, <2>2, StopTurns DEF Keeps, Entered
    <3>2. conn[t].at \in Replicas
      BY <3>1 DEF Entered, Placed
    <3>3. QED
      BY <2>1, <2>2, <3>1, <3>2 DEF Beating, PresenceTypeOK
  <2>3. QED
    BY <2>1, <2>2, BeatsStay
<1>4. ASSUME NEW r \in Replicas, StopRegistry(r) PROVE Beats'
  <2>0. PICK S \in SUBSET local[r] : Removed(S)
    BY <1>4, RegistryStops
  <2>1. /\ conn' = conn /\ due' = due \ {r}
        /\ \A q \in Replicas : q # r => replica'[q] = replica[q]
        /\ replica'[r] = "stopped"
    BY <1>4 DEF StopRegistry, PresenceTypeOK
  <2>2. ASSUME NEW t \in Sockets, Entered(t)', Beating(conn[t].at)'
        PROVE  /\ Entered(t) /\ Beating(conn[t].at) /\ conn'[t].at = conn[t].at
               /\ conn[t].at # r /\ t \in store /\ t \notin S
    <3>1. conn'[t].at = conn[t].at /\ Entered(t)
      BY <2>1, <2>2 DEF Entered
    <3>2. conn[t].at \in Replicas
      BY <3>1 DEF Entered, Placed
    <3>3. conn[t].at # r /\ Beating(conn[t].at)
      BY <2>1, <2>2, <3>1, <3>2 DEF Beating
    <3>4. QED
      BY <2>0, <3>1, <3>3 DEF Beats, Outlives, Locals
  <2>3. CASE store \subseteq S
    BY <2>2, <2>3 DEF Beats
  <2>4. CASE ~(store \subseteq S)
    <3>1. ttl' = ttl /\ store' = store \ S
      BY <2>0, <2>4 DEF Removed
    <3>2. QED
      BY <2>1, <2>2, <3>1, BeatsStay
  <2>5. QED
    BY <2>3, <2>4
<1>5. ASSUME NEW r \in Replicas, Exit(r) \/ Crash(r) PROVE Beats'
  <2>1. /\ ttl' = ttl /\ store' = store /\ due \ {r} \subseteq due'
        /\ \A q \in Replicas : q # r => replica'[q] = replica[q]
        /\ \A s \in Sockets : conn'[s].at = conn[s].at
        /\ \A s \in Sockets : IF conn[s].at = r THEN conn'[s].stage = "over" ELSE conn'[s] = conn[s]
    <3>1. CASE Exit(r)
      BY <3>1, ExitTurns DEF Exit, redis, PresenceTypeOK, Keeps
    <3>2. CASE Crash(r)
      BY <3>2, CrashTurns DEF Crash, redis, PresenceTypeOK, Keeps
    <3>3. QED
      BY <1>5, <3>1, <3>2
  <2>2. ASSUME NEW t \in Sockets, Entered(t)', Beating(conn[t].at)'
        PROVE  /\ Entered(t) /\ Beating(conn[t].at) /\ conn'[t].at = conn[t].at
               /\ conn[t].at # r
    <3>1. conn'[t].at = conn[t].at /\ conn[t].at # r /\ Entered(t)
      BY <2>1, <2>2 DEF Entered
    <3>2. conn[t].at \in Replicas
      BY <3>1 DEF Entered, Placed
    <3>3. QED
      BY <2>1, <2>2, <3>1, <3>2 DEF Beating
  <2>3. QED
    BY <2>1, <2>2, BeatsStay
<1>6. ASSUME NEW r \in Replicas, Beat(r) PROVE Beats'
  <2>1. /\ conn' = conn /\ replica' = replica /\ store' = store /\ due' = due \ {r}
    BY <1>6 DEF Beat
  <2>2. Ttl \in Nat /\ ttl \in Nat /\ failures \in Nat
    BY PresenceAssumption DEF PresenceTypeOK
  <2>3. ASSUME NEW t \in Sockets, Entered(t)', Beating(conn[t].at)' PROVE Outlives(t)'
    <3>1. Entered(t) /\ Beating(conn[t].at) /\ conn'[t].at = conn[t].at
      BY <2>1, <2>3 DEF Entered, Beating
    <3>2. Outlives(t) /\ t \in local[conn[t].at] /\ store # {}
      BY <3>1 DEF Beats, Locals, Outlives
    <3>3. CASE Touched /\ UNCHANGED failures
      <4>1. ttl' = Ttl /\ failures' = failures
        BY <3>2, <3>3 DEF Touched
      <4>2. QED
        BY <2>1, <2>2, <3>2, <4>1 DEF Outlives
    <3>4. CASE Fails /\ UNCHANGED ttl
      <4>1. ttl' = ttl /\ failures' = failures + 1
        BY <3>4 DEF Fails
      <4>2. ttl >= Ttl - failures - 1
        BY <2>2, <3>2 DEF Outlives
      <4>3. ttl' >= Ttl - failures' - 0 /\ ttl' >= Ttl - failures' - 1
        BY <2>2, <4>1, <4>2
      <4>4. QED
        BY <2>1, <3>2, <4>3 DEF Outlives
    <3>5. CASE local[r] = {} /\ UNCHANGED ttl /\ UNCHANGED failures
      <4>1. conn[t].at # r
        BY <3>2, <3>5
      <4>2. QED
        BY <2>1, <3>1, <3>2, <3>5, <4>1, OutlivesStays DEF Outlives
    <3>6. QED
      BY <1>6, <3>3, <3>4, <3>5 DEF Beat
  <2>4. QED
    BY <2>3 DEF Beats
<1>7. CASE Tick
  <2>1. /\ due = {} /\ due' = {r \in Replicas : Beating(r)} /\ KeyAges
        /\ conn' = conn /\ replica' = replica /\ failures' = failures
    BY <1>7 DEF Tick
  <2>2. Ttl \in Nat /\ ttl \in Nat /\ failures \in Nat /\ failures <= MaxFailures /\ MaxFailures \in Nat
    BY PresenceAssumption DEF PresenceTypeOK
  <2>3. ASSUME NEW t \in Sockets, Entered(t)', Beating(conn[t].at)' PROVE Outlives(t)'
    <3>1. Entered(t) /\ Beating(conn[t].at) /\ conn'[t].at = conn[t].at
      BY <2>1, <2>3 DEF Entered, Beating
    <3>2. conn[t].at \in due'
      BY <2>1, <3>1 DEF Entered, Placed
    <3>3. t \in store /\ ttl >= Ttl - failures
      BY <2>1, <2>2, <3>1 DEF Beats, Outlives
    <3>4. ttl >= 2
      BY <2>2, <3>3
    <3>5. store' = store /\ ttl' = ttl - 1
      BY <2>1, <2>2, <3>4 DEF KeyAges
    <3>6. ttl' >= Ttl - failures' - 1
      BY <2>1, <2>2, <3>3, <3>5
    <3>7. QED
      BY <3>1, <3>2, <3>3, <3>5, <3>6 DEF Outlives
  <2>4. QED
    BY <2>3 DEF Beats
<1>8. CASE UNCHANGED presenceVars
  BY <1>8 DEF presenceVars, redis, Beats, Entered, Beating, Outlives
<1>9. QED
  BY <1>1, <1>2, <1>3, <1>4, <1>5, <1>6, <1>7, <1>8 DEF PresenceNext, Serves

-----------------------------------------------------------------------------
(* The theorems *)

LEMMA InitPresenceInv == PresenceInit => PresenceInv /\ Beats
<1> SUFFICES ASSUME PresenceInit PROVE PresenceInv /\ Beats
  OBVIOUS
<1>1. PresenceTypeOK
  <2>1. conn \in [Sockets -> Conn]
    BY DEF PresenceInit, Conn, Stages
  <2>2. ttl \in 0..Ttl /\ gone \in 0..Ttl /\ failures \in 0..MaxFailures
    BY PresenceAssumption DEF PresenceInit
  <2>3. QED
    BY <2>1, <2>2 DEF PresenceInit, PresenceTypeOK
<1>2. \A s \in Sockets :
        conn[s].stage = "new" /\ conn[s].open = FALSE /\ conn[s].first = FALSE
  BY DEF PresenceInit
<1>3. Placed /\ Beats
  BY <1>2 DEF Placed, Open, Beats, Entered
<1>4. Locals
  BY <1>2 DEF PresenceInit, Locals, Entered
<1>5. Ages
  <2>1. ttl = 0 /\ gone = 0 /\ Ttl \in Nat
    BY PresenceAssumption DEF PresenceInit
  <2>2. QED
    BY <2>1 DEF Ages
<1>6. Entries /\ OnlineHasCause
  BY DEF PresenceInit, Entries, OnlineHasCause
<1>7. ReturnIsTold
  BY <1>2 DEF PresenceInit, ReturnIsTold, Present
<1>8. QED
  BY <1>1, <1>3, <1>4, <1>5, <1>6, <1>7 DEF PresenceInv

LEMMA PresenceInvStep == PresenceInv /\ [PresenceNext]_presenceVars => PresenceInv'
BY PresenceTypeStep, PlacedStep, LocalsStep, AgesStep, EntriesStep, OnlineStep, ReturnStep
  DEF PresenceInv

LEMMA PresenceInvariant == PresenceSpec => []PresenceInv
BY InitPresenceInv, PresenceInvStep, PTL DEF PresenceSpec

\* Every variable of Presence has the type of the state it stands for, for any number of
\* connections and replicas and any time to live.
THEOREM PresenceTypeCorrect == PresenceSpec => []PresenceTypeOK
<1>1. PresenceInv => PresenceTypeOK
  BY DEF PresenceInv
<1>2. QED
  BY PresenceInvariant, <1>1, PTL

\* Whatever ends a connection, its entry in the set leaves: with its listener, or with
\* the key, once no replica knows a connection of the user.
THEOREM EntriesLeaveInTheEnd == PresenceSpec => []EntriesLeave
<1>1. PresenceInv => EntriesLeave
  <2> SUFFICES ASSUME PresenceInv PROVE EntriesLeave
    OBVIOUS
  <2>1. EntriesExpire
    <3> SUFFICES ASSUME store # {} PROVE gone < Ttl
      BY DEF EntriesExpire
    <3>1. ttl \in 0..Ttl /\ gone \in 0..Ttl /\ Ttl \in Nat /\ ttl # 0
      BY PresenceAssumption DEF PresenceInv, PresenceTypeOK
    <3>2. ttl <= Ttl - gone
      BY DEF PresenceInv, Ages
    <3>3. QED
      BY <3>1, <3>2
  <2>2. ClosedLeave
    <3> SUFFICES ASSUME NEW s \in store, ~Open(s), replica[conn[s].at] # "dead"
        PROVE  Busy(s) \/ s \in astray
      BY DEF ClosedLeave
    <3>1. s \in Sockets
      BY DEF PresenceInv, PresenceTypeOK
    <3>2. conn[s].stage \in Holding \/ s \in astray
      BY DEF PresenceInv, Entries
    <3>3. conn[s].stage # "listening"
      BY <3>1 DEF PresenceInv, Placed
    <3>4. QED
      BY <3>2, <3>3 DEF Holding, Busy
  <2>3. QED
    BY <2>1, <2>2 DEF EntriesLeave
<1>2. QED
  BY PresenceInvariant, <1>1, PTL

LEMMA BeatsInvariant ==
  ASSUME MaxFailures + 2 <= Ttl
  PROVE  PresenceSpec => [](PresenceInv /\ Beats)
<1>1. PresenceInv /\ Beats /\ [PresenceNext]_presenceVars => (PresenceInv /\ Beats)'
  BY PresenceInvStep, BeatsStep DEF PresenceInv
<1>2. QED
  BY InitPresenceInv, <1>1, PTL DEF PresenceSpec

\* A connected user stays online, whichever connections leave and replicas die, as long
\* as the commands that Redis rejects are at least two fewer than the heartbeats a key
\* lives: every one of them may be a heartbeat.
THEOREM ConnectedUsersStayOnline ==
  ASSUME MaxFailures + 2 <= Ttl
  PROVE  PresenceSpec => []ConnectedStayOnline
<1>1. PresenceInv /\ Beats => ConnectedStayOnline
  BY DEF PresenceInv, Beats, ConnectedStayOnline, Placed, Beating, Outlives, Open
<1>2. QED
  BY BeatsInvariant, <1>1, PTL

\* When all is quiet others were told last what is true of the user, however many
\* connections on however many replicas came and went at once; under the same condition
\* on the commands that fail, without which a connected user may go offline unnoticed.
THEOREM OthersToldRight ==
  ASSUME MaxFailures + 2 <= Ttl
  PROVE  PresenceSpec => []ToldRight
<1>1. PresenceInv /\ Beats => ToldRight
  <2> SUFFICES ASSUME PresenceInv, Beats, \A s \in Sockets : ~Busy(s), ~lost, astray = {}
      PROVE  /\ store = {} => told = "offline"
             /\ store # {} /\ ~overtaken => told = "online"
    BY DEF ToldRight
  <2>1. Undisturbed
    BY DEF Undisturbed
  <2>2. told \in {"online", "offline"}
    BY DEF PresenceInv, PresenceTypeOK
  <2>3. ASSUME told = "online" PROVE store # {}
    <3>1. PICK s \in Sockets : conn[s].stage \in Holding \cup {"left", "telling"}
      BY <2>1, <2>3 DEF PresenceInv, OnlineHasCause
    <3>2. conn[s].stage = "listening"
      BY <3>1 DEF Busy, Holding
    <3>3. Entered(s) /\ Beating(conn[s].at)
      BY <3>2 DEF PresenceInv, Placed, Entered, Beating
    <3>4. QED
      BY <3>3 DEF Beats, Outlives
  <2>4. ASSUME store # {}, ~overtaken PROVE told # "offline"
    <3>1. \E s \in Sockets : Present(s)
      BY <2>4 DEF Present, PresenceInv, PresenceTypeOK
    <3>2. \A s \in Sockets : ~Owes(s)
      BY DEF Owes, Busy
    <3>3. QED
      BY <2>1, <2>4, <3>1, <3>2 DEF PresenceInv, ReturnIsTold
  <2>5. QED
    BY <2>2, <2>3, <2>4
<1>2. QED
  BY BeatsInvariant, <1>1, PTL
=============================================================================

------------------------------ MODULE AuditTrail ------------------------------
(***************************************************************************)
(* The API keys of services and the audit trail: security events become    *)
(* rows of audit_events and then messages to the room of the trail, and a  *)
(* client reads the rows page by page, the newest first, while others are  *)
(* written and old ones are deleted.                                       *)
(*                                                                         *)
(* A row gets its time when its insert starts and is seen when the insert  *)
(* is over; its id is random.  A request that verified a key goes on while *)
(* the time of its last use is written.                                    *)
(***************************************************************************)
EXTENDS Naturals, FiniteSets

CONSTANTS
  Requests,
  Ids,        \* primary keys of the rows; their order is that of the uuids
  PageLimit,  \* rows of a page
  Retention,  \* AUDIT_RETENTION_DAYS, in ticks
  Interval,   \* API_KEY_TOUCH_INTERVAL_MS, in ticks
  MaxTime,    \* bound on the clock
  None

ASSUME AuditTrailAssumption ==
  /\ Ids \subseteq Nat /\ PageLimit \in Nat \ {0}
  /\ Retention \in Nat /\ Interval \in Nat /\ MaxTime \in Nat \ {0}
  /\ None \notin Nat \cup [at : Nat, id : Nat]

VARIABLES
  now,
  key,     \* the row of an API key, or None
  req,     \* requests that use the key or cause events
  events,  \* rows of audit_events
  page,    \* the client that reads the trail
  shown,   \* messages audit:created it got
  began    \* history: the rows that were there when it began

trailVars == <<now, key, req, events, page, shown, began>>

-----------------------------------------------------------------------------
(* Data *)

Times == 0 .. MaxTime

Key == [used : Times \cup {None}, till : Times \cup {None}, revoked : BOOLEAN]

Event == [at : Times, id : Ids]

Kinds == {"none", "revoke", "call", "event"}

\* untold: the insert is in the trail, but its answer was lost; nobody hears of it.
Steps == {"idle", "found", "recording", "stamped", "committed", "untold", "over"}

\* copy: the key it read; at: when; event: the row it inserts.
Request == [kind : Kinds, step : Steps, copy : Key \cup {None}, at : Times,
            event : Event \cup {None}]

Idle == [kind |-> "none", step |-> "idle", copy |-> None, at |-> 0, event |-> None]

AtStep(r, kinds, step) == req[r].kind \in kinds /\ req[r].step = step

Goes(r, step) == req' = [req EXCEPT ![r].step = step]

Ends(r) == req' = [req EXCEPT ![r] = [Idle EXCEPT !.step = "over"]]

\* cursor: the last row read; got: the rows read so far; again: one came twice.
Reading == [step : {"idle", "reading", "over"}, cursor : Event \cup {None},
            got : SUBSET Event, again : BOOLEAN]

Newer(e, f) == e.at > f.at \/ (e.at = f.at /\ e.id > f.id)

TakenIds == {e.id : e \in events} \cup {req[r].event.id : r \in {s \in Requests : req[s].event # None}}

-----------------------------------------------------------------------------
TrailInit ==
  /\ now = 0
  /\ key \in {None} \cup [used : {None}, till : {None, 1}, revoked : {FALSE}]
  /\ req = [r \in Requests |-> Idle]
  /\ events = {}
  /\ page = [step |-> "idle", cursor |-> None, got |-> {}, again |-> FALSE]
  /\ shown = {}
  /\ began = {}

-----------------------------------------------------------------------------
(* ApiKeyService *)

Create(r) ==
  /\ req[r].step = "idle" /\ key = None
  /\ \E till \in {None, now + 1} \cap (Times \cup {None}) :
       key' = [used |-> None, till |-> till, revoked |-> FALSE]
  /\ req' = [req EXCEPT ![r].kind = "event", ![r].step = "recording"]
  /\ UNCHANGED <<now, events, page, shown, began>>

\* revoke: a key that was revoked is left alone.
FindKey(r) ==
  /\ req[r].step = "idle" /\ key # None
  /\ IF key.revoked THEN Ends(r)
       ELSE req' = [req EXCEPT ![r].kind = "revoke", ![r].step = "found"]
  /\ UNCHANGED <<now, key, events, page, shown, began>>

Revoke(r) ==
  /\ AtStep(r, {"revoke"}, "found")
  /\ key' = [key EXCEPT !.revoked = TRUE]
  /\ Goes(r, "recording")
  /\ UNCHANGED <<now, events, page, shown, began>>

Valid(k) == ~k.revoked /\ (k.till = None \/ k.till > now)

\* verify, and whether the last use is to be written
Verify(r) ==
  /\ req[r].step = "idle" /\ key # None
  /\ IF Valid(key) /\ (key.used = None \/ key.used + Interval <= now)
       THEN req' = [req EXCEPT ![r] =
              [Idle EXCEPT !.kind = "call", !.step = "found", !.copy = key, !.at = now]]
       ELSE Ends(r)
  /\ UNCHANGED <<now, key, events, page, shown, began>>

\* Slip: the row that was read is saved.
SavesCopy(r) == key' = [req[r].copy EXCEPT !.used = req[r].at]

\* ApiKeyRepository.touch
Touches(r) ==
  key' = IF key.used = None \/ key.used + Interval < req[r].at
         THEN [key EXCEPT !.used = req[r].at]
         ELSE key

Touch(r) ==
  /\ AtStep(r, {"call"}, "found")
  /\ Touches(r)
  /\ Ends(r)
  /\ UNCHANGED <<now, events, page, shown, began>>

\* The update fails, which is logged.
TouchFails(r) ==
  /\ AtStep(r, {"call"}, "found")
  /\ Ends(r)
  /\ UNCHANGED <<now, key, events, page, shown, began>>

-----------------------------------------------------------------------------
(* AuditListener, AuditService.record and AuditFeedListener *)

\* Any other security event
Happens(r) ==
  /\ req[r].step = "idle"
  /\ req' = [req EXCEPT ![r].kind = "event", ![r].step = "recording"]
  /\ UNCHANGED <<now, key, events, page, shown, began>>

\* The insert starts; created_at is the time of its transaction.
Stamp(r) ==
  /\ AtStep(r, {"event", "revoke"}, "recording")
  /\ \E i \in Ids \ TakenIds :
       req' = [req EXCEPT ![r].step = "stamped", ![r].event = [at |-> now, id |-> i]]
  /\ UNCHANGED <<now, key, events, page, shown, began>>

Commit(r) ==
  /\ AtStep(r, {"event", "revoke"}, "stamped")
  /\ events' = events \cup {req[r].event}
  /\ Goes(r, "committed")
  /\ UNCHANGED <<now, key, page, shown, began>>

\* The insert fails, which is logged; the event is lost.
RecordFails(r) ==
  /\ AtStep(r, {"event", "revoke"}, "stamped")
  /\ Ends(r)
  /\ UNCHANGED <<now, key, events, page, shown, began>>

\* The insert is committed but its answer is lost: to the code it failed.
AnswerLost(r) ==
  /\ AtStep(r, {"event", "revoke"}, "stamped")
  /\ events' = events \cup {req[r].event}
  /\ Goes(r, "untold")
  /\ UNCHANGED <<now, key, page, shown, began>>

\* Those in the room of the trail are told.
ToRoom(e) == IF page.step = "idle" THEN shown ELSE shown \cup {e}

\* AuditRecordedEvent
Tell(r) ==
  /\ AtStep(r, {"event", "revoke"}, "committed")
  /\ shown' = ToRoom(req[r].event)
  /\ Ends(r)
  /\ UNCHANGED <<now, key, events, page, began>>

\* AuditCleanupJob
AuditCleanup ==
  /\ events' = {e \in events : e.at + Retention >= now}
  /\ events' # events
  /\ UNCHANGED <<now, key, req, page, shown, began>>

-----------------------------------------------------------------------------
(* AuditService.list *)

\* Slip: the rows of the cursor's own millisecond are taken for read.
EarlierThan(c) == {e \in events : c # None => e.at < c.at}

\* findFeed
After(c) == {e \in events : c # None => Newer(c, e)}

\* One row more than the page shows that there is a next one.
Rows(c) == {e \in After(c) : Cardinality({f \in After(c) : Newer(f, e)}) < PageLimit + 1}

Shown(c) == {e \in After(c) : Cardinality({f \in After(c) : Newer(f, e)}) < PageLimit}

\* The client joins the room and asks for the first page.
Open ==
  /\ page.step = "idle"
  /\ page' = [page EXCEPT !.step = "reading"]
  /\ began' = events
  /\ UNCHANGED <<now, key, req, events, shown>>

ReadPage ==
  /\ page.step = "reading"
  /\ LET c == page.cursor
         more == Cardinality(Rows(c)) > PageLimit
     IN  page' = [step |-> IF more THEN "reading" ELSE "over",
                  cursor |-> IF more THEN CHOOSE e \in Shown(c) : \A f \in Shown(c) \ {e} : Newer(f, e)
                             ELSE None,
                  got |-> page.got \cup Shown(c),
                  again |-> page.again \/ page.got \cap Shown(c) # {}]
  /\ UNCHANGED <<now, key, req, events, shown, began>>

-----------------------------------------------------------------------------
(* Time, and the whole *)

Tick ==
  /\ now < MaxTime
  /\ now' = now + 1
  /\ UNCHANGED <<key, req, events, page, shown, began>>

TrailNext ==
  \/ \E r \in Requests :
       \/ Create(r) \/ FindKey(r) \/ Revoke(r) \/ Verify(r) \/ Touch(r) \/ TouchFails(r)
       \/ Happens(r) \/ Stamp(r) \/ Commit(r) \/ RecordFails(r) \/ AnswerLost(r)
       \/ Tell(r)
  \/ AuditCleanup \/ Open \/ ReadPage \/ Tick

TrailSpec == TrailInit /\ [][TrailNext]_trailVars

-----------------------------------------------------------------------------
(* Properties *)

TrailTypeOK ==
  /\ now \in Times
  /\ key \in Key \cup {None}
  /\ req \in [Requests -> Request]
  /\ events \subseteq Event
  /\ page \in Reading
  /\ shown \subseteq Event /\ began \subseteq Event

\* A client that has read the trail to its end has seen every row that was there when it
\* began and is still kept, and none of them twice, whatever was inserted and deleted
\* between two pages, rows of the same millisecond included.
PagesComplete ==
  /\ ~page.again
  /\ page.step = "over" => began \cap events \subseteq page.got

\* What the pages do not show of later rows, those that are committed late with an early
\* time included, the room does: once all is told, the client knows every row but those
\* whose insert was taken for failed because its answer was lost.
RoomFillsGaps ==
  page.step = "over" =>
    \A e \in events :
      \/ e \in page.got \cup shown
      \/ \E r \in Requests : req[r].event = e /\ req[r].step \in {"committed", "untold"}

\* The pages and the room together leave nothing out of the trail.
TrailComplete == PagesComplete /\ RoomFillsGaps

\* The uses of a key, written late and in any order, never bring it back once it is
\* revoked, and move the time of its last use only forward, by more than the interval.
KeyRowAdvances ==
  [][key # None =>
       /\ key.revoked => key'.revoked
       /\ key.used # None /\ key'.used # key.used => key'.used > key.used + Interval]_trailVars
=============================================================================

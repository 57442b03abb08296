--------------------------- MODULE FileLifecycle ---------------------------
(***************************************************************************)
(* The life of one file: its row in the database, its objects in the       *)
(* storage and its processing job, and everything that changes them at the *)
(* same time: requests of clients, the hourly and daily jobs, the worker   *)
(* that makes the derivatives, and the client's own PUT to the storage.    *)
(*                                                                         *)
(* Files share nothing but the batches of the periodic jobs, so one file   *)
(* is modelled.  A request or a job is interrupted at its awaits only; the *)
(* database, the storage and the queue change between them.  pg-boss is    *)
(* modelled from how the code uses it: a job is tried RetryLimit + 1 times,*)
(* and an attempt that is given up (expired, or stopped with its process)  *)
(* may leave its handler running.                                          *)
(***************************************************************************)
EXTENDS Naturals

CONSTANTS
  Calls,       \* requests of clients and calls of other modules, one each
  Jobs,        \* the periodic jobs of the module, which start over and over
  RetryLimit   \* retries of file.process

ASSUME FileAssumption == RetryLimit \in Nat /\ Calls \cap Jobs = {}

VARIABLES
  row,       \* the row of table files
  original,  \* the object at the key of the original
  variants,  \* derivatives are stored
  link,      \* a signed PUT link to the original is valid
  old,       \* the row is older than PENDING_UPLOAD_TTL_MS
  used,      \* the profile of the owner shows the file as its avatar
  refused,   \* the local storage is about to remove a PUT of the wrong size
  job,       \* the job file.process of the file
  worker,    \* the handler of each attempt
  proc,      \* the state of each call and periodic job
  past       \* history: see Init

stored == <<original, variants>>
env == <<link, old, used, refused>>
vars == <<row, stored, env, job, worker, proc, past>>

-----------------------------------------------------------------------------

Procs == Calls \cup Jobs
Attempts == 0..RetryLimit

Confirmed == {"processing", "ready", "failed"}

Exists == row.status \notin {"none", "gone"}

At(p, pc) == proc[p] = pc

Goto(p, pc) == proc' = [proc EXCEPT ![p] = pc]

\* A request is made once; a periodic job runs again.
End(p) == Goto(p, IF p \in Jobs THEN "idle" ELSE "done")

\* "past" is history for the properties: how often FileUploadedEvent and
\* FileProcessedEvent were emitted; whether objects were left behind by a storage
\* failure, a crash or a PUT to a deleted file; whether objects of a file that was or
\* was just being confirmed were removed as those of an unconfirmed one, or as an
\* upload of the wrong size.
Init ==
  /\ row = [status |-> "none", owned |-> FALSE, variants |-> FALSE]
  /\ original = "none" /\ variants = FALSE
  /\ link = FALSE /\ old = FALSE /\ used = FALSE /\ refused = FALSE
  /\ job = [state |-> "none", try |-> 0]
  /\ worker = [a \in Attempts |-> [pc |-> "idle", aborted |-> FALSE, failed |-> FALSE]]
  /\ proc = [p \in Procs |-> "idle"]
  /\ past = [uploaded |-> 0, processed |-> 0, leaked |-> FALSE, swept |-> FALSE]

RowGone == [row EXCEPT !.status = "gone"]

Leak == past' = [past EXCEPT !.leaked = TRUE]

\* Objects removed on the assumption that the file is not confirmed.
Sweep ==
  past' = [past EXCEPT !.swept =
    @ \/ row.status \in Confirmed \/ \E c \in Calls : At(c, "confirm")]

-----------------------------------------------------------------------------
(* FileService: creating a file *)

\* createUpload: the row, then the link.
CreateUpload(c) ==
  /\ At(c, "idle") /\ row.status = "none" /\ original = "none"
  /\ row' = [row EXCEPT !.status = "pending", !.owned = TRUE]
  /\ link' = TRUE
  /\ End(c)
  /\ UNCHANGED <<stored, old, used, refused, job, worker, past>>

\* _enqueueProcessing, in the transaction that saves the status.
JobFor(status) ==
  IF status = "processing" THEN [state |-> "created", try |-> 0] ELSE job

\* uploadFile, createFromLocal: the original is stored first.
StoreOriginal(c) ==
  /\ At(c, "idle") /\ row.status = "none" /\ original = "none"
  /\ original' = "good"
  /\ Goto(c, "insert")
  /\ UNCHANGED <<row, variants, env, job, worker, past>>

\* One transaction: the row and, for a medium, the job.  If it fails the object is
\* removed.  Only a file with an owner is announced.
InsertRow(c) ==
  /\ At(c, "insert")
  /\ \/ \E status \in {"processing", "ready"}, owned \in BOOLEAN :
          /\ row' = [status |-> status, owned |-> owned, variants |-> FALSE]
          /\ job' = JobFor(status)
          /\ past' = [past EXCEPT !.uploaded = IF owned THEN @ + 1 ELSE @]
          /\ End(c)
     \/ Goto(c, "removeStored") /\ UNCHANGED <<row, job, past>>
  /\ UNCHANGED <<stored, env, worker>>

-----------------------------------------------------------------------------
(* FileService.completeUpload *)

\* Anything but a pending file of the caller is answered at once.
CompleteUpload(c) ==
  /\ At(c, "idle")
  /\ row.status = "pending" /\ row.owned
  /\ Goto(c, "stat")
  /\ UNCHANGED <<row, stored, env, job, worker, past>>

Stat(c) ==
  /\ At(c, "stat")
  /\ CASE original = "none" -> End(c)
       [] original = "short" -> Goto(c, "dropObject")
       [] OTHER -> Goto(c, "head")
  /\ UNCHANGED <<row, stored, env, job, worker, past>>

\* SIZE_MISMATCH: the object is removed, the row stays.
DropObject(c) ==
  /\ At(c, "dropObject")
  /\ original' = "none"
  /\ Sweep
  /\ End(c)
  /\ UNCHANGED <<row, variants, env, job, worker>>

\* The first bytes are read; a forged signature costs the row.
ReadHead(c) ==
  /\ At(c, "head")
  /\ CASE original = "none" -> End(c)
       [] original = "forged" -> Goto(c, "removeRow")
       [] OTHER -> Goto(c, "confirm")
  /\ UNCHANGED <<row, stored, env, job, worker, past>>

\* Slip: the status is saved whatever it was.
MovesAnyway(from) == Exists

\* transitionStatus: a conditional update.
Moves(from) == row.status = from

\* One transaction: the status and the job; the event if the status was changed.
Confirm(c) ==
  /\ At(c, "confirm")
  /\ IF Moves("pending")
     THEN \E status \in {"processing", "ready"} :
            /\ row' = [row EXCEPT !.status = status]
            /\ job' = JobFor(status)
            /\ past' = [past EXCEPT !.uploaded = @ + 1]
     ELSE UNCHANGED <<row, job, past>>
  /\ End(c)
  /\ UNCHANGED <<stored, env, worker>>

-----------------------------------------------------------------------------
(* Referring to a file, deleting it *)

\* ProfileService.updateProfile: the avatar is a confirmed file of one's own ...
CheckAvatar(c) ==
  /\ At(c, "idle")
  /\ row.status \in {"processing", "ready"} /\ row.owned
  /\ Goto(c, "attach")
  /\ UNCHANGED <<row, stored, env, job, worker, past>>

\* ... when it is checked.  The foreign key refuses a file that is gone by then; with the
\* owner his profile is gone, and nothing is updated.
Attach(c) ==
  /\ At(c, "attach")
  /\ used' = (used \/ (Exists /\ row.owned))
  /\ End(c)
  /\ UNCHANGED <<row, stored, link, old, refused, job, worker, past>>

\* findOrphans
Orphan == ~row.owned /\ row.status # "pending"

\* deleteFile and file.remove take any file, file.gc those that nobody owns.
FindForRemoval(p) ==
  /\ At(p, "idle") /\ Exists
  /\ p \in Jobs => Orphan
  /\ Goto(p, "checkUse")
  /\ UNCHANGED <<row, stored, env, job, worker, past>>

\* FileUsageChecker.inUse
CheckUse(p) ==
  /\ At(p, "checkUse")
  /\ IF used THEN End(p) ELSE Goto(p, "removeRow")
  /\ UNCHANGED <<row, stored, env, job, worker, past>>

\* The row first, then the objects.  A row that is gone already changes nothing; the
\* references to it are set to null.
RemoveRow(p) ==
  /\ At(p, "removeRow")
  /\ row' = (IF Exists THEN RowGone ELSE row) /\ used' = FALSE
  /\ Goto(p, "removeStored")
  /\ UNCHANGED <<stored, link, old, refused, job, worker, past>>

\* _removeStored: a failure is only logged.
RemoveStored(p) ==
  /\ At(p, "removeStored")
  /\ \/ original' = "none" /\ variants' = FALSE /\ UNCHANGED past
     \/ Leak /\ UNCHANGED stored
  /\ End(p)
  /\ UNCHANGED <<row, env, job, worker>>

\* Slip: an upload that was made, but not confirmed, is passed over.
StaleWithoutObject == row.status = "pending" /\ old /\ original = "none"

\* findStalePending
Stale == row.status = "pending" /\ old

\* file.cleanup-pending selects the pending files older than a day ...
FindStale(p) ==
  /\ p \in Jobs /\ At(p, "idle")
  /\ Stale
  /\ Goto(p, "sweep")
  /\ UNCHANGED <<row, stored, env, job, worker, past>>

\* ... and removes the objects, then the row.  A storage failure ends the run.
SweepStored(p) ==
  /\ At(p, "sweep")
  /\ \/ /\ original' = "none" /\ variants' = FALSE
        /\ Sweep
        /\ Goto(p, "sweepRow")
     \/ End(p) /\ UNCHANGED <<stored, past>>
  /\ UNCHANGED <<row, env, job, worker>>

SweepRow(p) ==
  /\ At(p, "sweepRow")
  /\ row' = (IF Exists THEN RowGone ELSE row) /\ used' = FALSE
  /\ End(p)
  /\ UNCHANGED <<stored, link, old, refused, job, worker, past>>

\* The process of a call or job dies, or a query throws.
Abandon(p) ==
  /\ proc[p] \notin {"idle", "done"}
  /\ End(p)
  /\ past' = [past EXCEPT !.leaked = @ \/ proc[p] \in {"insert", "removeStored"}]
  /\ UNCHANGED <<row, stored, env, job, worker>>

-----------------------------------------------------------------------------
(* The queue and the worker: file.process *)

WorkerAt(a, pc) == worker[a].pc = pc

WorkerGoto(a, pc) == worker' = [worker EXCEPT ![a].pc = pc]

\* The job after attempt a ended, if the queue still waits for it.
Outcome(a, next) == IF job = [state |-> "active", try |-> a] THEN next ELSE job

Completed(a) == [state |-> "done", try |-> a]

Failed(a) ==
  IF a < RetryLimit THEN [state |-> "created", try |-> a + 1]
                    ELSE [state |-> "dead", try |-> a]

Fetch ==
  /\ job.state = "created"
  /\ job' = [job EXCEPT !.state = "active"]
  /\ WorkerGoto(job.try, "find")
  /\ UNCHANGED <<row, stored, env, proc, past>>

\* A file that is gone, or processed, is no error.
FindFile(a) ==
  /\ WorkerAt(a, "find")
  /\ IF row.status = "processing"
     THEN WorkerGoto(a, "convert") /\ UNCHANGED job
     ELSE WorkerGoto(a, "done") /\ job' = Outcome(a, Completed(a))
  /\ UNCHANGED <<row, stored, env, proc, past>>

\* The original is fetched and converted.
Convert(a) ==
  /\ WorkerAt(a, "convert") /\ original # "none"
  /\ WorkerGoto(a, "put")
  /\ UNCHANGED <<row, stored, env, job, proc, past>>

\* The derivatives are stored, some or all of them.
PutVariants(a) ==
  /\ WorkerAt(a, "put") /\ ~worker[a].aborted
  /\ variants' = TRUE
  /\ \/ WorkerGoto(a, "ready")
     \/ WorkerGoto(a, "thrown")
  /\ UNCHANGED <<row, original, env, job, proc, past>>

\* Converting or storing fails, or the signal of the attempt is noticed.
Throw(a) ==
  /\ worker[a].pc \in {"convert", "put"}
  /\ WorkerGoto(a, "thrown")
  /\ UNCHANGED <<row, stored, env, job, proc, past>>

\* The last attempt, unless it was aborted, marks the file as failed; the others
\* leave it to the next one.
Catch(a) ==
  /\ WorkerAt(a, "thrown")
  /\ IF worker[a].aborted \/ a < RetryLimit
     THEN WorkerGoto(a, "done") /\ job' = Outcome(a, Failed(a))
     ELSE worker' = [worker EXCEPT ![a].pc = "failed", ![a].failed = TRUE] /\ UNCHANGED job
  /\ UNCHANGED <<row, stored, env, proc, past>>

\* _finish; after a failure the job is not tried again, whatever became of the row.
EndOf(a) == IF worker[a].failed THEN Failed(RetryLimit) ELSE Completed(a)

Finish(a) ==
  /\ worker[a].pc \in {"ready", "failed"}
  /\ IF Moves("processing")
     THEN /\ row' = [row EXCEPT !.status = worker[a].pc,
                                !.variants = WorkerAt(a, "ready")]
          /\ past' = [past EXCEPT !.processed = @ + 1]
          /\ WorkerGoto(a, "done")
          /\ job' = Outcome(a, EndOf(a))
     ELSE /\ WorkerGoto(a, "recheck")
          /\ UNCHANGED <<row, job, past>>
  /\ UNCHANGED <<stored, env, proc>>

\* Slip: who finishes second cleans up.
Superfluous == TRUE

Deleted == ~Exists

\* The file was deleted while it was processed: its derivatives go.
Recheck(a) ==
  /\ WorkerAt(a, "recheck")
  /\ IF Deleted
     THEN WorkerGoto(a, "clean") /\ UNCHANGED job
     ELSE WorkerGoto(a, "done") /\ job' = Outcome(a, EndOf(a))
  /\ UNCHANGED <<row, stored, env, proc, past>>

Clean(a) ==
  /\ WorkerAt(a, "clean")
  /\ \/ original' = "none" /\ variants' = FALSE /\ UNCHANGED past
     \/ Leak /\ UNCHANGED stored
  /\ WorkerGoto(a, "done")
  /\ job' = Outcome(a, EndOf(a))
  /\ UNCHANGED <<row, env, proc>>

\* The queue gives the attempt up: it ran too long, or the process stops.  Its signal
\* is set; what it does is no longer waited for.
Expire(a) ==
  /\ job = [state |-> "active", try |-> a]
  /\ job' = Failed(a)
  /\ worker' = [worker EXCEPT ![a].aborted = TRUE]
  /\ UNCHANGED <<row, stored, env, proc, past>>

\* The handler of an attempt given up ends with its process.
Die(a) ==
  /\ worker[a].aborted /\ ~WorkerAt(a, "done")
  /\ WorkerGoto(a, "done")
  /\ past' = [past EXCEPT !.leaked = @ \/ WorkerAt(a, "clean")]
  /\ UNCHANGED <<row, stored, env, job, proc>>

-----------------------------------------------------------------------------
(* The environment *)

\* The client uploads, what it promised or not.  S3 takes no other size than the one
\* signed; the local storage stores the object and then compares, one at a time here.
Put ==
  /\ link
  /\ \/ original' \in {"good", "forged"} /\ UNCHANGED refused
     \/ ~refused /\ original' = "short" /\ refused' = TRUE
  /\ past' = [past EXCEPT !.leaked = @ \/ ~Exists]
  /\ UNCHANGED <<row, variants, link, old, used, job, worker, proc>>

\* The object of the wrong size is removed, whatever is at its key by now.
Refuse ==
  /\ refused
  /\ original' = "none" /\ refused' = FALSE
  /\ Sweep
  /\ UNCHANGED <<row, variants, link, old, used, job, worker, proc>>

\* The process dies first.
RefuseLost ==
  /\ refused
  /\ refused' = FALSE
  /\ UNCHANGED <<row, stored, link, old, used, job, worker, proc, past>>

LinkExpires ==
  /\ link
  /\ link' = FALSE
  /\ UNCHANGED <<row, stored, old, used, refused, job, worker, proc, past>>

\* Slip: an upload may be called stale while its link is valid.
MayBeOldWithLink == Exists

\* DIRECT_UPLOAD_URL_TTL_SECONDS is shorter than PENDING_UPLOAD_TTL_MS.
MayBeOld == Exists /\ ~link

GrowOld ==
  /\ MayBeOld /\ ~old
  /\ old' = TRUE
  /\ UNCHANGED <<row, stored, link, used, refused, job, worker, proc, past>>

\* The profile gets another avatar or none.
Release ==
  /\ used
  /\ used' = FALSE
  /\ UNCHANGED <<row, stored, link, old, refused, job, worker, proc, past>>

\* The owner is deleted: his files stay without owner (ON DELETE SET NULL), his
\* profile goes (ON DELETE CASCADE).
OwnerDeleted ==
  /\ Exists /\ row.owned
  /\ row' = [row EXCEPT !.owned = FALSE]
  /\ used' = FALSE
  /\ UNCHANGED <<stored, link, old, refused, job, worker, proc, past>>

-----------------------------------------------------------------------------

Serve(c) ==
  \/ CreateUpload(c) \/ StoreOriginal(c) \/ InsertRow(c)
  \/ CompleteUpload(c) \/ Stat(c) \/ DropObject(c) \/ ReadHead(c) \/ Confirm(c)
  \/ CheckAvatar(c) \/ Attach(c)

Remove(p) ==
  \/ FindForRemoval(p) \/ CheckUse(p) \/ RemoveRow(p) \/ RemoveStored(p)

Cleanup(p) == FindStale(p) \/ SweepStored(p) \/ SweepRow(p)

Attempt(a) ==
  \/ FindFile(a) \/ Convert(a) \/ PutVariants(a) \/ Throw(a) \/ Catch(a)
  \/ Finish(a) \/ Recheck(a) \/ Clean(a)

Environment ==
  Put \/ Refuse \/ RefuseLost \/ LinkExpires \/ GrowOld \/ Release \/ OwnerDeleted

Next ==
  \/ \E c \in Calls : Serve(c)
  \/ \E p \in Procs : Remove(p) \/ Cleanup(p) \/ Abandon(p)
  \/ Fetch
  \/ \E a \in Attempts : Attempt(a) \/ Expire(a) \/ Die(a)
  \/ Environment

Spec == Init /\ [][Next]_vars

\* Time passes; the queue hands jobs out and a handler goes on until it ends; the
\* periodic jobs are started again and again, they are not killed for ever, nor does
\* the storage refuse them for ever.
Fairness ==
  /\ WF_vars(LinkExpires \/ GrowOld)
  /\ WF_vars(Fetch \/ \E a \in Attempts : Attempt(a))
  /\ \A p \in Jobs :
       /\ WF_vars(Remove(p) \/ Cleanup(p))
       /\ SF_vars(SweepStored(p) /\ proc'[p] = "sweepRow")
       /\ <>[][~Abandon(p)]_vars

FairSpec == Spec /\ Fairness

-----------------------------------------------------------------------------
(* Properties *)

TypeOK ==
  /\ row \in [status : {"none", "pending", "gone"} \cup Confirmed, owned : BOOLEAN,
              variants : BOOLEAN]
  /\ original \in {"none", "good", "short", "forged"}
  /\ variants \in BOOLEAN
  /\ link \in BOOLEAN /\ old \in BOOLEAN /\ used \in BOOLEAN /\ refused \in BOOLEAN
  /\ job \in [state : {"none", "created", "active", "done", "dead"}, try : Attempts]
  /\ worker \in [Attempts ->
       [pc : {"idle", "find", "convert", "put", "thrown", "ready", "failed", "recheck",
              "clean", "done"}, aborted : BOOLEAN, failed : BOOLEAN]]
  /\ proc \in [Procs ->
       {"idle", "insert", "stat", "dropObject", "head", "confirm", "attach",
        "checkUse", "removeRow", "removeStored", "sweep", "sweepRow", "done"}]
  /\ past \in [uploaded : Nat, processed : Nat, leaked : BOOLEAN, swept : BOOLEAN]

\* The calls, jobs and handlers have come to an end.
Quiet ==
  /\ \A p \in Procs : proc[p] \in {"idle", "done"}
  /\ \A a \in Attempts : worker[a].pc \in {"idle", "done"}

\* A deleted file leaves no original in the storage, whichever of the concurrent
\* calls, jobs and uploads removed it; storage failures and crashes apart.
OriginalGoesWithFile ==
  Quiet /\ ~link /\ ~past.leaked /\ ~Exists => original = "none"

\* A confirmed file has its original, a ready one its derivatives: no retry, expired
\* attempt or late cleanup takes them away.  Files hit by a removal that took them
\* for unconfirmed are left out: file-cleanup.job.ts:42 deletes by id what it selected
\* as pending before.
ObjectsKept ==
  ~past.swept =>
    /\ row.status \in Confirmed => original # "none"
    /\ Exists /\ row.variants => variants

\* However many confirmations and attempts race, a file is announced as uploaded
\* once and as processed once.
AnnouncedOnce == past.uploaded <= 1 /\ past.processed <= 1

\* A file that waits for its derivatives has a job that will make them, or one that
\* has been given up: the status and the job are saved together, and no attempt
\* completes the job without settling the file.
ProcessingHasJob == row.status = "processing" => job.state \notin {"none", "done"}

Status == INSTANCE FileStatus WITH status <- row.status

\* Any interleaving of the above follows the life that FileStatus promises.
FollowsStatus == Status!Spec

\* An upload that nobody confirms is removed in the end, whatever the storage and the
\* cleanup run into on the way.
PendingEnds == row.status = "pending" ~> row.status # "pending"

\* A file does not wait for its derivatives for ever, unless its job was given up.
ProcessingEnds ==
  row.status = "processing" ~> row.status # "processing" \/ job.state = "dead"

\* A file that nobody owns is removed in the end: with its owner the only profile that
\* could refer to it is gone.
OrphansCollected ==
  row.status \in Confirmed /\ ~row.owned ~> row.status = "gone"

\* Neither an upload, nor a conversion, nor a file without an owner stays for ever.
FilesSettle == PendingEnds /\ ProcessingEnds /\ OrphansCollected

\* The collector never takes a file that a profile shows, although the profile may be
\* saved, and its owner deleted, between the collector's two looks and its deletion.
CollectorSparesReferred ==
  [][\A p \in Jobs : RemoveRow(p) => ~used]_vars

\* What the application still refers to is not removed under it: whatever step is taken, a
\* confirmed file has its objects after it, and the collector's step takes no file that a
\* profile shows.
NothingLost ==
  [][ObjectsKept' /\ \A p \in Jobs : RemoveRow(p) => ~used]_vars
=============================================================================

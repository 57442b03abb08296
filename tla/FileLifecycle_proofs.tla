------------------------ MODULE FileLifecycle_proofs ------------------------
(***************************************************************************)
(* Theorems about the two components whose rows a periodic job deletes,    *)
(* for every value of their constants: about FileLifecycle, and, from      *)
(* "The order of the rows" on, about AuditTrail.  The components have no   *)
(* state in common.                                                        *)
(***************************************************************************)
EXTENDS FileLifecycle, AuditTrail, FiniteSetTheorems, TLAPS

(***************************************************************************)
(* The inductive invariant                                                 *)
(***************************************************************************)

\* Before there is a row, nothing but the creation of the file is under way, and at
\* most one call creates it: it has stored the original, and nobody else removes that.
Creating(p) == proc[p] \in {"insert", "removeStored"}

Creation ==
  row.status = "none" =>
    /\ ~link /\ ~refused
    /\ \A p \in Procs : Creating(p) \/ proc[p] \in {"idle", "done"}
    /\ \A p \in Procs : Creating(p) => original # "none"
    /\ \A p, q \in Procs : Creating(p) /\ Creating(q) => p = q

\* A call inserts the row only while there is none.
Inserts == \A p \in Procs : At(p, "insert") => row.status = "none"

\* The job is made with the status, and handlers only for the job; a handler that looks
\* at the file again has found it settled.
Working ==
  /\ job.state # "none" => row.status \notin {"none", "pending"}
  /\ \A a \in Attempts : ~WorkerAt(a, "idle") \/ worker[a].aborted => job.state # "none"
  /\ \A a \in Attempts : worker[a].pc \in {"recheck", "clean"} => row.status # "processing"

\* The events go with the changes of the status.
Events ==
  /\ past.uploaded <= IF row.status \in {"none", "pending"} THEN 0 ELSE 1
  /\ past.processed <= IF row.status \in {"none", "pending", "processing"} THEN 0 ELSE 1

Consistent == Creation /\ Inserts /\ Working /\ Events /\ ProcessingHasJob

IInv == TypeOK /\ Consistent

\* The collector is about to take a file that nobody owns, and nobody refers to those.
Orphans ==
  /\ row.status = "none" => ~row.owned
  /\ ~row.owned => ~used
  /\ \A p \in Jobs : proc[p] \in {"checkUse", "removeRow"} =>
       ~row.owned /\ row.status # "none"

\* Who is about to remove objects, or relies on them.  An original without a row is
\* still in the hands of a call or job that removes it.
Objects ==
  /\ row.status \in {"none", "pending"} => ~row.variants
  /\ old => ~link /\ row.status # "none"
  /\ \A p \in Procs : proc[p] \in {"sweep", "sweepRow"} => old
  /\ \A p \in Procs : At(p, "sweepRow") => original = "none"
  /\ \A p \in Procs : At(p, "removeStored") => ~Exists
  /\ \A c \in Calls : At(c, "confirm") /\ Exists /\ ~past.swept => original # "none"
  /\ \A a \in Attempts : WorkerAt(a, "clean") => ~Exists
  /\ \A a \in Attempts : WorkerAt(a, "ready") /\ Exists /\ ~past.swept => variants
  /\ original # "none" /\ ~Exists /\ ~past.leaked => \E p \in Procs : Creating(p)

(***************************************************************************)
(* Type correctness                                                        *)
(***************************************************************************)

JobStates ==
  [state : {"none", "created", "active", "done", "dead"}, try : Attempts]

Handlers ==
  [pc : {"idle", "find", "convert", "put", "thrown", "ready", "failed", "recheck",
         "clean", "done"}, aborted : BOOLEAN, failed : BOOLEAN]

Pasts == [uploaded : Nat, processed : Nat, leaked : BOOLEAN, swept : BOOLEAN]

LEMMA InitType == Init => TypeOK
<1> SUFFICES ASSUME Init PROVE TypeOK
  OBVIOUS
<1>1. [pc |-> "idle", aborted |-> FALSE, failed |-> FALSE] \in Handlers
  BY DEF Handlers
<1>2. worker \in [Attempts -> Handlers]
  BY <1>1 DEF Init
<1>3. job \in JobStates /\ past \in Pasts
  BY FileAssumption DEF Init, JobStates, Pasts, Attempts
<1>4. QED
  BY <1>2, <1>3 DEF Init, TypeOK, Confirmed, Handlers, JobStates, Pasts

LEMMA JobForType ==
  ASSUME TypeOK, NEW status
  PROVE  JobFor(status) \in JobStates
  BY FileAssumption DEF TypeOK, JobFor, Attempts, JobStates

LEMMA FailedType ==
  ASSUME NEW a \in Attempts
  PROVE  Failed(a) \in JobStates /\ Completed(a) \in JobStates
  BY FileAssumption DEF Failed, Completed, Attempts, JobStates

LEMMA OutcomeType ==
  ASSUME TypeOK, NEW a \in Attempts
  PROVE  /\ Outcome(a, Completed(a)) \in JobStates
         /\ Outcome(a, Failed(a)) \in JobStates
         /\ Outcome(a, EndOf(a)) \in JobStates
<1>1. RetryLimit \in Attempts
  BY FileAssumption DEF Attempts
<1>2. EndOf(a) \in JobStates
  BY <1>1, FailedType DEF EndOf
<1>3. QED
  BY <1>2, FailedType DEF TypeOK, Outcome, JobStates

\* The history, after a step noted something.
LEMMA PastType ==
  ASSUME TypeOK, NEW b \in BOOLEAN
  PROVE  /\ [past EXCEPT !.leaked = b] \in Pasts
         /\ [past EXCEPT !.swept = b] \in Pasts
         /\ [past EXCEPT !.uploaded = @ + 1] \in Pasts
         /\ [past EXCEPT !.processed = @ + 1] \in Pasts
  BY DEF TypeOK, Pasts

LEMMA SweepType ==
  ASSUME TypeOK, Sweep
  PROVE  past' \in Pasts
<1> DEFINE b == past.swept \/ row.status \in Confirmed \/ \E c \in Calls : At(c, "confirm")
<1>1. past' = [past EXCEPT !.swept = b]
  BY DEF Sweep
<1>2. b \in BOOLEAN
  OBVIOUS
<1> HIDE DEF b
<1>3. QED
  BY <1>1, <1>2, PastType

LEMMA CallType ==
  ASSUME TypeOK, NEW c \in Calls, Serve(c)
  PROVE  TypeOK'
<1> c \in Procs
  BY DEF Procs
<1> USE DEF TypeOK, Confirmed, stored, env, Goto, End
<1>1. CASE CreateUpload(c)
  BY <1>1 DEF CreateUpload
<1>2. CASE StoreOriginal(c)
  BY <1>2 DEF StoreOriginal
<1>3. CASE InsertRow(c)
  <2>1. CASE Goto(c, "removeStored") /\ UNCHANGED <<row, job, past>>
    BY <1>3, <2>1 DEF InsertRow
  <2>2. ASSUME NEW status \in {"processing", "ready"}, NEW owned \in BOOLEAN,
               row' = [status |-> status, owned |-> owned, variants |-> FALSE],
               job' = JobFor(status),
               past' = [past EXCEPT !.uploaded = IF owned THEN @ + 1 ELSE @],
               End(c)
        PROVE  TypeOK'
    <3>1. row' \in [status : {"none", "pending", "gone"} \cup Confirmed, owned : BOOLEAN,
                    variants : BOOLEAN]
      BY <2>2
    <3>2. past' \in Pasts
      BY <2>2, PastType DEF Pasts
    <3>3. job' \in JobStates
      BY <2>2, JobForType
    <3>4. proc' \in [Procs -> {"idle", "insert", "stat", "dropObject", "head", "confirm",
                               "attach", "checkUse", "removeRow", "removeStored", "sweep",
                               "sweepRow", "done"}]
      BY <2>2
    <3>5. QED
      BY <1>3, <3>1, <3>2, <3>3, <3>4 DEF InsertRow, Pasts, JobStates
  <2>3. QED
    BY <1>3, <2>1, <2>2 DEF InsertRow
<1>4. CASE CompleteUpload(c)
  BY <1>4 DEF CompleteUpload
<1>5. CASE Stat(c)
  BY <1>5 DEF Stat
<1>6. CASE DropObject(c)
  BY <1>6, SweepType DEF DropObject, Pasts
<1>7. CASE ReadHead(c)
  BY <1>7 DEF ReadHead
<1>8. CASE Confirm(c)
  BY <1>8, JobForType, PastType, SMTT(30) DEF Confirm, Pasts, JobStates
<1>9. CASE CheckAvatar(c) \/ Attach(c)
  BY <1>9 DEF CheckAvatar, Attach, Exists
<1>10. QED
  BY <1>1, <1>2, <1>3, <1>4, <1>5, <1>6, <1>7, <1>8, <1>9 DEF Serve

LEMMA ProcType ==
  ASSUME TypeOK, NEW p \in Procs, Remove(p) \/ Cleanup(p) \/ Abandon(p)
  PROVE  TypeOK'
<1> USE DEF TypeOK, stored, env, Goto, End, Leak, RowGone
<1>1. CASE FindForRemoval(p) \/ CheckUse(p)
  BY <1>1 DEF FindForRemoval, CheckUse
<1>2. CASE RemoveRow(p)
  BY <1>2, ZenonT(30) DEF RemoveRow
<1>3. CASE RemoveStored(p)
  <2>1. past' \in Pasts
    BY <1>3, PastType DEF RemoveStored, Pasts
  <2>2. original' \in {"none", "good", "short", "forged"} /\ variants' \in BOOLEAN
    BY <1>3 DEF RemoveStored
  <2>3. QED
    BY <1>3, <2>1, <2>2 DEF RemoveStored, Pasts
<1>4. CASE FindStale(p)
  BY <1>4 DEF FindStale
<1>5. CASE SweepStored(p)
  <2>1. past' \in Pasts
    BY <1>5, SweepType DEF SweepStored, Pasts
  <2>2. original' \in {"none", "good", "short", "forged"} /\ variants' \in BOOLEAN
    BY <1>5 DEF SweepStored
  <2>3. QED
    BY <1>5, <2>1, <2>2 DEF SweepStored, Pasts
<1>6. CASE SweepRow(p)
  BY <1>6, ZenonT(30) DEF SweepRow
<1>7. CASE Abandon(p)
  <2> DEFINE b == past.leaked \/ proc[p] \in {"insert", "removeStored"}
  <2>1. past' = [past EXCEPT !.leaked = b] /\ b \in BOOLEAN
    BY <1>7 DEF Abandon
  <2> HIDE DEF b
  <2>2. past' \in Pasts
    BY <2>1, PastType
  <2>3. QED
    BY <1>7, <2>2 DEF Abandon, Pasts
<1>8. QED
  BY <1>1, <1>2, <1>3, <1>4, <1>5, <1>6, <1>7 DEF Remove, Cleanup

LEMMA AttemptType ==
  ASSUME TypeOK, NEW a \in Attempts, Attempt(a) \/ Expire(a) \/ Die(a)
  PROVE  TypeOK'
<1> USE DEF TypeOK, stored, env, WorkerGoto, WorkerAt, Leak
<1>1. CASE FindFile(a)
  BY <1>1, OutcomeType DEF FindFile, JobStates
<1>2. CASE Convert(a)
  BY <1>2 DEF Convert
<1>3. CASE PutVariants(a)
  BY <1>3 DEF PutVariants
<1>4. CASE Throw(a)
  BY <1>4 DEF Throw
<1>5. CASE Catch(a)
  BY <1>5, OutcomeType DEF Catch, JobStates
<1>6. CASE Finish(a)
  <2>1. CASE UNCHANGED <<row, job, past>> /\ WorkerGoto(a, "recheck")
    BY <1>6, <2>1 DEF Finish
  <2>2. ASSUME row' = [row EXCEPT !.status = worker[a].pc, !.variants = WorkerAt(a, "ready")],
               past' = [past EXCEPT !.processed = @ + 1],
               WorkerGoto(a, "done"), job' = Outcome(a, EndOf(a))
        PROVE  TypeOK'
    <3> DEFINE made == WorkerAt(a, "ready")
    <3>1. row' = [row EXCEPT !.status = worker[a].pc, !.variants = made] /\ made \in BOOLEAN
      BY <2>2
    <3>2. worker[a].pc \in Confirmed
      BY <1>6 DEF Finish, Confirmed
    <3> HIDE DEF made
    <3>3. row' \in [status : {"none", "pending", "gone"} \cup Confirmed, owned : BOOLEAN,
                    variants : BOOLEAN]
      BY <3>1, <3>2
    <3>4. past' \in Pasts /\ job' \in JobStates
      BY <2>2, PastType, OutcomeType
    <3>5. QED
      BY <1>6, <2>2, <3>3, <3>4 DEF Finish, Pasts, JobStates
  <2>3. QED
    BY <1>6, <2>1, <2>2 DEF Finish
<1>7. CASE Recheck(a)
  BY <1>7, OutcomeType DEF Recheck, JobStates
<1>8. CASE Clean(a)
  <2>1. past' \in Pasts /\ job' \in JobStates
    BY <1>8, OutcomeType, PastType DEF Clean, Pasts
  <2>2. original' \in {"none", "good", "short", "forged"} /\ variants' \in BOOLEAN
    BY <1>8 DEF Clean
  <2>3. QED
    BY <1>8, <2>1, <2>2 DEF Clean, Pasts, JobStates
<1>9. CASE Expire(a)
  <2>1. job' \in JobStates
    BY <1>9, FailedType DEF Expire
  <2>2. worker' \in [Attempts -> Handlers]
    BY <1>9 DEF Expire, Handlers
  <2>3. QED
    BY <1>9, <2>1, <2>2 DEF Expire, Handlers, JobStates
<1>10. CASE Die(a)
  <2> DEFINE b == past.leaked \/ WorkerAt(a, "clean")
  <2>1. past' = [past EXCEPT !.leaked = b] /\ b \in BOOLEAN
    BY <1>10 DEF Die
  <2> HIDE DEF b
  <2>2. past' \in Pasts
    BY <2>1, PastType
  <2>3. QED
    BY <1>10, <2>2 DEF Die, Pasts
<1>11. QED
  BY <1>1, <1>2, <1>3, <1>4, <1>5, <1>6, <1>7, <1>8, <1>9, <1>10 DEF Attempt

LEMMA FetchType ==
  ASSUME TypeOK, Fetch
  PROVE  TypeOK'
  BY DEF TypeOK, Fetch, WorkerGoto, stored, env

LEMMA EnvironmentType ==
  ASSUME TypeOK, Environment
  PROVE  TypeOK'
<1> USE DEF TypeOK, stored, env
<1>1. CASE Put
  <2> DEFINE b == past.leaked \/ ~Exists
  <2>1. past' = [past EXCEPT !.leaked = b] /\ b \in BOOLEAN
    BY <1>1 DEF Put
  <2> HIDE DEF b
  <2>2. past' \in Pasts
    BY <2>1, PastType
  <2>3. original' \in {"none", "good", "short", "forged"} /\ refused' \in BOOLEAN
    BY <1>1 DEF Put
  <2>4. QED
    BY <1>1, <2>2, <2>3 DEF Put, Pasts
<1>2. CASE Refuse \/ RefuseLost
  BY <1>2, SweepType DEF Refuse, RefuseLost, Pasts
<1>3. CASE LinkExpires \/ GrowOld
  BY <1>3 DEF LinkExpires, GrowOld
<1>4. CASE Release \/ OwnerDeleted
  BY <1>4 DEF Release, OwnerDeleted
<1>5. QED
  BY <1>1, <1>2, <1>3, <1>4 DEF Environment

LEMMA NextType ==
  ASSUME TypeOK, [Next]_vars
  PROVE  TypeOK'
<1>1. CASE UNCHANGED vars
  BY <1>1 DEF TypeOK, vars, stored, env
<1>2. CASE Next
  BY <1>2, CallType, ProcType, AttemptType, FetchType, EnvironmentType DEF Next
<1>3. QED
  BY <1>1, <1>2

\* TypeOK holds of every reachable state, for any set of calls and periodic jobs and
\* any number of retries.
THEOREM TypeCorrect == Spec => []TypeOK
<1>1. QED
  BY InitType, NextType, PTL DEF Spec

(***************************************************************************)
(* The invariant is kept, and the status follows FileStatus                *)
(***************************************************************************)

\* What a step does to the status.
StatusStep == Status!Next \/ row'.status = row.status

LEMMA CallStep ==
  ASSUME IInv, NEW c \in Calls, Serve(c)
  PROVE  Consistent' /\ StatusStep
<1> c \in Procs
  BY DEF Procs
<1> USE DEF IInv, TypeOK, Consistent, Creation, Creating, Inserts, Working, Events,
            ProcessingHasJob, StatusStep, WorkerAt, stored, env, Goto, End, At, Confirmed
<1>1. CASE CreateUpload(c)
  BY <1>1 DEF CreateUpload, Status!Next, Status!Create
<1>2. CASE StoreOriginal(c)
  BY <1>2 DEF StoreOriginal
<1>3. CASE InsertRow(c)
  BY <1>3 DEF InsertRow, JobFor, Status!Next, Status!Create
<1>4. CASE CompleteUpload(c)
  BY <1>4 DEF CompleteUpload
<1>5. CASE Stat(c)
  BY <1>5 DEF Stat
<1>6. CASE DropObject(c)
  BY <1>6 DEF DropObject, Sweep
<1>7. CASE ReadHead(c)
  BY <1>7 DEF ReadHead
<1>8. CASE Confirm(c)
  BY <1>8 DEF Confirm, JobFor, Moves, Status!Next, Status!Confirm
<1>9. CASE CheckAvatar(c) \/ Attach(c)
  BY <1>9 DEF CheckAvatar, Attach, Exists
<1>10. QED
  BY <1>1, <1>2, <1>3, <1>4, <1>5, <1>6, <1>7, <1>8, <1>9 DEF Serve

LEMMA ProcStep ==
  ASSUME IInv, NEW p \in Procs, Remove(p) \/ Cleanup(p) \/ Abandon(p)
  PROVE  Consistent' /\ StatusStep
<1> USE DEF IInv, TypeOK, Consistent, Creation, Creating, Inserts, Working, Events,
            ProcessingHasJob, StatusStep, WorkerAt, stored, env, Goto, End, At, Confirmed,
            Exists, RowGone, Leak
<1>1. CASE FindForRemoval(p) \/ CheckUse(p)
  BY <1>1 DEF FindForRemoval, CheckUse
<1>2. CASE RemoveRow(p)
  BY <1>2 DEF RemoveRow, Status!Next, Status!Delete
<1>3. CASE RemoveStored(p)
  BY <1>3 DEF RemoveStored
<1>4. CASE FindStale(p)
  BY <1>4 DEF FindStale, Stale
<1>5. CASE SweepStored(p)
  BY <1>5 DEF SweepStored, Sweep
<1>6. CASE SweepRow(p)
  BY <1>6 DEF SweepRow, Status!Next, Status!Delete
<1>7. CASE Abandon(p)
  BY <1>7 DEF Abandon
<1>8. QED
  BY <1>1, <1>2, <1>3, <1>4, <1>5, <1>6, <1>7 DEF Remove, Cleanup

LEMMA AttemptStep ==
  ASSUME IInv, NEW a \in Attempts, Attempt(a) \/ Expire(a) \/ Die(a)
  PROVE  Consistent' /\ StatusStep
<1> USE DEF IInv, TypeOK, Consistent, Creation, Creating, Inserts, Working, Events,
            ProcessingHasJob, StatusStep, WorkerAt, WorkerGoto, stored, env, At, Confirmed,
            Exists, Leak, Outcome, Completed, Failed, EndOf
<1>1. CASE FindFile(a)
  BY <1>1 DEF FindFile
<1>2. CASE Convert(a)
  BY <1>2 DEF Convert
<1>3. CASE PutVariants(a)
  BY <1>3 DEF PutVariants
<1>4. CASE Throw(a)
  BY <1>4 DEF Throw
<1>5. CASE Catch(a)
  BY <1>5 DEF Catch
<1>6. CASE Finish(a)
  <2>1. CASE row.status = "processing"
    <3> DEFINE made == WorkerAt(a, "ready")
    <3>1. row' = [row EXCEPT !.status = worker[a].pc, !.variants = made]
      BY <1>6, <2>1 DEF Finish, Moves
    <3> HIDE DEF made
    <3>2. row'.status = worker[a].pc /\ worker[a].pc \in {"ready", "failed"}
      BY <1>6, <3>1 DEF Finish
    <3>3. StatusStep
      BY <2>1, <3>2 DEF Status!Next, Status!Process
    <3>4. Creation' /\ Inserts'
      BY <1>6, <2>1, <3>2 DEF Finish
    <3>5. Working'
      BY <1>6, <2>1, <3>2 DEF Finish, Moves
    <3>6. Events'
      BY <1>6, <2>1, <3>2 DEF Finish, Moves
    <3>7. ProcessingHasJob'
      BY <3>2
    <3>8. QED
      BY <3>3, <3>4, <3>5, <3>6, <3>7
  <2>2. CASE row.status # "processing"
    BY <1>6, <2>2 DEF Finish, Moves
  <2>3. QED
    BY <2>1, <2>2
<1>7. CASE Recheck(a)
  BY <1>7 DEF Recheck
<1>8. CASE Clean(a)
  BY <1>8 DEF Clean
<1>9. CASE Expire(a)
  <2>1. job'.state \in {"created", "dead"} /\ job.state = "active"
    BY <1>9 DEF Expire
  <2>2. \A b \in Attempts : worker'[b].pc = worker[b].pc
    BY <1>9 DEF Expire
  <2>3. UNCHANGED <<row, stored, env, proc, past>>
    BY <1>9 DEF Expire
  <2>4. QED
    <3>1. StatusStep /\ Creation' /\ Inserts' /\ Events'
      BY <2>3
    <3>2. Working'
      BY <2>1, <2>2, <2>3
    <3>3. ProcessingHasJob'
      BY <2>1
    <3>4. QED
      BY <3>1, <3>2, <3>3
<1>10. CASE Die(a)
  <2> DEFINE b == past.leaked \/ WorkerAt(a, "clean")
  <2>1. past' = [past EXCEPT !.leaked = b]
    BY <1>10 DEF Die
  <2> HIDE DEF b
  <2>2. past'.uploaded = past.uploaded /\ past'.processed = past.processed
    BY <2>1
  <2>3. UNCHANGED <<row, stored, env, job, proc>>
    BY <1>10 DEF Die
  <2>4. StatusStep /\ Creation' /\ Inserts' /\ Events' /\ ProcessingHasJob'
    BY <2>2, <2>3
  <2>5. Working'
    BY <1>10 DEF Die
  <2>6. QED
    BY <2>4, <2>5
<1>11. QED
  BY <1>1, <1>2, <1>3, <1>4, <1>5, <1>6, <1>7, <1>8, <1>9, <1>10 DEF Attempt

LEMMA FetchStep ==
  ASSUME IInv, Fetch
  PROVE  Consistent' /\ StatusStep
  BY DEF Fetch, IInv, TypeOK, Consistent, Creation, Creating, Inserts, Working, Events,
         ProcessingHasJob, StatusStep, WorkerAt, WorkerGoto, stored, env, At

LEMMA EnvironmentStep ==
  ASSUME IInv, Environment
  PROVE  Consistent' /\ StatusStep
<1> USE DEF IInv, TypeOK, Consistent, Creation, Creating, Inserts, Working, Events,
            ProcessingHasJob, StatusStep, WorkerAt, stored, env, At, Confirmed
<1>1. CASE Put
  BY <1>1 DEF Put
<1>2. CASE Refuse \/ RefuseLost
  BY <1>2 DEF Refuse, RefuseLost, Sweep
<1>3. CASE LinkExpires \/ GrowOld
  BY <1>3 DEF LinkExpires, GrowOld
<1>4. CASE Release \/ OwnerDeleted
  BY <1>4 DEF Release, OwnerDeleted
<1>5. QED
  BY <1>1, <1>2, <1>3, <1>4 DEF Environment

LEMMA InitInv == Init => IInv /\ Status!Init
<1> SUFFICES ASSUME Init PROVE Consistent /\ Status!Init
  BY InitType DEF IInv
<1>1. QED
  BY DEF Init, Consistent, Creation, Creating, Inserts, Working, Events, ProcessingHasJob,
         WorkerAt, At, Status!Init

LEMMA NextInv ==
  ASSUME IInv, [Next]_vars
  PROVE  IInv' /\ [Status!Next]_(row.status)
<1>1. CASE UNCHANGED vars
  BY <1>1, NextType DEF vars, stored, env, IInv, Consistent, Creation, Creating, Inserts,
     Working, Events, ProcessingHasJob, WorkerAt, At
<1>2. CASE Next
  BY <1>2, NextType, CallStep, ProcStep, AttemptStep, FetchStep, EnvironmentStep
     DEF Next, IInv, StatusStep
<1>3. QED
  BY <1>1, <1>2

LEMMA Invariance == Spec => []IInv
<1>1. QED
  BY InitInv, NextInv, PTL DEF Spec

\* The events of a file are emitted once each, for any number of confirmations,
\* attempts and retries.
THEOREM AnnouncedOnceHolds == Spec => []AnnouncedOnce
<1>1. IInv => AnnouncedOnce
  BY DEF IInv, TypeOK, Consistent, Events, AnnouncedOnce
<1>2. QED
  BY <1>1, Invariance, PTL

\* A file in processing has a job that was not completed.
THEOREM ProcessingHasJobHolds == Spec => []ProcessingHasJob
<1>1. IInv => ProcessingHasJob
  BY DEF IInv, Consistent
<1>2. QED
  BY <1>1, Invariance, PTL

\* FileLifecycle implements FileStatus: every step is one of it, or leaves the status.
THEOREM FollowsStatusHolds == Spec => FollowsStatus
<1>1. QED
  BY InitInv, NextInv, Invariance, PTL DEF Spec, FollowsStatus, Status!Spec

(***************************************************************************)
(* Orphans                                                                 *)
(***************************************************************************)

LEMMA OrphansKept ==
  ASSUME IInv, Orphans, Next
  PROVE  Orphans'
<1> USE DEF Orphans, stored, env, Goto, End, At, Exists
<1>1. ASSUME NEW c \in Calls, Serve(c)
      PROVE  Orphans'
  <2>1. c \in Procs /\ c \notin Jobs
    BY FileAssumption DEF Procs
  <2>2. \A p \in Jobs : proc'[p] = proc[p]
    BY <1>1, <2>1 DEF Serve, CreateUpload, StoreOriginal, InsertRow, CompleteUpload, Stat,
       DropObject, ReadHead, Confirm, CheckAvatar, Attach, IInv, TypeOK, Procs
  <2>3. CASE CreateUpload(c) \/ InsertRow(c)
    <3>1. row.status = "none"
      BY <2>1, <2>3 DEF CreateUpload, InsertRow, IInv, Consistent, Inserts
    <3>2. /\ ~row.owned /\ ~used
          /\ \A p \in Jobs : proc'[p] \notin {"checkUse", "removeRow"}
      BY <2>2, <3>1
    <3>3. used' = used
      BY <2>3 DEF CreateUpload, InsertRow
    <3>4. CASE CreateUpload(c)
      <4>1. row'.status = "pending"
        BY <3>4 DEF CreateUpload, IInv, TypeOK
      <4>2. QED
        BY <3>2, <3>3, <4>1
    <3>5. CASE InsertRow(c)
      <4>1. row'.status # "none" \/ row' = row
        BY <3>5 DEF InsertRow
      <4>2. QED
        BY <3>2, <3>3, <4>1
    <3>6. QED
      BY <2>3, <3>4, <3>5
  <2>4. CASE Confirm(c)
    BY <2>2, <2>4 DEF Confirm, Moves, IInv, TypeOK
  <2>5. CASE Attach(c)
    BY <2>2, <2>5 DEF Attach, IInv, TypeOK
  <2>6. CASE StoreOriginal(c) \/ CompleteUpload(c) \/ Stat(c) \/ DropObject(c) \/ ReadHead(c)
             \/ CheckAvatar(c)
    BY <2>2, <2>6 DEF StoreOriginal, CompleteUpload, Stat, DropObject, ReadHead, CheckAvatar
  <2>7. QED
    BY <1>1, <2>3, <2>4, <2>5, <2>6 DEF Serve
<1>2. ASSUME NEW p \in Procs, Remove(p) \/ Cleanup(p) \/ Abandon(p)
      PROVE  Orphans'
  <2> USE DEF IInv, TypeOK, Procs
  <2>1. CASE FindForRemoval(p)
    BY <2>1 DEF FindForRemoval, Orphan
  <2>2. CASE RemoveRow(p) \/ SweepRow(p)
    BY <2>2 DEF RemoveRow, SweepRow, RowGone
  <2>3. CASE CheckUse(p) \/ RemoveStored(p) \/ FindStale(p) \/ SweepStored(p) \/ Abandon(p)
    BY <2>3 DEF CheckUse, RemoveStored, FindStale, SweepStored, Abandon
  <2>4. QED
    BY <1>2, <2>1, <2>2, <2>3 DEF Remove, Cleanup
<1>3. ASSUME NEW a \in Attempts, Attempt(a) \/ Expire(a) \/ Die(a)
      PROVE  Orphans'
  <2>1. UNCHANGED <<used, proc>>
    BY <1>3 DEF Attempt, FindFile, Convert, PutVariants, Throw, Catch, Finish, Recheck,
       Clean, Expire, Die
  <2>2. row'.owned = row.owned /\ (row.status # "none" => row'.status # "none")
        /\ (row.status = "none" => row'.status = "none")
    BY <1>3 DEF Attempt, FindFile, Convert, PutVariants, Throw, Catch, Finish, Moves,
       Recheck, Clean, Expire, Die, IInv, TypeOK
  <2>3. QED
    BY <2>1, <2>2
<1>4. CASE Fetch
  BY <1>4 DEF Fetch
<1>5. CASE Environment
  BY <1>5 DEF Environment, Put, Refuse, RefuseLost, LinkExpires, GrowOld, Release,
     OwnerDeleted, IInv, TypeOK
<1>6. QED
  BY <1>1, <1>2, <1>3, <1>4, <1>5 DEF Next

LEMMA OrphansInvariance == Spec => []Orphans
<1>1. Init => Orphans
  BY DEF Init, Orphans, Procs
<1>2. IInv /\ Orphans /\ [Next]_vars => Orphans'
  <2>1. ASSUME Orphans, UNCHANGED vars
        PROVE  Orphans'
    BY <2>1 DEF Orphans, vars, env
  <2>2. QED
    BY <2>1, OrphansKept
<1>3. QED
  BY <1>1, <1>2, Invariance, PTL DEF Spec

\* The collector never takes a file that a profile shows.
THEOREM CollectorSparesReferredHolds == Spec => CollectorSparesReferred
<1>1. Orphans /\ [Next]_vars => [\A p \in Jobs : RemoveRow(p) => ~used]_vars
  BY DEF Orphans, RemoveRow, At
<1>2. QED
  BY <1>1, OrphansInvariance, PTL DEF Spec, CollectorSparesReferred

(***************************************************************************)
(* Objects                                                                 *)
(***************************************************************************)

LEMMA SweepNoted ==
  ASSUME TypeOK, Sweep
  PROVE  /\ past'.leaked = past.leaked
         /\ ~past'.swept => /\ ~past.swept /\ row.status \notin Confirmed
                           /\ \A c \in Calls : ~At(c, "confirm")
<1> DEFINE b == past.swept \/ row.status \in Confirmed \/ \E c \in Calls : At(c, "confirm")
<1>1. past' = [past EXCEPT !.swept = b]
  BY DEF Sweep
<1>2. b = FALSE => /\ ~past.swept /\ row.status \notin Confirmed
                   /\ \A c \in Calls : ~At(c, "confirm")
  OBVIOUS
<1>3. b \in BOOLEAN
  OBVIOUS
<1> HIDE DEF b
<1>4. past'.leaked = past.leaked /\ past'.swept = b
  BY <1>1 DEF TypeOK
<1>5. QED
  BY <1>2, <1>3, <1>4

LEMMA ObjectsOfCall ==
  ASSUME IInv, Objects, ObjectsKept, NEW c \in Calls, Serve(c)
  PROVE  Objects' /\ ObjectsKept'
<1> c \in Procs
  BY DEF Procs
<1> USE DEF IInv, TypeOK, Objects, ObjectsKept, Creating, WorkerAt, stored, env, Goto, End,
            At, Exists, Confirmed
<1>1. CASE CreateUpload(c)
  <2>1. /\ row.status = "none" /\ original = "none" /\ ~row.variants
        /\ \A p \in Procs : proc'[p] \in {"idle", "done"}
        /\ \A a \in Attempts : WorkerAt(a, "idle")
    BY <1>1 DEF CreateUpload, Consistent, Creation, Working
  <2>2. row'.status = "pending" /\ ~row'.variants /\ ~old'
    BY <1>1, <2>1 DEF CreateUpload
  <2>3. UNCHANGED <<original, worker>>
    BY <1>1 DEF CreateUpload
  <2>4. ObjectsKept'
    BY <2>2
  <2>5. Objects'
    BY <2>1, <2>2, <2>3 DEF Procs
  <2>6. QED
    BY <2>4, <2>5
<1>2. CASE StoreOriginal(c)
  BY <1>2 DEF StoreOriginal, Consistent, Creation, Working
<1>3. CASE InsertRow(c)
  <2>1. /\ row.status = "none" /\ original # "none" /\ ~row.variants
        /\ \A a \in Attempts : WorkerAt(a, "idle")
    BY <1>3 DEF InsertRow, Consistent, Creation, Inserts, Working
  <2>2. CASE Goto(c, "removeStored") /\ UNCHANGED <<row, job, past>>
    BY <1>3, <2>1, <2>2 DEF InsertRow
  <2>3. ASSUME NEW status \in {"processing", "ready"}, NEW owned \in BOOLEAN,
               row' = [status |-> status, owned |-> owned, variants |-> FALSE],
               past' = [past EXCEPT !.uploaded = IF owned THEN @ + 1 ELSE @], End(c)
        PROVE  Objects' /\ ObjectsKept'
    <3>1. row'.status \in {"processing", "ready"} /\ ~row'.variants
      BY <2>3
    <3>2. proc'[c] = "done" /\ \A p \in Procs \ {c} : proc'[p] = proc[p]
      BY <2>3, FileAssumption
    <3>3. \A p \in Procs : proc'[p] \in {"idle", "done"}
      BY <1>3, <2>1, <3>2 DEF InsertRow, Consistent, Creation
    <3>4. UNCHANGED <<original, variants, link, old, worker>> /\ ~old
      BY <1>3, <2>1 DEF InsertRow
    <3>5. ObjectsKept'
      BY <2>1, <3>1, <3>4
    <3>6. Objects'
      BY <2>1, <3>1, <3>3, <3>4 DEF Procs
    <3>7. QED
      BY <3>5, <3>6
  <2>4. QED
    BY <1>3, <2>2, <2>3 DEF InsertRow
<1>4. CASE CompleteUpload(c)
  BY <1>4 DEF CompleteUpload
<1>5. CASE Stat(c)
  <2>1. PICK pc \in {"idle", "done", "dropObject", "head"} : Goto(c, pc)
    BY <1>5 DEF Stat
  <2>2. ~Creating(c)
    BY <1>5 DEF Stat
  <2>3. QED
    BY <1>5, <2>1, <2>2 DEF Stat
<1>6. CASE DropObject(c)
  BY <1>6, SweepNoted DEF DropObject
<1>7. CASE ReadHead(c)
  <2>1. PICK pc \in {"idle", "done", "removeRow", "confirm"} :
               Goto(c, pc) /\ (pc = "confirm" => original # "none")
    BY <1>7 DEF ReadHead
  <2>2. ~Creating(c)
    BY <1>7 DEF ReadHead
  <2>3. QED
    BY <1>7, <2>1, <2>2 DEF ReadHead
<1>8. CASE Confirm(c)
  BY <1>8 DEF Confirm, Moves
<1>9. CASE CheckAvatar(c)
  BY <1>9 DEF CheckAvatar
<1>10. CASE Attach(c)
  BY <1>10 DEF Attach
<1>11. QED
  BY <1>1, <1>2, <1>3, <1>4, <1>5, <1>6, <1>7, <1>8, <1>9, <1>10 DEF Serve

LEMMA ObjectsOfProc ==
  ASSUME IInv, Objects, ObjectsKept, NEW p \in Procs, Remove(p) \/ Cleanup(p) \/ Abandon(p)
  PROVE  Objects' /\ ObjectsKept'
<1> USE DEF IInv, TypeOK, Objects, ObjectsKept, Creating, WorkerAt, stored, env, Goto, End,
            At, Exists, Confirmed, Procs, RowGone, Leak
<1>1. CASE FindForRemoval(p) \/ CheckUse(p)
  BY <1>1 DEF FindForRemoval, CheckUse
<1>2. CASE RemoveRow(p)
  BY <1>2 DEF RemoveRow, Consistent, Creation
<1>3. CASE RemoveStored(p)
  BY <1>3 DEF RemoveStored
<1>4. CASE FindStale(p)
  BY <1>4 DEF FindStale, Stale
<1>5. CASE SweepStored(p)
  <2>1. CASE /\ original' = "none" /\ variants' = FALSE
             /\ Sweep
             /\ Goto(p, "sweepRow")
    <3>1. /\ At(p, "sweep") /\ old /\ row.status # "none"
          /\ UNCHANGED <<row, env, job, worker>>
      BY <1>5 DEF SweepStored
    <3>2. ~past'.swept => /\ ~Exists \/ row.status = "pending"
                          /\ ~past.swept
                          /\ \A c \in Calls : ~At(c, "confirm")
      BY <2>1, SweepNoted
    <3>3. row.status = "pending" => \A a \in Attempts : WorkerAt(a, "idle")
      BY DEF Consistent, Working
    <3>4. ObjectsKept'
      BY <2>1, <3>1, <3>2
    <3>5. \A a \in Attempts : ~(WorkerAt(a, "ready") /\ Exists /\ ~past.swept)'
      BY <3>1, <3>2, <3>3
    <3>6. Objects'
      BY <2>1, <3>1, <3>2, <3>5
    <3>7. QED
      BY <3>4, <3>6
  <2>2. CASE End(p) /\ UNCHANGED <<stored, past>>
    BY <1>5, <2>2 DEF SweepStored
  <2>3. QED
    BY <1>5, <2>1, <2>2 DEF SweepStored
<1>6. CASE SweepRow(p)
  BY <1>6 DEF SweepRow
<1>7. CASE Abandon(p)
  BY <1>7 DEF Abandon
<1>8. QED
  BY <1>1, <1>2, <1>3, <1>4, <1>5, <1>6, <1>7 DEF Remove, Cleanup

LEMMA ObjectsOfAttempt ==
  ASSUME IInv, Objects, ObjectsKept, NEW a \in Attempts, Attempt(a) \/ Expire(a) \/ Die(a)
  PROVE  Objects' /\ ObjectsKept'
<1> USE DEF IInv, TypeOK, Objects, ObjectsKept, Creating, WorkerAt, WorkerGoto, stored, env,
            At, Exists, Confirmed, Leak
<1>1. CASE FindFile(a) \/ Convert(a) \/ Throw(a) \/ Catch(a)
  BY <1>1 DEF FindFile, Convert, Throw, Catch
<1>2. CASE PutVariants(a)
  BY <1>2 DEF PutVariants
<1>3. CASE Finish(a)
  <2>1. CASE row.status = "processing"
    <3> DEFINE made == WorkerAt(a, "ready")
    <3>1. row' = [row EXCEPT !.status = worker[a].pc, !.variants = made]
      BY <1>3, <2>1 DEF Finish, Moves
    <3>2. made => WorkerAt(a, "ready")
      OBVIOUS
    <3> HIDE DEF made
    <3>3. row'.status \in {"ready", "failed"} /\ (row'.variants => WorkerAt(a, "ready"))
      BY <1>3, <3>1, <3>2 DEF Finish
    <3>4. past'.swept = past.swept /\ past'.leaked = past.leaked
      BY <1>3, <2>1 DEF Finish, Moves
    <3>5. \A b \in Attempts : worker'[b].pc \in {worker[b].pc, "done"}
      BY <1>3, <2>1 DEF Finish, Moves
    <3>6. UNCHANGED <<stored, env, proc>>
      BY <1>3 DEF Finish
    <3>7. Objects'
      BY <2>1, <3>3, <3>4, <3>5, <3>6
    <3>8. ObjectsKept'
      BY <2>1, <3>3, <3>4, <3>6
    <3>9. QED
      BY <3>7, <3>8
  <2>2. CASE row.status # "processing"
    BY <1>3, <2>2 DEF Finish, Moves
  <2>3. QED
    BY <2>1, <2>2
<1>4. CASE Recheck(a)
  BY <1>4 DEF Recheck, Deleted
<1>5. CASE Clean(a)
  BY <1>5 DEF Clean
<1>6. CASE Expire(a)
  BY <1>6 DEF Expire
<1>7. CASE Die(a)
  BY <1>7 DEF Die
<1>8. QED
  BY <1>1, <1>2, <1>3, <1>4, <1>5, <1>6, <1>7 DEF Attempt

LEMMA ObjectsOfEnvironment ==
  ASSUME IInv, Objects, ObjectsKept, Environment
  PROVE  Objects' /\ ObjectsKept'
<1> USE DEF IInv, TypeOK, Objects, ObjectsKept, Creating, WorkerAt, stored, env, At, Exists,
            Confirmed
<1>1. CASE Put
  BY <1>1 DEF Put
<1>2. CASE Refuse \/ RefuseLost
  BY <1>2 DEF Refuse, RefuseLost, Sweep
<1>3. CASE LinkExpires \/ GrowOld
  BY <1>3 DEF LinkExpires, GrowOld, MayBeOld
<1>4. CASE Release \/ OwnerDeleted
  BY <1>4 DEF Release, OwnerDeleted
<1>5. QED
  BY <1>1, <1>2, <1>3, <1>4 DEF Environment

LEMMA ObjectsInvariance == Spec => [](Objects /\ ObjectsKept)
<1>1. Init => Objects /\ ObjectsKept
  BY DEF Init, Objects, ObjectsKept, At, Exists, WorkerAt, Confirmed
<1>2. IInv /\ Objects /\ ObjectsKept /\ [Next]_vars => Objects' /\ ObjectsKept'
  <2>1. ASSUME IInv, Objects, ObjectsKept, Fetch
        PROVE  Objects' /\ ObjectsKept'
    BY <2>1 DEF Fetch, WorkerGoto, IInv, TypeOK, Objects, ObjectsKept, Creating, WorkerAt,
       stored, env, At, Exists, Confirmed
  <2>2. ASSUME Objects, ObjectsKept, UNCHANGED vars
        PROVE  Objects' /\ ObjectsKept'
    BY <2>2 DEF vars, stored, env, Objects, ObjectsKept, Creating, WorkerAt, At, Exists
  <2>3. QED
    BY <2>1, <2>2, ObjectsOfCall, ObjectsOfProc, ObjectsOfAttempt, ObjectsOfEnvironment
       DEF Next
<1>3. QED
  BY <1>1, <1>2, Invariance, PTL DEF Spec

\* A confirmed file has its original and a ready one its derivatives, whatever retries,
\* expired attempts and cleanups do; files recorded in past.swept apart.
THEOREM ObjectsKeptHolds == Spec => []ObjectsKept
<1>1. QED
  BY ObjectsInvariance, PTL

\* A deleted file leaves no original behind, storage failures and crashes apart.
THEOREM OriginalGoesWithFileHolds == Spec => []OriginalGoesWithFile
<1>1. TypeOK /\ Objects => OriginalGoesWithFile
  BY DEF TypeOK, Objects, OriginalGoesWithFile, Quiet, Creating
<1>2. QED
  BY <1>1, ObjectsInvariance, TypeCorrect, PTL

\* Nothing the application refers to is removed under it.
THEOREM NothingLostHolds == Spec => NothingLost
<1>1. ObjectsKept' /\ [\A p \in Jobs : RemoveRow(p) => ~used]_vars
        => [ObjectsKept' /\ \A p \in Jobs : RemoveRow(p) => ~used]_vars
  OBVIOUS
<1>2. QED
  BY <1>1, ObjectsKeptHolds, CollectorSparesReferredHolds, PTL
     DEF NothingLost, CollectorSparesReferred

(***************************************************************************)
(* The order of the rows (AuditTrail)                                      *)
(***************************************************************************)

\* A finite set has a last element in a strict total order.
LEMMA FiniteHasLast ==
  ASSUME NEW S, IsFiniteSet(S), S # {}, NEW R,
         \A x, y, z \in S : <<x, y>> \in R /\ <<y, z>> \in R => <<x, z>> \in R,
         \A x \in S : <<x, x>> \notin R,
         \A x, y \in S : x # y => <<x, y>> \in R \/ <<y, x>> \in R
  PROVE  \E e \in S : \A f \in S \ {e} : <<f, e>> \in R
<1> DEFINE Rest(e) == {f \in S : <<f, e>> \notin R}
           Rests == {Rest(e) : e \in S}
<1>1. IsWellFoundedOn(StrictSubsetOrdering(S), SUBSET S)
  BY FS_StrictSubsetOrderingWellFounded, FS_FiniteSubsetsOfFinite
<1>2. PICK x \in Rests : \A y \in Rests : <<y, x>> \notin StrictSubsetOrdering(S)
  <2>1. Rests \subseteq SUBSET S
    OBVIOUS
  <2>2. PICK e \in S : TRUE
    OBVIOUS
  <2>3. Rest(e) \in Rests
    OBVIOUS
  <2>4. QED
    BY <1>1, <2>1, <2>3, WFMin
<1>3. PICK e \in S : x = Rest(e)
  BY <1>2
<1>4. SUFFICES ASSUME NEW f \in S \ {e}, <<f, e>> \notin R PROVE FALSE
  BY <1>3
<1>5. <<e, f>> \in R
  BY <1>4
<1>6. Rest(f) \subseteq Rest(e) /\ e \in Rest(e) /\ e \notin Rest(f)
  BY <1>5
<1>7. <<Rest(f), Rest(e)>> \in StrictSubsetOrdering(S)
  BY <1>6 DEF StrictSubsetOrdering
<1>8. QED
  BY <1>2, <1>3, <1>7

\* Rows with ids of their own.
OwnIds(S) == S \subseteq Event /\ \A e, f \in S : e.id = f.id => e = f

LEMMA NewerOrder ==
  ASSUME NEW e \in Event, NEW f \in Event
  PROVE  /\ ~Newer(e, e)
         /\ ~(Newer(e, f) /\ Newer(f, e))
         /\ \A g \in Event : Newer(e, f) /\ Newer(f, g) => Newer(e, g)
         /\ e.id # f.id => Newer(e, f) \/ Newer(f, e)
<1>1. \A g \in Event : g.at \in Nat /\ g.id \in Nat
  <2>1. Ids \subseteq Nat /\ Times \subseteq Nat
    BY AuditTrailAssumption DEF Times
  <2>2. QED
    BY <2>1 DEF Event
<1>2. ~Newer(e, e) /\ ~(Newer(e, f) /\ Newer(f, e))
  BY <1>1 DEF Newer
<1>3. \A g \in Event : Newer(e, f) /\ Newer(f, g) => Newer(e, g)
  BY <1>1 DEF Newer
<1>4. e.id # f.id => Newer(e, f) \/ Newer(f, e)
  BY <1>1 DEF Newer
<1>5. QED
  BY <1>2, <1>3, <1>4

LEMMA Oldest ==
  ASSUME NEW S, OwnIds(S), IsFiniteSet(S), S # {}
  PROVE  \E e \in S : \A f \in S \ {e} : Newer(f, e)
<1> DEFINE R == {p \in S \X S : Newer(p[1], p[2])}
<1>1. \A x, y \in S : <<x, y>> \in R <=> Newer(x, y)
  OBVIOUS
<1> HIDE DEF R
<1>2. \A x, y, z \in S : <<x, y>> \in R /\ <<y, z>> \in R => <<x, z>> \in R
  BY <1>1, NewerOrder DEF OwnIds
<1>3. \A x \in S : <<x, x>> \notin R
  BY <1>1, NewerOrder DEF OwnIds
<1>4. \A x, y \in S : x # y => <<x, y>> \in R \/ <<y, x>> \in R
  BY <1>1, NewerOrder DEF OwnIds
<1>5. \E e \in S : \A f \in S \ {e} : <<f, e>> \in R
  BY <1>2, <1>3, <1>4, FiniteHasLast
<1>6. QED
  BY <1>1, <1>5

LEMMA Newest ==
  ASSUME NEW S, OwnIds(S), IsFiniteSet(S), S # {}
  PROVE  \E e \in S : \A f \in S \ {e} : Newer(e, f)
<1> DEFINE R == {p \in S \X S : Newer(p[2], p[1])}
<1>1. \A x, y \in S : <<x, y>> \in R <=> Newer(y, x)
  OBVIOUS
<1> HIDE DEF R
<1>2. \A x, y, z \in S : <<x, y>> \in R /\ <<y, z>> \in R => <<x, z>> \in R
  BY <1>1, NewerOrder DEF OwnIds
<1>3. \A x \in S : <<x, x>> \notin R
  BY <1>1, NewerOrder DEF OwnIds
<1>4. \A x, y \in S : x # y => <<x, y>> \in R \/ <<y, x>> \in R
  BY <1>1, NewerOrder DEF OwnIds
<1>5. \E e \in S : \A f \in S \ {e} : <<f, e>> \in R
  BY <1>2, <1>3, <1>4, FiniteHasLast
<1>6. QED
  BY <1>1, <1>5

(***************************************************************************)
(* A page (AuditTrail)                                                     *)
(***************************************************************************)

LEMMA Pages ==
  ASSUME OwnIds(events), IsFiniteSet(events), NEW c
  PROVE  /\ Shown(c) \subseteq Rows(c) /\ Rows(c) \subseteq After(c) /\ After(c) \subseteq events
         /\ OwnIds(After(c)) /\ IsFiniteSet(After(c)) /\ OwnIds(Shown(c)) /\ IsFiniteSet(Shown(c))
         /\ IsFiniteSet(Rows(c))
<1>1. After(c) \subseteq events
  BY DEF After
<1>2. IsFiniteSet(After(c)) /\ OwnIds(After(c))
  BY <1>1, FS_Subset DEF OwnIds
<1>3. Rows(c) \subseteq After(c) /\ Shown(c) \subseteq After(c)
  BY DEF Rows, Shown
<1>4. Shown(c) \subseteq Rows(c)
  <2> SUFFICES ASSUME NEW e \in Shown(c) PROVE e \in Rows(c)
    OBVIOUS
  <2>1. e \in After(c) /\ Cardinality({f \in After(c) : Newer(f, e)}) < PageLimit
    BY DEF Shown
  <2>2. {f \in After(c) : Newer(f, e)} \subseteq After(c)
    OBVIOUS
  <2>3. Cardinality({f \in After(c) : Newer(f, e)}) \in Nat
    BY <2>2, <1>2, FS_Subset, FS_CardinalityType
  <2>4. Cardinality({f \in After(c) : Newer(f, e)}) < PageLimit + 1
    BY <2>1, <2>3, AuditTrailAssumption
  <2>5. QED
    BY <2>1, <2>4 DEF Rows
<1>5. IsFiniteSet(Rows(c)) /\ IsFiniteSet(Shown(c)) /\ OwnIds(Shown(c))
  BY <1>2, <1>3, FS_Subset DEF OwnIds
<1>6. QED
  BY <1>1, <1>2, <1>3, <1>4, <1>5

Before(c, e) == {f \in After(c) : Newer(f, e)}

LEMMA BeforeFinite ==
  ASSUME OwnIds(events), IsFiniteSet(events), NEW c, NEW e \in After(c)
  PROVE  /\ IsFiniteSet(Before(c, e)) /\ Cardinality(Before(c, e)) \in Nat
         /\ e \notin Before(c, e)
         /\ e \in Shown(c) <=> Cardinality(Before(c, e)) < PageLimit
         /\ e \in Rows(c) <=> Cardinality(Before(c, e)) < PageLimit + 1
<1>1. Before(c, e) \subseteq After(c) /\ IsFiniteSet(After(c)) /\ OwnIds(After(c))
  BY Pages DEF Before
<1>2. IsFiniteSet(Before(c, e)) /\ Cardinality(Before(c, e)) \in Nat
  BY <1>1, FS_Subset, FS_CardinalityType
<1>3. e \notin Before(c, e)
  BY <1>1, NewerOrder DEF Before, OwnIds
<1>4. QED
  BY <1>2, <1>3 DEF Shown, Rows, Before

\* What a page does not show is older than all it shows.
LEMMA RestIsOlder ==
  ASSUME OwnIds(events), IsFiniteSet(events), NEW c,
         NEW e \in After(c), e \notin Shown(c), NEW f \in Shown(c)
  PROVE  Newer(f, e)
<1>1. f \in After(c) /\ e \in Event /\ f \in Event /\ After(c) \subseteq Event /\ (e.id = f.id => e = f)
  BY Pages DEF OwnIds
<1>2. SUFFICES ASSUME Newer(e, f) PROVE FALSE
  BY <1>1, NewerOrder
<1>3. Before(c, e) \subseteq Before(c, f)
  BY <1>1, <1>2, NewerOrder DEF Before
<1>4. Cardinality(Before(c, e)) <= Cardinality(Before(c, f))
  BY <1>1, <1>3, BeforeFinite, FS_Subset
<1>5. QED
  BY <1>1, <1>4, BeforeFinite, AuditTrailAssumption

\* A page is no longer than the limit.
LEMMA PageBounded ==
  ASSUME OwnIds(events), IsFiniteSet(events), NEW c
  PROVE  Cardinality(Shown(c)) \in Nat /\ Cardinality(Shown(c)) <= PageLimit
<1>1. IsFiniteSet(Shown(c)) /\ OwnIds(Shown(c)) /\ Shown(c) \subseteq After(c)
  BY Pages
<1>2. Cardinality(Shown(c)) \in Nat
  BY <1>1, FS_CardinalityType
<1>3. CASE Shown(c) = {}
  BY <1>2, <1>3, FS_EmptySet, AuditTrailAssumption
<1>4. CASE Shown(c) # {}
  <2>1. PICK e \in Shown(c) : \A f \in Shown(c) \ {e} : Newer(f, e)
    BY <1>1, <1>4, Oldest
  <2>2. Shown(c) \subseteq Before(c, e) \cup {e}
    BY <1>1, <2>1 DEF Before
  <2>3. e \in After(c) /\ Cardinality(Before(c, e)) < PageLimit
    BY <1>1, BeforeFinite
  <2>4. IsFiniteSet(Before(c, e)) /\ Cardinality(Before(c, e)) \in Nat /\ e \notin Before(c, e)
    BY <2>3, BeforeFinite
  <2>5. IsFiniteSet(Before(c, e) \cup {e}) /\ Cardinality(Before(c, e) \cup {e}) = Cardinality(Before(c, e)) + 1
    BY <2>4, FS_AddElement
  <2>6. Cardinality(Shown(c)) <= Cardinality(Before(c, e) \cup {e})
    BY <2>2, <2>5, FS_Subset
  <2>7. QED
    BY <1>2, <2>3, <2>4, <2>5, <2>6, AuditTrailAssumption
<1>5. QED
  BY <1>3, <1>4

\* The page is the last one only if it shows all that is left.
LEMMA LastPage ==
  ASSUME OwnIds(events), IsFiniteSet(events), NEW c, ~(Cardinality(Rows(c)) > PageLimit)
  PROVE  Shown(c) = After(c)
<1>1. SUFFICES ASSUME After(c) \ Shown(c) # {} PROVE FALSE
  BY Pages
<1>2. After(c) \ Shown(c) \subseteq After(c) /\ OwnIds(After(c)) /\ IsFiniteSet(After(c))
  BY Pages
<1>3. OwnIds(After(c) \ Shown(c)) /\ IsFiniteSet(After(c) \ Shown(c))
  BY <1>2, FS_Subset DEF OwnIds
<1>4. PICK e \in After(c) \ Shown(c) : \A f \in (After(c) \ Shown(c)) \ {e} : Newer(e, f)
  BY <1>1, <1>3, Newest
<1>5. Before(c, e) \subseteq Shown(c)
  BY <1>2, <1>4, NewerOrder DEF Before, OwnIds
<1>6. IsFiniteSet(Before(c, e)) /\ Cardinality(Before(c, e)) \in Nat /\ e \notin Before(c, e)
  BY <1>4, BeforeFinite
<1>7. Cardinality(Before(c, e)) <= PageLimit
  <2>1. Cardinality(Before(c, e)) <= Cardinality(Shown(c))
    BY <1>5, Pages, FS_Subset
  <2>2. QED
    BY <2>1, <1>6, PageBounded, AuditTrailAssumption
<1>8. Cardinality(Before(c, e)) >= PageLimit
  BY <1>4, <1>6, BeforeFinite, AuditTrailAssumption
<1>9. e \in Rows(c)
  BY <1>4, <1>6, <1>7, BeforeFinite, AuditTrailAssumption
<1>10. Before(c, e) \cup {e} \subseteq Rows(c) /\ IsFiniteSet(Rows(c))
  BY <1>5, <1>9, Pages
<1>11. Cardinality(Before(c, e) \cup {e}) <= Cardinality(Rows(c)) /\ Cardinality(Rows(c)) \in Nat
  BY <1>10, FS_Subset, FS_CardinalityType
<1>12. Cardinality(Before(c, e) \cup {e}) = Cardinality(Before(c, e)) + 1
  BY <1>6, FS_AddElement
<1>13. QED
  BY <1>6, <1>8, <1>11, <1>12, AuditTrailAssumption

\* If it is not, there is an oldest row on it, from which the next page goes on.
LEMMA NextCursor ==
  ASSUME OwnIds(events), IsFiniteSet(events), NEW c, Cardinality(Rows(c)) > PageLimit
  PROVE  \E e \in Shown(c) : \A f \in Shown(c) \ {e} : Newer(f, e)
<1>1. Shown(c) # {}
  <2> SUFFICES ASSUME Shown(c) = {} PROVE FALSE
    OBVIOUS
  <2>1. Cardinality(Rows(c)) \in Nat /\ Rows(c) # {}
    BY Pages, FS_CardinalityType, FS_EmptySet, AuditTrailAssumption
  <2>2. After(c) # {} /\ OwnIds(After(c)) /\ IsFiniteSet(After(c))
    BY <2>1, Pages
  <2>3. PICK e \in After(c) : \A f \in After(c) \ {e} : Newer(e, f)
    BY <2>2, Newest
  <2>4. Before(c, e) = {}
    BY <2>2, <2>3, NewerOrder DEF Before, OwnIds
  <2>5. QED
    BY <2>3, <2>4, BeforeFinite, FS_EmptySet, AuditTrailAssumption
<1>2. QED
  BY <1>1, Pages, Oldest

(***************************************************************************)
(* The rows and who holds them (AuditTrail)                                *)
(***************************************************************************)

HasRow(r) == req[r].step \in {"stamped", "committed", "untold"}

\* Finitely many rows; a request has a row from its insert until it is told, for good if
\* the answer was lost; the key that
\* was found is still there.
Kept ==
  /\ TrailTypeOK
  /\ \A r \in Requests : req[r].step = "found" => key \in Key
  /\ IsFiniteSet(events)
  /\ \A r \in Requests : IF HasRow(r) THEN req[r].event \in Event ELSE req[r].event = None

\* Each row has an id of its own, those that are not committed too.
Unique ==
  /\ OwnIds(events)
  /\ \A r, s \in Requests : HasRow(r) /\ HasRow(s) /\ r # s => req[r].event.id # req[s].event.id
  /\ \A r \in Requests : req[r].step = "stamped" => \A e \in events : req[r].event.id # e.id

\* A row that was there when the client began, and was deleted, does not come back.
Begun ==
  /\ \A e \in began : e \in events \/ e.at + Retention < now
  /\ \A r \in Requests : req[r].step = "stamped" => req[r].event \notin began

\* The row is still to be read.
Ahead(e) == page.step = "reading" /\ (page.cursor = None \/ Newer(page.cursor, e))

\* The room was told of the row, or will be, or the answer of its insert was lost.
Told(e) ==
  \/ e \in shown
  \/ \E r \in Requests : req[r].event = e /\ req[r].step \in {"committed", "untold"}

Read ==
  /\ ~page.again
  /\ page.step = "idle" => page.cursor = None /\ page.got = {}
  /\ page.step = "reading" =>
       \A e \in page.got : page.cursor # None /\ (e = page.cursor \/ Newer(e, page.cursor))
  /\ page.step # "idle" =>
       /\ \A e \in began \cap events : e \in page.got \/ Ahead(e)
       /\ \A e \in events : e \in page.got \/ Told(e) \/ Ahead(e)

TrailInv == Kept /\ Unique /\ Begun /\ Read

LEMMA NoneIsNoRow == None \notin Event /\ None \notin Times
<1>1. Ids \subseteq Nat /\ Times \subseteq Nat
  BY AuditTrailAssumption DEF Times
<1>2. Event \subseteq [at : Nat, id : Nat]
  BY <1>1 DEF Event
<1>3. QED
  BY <1>1, <1>2, AuditTrailAssumption

LEMMA TrailInitially == TrailInit => TrailInv
<1> SUFFICES ASSUME TrailInit PROVE TrailInv
  OBVIOUS
<1>1. 0 \in Times /\ 1 \in Times
  BY AuditTrailAssumption DEF Times
<1>2. Idle \in Request
  BY <1>1 DEF Idle, Request, Kinds, Steps
<1>3. key \in Key \cup {None}
  BY <1>1 DEF TrailInit, Key
<1>4. TrailTypeOK
  BY <1>1, <1>2, <1>3 DEF TrailInit, TrailTypeOK, Reading
<1>5. Kept
  BY <1>4, FS_EmptySet DEF Kept, TrailInit, HasRow, Idle
<1>6. Unique /\ Begun
  BY DEF TrailInit, Unique, Begun, OwnIds, HasRow, Idle
<1>7. Read
  BY DEF TrailInit, Read
<1>8. QED
  BY <1>5, <1>6, <1>7 DEF TrailInv

\* r goes on as q.
Becomes(r, q) == q \in Request /\ req' = [req EXCEPT ![r] = q]

\* A step of a request without a row.
Rowless(r) ==
  /\ \E q \in Request :
       /\ Becomes(r, q)
       /\ q.event = None /\ q.step \notin {"stamped", "committed", "untold"}
       /\ q.step = "found" => key' \in Key
  /\ req[r].step \notin {"committed", "untold"}
  /\ key' \in Key \cup {None} /\ (key \in Key => key' \in Key)
  /\ UNCHANGED <<now, events, page, shown, began>>

LEMMA IdleType == Idle \in Request /\ [Idle EXCEPT !.step = "over"] \in Request
  BY AuditTrailAssumption DEF Idle, Request, Kinds, Steps, Times

LEMMA RowlessSteps ==
  ASSUME TrailInv, NEW r \in Requests,
         \/ Create(r) \/ FindKey(r) \/ Revoke(r) \/ Verify(r) \/ Touch(r) \/ TouchFails(r)
         \/ Happens(r) \/ RecordFails(r)
  PROVE  Rowless(r)
<1>0. req[r] \in Request /\ key \in Key \cup {None} /\ (~HasRow(r) => req[r].event = None)
  BY DEF TrailInv, Kept, TrailTypeOK
<1>a. req[r].step = "found" => key \in Key
  BY DEF TrailInv, Kept
<1>1. ASSUME Ends(r) PROVE \E q \in Request : Becomes(r, q) /\ q.event = None /\ q.step = "over"
  BY <1>1, IdleType DEF Ends, Becomes, Idle
<1>2. CASE Create(r)
  <2> DEFINE q == [req[r] EXCEPT !.kind = "event", !.step = "recording"]
  <2>1. q \in Request /\ q.event = None /\ q.step = "recording"
    BY <1>2, <1>0 DEF Create, HasRow, Request, Kinds, Steps
  <2>2. Becomes(r, q)
    BY <1>2, <2>1 DEF Create, Becomes
  <2>3. key' \in Key
    BY <1>2 DEF Create, Key
  <2>4. QED
    BY <1>2, <1>0, <2>1, <2>2, <2>3 DEF Rowless, Create
<1>3. CASE FindKey(r)
  <2>1. CASE key.revoked
    BY <1>3, <1>0, <1>1, <2>1 DEF Rowless, FindKey
  <2>2. CASE ~key.revoked
    <3> DEFINE q == [req[r] EXCEPT !.kind = "revoke", !.step = "found"]
    <3>1. q \in Request /\ q.event = None /\ q.step = "found"
      BY <1>3, <1>0 DEF FindKey, HasRow, Request, Kinds, Steps
    <3>2. Becomes(r, q)
      BY <1>3, <2>2, <3>1 DEF FindKey, Becomes
    <3>3. QED
      BY <1>3, <1>0, <3>1, <3>2 DEF Rowless, FindKey
  <2>3. QED
    BY <2>1, <2>2
<1>4. CASE Revoke(r)
  <2> DEFINE q == [req[r] EXCEPT !.step = "recording"]
  <2>1. q \in Request /\ q.event = None /\ q.step = "recording"
    BY <1>4, <1>0 DEF Revoke, AtStep, HasRow, Request, Steps
  <2>2. Becomes(r, q)
    BY <1>4, <2>1 DEF Revoke, Goes, Becomes
  <2>3. key \in Key /\ key' \in Key
    BY <1>4, <1>a DEF Revoke, AtStep, Key
  <2>4. QED
    BY <1>4, <1>0, <2>1, <2>2, <2>3 DEF Rowless, Revoke, AtStep
<1>5. CASE Verify(r)
  <2>1. CASE Ends(r)
    BY <1>5, <1>0, <1>1, <2>1 DEF Rowless, Verify
  <2>2. CASE ~Ends(r)
    <3> DEFINE q == [Idle EXCEPT !.kind = "call", !.step = "found", !.copy = key, !.at = now]
    <3>1. q \in Request /\ q.event = None /\ q.step = "found"
      BY <1>5, <1>0, IdleType DEF Verify, Idle, Request, Kinds, Steps, TrailInv, Kept, TrailTypeOK
    <3>2. Becomes(r, q)
      BY <1>5, <2>2, <3>1 DEF Verify, Becomes
    <3>3. QED
      BY <1>5, <1>0, <3>1, <3>2 DEF Rowless, Verify
  <2>3. QED
    BY <2>1, <2>2
<1>6. CASE Touch(r)
  <2>1. key \in Key /\ key' \in Key
    BY <1>6, <1>a DEF Touch, AtStep, Key, Touches, TrailInv, Kept, TrailTypeOK, Request
  <2>2. QED
    BY <1>6, <1>0, <1>1, <2>1 DEF Rowless, Touch, AtStep
<1>7. CASE TouchFails(r)
  BY <1>7, <1>0, <1>1 DEF Rowless, TouchFails, AtStep
<1>8. CASE Happens(r)
  <2> DEFINE q == [req[r] EXCEPT !.kind = "event", !.step = "recording"]
  <2>1. q \in Request /\ q.event = None /\ q.step = "recording"
    BY <1>8, <1>0 DEF Happens, HasRow, Request, Kinds, Steps
  <2>2. Becomes(r, q)
    BY <1>8, <2>1 DEF Happens, Becomes
  <2>3. QED
    BY <1>8, <1>0, <2>1, <2>2 DEF Rowless, Happens
<1>9. CASE RecordFails(r)
  BY <1>9, <1>0, <1>1 DEF Rowless, RecordFails, AtStep
<1>10. QED
  BY <1>2, <1>3, <1>4, <1>5, <1>6, <1>7, <1>8, <1>9

LEMMA TrailTypes ==
  ASSUME TrailInv
  PROVE  /\ now \in Times /\ key \in Key \cup {None} /\ req \in [Requests -> Request]
         /\ events \subseteq Event /\ page \in Reading /\ shown \subseteq Event /\ began \subseteq Event
         /\ \A r \in Requests : HasRow(r) => req[r].event \in Event
         /\ \A r \in Requests : ~HasRow(r) => req[r].event = None
  BY DEF TrailInv, Kept, TrailTypeOK

\* What the client has read depends on the page, the rows and what the room was told.
LEMMA ReadKept ==
  ASSUME TrailInv, UNCHANGED <<page, began>>, events' \subseteq events,
         \A e \in events' : Told(e) => Told(e)'
  PROVE  Read'
  BY DEF TrailInv, Read, Ahead

LEMMA RowlessKeeps ==
  ASSUME TrailInv, NEW r \in Requests, Rowless(r)
  PROVE  TrailInv'
<1>1. PICK q \in Request :
        /\ Becomes(r, q) /\ q.event = None /\ q.step \notin {"stamped", "committed", "untold"}
        /\ q.step = "found" => key' \in Key
  BY DEF Rowless
<1>2. /\ req' \in [Requests -> Request] /\ req'[r] = q
      /\ \A s \in Requests \ {r} : req'[s] = req[s]
  BY <1>1, TrailTypes DEF Becomes
<1>3. UNCHANGED <<now, events, page, shown, began>> /\ req[r].step \notin {"committed", "untold"}
      /\ key' \in Key \cup {None} /\ (key \in Key => key' \in Key)
  BY DEF Rowless
<1>4. \A s \in Requests : HasRow(s)' => s # r /\ HasRow(s) /\ req'[s] = req[s]
  BY <1>1, <1>2 DEF HasRow
<1>5. TrailTypeOK'
  BY <1>2, <1>3, TrailTypes DEF TrailTypeOK
<1>6. \A s \in Requests : IF HasRow(s)' THEN req'[s].event \in Event ELSE req'[s].event = None
  BY <1>1, <1>2, <1>4, TrailTypes DEF HasRow
<1>7. \A s \in Requests : req'[s].step = "found" => key' \in Key
  BY <1>1, <1>2, <1>3 DEF TrailInv, Kept
<1>8. Kept'
  BY <1>3, <1>5, <1>6, <1>7 DEF Kept, TrailInv
<1>9. Unique'
  BY <1>3, <1>4 DEF Unique, TrailInv, OwnIds, HasRow
<1>10. Begun'
  BY <1>3, <1>4 DEF Begun, TrailInv, HasRow
<1>11. \A e \in events : Told(e) => Told(e)'
  BY <1>2, <1>3 DEF Told
<1>12. Read'
  BY <1>3, <1>11, ReadKept
<1>13. QED
  BY <1>8, <1>9, <1>10, <1>12 DEF TrailInv

LEMMA StampKeeps ==
  ASSUME TrailInv, NEW r \in Requests, Stamp(r)
  PROVE  TrailInv'
<1>1. PICK i \in Ids \ TakenIds :
        req' = [req EXCEPT ![r].step = "stamped", ![r].event = [at |-> now, id |-> i]]
  BY DEF Stamp
<1> DEFINE entry == [at |-> now, id |-> i]
<1>2. entry \in Event /\ entry.id = i /\ entry.at = now
  BY TrailTypes DEF Event
<1>3. /\ req' \in [Requests -> Request] /\ req'[r].event = entry /\ req'[r].step = "stamped"
      /\ \A s \in Requests \ {r} : req'[s] = req[s]
  <2> DEFINE q == [req[r] EXCEPT !.step = "stamped", !.event = entry]
  <2>1. req[r] \in Request
    BY TrailTypes
  <2>2. q \in Request /\ q.event = entry /\ q.step = "stamped"
    BY <2>1, <1>2 DEF Request, Steps
  <2>3. req' = [req EXCEPT ![r] = q]
    BY <1>1
  <2>4. QED
    BY <2>2, <2>3, TrailTypes
<1>4. UNCHANGED <<now, key, events, page, shown, began>> /\ req[r].step = "recording"
  BY DEF Stamp, AtStep
<1>5. \A e \in events : e.id # i
  BY <1>1 DEF TakenIds
<1>6. \A s \in Requests : HasRow(s) => req[s].event.id # i
  BY <1>1, TrailTypes, NoneIsNoRow DEF TakenIds
<1>7. Kept'
  <2>1. TrailTypeOK'
    BY <1>3, <1>4, TrailTypes DEF TrailTypeOK
  <2>2. \A s \in Requests : IF HasRow(s)' THEN req'[s].event \in Event ELSE req'[s].event = None
    BY <1>2, <1>3, TrailTypes DEF HasRow
  <2>3. \A s \in Requests : req'[s].step = "found" => key' \in Key
    BY <1>3, <1>4 DEF TrailInv, Kept
  <2>4. QED
    BY <1>4, <2>1, <2>2, <2>3 DEF Kept, TrailInv
<1>8. Unique'
  <2>1. \A s, u \in Requests : HasRow(s)' /\ HasRow(u)' /\ s # u => req'[s].event.id # req'[u].event.id
    BY <1>2, <1>3, <1>6 DEF HasRow, TrailInv, Unique
  <2>2. \A s \in Requests : req'[s].step = "stamped" => \A e \in events : req'[s].event.id # e.id
    BY <1>2, <1>3, <1>5 DEF TrailInv, Unique
  <2>3. QED
    BY <2>1, <2>2, <1>4 DEF Unique, TrailInv, OwnIds
<1>9. entry \notin began
  <2> SUFFICES ASSUME entry \in began PROVE FALSE
    OBVIOUS
  <2>1. entry \in events \/ now + Retention < now
    BY <1>2 DEF TrailInv, Begun
  <2>2. now + Retention >= now
    BY TrailTypes, AuditTrailAssumption DEF Times
  <2>3. QED
    BY <2>1, <2>2, <1>2, <1>5, TrailTypes, AuditTrailAssumption DEF Times
<1>10. Begun'
  BY <1>3, <1>4, <1>9 DEF Begun, TrailInv
<1>11. \A e \in events : Told(e) => Told(e)'
  BY <1>3, <1>4 DEF Told
<1>12. Read'
  BY <1>4, <1>11, ReadKept
<1>13. QED
  BY <1>7, <1>8, <1>10, <1>12 DEF TrailInv

LEMMA CommitKeeps ==
  ASSUME TrailInv, NEW r \in Requests, Commit(r) \/ AnswerLost(r)
  PROVE  TrailInv'
<1> DEFINE entry == req[r].event
<1>1. req[r].step = "stamped" /\ entry \in Event /\ events' = events \cup {entry}
  BY TrailTypes DEF Commit, AnswerLost, AtStep, HasRow
<1>2. /\ req' \in [Requests -> Request] /\ req'[r].event = entry
      /\ req'[r].step \in {"committed", "untold"}
      /\ \A s \in Requests \ {r} : req'[s] = req[s]
  <2>1. Goes(r, "committed") \/ Goes(r, "untold")
    BY DEF Commit, AnswerLost
  <2>2. ASSUME NEW step \in {"committed", "untold"}, Goes(r, step)
        PROVE  /\ req' \in [Requests -> Request] /\ req'[r].event = entry /\ req'[r].step = step
               /\ \A s \in Requests \ {r} : req'[s] = req[s]
    BY <2>2, TrailTypes DEF Goes, Request, Steps
  <2>3. QED
    BY <2>1, <2>2
<1>3. UNCHANGED <<now, key, page, shown, began>>
  BY DEF Commit, AnswerLost
<1>4. \A s \in Requests : (HasRow(s)' <=> HasRow(s)) /\ req'[s].event = req[s].event
  BY <1>1, <1>2 DEF HasRow
<1>5. Kept'
  <2>1. TrailTypeOK'
    BY <1>1, <1>2, <1>3, TrailTypes DEF TrailTypeOK
  <2>2. IsFiniteSet(events')
    BY <1>1, FS_AddElement DEF TrailInv, Kept
  <2>3. \A s \in Requests : req'[s].step = "found" => key' \in Key
    BY <1>2, <1>3 DEF TrailInv, Kept
  <2>4. QED
    BY <1>4, <2>1, <2>2, <2>3, TrailTypes DEF Kept
<1>6. Unique'
  <2>1. OwnIds(events)'
    BY <1>1 DEF OwnIds, TrailInv, Unique
  <2>2. \A s, u \in Requests : HasRow(s)' /\ HasRow(u)' /\ s # u => req'[s].event.id # req'[u].event.id
    BY <1>4 DEF TrailInv, Unique
  <2>3. \A s \in Requests : req'[s].step = "stamped" => \A e \in events' : req'[s].event.id # e.id
    BY <1>1, <1>2 DEF TrailInv, Unique, HasRow
  <2>4. QED
    BY <2>1, <2>2, <2>3 DEF Unique
<1>7. Begun'
  BY <1>1, <1>2, <1>3 DEF Begun, TrailInv
<1>8. entry \notin began
  BY <1>1 DEF Begun, TrailInv
<1>9. \A e \in events : Told(e) => Told(e)'
  BY <1>1, <1>2, <1>3 DEF Told
<1>10. Read'
  <2>1. \A e \in began \cap events' : e \in events
    BY <1>1, <1>8
  <2>2. \A e \in events' : e \in events \/ Told(e)'
    BY <1>1, <1>2 DEF Told
  <2>3. ASSUME NEW e, Ahead(e) PROVE Ahead(e)'
    BY <2>3, <1>3 DEF Ahead
  <2>4. QED
    BY <1>3, <1>9, <2>1, <2>2, <2>3 DEF Read, TrailInv
<1>11. QED
  BY <1>5, <1>6, <1>7, <1>10 DEF TrailInv

LEMMA TellKeeps ==
  ASSUME TrailInv, NEW r \in Requests, Tell(r)
  PROVE  TrailInv'
<1> DEFINE entry == req[r].event
<1>1. req[r].step = "committed" /\ entry \in Event /\ shown' = ToRoom(entry)
  BY TrailTypes DEF Tell, AtStep, HasRow
<1>2. /\ req' \in [Requests -> Request] /\ req'[r].event = None /\ req'[r].step = "over"
      /\ \A s \in Requests \ {r} : req'[s] = req[s]
  BY TrailTypes, IdleType DEF Tell, Ends, Idle
<1>3. UNCHANGED <<now, key, events, page, began>>
  BY DEF Tell
<1>4. \A s \in Requests : HasRow(s)' => s # r /\ HasRow(s) /\ req'[s] = req[s]
  BY <1>2 DEF HasRow
<1>5. shown \subseteq shown' /\ shown' \subseteq Event /\ (page.step # "idle" => entry \in shown')
  BY <1>1, TrailTypes DEF ToRoom
<1>6. Kept'
  <2>1. TrailTypeOK'
    BY <1>2, <1>3, <1>5, TrailTypes DEF TrailTypeOK
  <2>2. \A s \in Requests : req'[s].step = "found" => key' \in Key
    BY <1>2, <1>3 DEF TrailInv, Kept
  <2>3. \A s \in Requests : IF HasRow(s)' THEN req'[s].event \in Event ELSE req'[s].event = None
    BY <1>2, <1>4, TrailTypes DEF HasRow
  <2>4. QED
    BY <1>3, <2>1, <2>2, <2>3 DEF Kept, TrailInv
<1>7. Unique'
  BY <1>3, <1>4 DEF Unique, TrailInv, OwnIds, HasRow
<1>8. Begun'
  BY <1>3, <1>4 DEF Begun, TrailInv, HasRow
<1>9. page.step # "idle" => \A e \in events : Told(e) => Told(e)'
  BY <1>2, <1>5 DEF Told
<1>10. Read'
  BY <1>3, <1>9 DEF Read, TrailInv, Ahead
<1>11. QED
  BY <1>6, <1>7, <1>8, <1>10 DEF TrailInv

LEMMA CleanupKeeps ==
  ASSUME TrailInv, AuditCleanup
  PROVE  TrailInv'
<1>1. events' = {e \in events : e.at + Retention >= now} /\ UNCHANGED <<now, key, req, page, shown, began>>
  BY DEF AuditCleanup
<1>2. events' \subseteq events
  BY <1>1
<1>3. \A s \in Requests : HasRow(s)' <=> HasRow(s)
  BY <1>1 DEF HasRow
<1>4. IsFiniteSet(events')
  BY <1>2, FS_Subset DEF TrailInv, Kept
<1>5. Kept'
  BY <1>1, <1>2, <1>3, <1>4, TrailTypes DEF Kept, TrailInv, TrailTypeOK
<1>6. Unique'
  BY <1>1, <1>2, <1>3 DEF Unique, TrailInv, OwnIds
<1>7. \A e \in events : e.at + Retention >= now \/ e.at + Retention < now
  <2>1. \A e \in events : e.at \in Nat
    BY TrailTypes, AuditTrailAssumption DEF Event, Times
  <2>2. now \in Nat
    BY TrailTypes, AuditTrailAssumption DEF Times
  <2>3. QED
    BY <2>1, <2>2, AuditTrailAssumption
<1>8. Begun'
  BY <1>1, <1>7 DEF Begun, TrailInv
<1>9. \A e \in events' : Told(e) => Told(e)'
  BY <1>1 DEF Told
<1>10. Read'
  BY <1>1, <1>2, <1>9, ReadKept
<1>11. QED
  BY <1>5, <1>6, <1>8, <1>10 DEF TrailInv

LEMMA OpenKeeps ==
  ASSUME TrailInv, Open
  PROVE  TrailInv'
<1>1. /\ page.step = "idle" /\ page' = [page EXCEPT !.step = "reading"] /\ began' = events
      /\ UNCHANGED <<now, key, req, events, shown>>
  BY DEF Open
<1>2. /\ page' \in Reading /\ page'.step = "reading" /\ page'.cursor = page.cursor
      /\ page'.got = page.got /\ page'.again = page.again
  BY <1>1, TrailTypes DEF Reading
<1>3. \A s \in Requests : HasRow(s)' <=> HasRow(s)
  BY <1>1 DEF HasRow
<1>4. Kept'
  BY <1>1, <1>2, <1>3, TrailTypes DEF Kept, TrailInv, TrailTypeOK
<1>5. Unique'
  BY <1>1, <1>3 DEF Unique, TrailInv, OwnIds
<1>6. Begun'
  BY <1>1 DEF Begun, TrailInv, Unique
<1>7. Read'
  BY <1>1, <1>2 DEF Read, TrailInv, Ahead
<1>8. QED
  BY <1>4, <1>5, <1>6, <1>7 DEF TrailInv

LEMMA ReadPageKeeps ==
  ASSUME TrailInv, ReadPage
  PROVE  TrailInv'
<1> DEFINE c == page.cursor
           more == Cardinality(Rows(c)) > PageLimit
           next == CHOOSE e \in Shown(c) : \A f \in Shown(c) \ {e} : Newer(f, e)
<1>1. /\ page.step = "reading"
      /\ page' = [step |-> IF more THEN "reading" ELSE "over",
                  cursor |-> IF more THEN next ELSE None,
                  got |-> page.got \cup Shown(c),
                  again |-> page.again \/ page.got \cap Shown(c) # {}]
      /\ UNCHANGED <<now, key, req, events, shown, began>>
  BY DEF ReadPage
<1>2. OwnIds(events) /\ IsFiniteSet(events)
  BY DEF TrailInv, Unique, Kept
<1>3. Shown(c) \subseteq After(c) /\ After(c) \subseteq events
  BY <1>2, Pages
<1>4. c \in Event \cup {None} /\ page.got \subseteq Event /\ events \subseteq Event
  BY TrailTypes DEF Reading
<1>5. more => next \in Shown(c) /\ \A f \in Shown(c) \ {next} : Newer(f, next)
  BY <1>2, NextCursor
<1>6. \A e \in After(c) : c # None => Newer(c, e)
  BY DEF After
<1>7. \A e \in page.got : c # None /\ (e = c \/ Newer(e, c))
  BY <1>1 DEF TrailInv, Read
<1>8. page.got \cap Shown(c) = {}
  <2> SUFFICES ASSUME NEW e \in page.got, e \in Shown(c) PROVE FALSE
    OBVIOUS
  <2>1. Newer(c, e) /\ c \in Event /\ e \in Event /\ (e = c \/ Newer(e, c))
    BY <1>3, <1>4, <1>6, <1>7
  <2>2. QED
    BY <2>1, NewerOrder
<1>9. ~page'.again
  BY <1>1, <1>8 DEF TrailInv, Read
<1>10. more => \A e \in page'.got : page'.cursor # None /\ (e = page'.cursor \/ Newer(e, page'.cursor))
  <2> SUFFICES ASSUME more, NEW e \in page.got \cup Shown(c)
               PROVE  next # None /\ (e = next \/ Newer(e, next))
    BY <1>1
  <2>1. next \in Event /\ next # None /\ next \in After(c)
    BY <1>3, <1>4, <1>5, NoneIsNoRow
  <2>2. CASE e \in Shown(c)
    BY <2>1, <2>2, <1>5
  <2>3. CASE e \in page.got
    <3>1. c \in Event /\ e \in Event /\ Newer(c, next) /\ (e = c \/ Newer(e, c))
      BY <2>1, <2>3, <1>4, <1>6, <1>7
    <3>2. QED
      BY <2>1, <3>1, NewerOrder
  <2>4. QED
    BY <2>2, <2>3
<1>11. ASSUME NEW e \in events, Ahead(e) PROVE e \in page'.got \/ Ahead(e)'
  <2>1. e \in After(c)
    BY <1>11 DEF Ahead, After
  <2>2. CASE e \in Shown(c)
    BY <2>2, <1>1
  <2>3. CASE e \notin Shown(c)
    <3>1. more
      BY <2>1, <2>3, <1>2, LastPage
    <3>2. Newer(next, e)
      BY <3>1, <2>1, <2>3, <1>2, <1>5, RestIsOlder
    <3>3. page'.step = "reading" /\ page'.cursor = next
      BY <3>1, <1>1
    <3>4. QED
      BY <3>2, <3>3 DEF Ahead
  <2>4. QED
    BY <2>2, <2>3
<1>12. page' \in Reading
  <2>1. more => next \in Event
    BY <1>3, <1>4, <1>5
  <2>2. page.got \cup Shown(c) \subseteq Event
    BY <1>3, <1>4
  <2>3. page.again \in BOOLEAN
    BY TrailTypes DEF Reading
  <2>4. (IF more THEN next ELSE None) \in Event \cup {None} /\ (IF more THEN "reading" ELSE "over") \in {"idle", "reading", "over"}
    BY <2>1
  <2>5. QED
    BY <2>2, <2>3, <2>4, <1>1 DEF Reading
<1>13. \A s \in Requests : HasRow(s)' <=> HasRow(s)
  BY <1>1 DEF HasRow
<1>14. Kept'
  BY <1>1, <1>12, <1>13, TrailTypes DEF Kept, TrailInv, TrailTypeOK
<1>15. Unique'
  BY <1>1, <1>13 DEF Unique, TrailInv, OwnIds
<1>16. Begun'
  BY <1>1 DEF Begun, TrailInv
<1>17. \A e \in events : Told(e) => Told(e)'
  BY <1>1 DEF Told
<1>18. page'.step # "idle" /\ (page'.step = "reading" => more) /\ page.got \subseteq page'.got
  BY <1>1
<1>19. page.step # "idle" /\ (\A e \in began \cap events : e \in page.got \/ Ahead(e))
                          /\ (\A e \in events : e \in page.got \/ Told(e) \/ Ahead(e))
  BY <1>1 DEF TrailInv, Read
<1>20. \A e \in began' \cap events' : e \in page'.got \/ Ahead(e)'
  BY <1>1, <1>11, <1>18, <1>19
<1>21. \A e \in events' : e \in page'.got \/ Told(e)' \/ Ahead(e)'
  BY <1>1, <1>11, <1>17, <1>18, <1>19
<1>22. Read'
  BY <1>9, <1>10, <1>18, <1>20, <1>21 DEF Read
<1>23. QED
  BY <1>14, <1>15, <1>16, <1>22 DEF TrailInv

LEMMA TrailTickKeeps ==
  ASSUME TrailInv, Tick
  PROVE  TrailInv'
<1>1. now' = now + 1 /\ now < MaxTime /\ UNCHANGED <<key, req, events, page, shown, began>>
  BY DEF Tick
<1>2. now \in Nat /\ now' \in Times
  BY <1>1, TrailTypes, AuditTrailAssumption DEF Times
<1>3. \A s \in Requests : HasRow(s)' <=> HasRow(s)
  BY <1>1 DEF HasRow
<1>4. Kept'
  BY <1>1, <1>2, <1>3, TrailTypes DEF Kept, TrailInv, TrailTypeOK
<1>5. Unique'
  BY <1>1, <1>3 DEF Unique, TrailInv, OwnIds
<1>6. \A e \in began : e.at \in Nat
  <2>1. Times \subseteq Nat
    BY AuditTrailAssumption DEF Times
  <2>2. QED
    BY <2>1, TrailTypes DEF Event
<1>7. \A e \in began : e \in events \/ e.at + Retention < now + 1
  BY <1>2, <1>6, AuditTrailAssumption DEF TrailInv, Begun
<1>8. Begun'
  BY <1>1, <1>7 DEF TrailInv, Begun
<1>9. \A e \in events : Told(e) => Told(e)'
  BY <1>1 DEF Told
<1>10. Read'
  BY <1>1, <1>9, ReadKept
<1>11. QED
  BY <1>4, <1>5, <1>8, <1>10 DEF TrailInv

LEMMA TrailStep == TrailInv /\ [TrailNext]_trailVars => TrailInv'
<1> SUFFICES ASSUME TrailInv, [TrailNext]_trailVars PROVE TrailInv'
  OBVIOUS
<1>1. ASSUME NEW r \in Requests,
             \/ Create(r) \/ FindKey(r) \/ Revoke(r) \/ Verify(r) \/ Touch(r) \/ TouchFails(r)
             \/ Happens(r) \/ RecordFails(r)
      PROVE  TrailInv'
  BY <1>1, RowlessSteps, RowlessKeeps
<1>2. ASSUME NEW r \in Requests, Stamp(r) PROVE TrailInv'
  BY <1>2, StampKeeps
<1>3. ASSUME NEW r \in Requests, Commit(r) \/ AnswerLost(r) PROVE TrailInv'
  BY <1>3, CommitKeeps
<1>4. ASSUME NEW r \in Requests, Tell(r) PROVE TrailInv'
  BY <1>4, TellKeeps
<1>5. CASE AuditCleanup
  BY <1>5, CleanupKeeps
<1>6. CASE Open
  BY <1>6, OpenKeeps
<1>7. CASE ReadPage
  BY <1>7, ReadPageKeeps
<1>8. CASE Tick
  BY <1>8, TrailTickKeeps
<1>9. CASE UNCHANGED trailVars
  BY <1>9 DEF trailVars, TrailInv, Kept, TrailTypeOK, Unique, OwnIds, Begun, Read, Ahead, Told, HasRow
<1>10. QED
  BY <1>1, <1>2, <1>3, <1>4, <1>5, <1>6, <1>7, <1>8, <1>9 DEF TrailNext

\* Every part of the state has the type of what it stands for.
THEOREM TrailTypeCorrect == TrailSpec => []TrailTypeOK
<1>1. TrailInv => TrailTypeOK
  BY DEF TrailInv, Kept
<1>2. QED
  BY <1>1, TrailInitially, TrailStep, PTL DEF TrailSpec

\* Whatever is inserted and deleted between the pages, a client that reads the trail to its
\* end sees no row twice and all that were there when it began, and with what the room was
\* told knows every row but those whose insert was taken for failed.
THEOREM NothingMissedOrTwice == TrailSpec => []TrailComplete
<1>1. TrailInv => TrailComplete
  BY DEF TrailInv, Read, Ahead, Told, TrailComplete, PagesComplete, RoomFillsGaps
<1>2. QED
  BY <1>1, TrailInitially, TrailStep, PTL DEF TrailSpec

LEMMA KeyStep ==
  ASSUME TrailInv, [TrailNext]_trailVars, key # None
  PROVE  /\ key.revoked => key'.revoked
         /\ key.used # None /\ key'.used # key.used => key'.used > key.used + Interval
<1>1. key \in Key
  BY TrailTypes
<1>2. ASSUME NEW r \in Requests, Revoke(r) PROVE key'.used = key.used /\ (key.revoked => key'.revoked)
  BY <1>1, <1>2 DEF Revoke, Key
<1>3. ASSUME NEW r \in Requests, Touch(r)
      PROVE  /\ key'.revoked = key.revoked
             /\ key.used # None /\ key'.used # key.used => key'.used > key.used + Interval
  <2>1. CASE key' = key
    BY <2>1
  <2>2. CASE key' = [key EXCEPT !.used = req[r].at] /\ (key.used = None \/ key.used + Interval < req[r].at)
    <3>1. key'.used = req[r].at /\ key'.revoked = key.revoked
      BY <1>1, <2>2 DEF Key
    <3>2. req[r].at \in Nat /\ (key.used # None => key.used \in Nat)
      BY <1>1, TrailTypes, AuditTrailAssumption DEF Key, Request, Times
    <3>3. QED
      BY <2>2, <3>1, <3>2, AuditTrailAssumption
  <2>3. QED
    BY <1>3, <2>1, <2>2 DEF Touch, Touches
<1>4. ASSUME NEW r \in Requests, Create(r) PROVE FALSE
  BY <1>4 DEF Create
<1>5. ASSUME NEW r \in Requests,
             \/ FindKey(r) \/ Verify(r) \/ TouchFails(r) \/ Happens(r) \/ Stamp(r) \/ Commit(r)
             \/ RecordFails(r) \/ AnswerLost(r) \/ Tell(r)
      PROVE  key' = key
  BY <1>5 DEF FindKey, Verify, TouchFails, Happens, Stamp, Commit, RecordFails, AnswerLost, Tell
<1>6. ASSUME AuditCleanup \/ Open \/ ReadPage \/ Tick \/ UNCHANGED trailVars PROVE key' = key
  BY <1>6 DEF AuditCleanup, Open, ReadPage, Tick, trailVars
<1>7. QED
  BY <1>2, <1>3, <1>4, <1>5, <1>6 DEF TrailNext

\* A key that was revoked stays revoked and the time of its last use never goes back,
\* whatever uses are written late.
THEOREM KeysAdvance == TrailSpec => KeyRowAdvances
<1>1. TrailInv /\ [TrailNext]_trailVars =>
        [key # None =>
           /\ key.revoked => key'.revoked
           /\ key.used # None /\ key'.used # key.used => key'.used > key.used + Interval]_trailVars
  BY KeyStep
<1>2. QED
  BY <1>1, TrailInitially, TrailStep, PTL DEF TrailSpec, KeyRowAdvances
=============================================================================

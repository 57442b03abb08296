----------------------------- MODULE FileStatus -----------------------------
(***************************************************************************)
(* What the file module promises of one file, whoever handles it and in    *)
(* whatever order: an upload is confirmed once, processed at most once,    *)
(* its outcome is final, and a deleted file stays deleted.                 *)
(***************************************************************************)
VARIABLE status

Statuses == {"none", "pending", "processing", "ready", "failed", "gone"}

Init == status = "none"

\* A direct upload starts pending; a stored file starts confirmed.
Create ==
  /\ status = "none"
  /\ status' \in {"pending", "processing", "ready"}

Confirm ==
  /\ status = "pending"
  /\ status' \in {"processing", "ready"}

Process ==
  /\ status = "processing"
  /\ status' \in {"ready", "failed"}

Delete ==
  /\ status \notin {"none", "gone"}
  /\ status' = "gone"

Next == Create \/ Confirm \/ Process \/ Delete

Spec == Init /\ [][Next]_status
=============================================================================

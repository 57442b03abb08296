---------------------------- MODULE MCAuditTrail ----------------------------
(* Model checking of AuditTrail: requests are interchangeable. *)
EXTENDS AuditTrail, TLC

Symmetry == Permutations(Requests)
=============================================================================

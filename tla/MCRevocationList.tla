-------------------------- MODULE MCRevocationList --------------------------
(* Replicas and calls are interchangeable. *)
EXTENDS RevocationList, TLC

Symmetry == Permutations(Replicas) \cup Permutations(Calls)
=============================================================================

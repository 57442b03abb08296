----------------------------- MODULE MCSessions -----------------------------
(* Model checking of Sessions: interchangeable identifiers are symmetric. *)
EXTENDS Sessions, TLC

Symmetry == Permutations(Requests)
=============================================================================

----------------------------- MODULE MCThrottle -----------------------------
(* Model checking of Throttle: requests are interchangeable. *)
EXTENDS Throttle, TLC

Symmetry == Permutations(Requests)
=============================================================================

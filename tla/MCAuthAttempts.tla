--------------------------- MODULE MCAuthAttempts ---------------------------
(* Model checking of AuthAttempts: the requests are interchangeable. *)
EXTENDS AuthAttempts, TLC

Symmetry == Permutations(Requests)
=============================================================================

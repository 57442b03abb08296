---------------------------- MODULE MCChallenges ----------------------------
(* Model checking of Challenges: requests, devices and credentials are interchangeable. *)
EXTENDS Challenges, TLC

Symmetry == Permutations(Requests) \cup Permutations(Devices)
=============================================================================

----------------------------- MODULE MCAccounts -----------------------------
(* Model checking of Accounts: requests and addresses are interchangeable. *)
EXTENDS Accounts, TLC

Symmetry == Permutations(Requests) \cup Permutations(Emails)
=============================================================================

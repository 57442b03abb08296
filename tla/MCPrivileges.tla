---------------------------- MODULE MCPrivileges ----------------------------
(* Two users, one of them the first superuser, and one role besides "admin". *)
EXTENDS Privileges, TLC

CONSTANTS u1, u2, file

MCInitialRoles == (u1 :> {Admin}) @@ (u2 :> Roles \ {Admin})
MCInitialPerms == [x \in Roles |-> IF x = Admin THEN {All} ELSE {file}]

MCWanted ==
  {[roles |-> {Admin}, direct |-> {}], [roles |-> Roles \ {Admin}, direct |-> {}],
   [roles |-> {}, direct |-> {All}], [roles |-> {}, direct |-> {}]}

MCWantedPerms == {{}, {All}}

Symmetry == Permutations(Requests)
=============================================================================

SPECIFICATION Spec
CONSTANTS
  u1 = u1
  u2 = u2
  file = file
  Admin = Admin
  All = All
  Users = {u1, u2}
  Requests = {r1, r2, r3}
  Roles = {Admin, editor}
  Perms = {All, file}
  InitialRoles <- MCInitialRoles
  InitialPerms <- MCInitialPerms
  Wanted <- MCWanted
  WantedPerms <- MCWantedPerms
  MaxTime = 4
SYMMETRY Symmetry
CHECK_DEADLOCK FALSE
INVARIANTS
  OutdatedWereInFlight
  NoSuperuserByOthers

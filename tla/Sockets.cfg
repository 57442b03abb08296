SPECIFICATION SocketsSpec
CONSTANTS
  a = a
  b = b
  u = u
  Sockets = {s1}
  Sessions = {a, b}
  Users = {u}
  SessionOf <- SessionA
  UserOf <- OneUser
  Changes = {c1, c2}
  TokenLife = 1
  Grace = 1
  MaxTime = 3
  MaxFailures = 1
CHECK_DEADLOCK FALSE
SYMMETRY Symmetry
INVARIANTS
  EndedSocketsClose
  RevokedLeave


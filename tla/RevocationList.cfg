SPECIFICATION Spec
CONSTANTS
  Replicas = {r1, r2}
  Sessions = {s1}
  Calls = {c1, c2, c3}
  AccessTtl = 4
  MarkTtl = 4
  CacheTtl = 1
  Second = 2
  Latency = 1
  MaxTime = 5
CHECK_DEADLOCK FALSE
SYMMETRY Symmetry
INVARIANTS
  OwnMarksHonoured
  MarksReachReplicas

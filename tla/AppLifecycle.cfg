SPECIFICATION Spec
CONSTANTS
  Requests = {r1, r2}
  Clients = {c1}
  Jobs = {j1, j2}
  Drain = 2
  Inflight = 1
  JobsTimeout = 1
  ForceAfter = 5
  ProbeEvery = 1
INVARIANTS ReadyRight WorkFindsParts ForcedOnlyHeld
PROPERTY Exits
CHECK_DEADLOCK FALSE

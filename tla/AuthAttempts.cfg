SPECIFICATION Spec
CONSTANTS
  Requests = {r1, r2, r3, r4}
  First = First
  None = None
  MaxFailures = 2
  Window = 1
  LockTime = 1
  TwoFactorTtl = 2
  ClaimAtLeast = 1
  ResetTtl = 1
  Cooldown = 1
  MaxTime = 2
SYMMETRY Symmetry
CHECK_DEADLOCK FALSE
INVARIANTS
  LimitLocks
  FailuresExpire
  TokensOneTime
  SessionsProved

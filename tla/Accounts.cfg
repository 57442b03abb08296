SPECIFICATION Spec
CONSTANTS
  Requests = {r1, r2, r3}
  Emails = {e1, e2}
  None = None
  MaxAttempts = 2
  CodeTtl = 1
  Cooldown = 1
  MaxTime = 1
SYMMETRY Symmetry
INVARIANTS
  CodesSound
  VerifiedByProof
PROPERTIES
  ChangeKept

SPECIFICATION Spec
CONSTANTS
  Requests = {r1, r2}
  SessionIds = {s1, s2}
  Tokens = {t1, t2, t3}
  MaxActive = 1
  AccessTtl = 1
  MarkTtl = 1
  RefreshTtl = 1
  MaxTime = 1
  None = None
SYMMETRY Symmetry
CHECK_DEADLOCK FALSE
INVARIANTS
  ExchangedOnce
  EndedTokensRejected
  NothingSignedAfterEnd
  DeletedUserRejected
  PasswordEndsSessions
  LimitKept
PROPERTY
  NoResurrection

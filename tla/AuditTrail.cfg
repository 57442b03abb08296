SPECIFICATION TrailSpec
CONSTANTS
  Requests = {r1, r2, r3}
  Ids = {1, 2, 3}
  PageLimit = 1
  Retention = 1
  Interval = 1
  MaxTime = 2
  None = None
SYMMETRY Symmetry
INVARIANT TrailComplete
PROPERTY KeyRowAdvances
CHECK_DEADLOCK FALSE

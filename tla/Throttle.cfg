SPECIFICATION ThrottleSpec
CONSTANTS
  Requests = {r1, r2, r3, r4, r5}
  Limit = 2
  Window = 2
  MaxFailures = 1
SYMMETRY Symmetry
INVARIANTS HandledOnce AtMostTwice
PROPERTY RefusedForCause
CHECK_DEADLOCK FALSE

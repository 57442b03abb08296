SPECIFICATION BothSpec
CONSTANTS
  Sockets = {a1, a2, a3}
  Replicas = {b1, b2}
  Ttl = 3
  MaxFailures = 1
  Requests = {a1, a2, a3}
  Devices = {b1, b2}
  Credentials = {c1}
  MaxDevices = 1
  First = First
  None = None
SYMMETRY Symmetry
INVARIANTS
  ConnectedStayOnline
  EntriesLeave
  ToldRight
  OneAnswerEach
  FoundNonceReset
  RetiredStayAway
  OthersSpareChallenge
CHECK_DEADLOCK FALSE

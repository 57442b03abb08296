SPECIFICATION FairSpec
CONSTANTS
  Calls = {c1, c2}
  Jobs = {gc}
  RetryLimit = 1
CHECK_DEADLOCK FALSE
INVARIANTS
  OriginalGoesWithFile
PROPERTIES
  NothingLost
  FollowsStatus
  FilesSettle

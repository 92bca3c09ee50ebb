SPECIFICATION FairSpec
CONSTANTS
  LiveCalls = FALSE
  AttemptLimit = 1
  RingLimit = 2
  KeepLimit = 3
  ExpireLimit = 4
  Reports = {}
  MaxSleep = 1
  MaxTests = 1
  MaxFailures = 0
PROPERTIES
  KeepsChecking
CHECK_DEADLOCK FALSE

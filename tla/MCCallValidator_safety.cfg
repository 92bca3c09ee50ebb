SPECIFICATION FairSpec
CONSTANTS
  AttemptLimit = 1
  RingLimit = 2
  KeepLimit = 3
  ExpireLimit = 4
  Reports = {"ringing", "answered"}
  LiveCalls = TRUE
  MaxSleep = 2
  MaxTests = 2
  MaxFailures = 1
INVARIANTS
  TypeOK
  PointerLive
  RowShowsRecord
PROPERTIES
  CommandReturns
CHECK_DEADLOCK FALSE

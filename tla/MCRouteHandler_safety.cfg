SPECIFICATION FairSpec
CONSTANTS
  Dids = {d1, d2}
  Calls = {c1, c2}
  None = None
  MaxFailures = 2
  MaxDrops = 2
  MaxRepeats = 1
  MaxEdits = 2
  MaxCrashes = 1
INVARIANTS
  TypeOK
  RestoredUnlessCaused
  MarkedIsAccountedFor
PROPERTIES
  PoolKept
  ReleasedByItsCall
  PoolRefills
CHECK_DEADLOCK FALSE

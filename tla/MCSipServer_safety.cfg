SPECIFICATION Spec
CONSTANTS
  Dids = {1, 2}
  Numbers = {n1, n2}
  CallIds = {c1}
  None = None
  StaleLimit = 0
  CallLimit = 0
  MaxInvites = 3
  MaxFailures = 1
  MaxEdits = 1
  MaxRestarts = 1
SYMMETRY MCSymmetry
INVARIANTS
  TypeOK
  InUseIsAccountedFor
  AllocationDurable
  BlocksOnlyWithoutReloads
  StageRecorded
PROPERTIES
  PoolKept
  PassesThroughFree
CHECK_DEADLOCK FALSE

SPECIFICATION FairSpec
CONSTANTS
  Dids = {1}
  Numbers = {n1}
  CallIds = {c1}
  None = None
  StaleLimit = 1
  CallLimit = 1
  MaxInvites = 1
  MaxFailures = 2
  MaxEdits = 0
  MaxRestarts = 0
PROPERTIES
  KeepsReloading
CHECK_DEADLOCK FALSE

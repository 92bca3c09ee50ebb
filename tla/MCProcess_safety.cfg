CONSTANTS
  d1 = d1
  d2 = d2
  event = event
  Modes = {"command", "shell", "daemon"}
  Lines = {d1, d2}
  Event = event
  Rows = {d1, d2, event}
  Old = {d1}
  MaxCommands = 2
  MaxCuts = 1
  MaxErrors = 1
SPECIFICATION FairSpec
\* a process ends, and may block for good
CHECK_DEADLOCK FALSE
INVARIANTS
  TypeOK
  UsesLive
  ImportKept
PROPERTY ShutdownEnds

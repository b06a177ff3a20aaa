\* Edits, pauses, a request, every fault of calls and runtime.
SPECIFICATION Spec
CONSTANTS
  r1 = r1
  None = None
  Request <- OneRequest
  Times = 2
  MaxTime = 3
  MaxVersion = 2
INVARIANTS
  TypeOK
  SyncedAgrees
  OneRunOpen
  RepeatsCounted
PROPERTIES
  PauseStops
CHECK_DEADLOCK FALSE

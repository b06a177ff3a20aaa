\* Slots after a run that never started.
SPECIFICATION Spec
CONSTANTS
  r1 = r1
  None = None
  Request <- NoRequest
  Times = 2
  MaxTime = 4
  MaxVersion = 1
PROPERTIES
  OverlapIsReal
CHECK_DEADLOCK FALSE

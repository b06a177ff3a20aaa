\* A request whose run ends before the next slot.
SPECIFICATION Spec
CONSTANTS
  r1 = r1
  None = None
  Request <- OneRequest
  Times = 2
  MaxTime = 2
  MaxVersion = 1
INVARIANTS
  CursorIsDriven
CHECK_DEADLOCK FALSE

SPECIFICATION Spec
CONSTANTS
  Request = {r1, r2}
  IDSpace = 4
  Room = 2
  BreakAt = {}
  HangAt = {}
  None = None
INVARIANT StreamMapSafe
CHECK_DEADLOCK FALSE

SPECIFICATION Spec
CONSTANTS
  Request = {r1, r2}
  IDSpace = 4
  Room = 1
  BreakAt = {0, 1}
  HangAt = {1}
  None = None
PROPERTIES RequestsAnswered LoopEnds TasksEnd
CHECK_DEADLOCK FALSE

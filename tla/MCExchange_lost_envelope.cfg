SPECIFICATION Spec
CONSTANTS
  Request = {r1}
  IDSpace = 4
  Room = 2
  BreakAt = {}
  HangAt = {}
  None = None
PROPERTY EnvelopesArrive
CHECK_DEADLOCK FALSE

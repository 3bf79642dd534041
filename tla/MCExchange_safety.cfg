SPECIFICATION Spec
CONSTANTS
  Request = {r1, r2}
  IDSpace = 2
  Room = 2
  BreakAt = {0, 1, 2}
  HangAt = {}
  None = None
INVARIANTS TypeOK OwnResponse DeliveryNeverBlocks NoStreamLeaks
SYMMETRY Symmetry
CHECK_DEADLOCK FALSE

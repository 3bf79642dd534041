SPECIFICATION Spec
CONSTANTS
  Request = {r1, r2}
  MaxConn = 2
  MaxFaults = 2
  RetryLimits = {0}
  Closable = FALSE
  None = None
INVARIANT AnswersStayInEpoch
SYMMETRY Symmetry
CHECK_DEADLOCK FALSE

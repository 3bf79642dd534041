SPECIFICATION Spec
CONSTANTS
  Request = {r1}
  MaxConn = 3
  MaxFaults = 1
  RetryLimits = {0, 2}
  Closable = TRUE
  None = None
INVARIANTS TypeOK OneReader
PROPERTIES LossIsRetried CloseEnds Reconnects
CHECK_DEADLOCK FALSE

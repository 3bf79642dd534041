SPECIFICATION Spec
CONSTANTS
  Base = 2
  Unreadable = Unreadable
  StringsToLower <- Lowered
  MaxHost = 6
  MaxName = 3
  MaxPayload = 18
  MaxFree = 6
INVARIANT EnvironmentSuffices
CHECK_DEADLOCK FALSE

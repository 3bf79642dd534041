SPECIFICATION Spec
CONSTANTS
  Base = 2
  Unreadable = Unreadable
  StringsToLower <- Lowered
  MaxHost = 6
  MaxName = 3
  MaxPayload = 18
  MaxFree = 6
INVARIANTS HostsRead NamesReachable PortsRight FramesRoundTrip FramesWhole SettingsPrecedence
CHECK_DEADLOCK FALSE

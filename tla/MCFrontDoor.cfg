SPECIFICATION DoorSpec
CONSTANTS
  IP = {a}
  Call = {k1, k2}
  Burst = 1
  Full = 2
  Idle = 3
  MaxStall = 1
  MaxTime = 4
  Token = {t1, t2}
  BadToken = bad
  OldToken = old
  ScopeSets <- Scopes
  TTLs = {1}
  None = None
SYMMETRY Symmetry
INVARIANTS DoorTypeOK VerdictsFair TriesBounded
PROPERTIES CreditNeverGrows ImplementsBucket

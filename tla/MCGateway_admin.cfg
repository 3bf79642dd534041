SPECIFICATION Spec
CONSTANTS
  s1 = s1
  s2 = s2
  None = None
  Session = {s1, s2}
  Request = {r1}
  ConnID <- Generated
  UserID <- User
  Subdomain <- Subs
  Reserved <- ReservedSubs
  SubLength <- SubLen
  MaxSubdomainLength = 0
  DefaultTTL = 3600
  Offer <- Either
  Deletable <- AllIDs
INVARIANTS IndexConsistent RoutesLead
CHECK_DEADLOCK FALSE

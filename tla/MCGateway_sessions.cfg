SPECIFICATION Spec
CONSTANTS
  s1 = s1
  s2 = s2
  None = None
  Session = {s1, s2}
  Request = {r1}
  ConnID <- Generated
  UserID <- User
  Subdomain <- Subs
  Reserved <- ReservedSubs
  SubLength <- SubLen
  MaxSubdomainLength = 0
  DefaultTTL = 3600
  Offer <- Offers
  Deletable = {}
INVARIANTS TypeOK GaugeCounts NothingLeaks RoutesFollowRegistry ServedTunnelsRoutable RoutingInv
           LookupsFindTunnels
PROPERTIES HandedToHolder GoneClientsAreCleaned
CHECK_DEADLOCK FALSE

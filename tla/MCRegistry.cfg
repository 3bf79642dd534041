SPECIFICATION Spec
CONSTANTS
  Subdomain <- Sub
  SubLength <- SubLen
  Reserved = {"api"}
  MaxSubdomainLength = 3
  DefaultTTL = 1
  Submitted <- Distinct
  MaxTime = 4
  Nil = Nil
INVARIANTS TypeOK IndexExact
PROPERTY ImplementsNameTable

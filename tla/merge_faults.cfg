SPECIFICATION FairSpec
CONSTANTS
  c1 = c1
  c2 = c2
  c3 = c3
  r1 = r1
  r2 = r2
  g1 = g1
  g2 = g2
  d1 = d1
  d2 = d2
  Customers <- ThreeCustomers
  Persons <- SamePerson
  Subscribers <- Nobody
  Groups <- OneGroup
  Requests <- OneRequest
  Detections <- OneScan
  Plan = "basic"
  None = None
  MaxRetries = 2
  MaxFaults = 1
  MaxCrashes = 1
INVARIANTS
  PaidMergesAreBackedUp
PROPERTIES
  RequestsSettle
CHECK_DEADLOCK FALSE

SPECIFICATION Spec
CONSTANTS
  c1 = c1
  c2 = c2
  c3 = c3
  r1 = r1
  r2 = r2
  g1 = g1
  g2 = g2
  d1 = d1
  d2 = d2
  Customers <- ThreeCustomers
  Persons <- SamePerson
  Subscribers <- Nobody
  Groups <- TwoGroups
  Requests <- TwoRequests
  Detections <- TwoScans
  Plan = "pro"
  None = None
  MaxRetries = 1
  MaxFaults = 0
  MaxCrashes = 0
SYMMETRY Symmetry
INVARIANTS
  TypeOK
  RecordsAreTrue
  MergedGroupsAreAudited
  OneWinner
  OneOpenGroupPerSet
CHECK_DEADLOCK FALSE

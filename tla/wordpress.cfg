SPECIFICATION Spec
CONSTANTS
  a = a
  b = b
  c = c
  j1 = j1
  j2 = j2
  Customers <- ThreeCustomers
  Jobs <- TwoJobs
  Nobody = Nobody
  MaxMergeRetries = 2
  MaxRetries = 2
  MaxGroups = 2
  MaxPushes = 1
  MaxFaults = 1
INVARIANTS
  TypeOK
  MergedLeaveTheCache
  OrdersFollowMerges
PROPERTIES
  ActiveStayCached
SYMMETRY Symmetry
CHECK_DEADLOCK FALSE

SPECIFICATION Spec
CONSTANTS
  c1 = c1
  c2 = c2
  p1 = p1
  p2 = p2
  None = None
  Absent = None
  Customers <- TwoCustomers
  PageOf <- TwoPages
  Handlers <- OneHandler
  MaxEvents = 2
  MaxInstalls = 2
  MaxFaults = 1
INVARIANTS
  TypeOK
  NothingKeptOfGoneShop
  SyncRepairs
  CurrentRows
PROPERTIES
  LiveRowsKept
CHECK_DEADLOCK FALSE

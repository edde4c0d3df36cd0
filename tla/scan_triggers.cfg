SPECIFICATION ScanSpec
CONSTANTS
  d1 = d1
  d2 = d2
  shop = shop
  w1 = w1
  w2 = w2
  g1 = g1
  g2 = g2
  NoJob = NoJob
  Jobs <- TwoDetects
  DetectJobs <- TwoDetects
  Merchants <- OneShop
  MerchantOf <- ShopOfJob
  Workers <- TwoWorkers
  MaxRetries = 2
  MaxCrashes = 1
  MaxFaults = 1
  MaxOverruns = 1
  MaxQueue = 2
  Groups <- TwoGroups
  OwnerOf <- ShopOfGrp
INVARIANTS
  ScanTypeOK
  ChangesAreScanned
  NewGroupsAreAnnounced
CONSTRAINT OneTrouble
SYMMETRY Symmetry
CHECK_DEADLOCK FALSE

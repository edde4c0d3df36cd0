SPECIFICATION Spec
CONSTANTS
  d1 = d1
  d2 = d2
  m1 = m1
  shop1 = shop1
  shop2 = shop2
  w1 = w1
  w2 = w2
  NoJob = NoJob
  Jobs <- TwoDetects
  DetectJobs <- TwoDetects
  Merchants = {shop1}
  MerchantOf <- SameShop
  Workers <- TwoWorkers
  MaxRetries = 2
  MaxCrashes = 1
  MaxFaults = 1
  MaxOverruns = 1
  MaxQueue = 2
INVARIANTS
  TypeOK
  QueuedIsCarried
  FailedIsExhausted
  InFlightMatchesHolders
  OneRunner
  SuccessPaidByCrash
PROPERTIES
  FinishedIsFinal
CONSTRAINT TwoTroubles
SYMMETRY Symmetry
CHECK_DEADLOCK FALSE

SPECIFICATION FairSpec
CONSTANTS
  d1 = d1
  d2 = d2
  m1 = m1
  shop1 = shop1
  shop2 = shop2
  w1 = w1
  w2 = w2
  NoJob = NoJob
  Jobs <- OneOfEach
  DetectJobs <- OneDetect
  Merchants = {shop1}
  MerchantOf <- SameShop
  Workers <- TwoWorkers
  MaxRetries = 2
  MaxCrashes = 1
  MaxFaults = 0
  MaxOverruns = 0
  MaxQueue = 2
PROPERTIES
  EventuallyFinished
  ProcessingIsRecovered
  LifecycleSpec
CHECK_DEADLOCK FALSE

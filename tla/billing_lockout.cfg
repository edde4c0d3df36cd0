SPECIFICATION Spec
CONSTANTS
  u1 = u1
  u2 = u2
  s1 = s1
  ch1 = ch1
  ch2 = ch2
  None = None
  Mergers <- OneMerger
  Savers <- NoSaver
  Charges <- NoCharge
  PlanOf <- Plans
  Absent = None
  FreeLimit = 2
  MaxMonth = 1
  MaxCount = 3
  MaxFaults = 0
PROPERTIES
  RefusedOnlyAtLimit
CHECK_DEADLOCK FALSE

SPECIFICATION Spec
CONSTANTS
  u1 = u1
  u2 = u2
  s1 = s1
  ch1 = ch1
  ch2 = ch2
  None = None
  Mergers <- TwoMergers
  Savers <- OneSaver
  Charges <- TwoCharges
  PlanOf <- Plans
  Absent = None
  FreeLimit = 1
  MaxMonth = 1
  MaxCount = 2
  MaxFaults = 1
INVARIANTS
  TypeOK
  OvershootBounded
  CounterCoversMerges
  PlanSurvivesSaves
  PlanFollowsCharges
CONSTRAINT FewCallbacks
SYMMETRY Symmetry
CHECK_DEADLOCK FALSE

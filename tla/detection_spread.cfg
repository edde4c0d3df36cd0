SPECIFICATION Spec
CONSTANTS
  NoEmail = NoEmail
  NoAddress = NoAddress
  None = None
  Inputs <- ManyCustomers
  Preferences <- FewPreferences
  CrossDomainLimit = 4
CHECK_DEADLOCK FALSE
INVARIANTS
  ConflictsSpread

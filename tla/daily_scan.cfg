SPECIFICATION Spec
CONSTANTS
  m1 = m1
  m2 = m2
  r1 = r1
  r2 = r2
  OnWebhook = OnWebhook
  Never = Never
  Nothing = Nothing
  Merchants <- OneMerchant
  Clients <- TwoClients
  HoursPerDay = 2
  StepsPerHour = 2
  MaxTime = 8
  MaxRequests = 2
  MaxFaults = 2
INVARIANTS
  TypeOK
  ScannedOnceADay
PROPERTIES
  OtherPreferencesKept
CHECK_DEADLOCK FALSE
SYMMETRY Symmetry

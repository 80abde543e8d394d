CONSTANTS
  Tenants = {t1, t2}
  None = None
  Urls = {u1}
  Models = {official}
  Fallback = official
  Hosted = Hosted
  MaxOps = 3
  MaxFaults = 1
  Apart = TRUE
SPECIFICATION Spec
INVARIANTS
  TokenOfService
  AdapterVerified
  SelectionServed
PROPERTIES
  OwnIntent
  SwitchEnds
CHECK_DEADLOCK FALSE

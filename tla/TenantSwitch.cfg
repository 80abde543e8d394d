SPECIFICATION FairSpec
CONSTANTS
  Tenants = {a, b}
  None = None
  MaxFails = 2
INVARIANTS
  SwitchIsLocked
  ServedIsActive
PROPERTIES
  OnlyLoginUnlocks
  CommitIsSafe
  SwitchesEnd
  ImplementsTransaction

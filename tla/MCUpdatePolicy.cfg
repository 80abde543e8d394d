SPECIFICATION MCSpec
CONSTANTS
  Dids = {1}
  Refreshes = {r1, r2}
  Strays = {s1}
  Failures = TRUE
  Tenants = {t1, t2}
  MaxRevision = 2
  Restricting = {2}
  MaxSwitches = 1
SYMMETRY Symmetry
INVARIANTS
  RestrictedIsStopped
  StatusIsCurrent
PROPERTY NeverOlder

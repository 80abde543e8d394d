SPECIFICATION FairSpec
CONSTANTS
  Dids = {1}
  Refreshes = {}
  Strays = {s1}
  Failures = TRUE
  Callers = {c1, c2}
  Ops = {"logout", "login", "clear", "getSession", "getIdentity"}
INVARIANT SignOutIsDurable
PROPERTY CallsReturn

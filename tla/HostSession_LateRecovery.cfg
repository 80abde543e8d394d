SPECIFICATION Spec
CONSTANTS
  Dids = {1}
  Refreshes = {}
  Strays = {s1}
  Failures = FALSE
  Callers = {c1, c2}
  Ops = {"logout", "recover"}
INVARIANT SignOutIsDurable

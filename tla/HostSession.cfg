SPECIFICATION Spec
CONSTANTS
  Dids = {1}
  Refreshes = {}
  Strays = {s1}
  Failures = TRUE
  Callers = {c1, c2}
  Ops = {"logout", "login", "recover", "clear", "retire", "getSession", "register"}
INVARIANT ClearsAlone
INVARIANT NeverStuck
PROPERTY RecoveryYields
PROPERTY StartsApart

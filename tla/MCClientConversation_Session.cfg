CONSTANTS
  t1 = t1
  t2 = t2
  a = a
  b = b
  d = d
  Tenants = {t1, t2}
  Nobody = Nobody
  Mail <- MCMail
  NoConversation = NoConversation
  PageSize = 1
  MaxTasks = 2
  MaxMessages = 1
  MaxOps = 4
  MaxFaults = 1
  PatientUser = TRUE
SPECIFICATION Spec
INVARIANTS
  RowsOfSelection
PROPERTIES
  ClosedIsQuiet
  OpenPolls
CHECK_DEADLOCK FALSE

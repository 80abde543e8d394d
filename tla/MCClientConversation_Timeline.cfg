CONSTANTS
  t1 = t1
  t2 = t2
  a = a
  b = b
  d = d
  Tenants = {t1}
  Nobody = Nobody
  Mail <- MCMail
  NoConversation = NoConversation
  PageSize = 2
  MaxTasks = 2
  MaxMessages = 3
  MaxOps = 3
  MaxFaults = 0
  PatientUser = FALSE
SPECIFICATION Spec
PROPERTIES
  RowsKept
  CatchesUp
CHECK_DEADLOCK FALSE

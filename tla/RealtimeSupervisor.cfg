CONSTANTS
  Sessions = {w1, w2, w3}
  NoSession = NoSession
  RetryCap = 2
SPECIFICATION FairSpec
PROPERTIES
  DisposeReturns
  KeepsWorking
  ImplementsConnection
CHECK_DEADLOCK FALSE

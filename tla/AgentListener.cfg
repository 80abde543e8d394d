CONSTANTS
  Conversations = {c1}
  Kinds = {"new", "text"}
  MaxMessages = 3
  MaxTrouble = 1
  OverlappingSync = FALSE
SPECIFICATION ListenerFairSpec
INVARIANTS
  ContinuousPrefix
PROPERTIES
  ImplementsMailbox
  ReadOnlyWhenDurable
  
  StopDrains
CHECK_DEADLOCK FALSE

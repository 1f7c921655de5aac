SPECIFICATION FairSpec
CONSTANTS
  QueueLen = 1
  MaxScans = 1
  MaxFound = 0
CHECK_DEADLOCK FALSE
INVARIANTS
  TypeOK
  StoppedIsQuiet
  LedIsTimed
PROPERTIES
  JoinEnds
  BlinkEnds

SPECIFICATION Spec
CONSTANTS
  c1 = c1
  c2 = c2
  w = w
  Callers <- MCCallers
  Worker = w
  Capacity = 2
  MaxRecords = 3
  ExclusiveShutdown = TRUE
INVARIANTS
  NoRecordLost
  WrittenInOrder
PROPERTIES
  FlushEmptiesQueue
  KeptIsWritten
CHECK_DEADLOCK FALSE

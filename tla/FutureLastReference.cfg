\* The last reference to a pending future may go anywhere, under a mutex too.
SPECIFICATION Spec
CONSTANTS
  main = main
  worker = worker
  Threads <- BothThreads
  Workers <- OnlyWorker
  Users <- OnlyMain
  Pumper = main
  Registered <- BothThreads
  MaxFutures = 2
  MaxInterventions = 3
  TakesResult = {FALSE}
  AskedTypes <- BothQueues
  LastReference = TRUE
INVARIANTS
  NoLockCycle
CHECK_DEADLOCK FALSE

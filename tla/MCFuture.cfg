\* Three futures at most, every order of calls.
SPECIFICATION Spec
CONSTANTS
  main = main
  worker = worker
  Threads <- BothThreads
  Workers <- OnlyWorker
  Users <- OnlyMain
  Pumper = main
  Registered <- BothThreads
  MaxFutures = 3
  MaxInterventions = 1
  TakesResult = {FALSE, TRUE}
  AskedTypes <- BothQueues
  LastReference = FALSE
INVARIANTS
  CalledOnceInOrder
  NothingForgotten
  NoLockCycle
PROPERTIES
  ImplementsPromises
CHECK_DEADLOCK FALSE

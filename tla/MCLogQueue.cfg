SPECIFICATION Spec
CONSTANTS
  p1 = p1
  p2 = p2
  c1 = c1
  r1 = r1
  r2 = r2
  none = none
  Pushers <- MCPushers
  Poppers <- MCPoppers
  Records <- MCRecords
  NoRecord <- none
  RequestedCapacity = 2
  Capacity = 2
  MaxPushes = 3
INVARIANT NoRecordRace
INVARIANT RetryMeansProgress
INVARIANT QueueInv
PROPERTY ImplementsFifo

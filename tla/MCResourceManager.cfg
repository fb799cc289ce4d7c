SPECIFICATION Spec
CONSTANTS
  c1 = c1
  c2 = c2
  p1 = p1
  p2 = p2
  Clients <- TheClients
  Paths <- ThePaths
  MaxLoads = 3
INVARIANTS
  SharedUnlessRaced
PROPERTIES
  LoadsFinish
CHECK_DEADLOCK FALSE

SPECIFICATION Spec
CONSTANTS
  c1 = c1
  c2 = c2
  p1 = p1
  p2 = p2
  Clients <- TheClients
  Paths <- ThePaths
  MaxLoads = 3
INVARIANT InFlightShared
CHECK_DEADLOCK FALSE

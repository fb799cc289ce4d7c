\* Up to two entities at a time and four in all, of two types; two values, to tell rows apart.
SPECIFICATION Spec
CONSTANTS
  position = position
  velocity = velocity
  Types <- TypePair
  Values <- TwoValues
  ZeroValue = 0
  MaxComponentTypes = 2
  InitialEntityCapacity = 1
  InitialArchetypeEntityCapacity = 1
  Capacities = {2}
  ReservedMasks <- TwoMasks
  RegisteredMasksOnly = TRUE
  MaxEntities = 2
  MaxIssued = 4
  LastGeneration = 2
SYMMETRY TypeSymmetry
INVARIANTS
  RecordsMatchRows
  FreeListExact
  SealedWithinLimits
  ForEachVisitsMatches
PROPERTIES
  ImplementsEntityMap
CHECK_DEADLOCK FALSE

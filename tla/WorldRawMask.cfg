\* Archetypes may be reserved by raw masks, before their types are registered.
SPECIFICATION Spec
CONSTANTS
  position = position
  velocity = velocity
  Types <- TypePair
  Values <- TwoValues
  ZeroValue = 0
  MaxComponentTypes = 2
  InitialEntityCapacity = 1
  InitialArchetypeEntityCapacity = 1
  Capacities = {2}
  ReservedMasks <- EveryMask
  RegisteredMasksOnly = FALSE
  MaxEntities = 2
  MaxIssued = 3
  LastGeneration = 2
INVARIANT
  ColumnsMatchMask
CHECK_DEADLOCK FALSE

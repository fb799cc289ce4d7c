SPECIFICATION Spec
CONSTANTS
  kFramesInFlight = 2
  ImageCount = 2
  kMaxSubmittedCommandLists = 2
  Capacity = 3
  MaxGeneration = 2
  MaxEvents = 2
  DestroyBetweenFrames = FALSE
INVARIANTS
  NoUseAfterDestroy
  FrameAtRest
  SemaphoresBinary
  ObjectsOrdered
PROPERTIES
  WaitsEnd
CHECK_DEADLOCK FALSE

\* A ring of two cells, so that the second event of a poll is lost.
SPECIFICATION Spec
CONSTANTS
  jump = jump
  fire = fire
  left = left
  right = right
  Actions <- TwoActions
  Keys <- TwoKeys
  AllKeys <- TwoKeys
  QueueCapacity = 2
  MaxInitializations = 2
  MaxTasks = 1
INVARIANTS
  ServicesOutliveCallbacks
  NothingLeftBehind
  CountsMatchBindings
PROPERTIES
  CloseEndsRun
CHECK_DEADLOCK FALSE

\* A key that is released while nothing is bound to it.
SPECIFICATION Spec
CONSTANTS
  jump = jump
  fire = fire
  left = left
  right = right
  Actions <- OneAction
  Keys <- TwoKeys
  AllKeys <- TwoKeys
  QueueCapacity = 3
  MaxInitializations = 1
  MaxTasks = 0
INVARIANTS
  PressedMeansDown
CHECK_DEADLOCK FALSE

SPECIFICATION Spec
CONSTANTS
  w1 = w1
  w2 = w2
  c1 = c1
  c2 = c2
  Workers <- MCWorkers
  Callers <- MCCallers
  Priorities = {98, 150}
  AgeRate = 1
  MaxTaskId = 3
  MaxNow = 2
INVARIANTS
  TasksAccounted
PROPERTIES
  OlderTaskNotOvertaken
  DrainMeansDone
  ShutdownDrains
  AcceptedFinishes
  CallsReturn

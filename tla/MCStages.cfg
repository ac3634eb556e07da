SPECIFICATION Grading
CONSTANTS
  None = None
  MostReplicas = 5
  Burst = 2
  Lag = 1
INVARIANTS
  NoneSkipsAhead
PROPERTIES
  KeepsItsStages
CHECK_DEADLOCK FALSE

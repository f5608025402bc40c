SPECIFICATION FairSpec
CONSTANTS
  Others = {o1}
  FDs = {3}
  Callbacks = {a}
  Tasks = {k1, k2}
  MaxCancels = 1
  PipeCapacity = 2
  TasksMayThrow = TRUE
  None = None
PROPERTIES
  LoopSafe
  LoopServes
CHECK_DEADLOCK FALSE

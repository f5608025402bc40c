SPECIFICATION AnySpec
CONSTANTS
  Others = {o1}
  FDs = {3, 4}
  Callbacks = {a, b}
  Tasks = {}
  MaxCancels = 1
  PipeCapacity = 2
  TasksMayThrow = TRUE
  None = None
  Producers = {p1, p2}
  Consumers = {c1, c2}
  Jobs = {x, y}
  max_size_ = 3
  MaxLength = 4
  MaxTime = 2
SYMMETRY Symmetry
INVARIANTS
  NoJobLost
  InTime
PROPERTIES
  LoopSafe
CHECK_DEADLOCK FALSE

SPECIFICATION AnySpec
CONSTANTS
  Users = {"t1", "t2"}
  Callbacks = {"a", "b"}
  None = None
  MaxRequestBody = 3
  MaxResponseBody = 4
  kMaxWriteBufferSize = 2
INVARIANTS
  ServerSafe
  ServerComplete
PROPERTIES
  PromiseSafe
  WaitersServed
  ServerAnswers
  RequestSettles
  StatsArrive
  PoolServes
CHECK_DEADLOCK FALSE

SPECIFICATION FairSpec
CONSTANTS
  Clients = {c1}
  Threads = {t1, t2, t3}
  max_cached_threads = 1
  MaxTasks = 3
  SpawnMayFail = TRUE
  AbortOnException = FALSE
INVARIANTS
  WorkersSafe
  StartedInOrder
PROPERTIES
  EveryTaskStarts
CHECK_DEADLOCK FALSE

SPECIFICATION FairSpec
CONSTANTS
  Workers = {w1, w2}
  Clients = {u1}
  Owner = o
  Tasks = {a, b, c}
  maxqueuelen = 1
  block = TRUE
  ShortCtor = FALSE
  HandlerAborts = TRUE
  MaxLength = 3
  None = None
INVARIANTS
  DrainsOnce
PROPERTIES
  DueTasksRun
CHECK_DEADLOCK FALSE

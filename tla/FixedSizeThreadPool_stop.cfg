SPECIFICATION FairSpec
CONSTANTS
  Workers = {w1}
  Clients = {c1}
  Owner = o
  Tasks = {a}
  maxqueuelen = 1
  block = TRUE
  ShortCtor = FALSE
  HandlerAborts = FALSE
  MaxLength = 3
  None = None
PROPERTIES
  StopReturns
CHECK_DEADLOCK FALSE

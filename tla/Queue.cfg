SPECIFICATION FairSpec
CONSTANTS
  Threads = {t1, t2, t3}
  Values = {v1, v2}
  max_size_ = 2
  MaxLength = 0
  None = None
INVARIANTS
  QueueSafe
PROPERTIES
  IsFIFO
  BlockedProceed
CHECK_DEADLOCK FALSE

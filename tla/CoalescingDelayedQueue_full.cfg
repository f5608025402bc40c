SPECIFICATION CoalSpec
CONSTANTS
  Producers = {p1, p2}
  Consumers = {c1, c2}
  Jobs = {a, b}
  max_size_ = 2
  MaxLength = 3
  MaxTime = 2
  None = None
INVARIANTS
  FullMeansFull

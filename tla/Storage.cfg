SPECIFICATION AnySpec
CONSTANTS
  Holders = {h1, h2}
  Sizes = {0, 1, 3}
  block_size_ = 2
  InitialEnd = 1
  MaxEnd = 7
  None = None
  MmapBlock = 2
  ConcurrentShrink = FALSE
  IOMayFail = TRUE
  Procs = {p1, p2, p3}
  Depth = 3
  NoProc = NoProc
  Owners = {o1, o2}
  Names = {"a", "b"}
  BufSize = 2
  MaxFd = 3
  MaxFiles = 2
  MaxChanges = 2
  Ids = {1, 2, 3, 4}
  Hash <- Hashes
  Readers = {r1}
  kInitialSlots = 4
  kFetchIOBatchSize = 3
  kProbeIOBatchSize = 2
INVARIANTS
  PagesPartition
  PagesMapped
  RecordsKept
  FilesSafe
  HandlesSafe
PROPERTIES
  IsASet
  GetPageReturns
CHECK_DEADLOCK FALSE

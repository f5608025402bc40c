SPECIFICATION ServerSpec
CONSTANTS
  MaxRequestBody = 2
  MaxResponseBody = 3
  kMaxWriteBufferSize = 1
INVARIANTS
  FreesItself
CHECK_DEADLOCK FALSE

SPECIFICATION AnySpec
CONSTANTS
  NoAddr = NoAddr
  Threads = {u1, u2, u3}
  Callbacks = {a, b}
  MaxGen = 2
  FutureGenerations = FALSE
  Users = {t1, t2}
  Cells = {c1, c2, c3}
  Objects = {o1, o2}
  NoRef = none
  Null = null
  MaxRaw = 1
  Requests = {q1, q2}
  RequestSize = 2
  MaxBody = 2
  Connections = {k1, k2}
  Nobody = nobody
  MaxFd = 3
  MaxSockets = 4
  MaxBytes = 1
  Resolvers = {d1, d2, d3}
  Addresses <- SomeAddrs
  Ips = {x, y}
INVARIANTS
  EventSafe
  HTTPSurvives
  JSONSurvives
  SchemasEvolve
  StreamsAgree
  BytesKept
  TextSurvives
  SocketsSafe
  RefsCounted
  ClientSafe
  DeltasConserved
  
CHECK_DEADLOCK FALSE

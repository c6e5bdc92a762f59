SPECIFICATION Spec
CONSTANTS
  ClassCount = 3
  MaxEdges = 3
  MaxOps = 1
  Listeners = {l1, l2, l3}
  MaxOns = 3
  MaxEmissions = 2
  MinutesPerHour = 2
  HoursPerDay = 2
  Almanac <- LeapYears
  TurnedBackAt = 5
  TurnedBackBy = 2
  Expressions <- CronExpressions
  SearchMinutes = 14
  TimerLimit = 6
  MaxClock = 14
  MaxRuns = 2
  Types = {t1, t2}
  Contexts = {x1, x2}
  NoContext = NoContext
  LeadType = t1
  LeadContext = x1
  LeadSwapper = sw1
  MaxDeclarations = 2
  LoadKeys = {lk1, lk2, lk3}
  MaxItems = 4
  MaxEvents = 3
  MaxEntities = 2
  EntityCount = 2
  Swappers = {sw1, sw2}
  MaxWrites = 1
  NoSwapper = NoSwapper
  Puts = {w1, w2}
  Sizes = {0, 3}
  Threshold = 2
  PartSize = 2
  KeyCount = 3
  Nested = {2}
  PageSize = 1
  Readers = {rd1, rd2}
  Int4Max = 1
  SafeMax = 3
  Int8Max = 6
  MaxRows = 3
  MaxNesting = 3
  DepthLimit = 2
  Openers = {o1, o2}
  MaxLoads = 2
  FileCount = 2
  MaxPart = 2
  BoundCallers = {a1, a2}
  CurrentService = a1
  Services = {sv}
  Offered = {op1, op2}
  MaxReconfigurations = 2
  Anyone = Anyone
  NoTarget = NoTarget
  Requests = {q1}
  MaxVersions = 2
  MaxSwaps = 3
  Controllers = {c1, c2}
  Schemas = {sc1, sc2, sc3}
  MaxEndpoints = 2
  RefersTo <- Ring
  Calls = {k1, k2}
  LeadCall = k1
  MaxIssued = 2
  MaxJar = 2
  PolicyClasses = {p1, p2}
  Methods <- MethodSeq
  Resources = {r1, r2}
  Actions = {"read", "create"}
  Facts = {f1}
  MaxDecorations = 4
  MaxMoment = 2
  BatchCalls = {b1, b2, b3}
  RpcHosts = {h1}
  StreamReaders = {e1, e2}
  Int32Max = 1
  SafeInteger = 3
  Int64Max = 7
  MaxServers = 3
  Interceptors = 2
  MaxStreamed = 3
INVARIANTS Wiring Faithful Storage Requesting
PROPERTIES StepsTell
CHECK_DEADLOCK FALSE

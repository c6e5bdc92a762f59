SPECIFICATION Spec
CONSTANTS
  Requests = {q1, q2}
  MaxTokens = 3
  Callers = {c1, c2}
  MaxSessions = 2
  MaxClock = 3
  Absolute = 3
  Inactivity = 2
  Touch = 1
  Flows = {f1, f2}
  Subjects = {alice}
  Scopes = {s1, s2}
  AllowedScopes = {s1}
  NoFlow = NoFlow
  MaxGrants = 2
  Verifiers = {v1, v2}
  MaxKey = 2
  Start = 10
  End = 15
  CacheTtl = 2
  MaxStale = 3
  MinRefresh = 1
  Registrations = {r1, r2}
  Logins = {l1, l2}
  Handlers = {h1, h2}
  MaxCount = 2
  NoCeremony = NoCeremony
  Clients = {k1, k2, k3}
  Passwords = {p1, p2}
  MaxAttempts = 2
  NoPassword = NoPassword
  BridgeCalls = {b1, b2, b3}
  BridgeMessages = {m1}
  InboundRoutes = 1
  NoHandle = NoHandle
  QueueJobs = {j1, j2}
  PollSlots = {p1, p2}
  WorkerLimit = 1
  JobRetries = 1
  MaxStarts = 2
  MaxDeliveries = 2
  StoreUsers = {u1, u2}
  StoreKeys = {k1}
  NoValue = NoValue
  MaxHandles = 2
  MaxChanges = 2
  MaxTerm = 2
  Operations = {o1, o2}
  OperationIds = {i1, i2}
  NoOperation = NoOperation
  MaxNext = 1
  act1 = act1
  act2 = act2
  use1 = use1
  use2 = use2
  use3 = use3
  close1 = close1
  Uses = {use1, use2, use3}
  Closes = {close1}
  Sweeps = {sweep1}
  Actors = {act1, act2}
  Target <- MCTargets
  None = None
  Other = Other
  MaxConnections = 1
INVARIANTS HandleUnderLock LockHasHandle Credentials SignIn Messaging NothingDangles
PROPERTIES StepsAreWhole
CHECK_DEADLOCK FALSE

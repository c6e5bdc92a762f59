SPECIFICATION StorageSpec
CONSTANTS
  Hosts = {h1, h2, h3}
  NoHost = NoHost
  LeaseTtl = 1
  Never = Never
  Modes = {{h1, h2, h3}, {h1}}
  MaxGeneration = 3
  MaxVersion = 2
  Nobody = Nobody
  Processes = {p1, p2, p3, p4}
  MaxDepth = 3
INVARIANTS TokenInv SingleWriter
PROPERTIES NoLostUpdate Failover LiveLockKept DeadLockReclaimed
CHECK_DEADLOCK FALSE

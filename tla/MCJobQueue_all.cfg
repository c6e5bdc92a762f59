CONSTANTS
  j1 = j1
  j2 = j2
  j3 = j3
  k = k
  w1 = w1
  w2 = w2
  Jobs = {j1, j3}
  Keys = {k}
  KeyOf <- NoKeys
  Priority <- MCPriority
  Workers = {w1, w2}
  None = None
  MaxRetries = 2
  Concurrency = 1
  MaxRequeues = 1
SPECIFICATION SpecFair
INVARIANTS RetryLimit ClaimedOnce CompletedMeansHandled
CHECK_DEADLOCK FALSE
PROPERTY EveryJobSettles

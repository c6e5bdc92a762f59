CONSTANTS
  j1 = j1
  j2 = j2
  j3 = j3
  k = k
  w1 = w1
  w2 = w2
  Jobs = {j1, j2, j3}
  Keys = {k}
  KeyOf <- MCKeyOf
  Priority <- MCPriority
  Workers = {w1, w2}
  None = None
  MaxRetries = 2
  Concurrency = 2
  MaxRequeues = 0
SPECIFICATION SpecOneProducer
INVARIANTS OneRunPerJob KeyUnique
PROPERTY CompletedIsFinal
CHECK_DEADLOCK FALSE

SPECIFICATION Spec
CONSTANTS
  Runners = {r1, r2}
  LaterRunner = r2
  Versions = {1, 2}
  Checksums = {"a", "b"}
  Deployments <- MCDeployments
  None = None
  t1 = t1
  t2 = t2
  s1 = s1
  n1 = n1
  d1 = d1
  d3 = d3
  Tasks = {t1, t2, s1, n1, d1, d3}
  Transactions = {t1, t2, n1, d3}
  Parent <- MCParent
  ViaView = {d1}
  Awaited = {n1}
  NoTask = NoTask
  NumComponents = 2
  Stoppers = {x1, x2}
  Runs = {y1, y2}
  Starter = Starter
  MaxSends = 2
  MaxFaults = 1
  MaxSleeps = 1
  Calls = {c1, c2}
  Streaming = {c1}
  MaxItems = 2
INVARIANTS MigrationsExact OwnTransaction Lifetimes FailsOnlyWhenDisturbed StreamInOrder
PROPERTIES Progress
CHECK_DEADLOCK FALSE

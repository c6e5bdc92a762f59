SPECIFICATION SpecFair
CONSTANTS
  c1 = c1
  c2 = c2
  c3 = c3
  c4 = c4
  c5 = c5
  act1 = act1
  act2 = act2
  q = q
  d1 = d1
  r1 = r1
  r2 = r2
  None = None
  First = First
  Calls = {c1, c2, c3}
  Actors = {act1}
  Requests = {q}
  Deactivations = {d1}
  Reloads = {r2}
  MaxQueue = 1
  Target <- MCTarget
  RequestId <- MCRequestId
  Victim <- MCVictim
  Policy <- MCPolicy
PROPERTIES EveryCallSettles EveryReloadEnds
CHECK_DEADLOCK FALSE

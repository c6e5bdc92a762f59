SPECIFICATION Spec
CONSTANTS
  Hosts = {h1, h2}
  NoHost = NoHost
  LeaseTtl = 1
  Never = Never
  Modes = {{h1, h2}}
  MaxGeneration = 3
  MaxVersion = 2
  Requests = {q1}
  MaxRetries = 1
  None = None
  Failure = Failure
INVARIANT ExactlyOnce
CHECK_DEADLOCK FALSE

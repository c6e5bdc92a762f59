SPECIFICATION SpecWithoutGap
CONSTANTS
  Hosts = {h1, h2}
  NoHost = NoHost
  LeaseTtl = 1
  Never = Never
  Modes = {{h1, h2}}
  MaxGeneration = 3
  MaxVersion = 2
  Requests = {q1, q2}
  MaxRetries = 1
  None = None
  Failure = Failure
INVARIANTS ExactlyOnce AnswerIsCommitted
CHECK_DEADLOCK FALSE

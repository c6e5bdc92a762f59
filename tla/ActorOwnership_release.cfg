SPECIFICATION SpecRelease
CONSTANTS
  Hosts = {h1, h2}
  NoHost = NoHost
  LeaseTtl = 1
  Never = Never
  Modes = {{h1, h2}}
  MaxGeneration = 3
  MaxVersion = 3
PROPERTY NoLostUpdate
CHECK_DEADLOCK FALSE

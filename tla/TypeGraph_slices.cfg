SPECIFICATION TypeGraphSpec
CONSTANTS
  Types = {t1, t2}
  Contexts = {x1, x2}
  NoContext = NoContext
  MaxDeclarations = 1
INVARIANT ContributionsKept
CHECK_DEADLOCK FALSE

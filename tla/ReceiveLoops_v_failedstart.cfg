SPECIFICATION FairSpec
CONSTANTS
  Configured = {c1, c2}
  Patterns = {}
  PlainCalls = {p1, p2}
  RegexCalls = {}
  Unsubscribers = {}
  Cleaners = {}
  Starter = s
  StartupMayFail = TRUE
  None = None
PROPERTY FailedStartReturns
CHECK_DEADLOCK FALSE

SPECIFICATION Spec
CONSTANTS
  Configured = {c1}
  Patterns = {}
  PlainCalls = {p1, p2}
  RegexCalls = {}
  Unsubscribers = {}
  Cleaners = {k1}
  Starter = s
  StartupMayFail = FALSE
  None = None
INVARIANT OneLoopPerConsumer
CHECK_DEADLOCK FALSE

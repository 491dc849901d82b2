SPECIFICATION Spec
CONSTANTS
  Configured = {c1}
  Patterns = {}
  PlainCalls = {p1}
  RegexCalls = {}
  Unsubscribers = {u1}
  Cleaners = {}
  Starter = s
  StartupMayFail = FALSE
  None = None
INVARIANT UnsubscribeCancelsLoop
CHECK_DEADLOCK FALSE

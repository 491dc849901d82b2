SPECIFICATION FairSpec
CONSTANTS
  Configured = {c1}
  Patterns = {r1}
  PlainCalls = {p1}
  RegexCalls = {x1}
  Unsubscribers = {u1}
  Cleaners = {k1}
  Starter = s
  StartupMayFail = FALSE
  None = None
INVARIANTS EntryOwned
PROPERTIES UsesConsumersSafely CleanupReturns CancelledLoopEnds RegistryDrains
CHECK_DEADLOCK FALSE

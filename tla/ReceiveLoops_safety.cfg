SPECIFICATION Spec
CONSTANTS
  Configured = {c1}
  Patterns = {r1}
  PlainCalls = {p1}
  RegexCalls = {x1, x2}
  Unsubscribers = {}
  Cleaners = {k1, k2}
  Starter = s
  StartupMayFail = TRUE
  None = None
SYMMETRY Symmetry
INVARIANTS
  TypeOK
  NoUseAfterClose
  ExclusiveDispatch
  EntryOwned
  QuietAfterCleanup
  NothingLeftOpen
CHECK_DEADLOCK FALSE

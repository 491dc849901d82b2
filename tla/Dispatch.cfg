SPECIFICATION FairSpec
CONSTANTS
  Msgs = {m1, m2}
  Loops = {l1, l2}
  DeadLettering = {l1}
  MaxDeliveries = 1
  MaxDrops = 1
  None = None
INVARIANTS TypeOK AckedWasHandled NothingForgotten
PROPERTIES DeliversAtLeastOnce EventuallySettled StopReturnsAll
CHECK_DEADLOCK FALSE

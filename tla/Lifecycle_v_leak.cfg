SPECIFICATION Spec
CONSTANTS
  Producers = {p1}
  Consumers = {c1}
  Stops = {k1}
  Starter = s
  MaxClients = 2
  ProbeEnabled = TRUE
  MayFail = {"self"}
  Overlap = FALSE
INVARIANT FailedStartIsClean
CHECK_DEADLOCK FALSE

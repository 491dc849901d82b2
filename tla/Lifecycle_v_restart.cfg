SPECIFICATION Spec
CONSTANTS
  Producers = {p1}
  Consumers = {c1}
  Stops = {k1}
  Starter = s
  MaxClients = 2
  ProbeEnabled = TRUE
  MayFail = {}
  Overlap = FALSE
INVARIANT ReadyMeansConnected
CHECK_DEADLOCK FALSE

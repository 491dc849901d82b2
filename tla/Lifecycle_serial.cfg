SPECIFICATION Spec
CONSTANTS
  Producers = {p1, p2}
  Consumers = {c1, c2}
  Stops = {k1, k2}
  Starter = s
  MaxClients = 3
  ProbeEnabled = TRUE
  MayFail = {"contract"}
  Overlap = FALSE
INVARIANTS
  TypeOK
  ReadyMeansUp
  FailedStartIsClean
  OneProbeLoop
PROPERTIES StopIsComplete AnnouncesWorking
CHECK_DEADLOCK FALSE

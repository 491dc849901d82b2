SPECIFICATION Spec
CONSTANTS
  Producers = {p1}
  Consumers = {c1}
  Stops = {k1, k2}
  Starter = s
  MaxClients = 2
  ProbeEnabled = TRUE
  MayFail = {"self", "contract"}
  Overlap = TRUE
SYMMETRY Symmetry
INVARIANTS
  ClientPointerValid
  RegisteredIsOpen
CHECK_DEADLOCK FALSE

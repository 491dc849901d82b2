SPECIFICATION Spec
CONSTANTS
  Names = {n1, n2}
  Singles = {s1}
  Batches = {b1}
  MaxBatch = 2
  Closers = {u1, u2}
  Teardowns = {t1, t2}
  None = None
INVARIANTS
  TypeOK
  RegisteredOpen
  ClosedOnce
  BatchReport
  CountersBracket
PROPERTIES
  QuietAfterTeardown
  SendsInOrder
CHECK_DEADLOCK FALSE

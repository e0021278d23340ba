SPECIFICATION Spec
CONSTANTS
  SubTask = {k1, k2}
  Payload = {p1}
  Stream = {s1}
  None = None
  QueueCap = 1
  MaxGen = 2
  MaxCrash = 1
  StorageMayFail = TRUE
  RowsAgeInFlight = FALSE
\* With one slot a restart of two pending rows hangs (restore_hangs), after the last crash for good.
CHECK_DEADLOCK FALSE
SYMMETRY Symmetry
INVARIANTS
  TypeOK
  CounterExact
  HeldExact
PROPERTIES
  UnsentKept
  ImplementsDelivery

SPECIFICATION FairSpec
CONSTANTS
  SubTask = {k1, k2}
  Payload = {p1}
  Stream = {s1, s2}
  None = None
  QueueCap = 2
  MaxGen = 1
  MaxCrash = 1
  StorageMayFail = FALSE
  RowsAgeInFlight = FALSE
INVARIANTS
  NoDoubleQueue
  OwnedRowPending
  PendingRowOwned
  CounterExact
  OutboxNotRecomputed
  ProofRetained
PROPERTIES
  PendingComputed
  AcceptanceEnds

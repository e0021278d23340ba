SPECIFICATION FairSpec
CONSTANTS
  SubTask = {k1, k2}
  Payload = {p1}
  Stream = {s1}
  None = None
  QueueCap = 1
  MaxGen = 1
  MaxCrash = 1
  StorageMayFail = FALSE
  RowsAgeInFlight = FALSE
PROPERTY
  PendingComputed
CHECK_DEADLOCK FALSE

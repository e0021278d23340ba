SPECIFICATION Spec
CONSTANTS
  SubTask = {k1}
  Payload = {p1}
  Stream = {s1}
  None = None
  QueueCap = 1
  MaxGen = 1
  MaxCrash = 1
  StorageMayFail = FALSE
  RowsAgeInFlight = FALSE
INVARIANT
  ResultTracked

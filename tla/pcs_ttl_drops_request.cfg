SPECIFICATION CallsSpec
CONSTANTS
  SubTask = {k1}
  Hash = {h1}
  None = None
  Own = Own
  Retainer = {r1}
  Asker = {a1}
  Caller = {c1}
  Loop = Loop
  Spawned = {b1}
  LookupAttempts = 1
  MaxRetain = 1
  MaxAsk = 1
  MaxRow = 2
  MaxCrash = 0
  TtlMayPass = TRUE
  StorageMayFail = FALSE
  OpenCalls = FALSE
INVARIANTS
  RequestKept

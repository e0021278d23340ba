SPECIFICATION FairSpec
CONSTANTS
  SubTask = {k1, k2}
  Hash = {h1}
  None = None
  Own = Own
  Retainer = {r1}
  Asker = {a1}
  Caller = {c1}
  Loop = Loop
  Spawned = {b1}
  LookupAttempts = 1
  MaxRetain = 1
  MaxAsk = 1
  MaxRow = 4
  MaxCrash = 1
  TtlMayPass = FALSE
  StorageMayFail = FALSE
  OpenCalls = FALSE
PROPERTIES
  RequestAnswered

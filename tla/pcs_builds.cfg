SPECIFICATION CallsSpec
CONSTANTS
  SubTask = {k1}
  Hash = {h1}
  None = None
  Own = Own
  Retainer = {r1}
  Asker = {a1, a2}
  Caller = {c1}
  Loop = Loop
  Spawned = {b1, b2}
  LookupAttempts = 1
  MaxRetain = 2
  MaxAsk = 2
  MaxRow = 2
  MaxCrash = 1
  TtlMayPass = TRUE
  StorageMayFail = TRUE
  OpenCalls = TRUE
SYMMETRY Symmetry
INVARIANTS
  CallsTypeOK
  InFlightExact
  ProveOnlyIfAsked
  LeafFitsJob

  

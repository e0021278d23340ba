SPECIFICATION FairSpec
CONSTANTS
  Caller = {c1, c2, c3}
  FailThreshold = 3
  Backoff = 2
INVARIANTS
  TypeOK
  DeadCoreSpared
PROPERTIES
  Recovers

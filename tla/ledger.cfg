SPECIFICATION Spec
CONSTANTS
  k1 = k1
  k2 = k2
  k3 = k3
  short = short
  long = long
  SubTask <- MCSubTask
  Parent <- MCParent
  ParentOf <- MCParentOf
  Cost <- MCCost
  Deadline <- MCDeadline
  OwnTimeout = 8
  ProbeMax = 1
  MarginNum = 3
  MarginDen = 4
  Unknown = 2
  ReservationTtl = 2
  AnnouncedTtl = 4
  MaxClock = 5
  MaxCrash = 1
SYMMETRY Symmetry
INVARIANTS
  TypeOK
  DeadlineRespected
  OnTime
PROPERTIES
  BidSound

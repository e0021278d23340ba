SPECIFICATION Spec
\* The node has nothing to do once it is up and no message comes.
CHECK_DEADLOCK FALSE
CONSTANTS
  WordBits = 7
  GiB = 8
  AmpBytes = 4
  SiteBytes = 10
  BidMax = 8
  LargeHostGiB = 4
  MinQubits = 1
  Widths = {0, 1, 2, 3, 4, 5, 8, 9}
  Totals <- MCTotals
  Requests <- MCRequests
  Vrams <- MCVrams
  GateSets <- MCGateSets
  Circuits <- MCCircuits
  GateTypes <- MCGateTypes
  Value <- MCValue
  Depth <- Nesting
  QubitValuesOk <- MCQubitValuesOk
  GateOk <- MCGateOk
  NormalValue <- MCNormalValue
  Alike <- MCAlike
  TypesOf <- MCTypesOf
  Leaves <- MCLeaves
  Operands <- MCOperands
INVARIANTS
  TypeOK
  AcceptedFits
  WidthLargest
  BidHonoured
  ForwardedSound
  WorkHonoured
  SignedAccepted

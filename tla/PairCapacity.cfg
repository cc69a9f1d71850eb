CONSTANTS
  p1 = p1
  p2 = p2
  p3 = p3
  p4 = p4
  Pairs <- MCPairs
  PeerLimits <- MCPeerLimits
  LocalOperatingMax = 2
  LocalMaxConcurrent = 3
SPECIFICATION Spec
SYMMETRY PairSymmetry
INVARIANTS
  SlotAccounting
  AdmittedWithinLimit
PROPERTY
  ImplementsAdmission
CHECK_DEADLOCK TRUE

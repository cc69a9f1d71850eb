CONSTANTS
  c1 = c1
  c2 = c2
  p1 = p1
  p2 = p2
  NoPod = NoPod
  Callers <- TwoCallers
  Pods <- TwoPods
  Ports <- OnePort
  NameOf <- OwnNames
  MaxSessions = 2
  OperatingMax = 2
  HardMax = 3
  Threshold = 60
  SpareCap = 1
  LowWatermark = 0
  MaxOpens = 2
  MaxConnects = 2
SPECIFICATION Spec
INVARIANTS
  SlotsHeld
  PoolFollowsTarget
  NoSessionLost
  ShutdownClosesAll
SYMMETRY CallerSymmetry
CHECK_DEADLOCK FALSE

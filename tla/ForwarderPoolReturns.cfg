CONSTANTS
  c1 = c1
  c2 = c2
  p1 = p1
  p2 = p2
  NoPod = NoPod
  Callers <- OneCaller
  Pods <- TwoPods
  Ports <- TwoPorts
  NameOf <- OwnNames
  MaxSessions = 2
  OperatingMax = 1
  HardMax = 1
  Threshold = 0
  SpareCap = 0
  LowWatermark = 0
  MaxOpens = 2
  MaxConnects = 2
SPECIFICATION FairSpec
INVARIANT PortServed
PROPERTY ConnectReturns
CHECK_DEADLOCK FALSE

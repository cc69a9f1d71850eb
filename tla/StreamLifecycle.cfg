CONSTANTS
  p1 = p1
  p2 = p2
  Pairs <- TwoPairs
  FRAME_WORKERS = 1
  MAX_STREAM_ID = 7
  CmdCap = 2
  ControlCap = 4
  RegCap = 2
  CloseRegCap = 4
  MaxWrites = 1
  MaxFrames = 2
  FirstIds = {1, 5}
  MaxWork = 4
SPECIFICATION Spec
INVARIANTS
  PermitsCovered
  AbandonedIsReset
  SynIdsIncrease
  DataWithinStream
  LiveIsRegistered
SYMMETRY PairSymmetry
CHECK_DEADLOCK FALSE

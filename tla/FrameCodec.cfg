CONSTANTS
  PeerFrames <- SmallFrames
  ConfiguredMaxFrameSize = 2
  MAX_CONTROL_FRAME_SIZE = 12
  ChunkSizes = {1, 9, 24}
  MaxFrames = 2
SPECIFICATION Spec
INVARIANTS
  TypeOK
  DecodesWhatArrived
  Aligned
  HeadersInContext
  BufferBounded
CHECK_DEADLOCK FALSE

CONSTANTS
  s1 = s1
  Session = session
  Streams <- OneStream
  InitialWindow = 3
  FrameCap = 4
  StreamCap = 1
  WindowCap = 8
  MaxBytes = 3
  MaxChunk = 2
SPECIFICATION Spec
INVARIANT
  DeliveredPrefix
CHECK_DEADLOCK FALSE

CONSTANTS
  w1 = w1
  Workers <- OneWorker
  BatchCap = 2
  QueueCap = 1
  MaxMessages = 2
  MaxCloses = 1
  MaxPanics = 0
SPECIFICATION FairSpec
PROPERTY SilentPeerTornDown
CHECK_DEADLOCK FALSE

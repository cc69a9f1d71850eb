CONSTANTS
  w1 = w1
  Workers <- OneWorker
  BatchCap = 2
  QueueCap = 1
  MaxMessages = 2
  MaxCloses = 1
  MaxPanics = 1
SPECIFICATION FairSpec
INVARIANTS
  CountedFlushed
PROPERTIES
  OneExitEndsAll
  AbandonedStops
  SpawnReturns
CHECK_DEADLOCK FALSE

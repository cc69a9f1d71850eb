CONSTANTS
  s1 = s1
  s2 = s2
  Streams <- TwoStreams
  Windows <- MCWindows
  FirstWindow = 1
  Updates <- MCUpdates
  BufLen = 2
  MaxFrameSizes <- MCFrameSizes
  CmdCap = 1
  RegCap = 2
  I64Min <- MCI64Min
  MaxWrites <- MCMaxWrites
  MaxUpdates <- MCMaxUpdates
  MaxSettings = 1
  SettingsStreams = 1
SPECIFICATION FairSpec
INVARIANTS
  TypeOK
  WindowConserved
  NoLostWake
PROPERTIES
  PoisonIsForever
  CreditResumesWriter
  AdmittedUnlessParked
  BreakReachesRegistered
CHECK_DEADLOCK FALSE

CONSTANTS
  s1 = s1
  Session = session
  Streams <- OneStream
  InitialWindow = 4
  FrameCap = 2
  StreamCap = 1
  WindowCap = 2
  MaxBytes = 7
  MaxChunk = 2
SPECIFICATION FairSpec
INVARIANTS
  StreamCreditConserved
  SessionCreditConserved
PROPERTY
  CreditComesBack
  ImplementsPipe
CHECK_DEADLOCK FALSE

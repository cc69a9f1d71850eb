CONSTANTS
  o1 = o1
  o2 = o2
  c1 = c1
  c2 = c2
  c3 = c3
  c4 = c4
  Openers <- TwoOpeners
  Conns <- FourConns
  NoConn = NoConn
  Statuses = {403, 502}
  PoolSize = 3
  Limit = 1
  MaxOpens = 2
SPECIFICATION SessionSpec
INVARIANTS
  SignalsMatchOutcome
  FallbackElsewhere
  CancelReachesAll
PROPERTY AloneScansAll
SYMMETRY Symmetric
CHECK_DEADLOCK FALSE

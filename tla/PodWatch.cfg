CONSTANTS
  c1 = c1
  c2 = c2
  p1 = p1
  p2 = p2
  NoPod = NoPod
  Pods <- TwoPods
  NameOf <- Replaced
  Callers <- TwoCallers
  EventCap = 1
  MaxChanges = 3
  MaxCalls = 2
SPECIFICATION Spec
INVARIANTS
  AnnouncedIsReceived
PROPERTY ReturnedWasReady
SYMMETRY CallerSymmetry
CHECK_DEADLOCK FALSE

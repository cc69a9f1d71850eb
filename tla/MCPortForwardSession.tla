------------------------ MODULE MCPortForwardSession ------------------------
EXTENDS PortForwardSession, TLC

CONSTANTS o1, o2, c1, c2, c3, c4

TwoOpeners == {o1, o2}
FourConns == {c1, c2, c3, c4}
Symmetric == Permutations(TwoOpeners) \cup Permutations(FourConns)
=============================================================================

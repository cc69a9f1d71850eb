-------------------------- MODULE MCStreamLifecycle --------------------------
EXTENDS StreamLifecycle, TLC

CONSTANTS p1, p2

TwoPairs == {p1, p2}
PairSymmetry == Permutations(Pairs)
=============================================================================

--------------------------- MODULE MCPairCapacity ---------------------------
(* Four callers race for two slots; the peer advertises 1, 3 or no limit. *)
EXTENDS PairCapacity, TLC

CONSTANTS p1, p2, p3, p4

MCPairs == {p1, p2, p3, p4}
MCPeerLimits == {0, 1, 3}
PairSymmetry == Permutations(MCPairs)
=============================================================================

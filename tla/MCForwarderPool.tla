-------------------------- MODULE MCForwarderPool --------------------------
EXTENDS ForwarderPool, TLC

CONSTANTS c1, c2, p1, p2

OneCaller == {c1}
TwoCallers == {c1, c2}
TwoPods == {p1, p2}
OnePort == {1}
TwoPorts == {1, 2}

\* Two pods of a Deployment.
OwnNames == [p \in Pods |-> IF p = p1 THEN "a" ELSE "b"]

CallerSymmetry == Permutations(Callers)
=============================================================================

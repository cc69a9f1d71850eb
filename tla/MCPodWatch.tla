------------------------------ MODULE MCPodWatch ------------------------------
EXTENDS PodWatch, TLC

CONSTANTS c1, c2, p1, p2

TwoCallers == {c1, c2}
TwoPods == {p1, p2}

\* p2 replaces p1 under its name.
Replaced == [p \in Pods |-> "a"]

CallerSymmetry == Permutations(Callers)
=============================================================================

----------------------------- MODULE MCRecvFlow -----------------------------
EXTENDS RecvFlow

CONSTANT s1

OneStream == {s1}
=============================================================================

----------------------------- MODULE MCMuxTasks -----------------------------
EXTENDS MuxTasks

CONSTANT w1

OneWorker == {w1}
=============================================================================

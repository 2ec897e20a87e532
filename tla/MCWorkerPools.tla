--------------------------- MODULE MCWorkerPools ----------------------------
EXTENDS WorkerPools
=============================================================================

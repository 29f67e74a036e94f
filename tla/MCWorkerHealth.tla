---------------------------- MODULE MCWorkerHealth ----------------------------
EXTENDS WorkerHealth

LongAgo == -100
Behind == -1
=============================================================================

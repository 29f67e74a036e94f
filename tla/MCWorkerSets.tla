----------------------------- MODULE MCWorkerSets -----------------------------
EXTENDS WorkerSets

CONSTANTS w1, w2, w3

OwnShard == [i \in Instances |-> i]
SameTime == [i \in Instances |-> 0]
\* w3 is started on the machine of w1 after it.
SharedShard == [i \in Instances |-> IF i = w3 THEN w1 ELSE i]
LaterTime == [i \in Instances |-> IF i = w3 THEN 1 ELSE 0]
Symmetry == Permutations(Instances)
=============================================================================

--------------------------- MODULE MCTaskStatuses ---------------------------
(* Small instances of TaskStatuses. *)
EXTENDS TaskStatuses, TLC

OneBackoff == <<1>>
Independent == [j \in Jobs |-> <<>>]
SecondOnFirst == [j \in Jobs |-> IF j = 2 THEN <<1>> ELSE <<>>]
WorkerSymmetry == Permutations(Workers)
=============================================================================

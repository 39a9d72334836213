--------------------------- MODULE MCJobDispatcher ---------------------------
(* Small instances of JobDispatcher for TLC. *)
EXTENDS JobDispatcher, TLC

CONSTANTS j1, j2, w1, w2, p

SamePartition == [j \in Jobs |-> p]
TwoAttempts == [j \in Jobs |-> 2]

WorkerSymmetry == Permutations(Workers)
=============================================================================

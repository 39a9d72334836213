----------------------------- MODULE MCJobStore -----------------------------
(* Small instances of JobStore for TLC. *)
EXTENDS JobStore, TLC

CONSTANTS j1, j2, w1, w2, p

SamePartition == [j \in Jobs |-> p]
NoPartition == [j \in Jobs |-> None]
TwoAttempts == [j \in Jobs |-> 2]
OneAttempt == [j \in Jobs |-> 1]
OneThenTwo == (j1 :> 1) @@ (j2 :> 2)

WorkerSymmetry == Permutations(Workers)
=============================================================================

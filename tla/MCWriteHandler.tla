--------------------------- MODULE MCWriteHandler ---------------------------
(* Small instances of WriteHandler for TLC. *)
EXTENDS WriteHandler, TLC

CONSTANTS k1, r1, r2, r3, f1, p1, p2

\* r1 and r2 are two attempts of one client, r3 uses their key for another
\* mutation.
OneKey == [r \in Requests |-> k1]
Attempts == [r \in Requests |-> IF r = r3 THEN p2 ELSE p1]
=============================================================================

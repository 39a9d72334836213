--------------------------- MODULE MCCacheService ---------------------------
(* A small instance of CacheService for TLC. *)
EXTENDS CacheService

CONSTANTS k1, t1, t2, r1, r2, i1

AllTags == [k \in Keys |-> Tags]
=============================================================================

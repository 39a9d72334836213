------------------------ MODULE MCScheduleDispatcher ------------------------
(* Small instances of ScheduleDispatcher for TLC. *)
EXTENDS ScheduleDispatcher, TLC

CONSTANTS s1, s2, w1, w2

EverySlot == 0 .. MaxNow + 1

\* Both rules for several missed occurrences that enqueue something, and both
\* rules for an execution under way that wait for it or give way to it.
TellingPolicies == {p \in Policy : <<p.misfire, p.overlap>> \in
    {<<"queue_all", "queue">>, <<"queue_all", "skip">>, <<"fire_now", "skip">>}}
=============================================================================

------------------------- MODULE MCOperationPipeline -------------------------
(* Small instances of OperationPipeline for TLC. *)
EXTENDS OperationPipeline

CONSTANTS o1, o2

Definition(kind, atomicity, audit) ==
    [kind |-> kind, atomicity |-> atomicity, atomicBatch |-> FALSE, audit |-> audit,
     auditRequired |-> "unset", auditFallback |-> FALSE, outboxRequired |-> FALSE,
     maxAttempts |-> 0, marker |-> FALSE]

Mutation == [Definition("mutation", "required", "atomic") EXCEPT !.atomicBatch = TRUE]
\* A mutation of the write handler, one with a best-effort audit, one that may
\* be retried and cannot be a batch, and a read.
Keyed == [Mutation EXCEPT !.marker = TRUE, !.audit = "durable"]
Plain == [Mutation EXCEPT !.audit = "best-effort"]
Retried == [Definition("mutation", "required", "atomic") EXCEPT !.maxAttempts = 2]
Read == Definition("read", "preferred", "absent")

SomeDefinitions == [o \in Ops |-> IF o = o1 THEN {Keyed, Retried} ELSE {Plain, Read}]
FewDefinitions == [o \in Ops |-> {Plain}]

SomeEnvironments ==
    {[backend |-> b, actor |-> TRUE, sinks |-> TRUE] : b \in {"postgresql", "cloudflare-d1"}}

Event(k, e) == [key |-> k, event |-> e]
SomeRecords == [o \in Ops |-> {Event("k", "created")}
                  \cup IF o = o1 THEN {} ELSE {Event("k", "updated")}]
=============================================================================

----------------------------- MODULE GuardedRecord -----------------------------
(***************************************************************************)
(* What the mutations of one record promise together: it is created,       *)
(* updated and deleted one step at a time, every update of a versioned     *)
(* record advances its version by one, and each step is permitted by       *)
(* policies that have been in force, about the very record it changes and  *)
(* the very record it leaves.                                              *)
(***************************************************************************)
EXTENDS PolicyTiers

CONSTANTS NoRecord, Bundles

VARIABLES
    row,        \* the record and its version
    published,  \* the bundles that have been in force
    versioned   \* does the entity have a version field?

gvars == <<row, published, versioned>>

Absent == [content |-> NoRecord, version |-> 0]

NewVersion(r) == IF versioned THEN r.version + 1 ELSE r.version

Init ==
    /\ row \in {Absent} \cup [content : Records, version : {1}]
    /\ published \in SUBSET Bundles
    /\ versioned \in BOOLEAN

Publish ==
    /\ \E b \in Bundles : published' = published \cup {b}
    /\ UNCHANGED row

Create ==
    /\ row = Absent
    /\ row' \in [content : Records, version : {1}]
    /\ \E b \in published : WriteAllowed(b, "create", row'.content, Fields)
    /\ UNCHANGED published

\* Whoever updates may do so to the record it finds and, when versions tell
\* whether that is still the one, with the outcome.
Update ==
    /\ row # Absent
    /\ row' \in [content : Records, version : {NewVersion(row)}]
    /\ \E b \in published : ScopeAdmits(b, "update", row.content)
    /\ versioned => \E b \in published :
                        WriteAllowed(b, "update", row'.content,
                                     {f \in Fields : row.content[f] # row'.content[f]})
    /\ UNCHANGED published

Delete ==
    /\ row # Absent
    /\ row' = Absent
    /\ \E b \in published : ScopeAdmits(b, "delete", row.content)
    /\ UNCHANGED published

Next ==
    /\ Publish \/ Create \/ Update \/ Delete
    /\ UNCHANGED versioned

Spec == Init /\ [][Next]_gvars
=============================================================================

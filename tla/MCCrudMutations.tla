--------------------------- MODULE MCCrudMutations ---------------------------
(* Small instances of CrudMutations for TLC. *)
EXTENDS CrudMutations, TLC

CONSTANTS w1, w2

Same == Permutations({w1, w2})

TwoFields == {"a", "b"}
Bits == {0, 1}
Pairs == [TwoFields -> Bits]

\* A condition is the set of the records it holds of.
AnyRecord == Pairs
NotBoth == {r \in Pairs : r["a"] + r["b"] < 2}
NoA == {r \in Pairs : r["a"] = 0}
WithA == Pairs \ NoA
SomeConditions == {AnyRecord, NotBoth, NoA, WithA}
Holds(c, r) == r \in c
HoldsOfAny(c) == c = AnyRecord
HoldsOfNone(c) == FALSE

SetA == [f \in {"a"} |-> 1]
SetB == [f \in {"b"} |-> 1]
SomePatches == {SetA, SetB}

Policy(effect, priority, actions, condition, write) ==
    [effect |-> effect, priority |-> priority, actions |-> actions,
     condition |-> condition, write |-> write]

\* Open: anything with at most one field set may be changed.  Careful: only
\* records without a may be changed or deleted, and a is read-only.  Blind:
\* anything may be changed, only records without a deleted, nothing read.
Open == {Policy("allow", 1, ActionNames, NotBoth, {})}
Careful == {Policy("allow", 1, {"read", "create", "delete"}, NotBoth, {}),
            Policy("allow", 1, {"update"}, AnyRecord, {"b"}),
            Policy("deny", 2, {"update", "delete"}, WithA, {})}
Blind == {Policy("allow", 1, {"create", "delete"}, NoA, {}),
          Policy("allow", 1, {"update"}, AnyRecord, {})}
SomeBundles == {Open, Careful, Blind}
=============================================================================

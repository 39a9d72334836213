--------------------------- MODULE OperationOutcome ---------------------------
(***************************************************************************)
(* What an operation promises its caller: it updates the row at most once, *)
(* in one step and only from the version the caller saw, and the caller is *)
(* told of success only after that, of failure only without it.  When the  *)
(* commit itself fails the caller learns nothing.                          *)
(***************************************************************************)
EXTENDS Naturals, Sequences

CONSTANT Ops

VARIABLES
    mutations, \* the operations that update the row; the others read
    row,       \* the operations that have updated it, in order
    base,      \* the version each operation starts from
    told       \* what its caller was told, "none" before the answer

ovars == <<mutations, row, base, told>>

Took(o) == \E i \in 1..Len(row) : row[i] = o

Init ==
    /\ mutations \subseteq Ops
    /\ row = <<>>
    /\ base = [o \in Ops |-> 0]
    /\ told = [o \in Ops |-> "none"]

See(o) ==
    /\ told[o] = "none" /\ ~Took(o)
    /\ base' = [base EXCEPT ![o] = Len(row)]
    /\ UNCHANGED <<mutations, row, told>>

Update(o) ==
    /\ o \in mutations /\ told[o] = "none" /\ ~Took(o)
    /\ base[o] = Len(row)
    /\ row' = Append(row, o)

\* It commits, and the caller waits, or learns nothing.
Take(o) ==
    /\ Update(o)
    /\ told' = told \/ told' = [told EXCEPT ![o] = "unknown"]
    /\ UNCHANGED <<mutations, base>>

Tell(o, answer) ==
    /\ told[o] = "none"
    /\ o \in mutations /\ answer \in {"result", "committed"} => Took(o)
    /\ o \in mutations /\ answer = "failed" => ~Took(o)
    /\ told' = [told EXCEPT ![o] = answer]
    /\ UNCHANGED <<mutations, row, base>>

Next ==
    \E o \in Ops :
        \/ See(o) \/ Take(o)
        \/ \E answer \in {"result", "committed", "failed", "unknown"} : Tell(o, answer)

Spec == Init /\ [][Next]_ovars
=============================================================================

------------------------------ MODULE WriteOnce ------------------------------
(***************************************************************************)
(* What an idempotency key promises its clients: the mutation it stands    *)
(* for is committed at most once, is given at most one answer, and whoever *)
(* is told of success is told that answer.                                 *)
(***************************************************************************)
EXTENDS Naturals

CONSTANTS
    Keys,     \* scope and key of a mutation
    Answers,  \* the responses a mutation may be given
    NoAnswer

VARIABLES
    commits,  \* how often the mutation of each key was committed
    answer,   \* the response it was given
    told      \* the responses clients that used the key were told

vars == <<commits, answer, told>>

WTypeOK ==
    /\ commits \in [Keys -> Nat]
    /\ answer \in [Keys -> Answers \cup {NoAnswer}]
    /\ told \in [Keys -> SUBSET Answers]

Init ==
    /\ commits = [k \in Keys |-> 0]
    /\ answer = [k \in Keys |-> NoAnswer]
    /\ told = [k \in Keys |-> {}]

Mutate(k) ==
    /\ commits[k] = 0
    /\ commits' = [commits EXCEPT ![k] = 1]
    /\ UNCHANGED <<answer, told>>

Settle(k, a) ==
    /\ commits[k] = 1 /\ answer[k] = NoAnswer
    /\ answer' = [answer EXCEPT ![k] = a]
    /\ UNCHANGED <<commits, told>>

Tell(k) ==
    /\ answer[k] # NoAnswer
    /\ told' = [told EXCEPT ![k] = {answer[k]}]
    /\ UNCHANGED <<commits, answer>>

Next == \E k \in Keys : Mutate(k) \/ Tell(k) \/ \E a \in Answers : Settle(k, a)

Spec == Init /\ [][Next]_vars

\* One mutation and one answer for a key, and success is told of nothing else.
Once ==
    \A k \in Keys :
        /\ commits[k] <= 1
        /\ told[k] \subseteq {answer[k]}
        /\ answer[k] # NoAnswer => commits[k] = 1
=============================================================================

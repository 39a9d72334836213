----------------------------- MODULE PolicyTiers -----------------------------
(* How attribute policies of one module decide on a record: in memory, tier  *)
(* by tier of priority (packages/core/src/foundation/abacTierDecision.ts,    *)
(* packages/core/src/domain/abacDecision.ts, abacWrite.ts and                *)
(* fieldWriteInternals.ts), and as a filter built once for a query           *)
(* (foundation/policyTierResolver.ts, domain/abacReadScope.ts).              *)
(*                                                                           *)
(* A policy's compiled conditions are left to Matches: whether they hold of  *)
(* a record, as a strict boolean.  Verified bundles hold policies of their   *)
(* own module only, and are deny by default.                                 *)
EXTENDS Integers

CONSTANTS
    Fields,              \* fields of the entity
    Conditions,          \* compiled conditions of policies
    Records,             \* records policies decide on
    Matches(_, _),       \* does a condition hold of a record?
    AlwaysHolds(_),      \* is a condition true before any record is seen?
    NeverHolds(_)        \* is it false then?

ASSUME MatchesBoolean == \A c \in Conditions, r \in Records : Matches(c, r) \in BOOLEAN
ASSUME StaticConditions ==
    \A c \in Conditions :
        /\ AlwaysHolds(c) \in BOOLEAN /\ NeverHolds(c) \in BOOLEAN
        /\ \A r \in Records : (AlwaysHolds(c) => Matches(c, r)) /\ (NeverHolds(c) => ~Matches(c, r))

ActionNames == {"read", "create", "update", "delete"}

\* A normalized policy; what it says of reading fields is left out, and no
\* write list means every field.
PolicySet ==
    [effect : {"allow", "deny"}, priority : Int, actions : SUBSET ActionNames,
     condition : Conditions, write : SUBSET Fields]

Relevant(policies, action) == {p \in policies : action \in p.actions}
Matched(policies, record) == {p \in policies : Matches(p.condition, record)}

\* The policies of the highest priority among some.
TopTier(policies) == {p \in policies : \A q \in policies : q.priority <= p.priority}

Denies(policies) == {p \in policies : p.effect = "deny"}
Allows(policies) == {p \in policies : p.effect = "allow"}

-----------------------------------------------------------------------------
(* Decisions on one record *)

\* The first tier with a match decides, and there any denial wins; the
\* default is to deny.
TieredDecision(matched) == TopTier(matched) # {} /\ Denies(TopTier(matched)) = {}

RecordAction(policies, action, record) ==
    TieredDecision(Matched(Relevant(policies, action), record))

\* Which of the fields a write changes its matched policies refuse: the top
\* tier names the fields it denies and the fields it allows, and a policy
\* without a list names them all.
DeniedFields(matched, changed) ==
    LET top == TopTier(matched)
        Unlisted(policies) == \E p \in policies : p.write = {}
        Lists(policies, f) == \E p \in policies : f \in p.write
    IN  {f \in changed :
            \/ Unlisted(Denies(top))
            \/ Lists(Denies(top), f)
            \/ ~Unlisted(Allows(top)) /\ ~Lists(Allows(top), f) /\ Allows(top) # {}}

\* enforceAbacWrite lets a write through.
WriteAllowed(policies, action, record, changed) ==
    LET matched == Matched(Relevant(policies, action), record)
    IN  /\ action # "delete" /\ matched # {} => DeniedFields(matched, changed) = {}
        /\ TieredDecision(matched)

-----------------------------------------------------------------------------
(* The filter of a query *)

Tier(policies, priority) == {p \in policies : p.priority = priority}
Above(policies, priority) == {p \in policies : p.priority > priority}

\* One tier's clause of the filter: nothing of a higher tier matches, an allow
\* policy of this one does and none of its deny policies.
TierAdmits(policies, priority, record) ==
    /\ Matched(Above(policies, priority), record) = {}
    /\ Matched(Allows(Tier(policies, priority)), record) # {}
    /\ Matched(Denies(Tier(policies, priority)), record) = {}

ScopeAdmits(policies, action, record) ==
    LET relevant == Relevant(policies, action)
    IN  \E p \in relevant : TierAdmits(relevant, p.priority, record)

\* A collection action is refused outright when the filter is false whatever
\* the record is: each policy that allows the action never holds, or one that
\* always does denies it first.
CollectionAllowed(policies, action) ==
    LET relevant == Relevant(policies, action)
        decided(p) == {q \in relevant : /\ AlwaysHolds(q.condition)
                                        /\ \/ q.priority > p.priority
                                           \/ q.priority = p.priority /\ q.effect = "deny"}
    IN  \E p \in Allows(relevant) : ~NeverHolds(p.condition) /\ decided(p) = {}
=============================================================================

---------------------------- MODULE PolicyDecisions ----------------------------
(* From the policies a provider stores to the bundle that decisions are taken *)
(* from: a clause is parsed (packages/core/src/domain/abacPolicySchema.ts),   *)
(* checked against the module's catalog (abacCatalog.ts), its operand resolved *)
(* from the caller's context and coerced to the field's type                  *)
(* (coercePolicyValue.ts), compiled to a predicate (abacConditionCompiler.ts) *)
(* and its policy normalized (abacPolicyNormalizer.ts); abacBundleFactory.ts  *)
(* refuses the whole bundle for one bad policy, and sorts the good ones.      *)
(*                                                                            *)
(* A letter is a number: 0 to 9 are the digits, each of the words below       *)
(* stands for one letter more, and those from FirstDate on for dates.         *)
(*                                                                            *)
(* What a bundle's policies decide: the tiers of PolicyTiers on compiled      *)
(* predicates, the scope compiled for queries (abacReadScope.ts on            *)
(* foundation/policyTierResolver.ts), collections and capabilities            *)
(* (abacDecision.ts, abacCapabilities.ts), and which fields a reader sees and *)
(* may query by (fieldAccess.ts).                                             *)
EXTENDS Predicates, FiniteSets

CONSTANTS
    ModuleKey,           \* the module of the catalog
    FieldTypes,          \* the type of every field of the catalog
    FieldOperators,      \* the operators the catalog gives each of them
    CatalogActions       \* the actions of the catalog

TrueWord == 20
FalseWord == 21
UndefinedWord == 22
ObjectWord == 23
FirstDate == 30
Text(letter) == [t |-> "string", v |-> <<letter>>]

USER_ATTRS == {"user.id", "user.roleId", "user.branchId", "user.departmentId", "user.tenantId"}

ValuelessOperators == {"isTrue", "isFalse", "isNull", "isNotNull", "isEmpty", "isNotEmpty"}
ListOperators == {"includesAny", "includesAll", "in"}
ScalarOperators ==
    {"equals", "notEquals", "contains", "startsWith", "endsWith", "greaterThan", "lessThan",
     "greaterOrEqual", "lessOrEqual", "before", "after"}
KNOWN_POLICY_OPERATORS == ValuelessOperators \cup ListOperators \cup ScalarOperators \cup {"between"}

\* A clause of a stored policy: `value' and `values' are operands of any shape,
\* and no attribute is "".  A group has its logic and its clauses and groups.
Clause(field, operator, value, values, userAttr) ==
    [field |-> field, operator |-> operator, value |-> value, values |-> values, userAttr |-> userAttr]
ClauseGroup(logic, conditions) == [logic |-> logic, conditions |-> conditions]
IsConditionGroup(condition) == "logic" \in DOMAIN condition

-----------------------------------------------------------------------------
(* Parsing *)

ParseClauseStrict(c) ==
    LET hasValue == c.value # Nothing
        hasValues == c.values.list # <<>>
        hasAttr == c.userAttr # ""
    IN  /\ c.field # "" /\ c.operator \in KNOWN_POLICY_OPERATORS \ {"includesAll"}
        /\ ~(hasValue /\ hasValues) /\ ~(hasValue /\ hasAttr) /\ ~(hasValues /\ hasAttr)
        /\ c.operator \in ValuelessOperators => ~hasValue /\ c.values = Nothing /\ ~hasAttr
        /\ c.operator = "between" =>
             \/ c.value.shape = "list" /\ Len(c.value.list) = 2
             \/ c.value.shape = "range" /\ {c.value.from, c.value.to} # {Absent}
        /\ c.operator \in ListOperators => ~hasValue /\ hasValues
        /\ hasAttr => c.userAttr \in USER_ATTRS

RECURSIVE ParseConditionGroupStrict(_)
ParseConditionGroupStrict(group) ==
    /\ group.logic \in {"AND", "OR"}
    /\ \A i \in DOMAIN group.conditions :
         LET item == group.conditions[i]
         IN  IF IsConditionGroup(item) THEN ParseConditionGroupStrict(item) ELSE ParseClauseStrict(item)

ParsePolicyPayloadStrict(payload) ==
    /\ ParseConditionGroupStrict(payload.systemScope)
    /\ ParseConditionGroupStrict(payload.userFilters)

-----------------------------------------------------------------------------
(* Coercion to the type of a field *)

Invalid == [t |-> "invalid", v |-> <<>>]

\* What String() makes of a value that is not a string.
Stringified(value) ==
    CASE value.t = "number" -> [t |-> "string", v |-> value.v]
      [] value.t = "boolean" -> Text(IF value.v = <<1>> THEN TrueWord ELSE FalseWord)
      [] value.t = "undefined" -> Text(UndefinedWord)
      [] OTHER -> Text(ObjectWord)

CoercePolicyValue(type, value) ==
    CASE type = "number" ->
           IF value.t = "number" THEN value
           ELSE IF value.t = "string" /\ Len(value.v) = 1 /\ value.v[1] \in 0..9
                THEN [t |-> "number", v |-> value.v] ELSE Invalid
      [] type = "boolean" ->
           IF value.t = "boolean" THEN value
           ELSE IF value = Text(TrueWord) THEN [t |-> "boolean", v |-> <<1>>]
           ELSE IF value = Text(FalseWord) THEN [t |-> "boolean", v |-> <<0>>] ELSE Invalid
      [] type \in {"date", "datetime"} ->
           IF value.t = "date" THEN value
           ELSE IF value.t = "string" /\ Len(value.v) = 1 /\ value.v[1] >= FirstDate
                THEN [t |-> "date", v |-> <<value.v[1] - FirstDate>>] ELSE Invalid
      [] type = "string-array" -> Invalid
      [] OTHER -> IF value.t \in {"null", "string"} THEN value ELSE Stringified(value)

\* An operand given where one value is asked for.
ScalarOf(operand) ==
    CASE operand.shape = "nothing" -> Absent
      [] operand.shape = "scalar" -> operand.from
      [] OTHER -> [t |-> "object", v |-> <<>>]

-----------------------------------------------------------------------------
(* The catalog *)

ValidateClause(c) ==
    /\ c.field \in DOMAIN FieldTypes
    /\ c.operator \in FieldOperators[c.field]
    /\ c.userAttr = "" =>
         LET type == FieldTypes[c.field]
             listed(v) == IF type = "string-array" /\ c.operator \in ListOperators
                          THEN v.t = "string" ELSE CoercePolicyValue(type, v) # Invalid
         IN  /\ c.value # Nothing => CoercePolicyValue(type, ScalarOf(c.value)) # Invalid
             /\ \A i \in DOMAIN c.values.list : listed(c.values.list[i])

RECURSIVE ValidateGroup(_)
ValidateGroup(group) ==
    \A i \in DOMAIN group.conditions :
        LET item == group.conditions[i]
        IN  IF IsConditionGroup(item) THEN ValidateGroup(item) ELSE ValidateClause(item)

\* Every action, field and clause of a policy is the catalog's.
ValidatePayloadAgainstCatalog(policy) ==
    /\ policy.actions \subseteq CatalogActions
    /\ DOMAIN policy.read \cup policy.write \subseteq DOMAIN FieldTypes
    /\ ValidateGroup(policy.systemScope) /\ ValidateGroup(policy.userFilters)

-----------------------------------------------------------------------------
(* Compilation *)

Failed == [kind |-> "failed"]

OperatorOf ==
    [equals |-> "eq", notEquals |-> "neq", contains |-> "contains", startsWith |-> "startsWith",
     endsWith |-> "endsWith", greaterThan |-> "gt", after |-> "gt", lessThan |-> "lt",
     before |-> "lt", greaterOrEqual |-> "gte", lessOrEqual |-> "lte"]

\* Mutant of ResolvedClauseValue: an attribute the context lacks is not noticed.
ResolvedClauseValueUnguarded(c, context) ==
    IF c.userAttr # "" THEN context[c.userAttr] ELSE ScalarOf(c.value)

\* The operand of a scalar clause; the context must have the attribute it
\* names.
ResolvedClauseValue(c, context) ==
    IF c.userAttr = "" THEN ScalarOf(c.value)
    ELSE IF context[c.userAttr] = Absent THEN Invalid ELSE context[c.userAttr]

\* The values of a list clause: its own, or the one of its attribute, if any.
ListedClauseValues(c, context) ==
    IF c.values.shape = "list" THEN c.values.list
    ELSE IF c.userAttr # "" /\ context[c.userAttr] # Absent THEN <<context[c.userAttr]>>
    ELSE IF c.userAttr = "" /\ c.value # Nothing THEN <<ScalarOf(c.value)>> ELSE <<>>

ListClauseToPredicate(c, context) ==
    LET type == FieldTypes[c.field]
        raw == ListedClauseValues(c, context)
        coerced == [i \in DOMAIN raw |->
            IF type # "string-array" THEN CoercePolicyValue(type, raw[i])
            ELSE IF raw[i].t = "string" THEN raw[i] ELSE Invalid]
    IN  IF Contains(coerced, Invalid) THEN Failed
        ELSE IF coerced = <<>> THEN AlwaysFalse
        ELSE Condition(c.field, c.operator, Listed(coerced))

\* The value of `between' itself is coerced first, which fails for any field
\* that is no string, and only then its bounds.
BetweenClauseToPredicate(c) ==
    LET type == FieldTypes[c.field]
        bounds == IF c.value.shape = "list" THEN c.value.list ELSE <<c.value.from, c.value.to>>
        coerced == [i \in DOMAIN bounds |->
            IF bounds[i] = Absent THEN Absent ELSE CoercePolicyValue(type, bounds[i])]
    IN  IF CoercePolicyValue(type, ScalarOf(c.value)) = Invalid \/ Contains(coerced, Invalid) THEN Failed
        ELSE Condition(c.field, "between", Between(coerced[1], coerced[2]))

ScalarClauseToPredicate(c, context) ==
    LET resolved == ResolvedClauseValue(c, context)
        primitive == CoercePolicyValue(FieldTypes[c.field], resolved)
    IN  IF Invalid \in {resolved, primitive} THEN Failed
        ELSE IF c.operator \in TextOps /\ primitive.t # "string" THEN Failed
        ELSE Condition(c.field, OperatorOf[c.operator], Scalar(primitive))

PolicyClauseToPredicate(c, context) ==
    IF c.field \notin DOMAIN FieldTypes THEN Failed
    ELSE CASE c.operator \in ValuelessOperators -> Condition(c.field, c.operator, Nothing)
           [] c.operator \in ListOperators -> ListClauseToPredicate(c, context)
           [] c.operator = "between" -> BetweenClauseToPredicate(c)
           [] c.operator \in ScalarOperators -> ScalarClauseToPredicate(c, context)

Combine(logic, predicates) ==
    IF Len(predicates) = 1 THEN predicates[1]
    ELSE IF logic = "OR" THEN Or(predicates) ELSE And(predicates)

\* One clause that does not compile fails the whole group.
AllOrFailed(logic, compiled) == IF Contains(compiled, Failed) THEN Failed ELSE Combine(logic, compiled)
RECURSIVE ConditionGroupToPredicate(_, _)
ConditionGroupToPredicate(group, context) ==
    AllOrFailed(group.logic, [i \in DOMAIN group.conditions |->
        IF IsConditionGroup(group.conditions[i])
        THEN ConditionGroupToPredicate(group.conditions[i], context)
        ELSE PolicyClauseToPredicate(group.conditions[i], context)])

Both(compiled) ==
    IF \E group \in DOMAIN compiled : compiled[group] = Failed THEN Failed
    ELSE And(<<compiled.systemScope, compiled.userFilters>>)
PolicyConditionsToPredicate(policy, context) ==
    Both([group \in {"systemScope", "userFilters"} |-> ConditionGroupToPredicate(policy[group], context)])

-----------------------------------------------------------------------------
(* Normalization *)

POLICY_SCOPE_TYPES == {"tenant_default", "platform_default", "role", "branch", "department", "user"}

\* No bound is Unbounded.
Unbounded == -1
IsActive(policy, at) ==
    /\ policy.startsAt = Unbounded \/ at >= policy.startsAt
    /\ policy.endsAt = Unbounded \/ at <= policy.endsAt
ValidWindow(policy) ==
    policy.startsAt = Unbounded \/ policy.endsAt = Unbounded \/ policy.startsAt <= policy.endsAt

HeaderValid(policy) ==
    /\ policy.effect \in {"allow", "deny"}
    /\ policy.priority \in Int
    /\ policy.scopeType \in POLICY_SCOPE_TYPES

\* Text operators differ with collations, and the order of dates between memory
\* and databases.
PortableSecurityPredicate(p) ==
    \A c \in ConditionsOf(p) :
        /\ c.op \notin TextOps
        /\ FieldTypes[c.field] \in {"date", "datetime"} => c.op \notin OrderOps \cup {"between"}

\* The predicate a policy decides with, or Failed.
Enforceable(compiled) ==
    /\ compiled # Failed
    /\ PortablePredicate(compiled) /\ PortableSecurityPredicate(compiled)
    /\ SupportedPredicate(compiled, FieldTypes)
IfEnforceable(compiled) == IF Enforceable(compiled) THEN compiled ELSE Failed
NormalizeAbacPolicy(policy, context) ==
    IF /\ HeaderValid(policy) /\ ValidWindow(policy) /\ policy.moduleKey = ModuleKey
       /\ ValidatePayloadAgainstCatalog(policy)
    THEN IfEnforceable(PolicyConditionsToPredicate(policy, context)) ELSE Failed

-----------------------------------------------------------------------------
(* The bundle *)

ScopeAttribute ==
    [role |-> "user.roleId", branch |-> "user.branchId", department |-> "user.departmentId", user |-> "user.id"]
ScopesOf(mode) ==
    IF mode = "tenant" THEN {"tenant_default", "role", "branch", "department", "user"}
    ELSE {"platform_default", "role", "user"}

\* A policy of a role, a branch, a department or a user is for those whose
\* context refers to it, and a default for those of its mode; no reference is
\* Absent.
ScopeMatchesContext(policy, mode, context) ==
    /\ policy.scopeType \in ScopesOf(mode)
    /\ IF policy.scopeType \in DOMAIN ScopeAttribute
       THEN policy.scopeRef # Absent /\ policy.scopeRef = context[ScopeAttribute[policy.scopeType]]
       ELSE policy.scopeRef = Absent

SCOPE_ORDER ==
    [role |-> 5, branch |-> 4, department |-> 3, user |-> 2, tenant_default |-> 1, platform_default |-> 0]

Precedes(a, b) ==
    \/ a.priority > b.priority
    \/ a.priority = b.priority /\ SCOPE_ORDER[a.scopeType] > SCOPE_ORDER[b.scopeType]
    \/ a.priority = b.priority /\ a.scopeType = b.scopeType /\ a.policyId < b.policyId

NoBundle == [made |-> FALSE, policies |-> <<>>, inactive |-> {}]

\* Any policy that does not normalize, or is meant for someone else, refuses
\* the bundle; policies outside their window are left out of it.
BundleOf(normalized, mode, context, at) ==
    IF \E i \in DOMAIN normalized :
          \/ normalized[i].compiled = Failed
          \/ IsActive(normalized[i].header, at) /\ ~ScopeMatchesContext(normalized[i].header, mode, context)
    THEN NoBundle
    ELSE [made |-> TRUE,
          policies |-> SortSeq(SelectSeq(normalized, LAMBDA n : IsActive(n.header, at)),
                               LAMBDA a, b : Precedes(a.header, b.header)),
          inactive |-> {normalized[i].header.policyId :
                          i \in {j \in DOMAIN normalized : ~IsActive(normalized[j].header, at)}}]
CreateAbacBundle(policies, mode, context, at) ==
    BundleOf([i \in DOMAIN policies |->
                 [header |-> policies[i], compiled |-> NormalizeAbacPolicy(policies[i], context)]],
             mode, context, at)

-----------------------------------------------------------------------------
(* What the policies of a bundle decide *)

\* The policies of a bundle as PolicyTiers has them.
TierPolicies(policies) ==
    {[effect |-> policies[i].header.effect, priority |-> policies[i].header.priority,
      actions |-> policies[i].header.actions, condition |-> policies[i].compiled,
      write |-> policies[i].header.write] : i \in DOMAIN policies}

MatchesCompiled(condition, record) == EvaluatePredicate(record, condition)
CompiledTrue(condition) == IsAlwaysTrue(SimplifyPredicate(condition))
CompiledFalse(condition) == IsAlwaysFalse(SimplifyPredicate(condition))
Tiers == INSTANCE PolicyTiers WITH
    Fields <- DOMAIN FieldTypes, Conditions <- {}, Records <- {}, Matches <- MatchesCompiled,
    AlwaysHolds <- CompiledTrue, NeverHolds <- CompiledFalse

Compiled(policies) == [i \in DOMAIN policies |-> policies[i].compiled]
RelevantOf(policies, action) == SelectSeq(policies, LAMBDA p : action \in p.header.actions)

-----------------------------------------------------------------------------
(* The scope of an action *)

CombineOr(filters) == IF Len(filters) = 1 THEN filters[1] ELSE Or(filters)
CombineAnd(filters) == IF Len(filters) = 1 THEN filters[1] ELSE And(filters)

\* Tier after tier of falling priority: an allow policy matches, no deny policy
\* does, and nothing of the tiers above.
BuildActionScope(policies, action) ==
    LET relevant == RelevantOf(policies, action)
        priorities == SetToSortSeq({relevant[i].header.priority : i \in DOMAIN relevant}, LAMBDA a, b : a > b)
        matches(tier, effects) == CombineOr(Compiled(
            SelectSeq(relevant, LAMBDA p : p.header.priority = tier /\ p.header.effect \in effects)))
        clause(built, tier) ==
            CombineAnd(<<built.unmatched, matches(tier, {"allow"}), Not(matches(tier, {"deny"}))>>)
        step(built, tier) ==
            [unmatched |-> CombineAnd(<<built.unmatched, Not(matches(tier, {"allow", "deny"}))>>),
             clauses |-> Append(built.clauses, clause(built, tier))]
        built == FoldLeft(step, [unmatched |-> AlwaysTrue, clauses |-> <<>>], priorities)
    IN  IF relevant = <<>> THEN AlwaysFalse ELSE CombineOr(built.clauses)

\* A collection whose scope is false whatever the row is refused.
CollectionAllowed(policies, action) ==
    /\ ~IsAlwaysFalse(SimplifyPredicate(BuildActionScope(policies, action)))
    /\ \E i \in DOMAIN policies : action \in policies[i].header.actions /\ policies[i].header.effect = "allow"

-----------------------------------------------------------------------------
(* Capabilities *)

\* The tiers of policies decide among those that match.
Decide(policies) ==
    Tiers!TieredDecision({[effect |-> policies[i].header.effect, priority |-> policies[i].header.priority] :
                             i \in DOMAIN policies})

\* Policies without a condition alone grant globally, or deny.
HasGlobalAbacCapability(policies, capability) ==
    Decide(SelectSeq(policies, LAMBDA p :
        CompiledTrue(p.compiled) /\ capability \in p.header.capabilities))

HasRecordAbacCapability(policies, capability, record) ==
    Decide(SelectSeq(policies, LAMBDA p :
        capability \in p.header.capabilities /\ EvaluatePredicate(record, p.compiled)))

-----------------------------------------------------------------------------
(* Fields *)

RESTRICTIVENESS == [allow |-> 0, mask |-> 1, omit |-> 2]

\* A read map is a function from the fields it names to their modes; without
\* one, a policy says nothing of reading.
ModeOf(policy, field) == IF policy.header.effect = "deny" THEN "omit" ELSE policy.header.read[field]

ReadMatches(policies, record) ==
    SelectSeq(policies, LAMBDA p :
        "read" \in p.header.actions /\ p.header.read # <<>> /\ EvaluatePredicate(record, p.compiled))

\* Unresolved fields have no mode yet.
Unresolved == [mode |-> "allow", priority |-> -1]

\* Mutant of ApplyReadPolicy: the later of two policies of one priority wins.
ApplyReadPolicyLastWins(plan, policy) ==
    [allowlist |-> plan.allowlist,
     fields |-> [f \in DOMAIN plan.fields |->
        IF f \notin DOMAIN policy.header.read \/ plan.fields[f].priority > policy.header.priority
        THEN plan.fields[f]
        ELSE [mode |-> ModeOf(policy, f), priority |-> policy.header.priority]]]

\* The first allow policy omits the fields its map does not name.  A policy
\* then sets the mode of those it names, unless a higher one has set it; among
\* equals the more restrictive mode stays.
ApplyReadPolicy(plan, policy) ==
    LET priority == policy.header.priority
        read == policy.header.read
        first == policy.header.effect = "allow" /\ plan.allowlist = -1
        before(f) == IF first /\ f \notin DOMAIN read THEN [mode |-> "omit", priority |-> priority]
                     ELSE plan.fields[f]
        after(f) ==
            LET previous == before(f)
            IN  IF f \notin DOMAIN read \/ previous.priority > priority THEN previous
                ELSE IF previous.priority = priority /\ RESTRICTIVENESS[previous.mode] >= RESTRICTIVENESS[ModeOf(policy, f)]
                THEN previous
                ELSE [mode |-> ModeOf(policy, f), priority |-> priority]
    IN  [allowlist |-> IF first THEN priority ELSE plan.allowlist,
         fields |-> [f \in DOMAIN plan.fields |-> after(f)]]

\* How every field of a record is shown to a reader.
ResolveFieldReadOverrides(policies, record) ==
    LET plan == FoldLeft(ApplyReadPolicy,
                    [allowlist |-> -1, fields |-> [f \in DOMAIN record |-> Unresolved]],
                    ReadMatches(policies, record))
    IN  [f \in DOMAIN record |-> plan.fields[f].mode]

Masked == [t |-> "string", v |-> <<99>>]

\* Hidden fields are left out of the response, and masks cover all but null.
ProjectResponseRecord(record, overrides) ==
    [f \in {g \in DOMAIN record : overrides[g] # "omit"} |->
        IF overrides[f] = "mask" /\ record[f] # Null THEN Masked ELSE record[f]]

\* Fields a policy hides, whatever its condition, may not be queried by, unless
\* some policy grants it.
ResolveFieldQueryDenials(policies) ==
    {f \in DOMAIN FieldTypes :
        /\ \E i \in DOMAIN policies : /\ f \in DOMAIN policies[i].header.read
                                      /\ ModeOf(policies[i], f) \in {"omit", "mask"}
        /\ \A i \in DOMAIN policies : f \notin policies[i].header.query}
=============================================================================

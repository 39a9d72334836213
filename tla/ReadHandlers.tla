----------------------------- MODULE ReadHandlers -----------------------------
(* A list or a detail request of an entity (packages/adapters/src/http:       *)
(* crudHandlers/list.ts, detail.ts and shared.ts): access, the caller's       *)
(* filters, search and sort parsed (filterInterop.ts), the entity's scope and *)
(* the policies' put around them, the rows read, each shown as its policies   *)
(* let, also through a hook that enriches them, and the key the answer is     *)
(* cached under.                                                              *)
(*                                                                            *)
(* A caller has its session, its bundle of policies, or NoBundle, and what    *)
(* the host says of it; an entity its options; a query the page, the filters  *)
(* and the sort asked for, parsed from JSON.  Bytes are letters.              *)
EXTENDS PolicyDecisions

Scoped == INSTANCE ScopedPersistence

\* The status of a response by what went wrong.
StatusOf(error) ==
    CASE error = "" -> 200
      [] error \in {"forbidden", "capability"} -> 403
      [] error = "not found" -> 404
      [] error = "conflict" -> 409
      [] error \in {"validation", "business rule"} -> 400
      [] OTHER -> 500

\* The rows, or why nothing is answered.
Answer(rows, count) == [error |-> "", status |-> 200, rows |-> rows, count |-> count]
Failure(error) == [error |-> error, status |-> StatusOf(error), rows |-> <<>>, count |-> 0]
Unlimited == -1
AnyField == {"*"}        \* a list of fields the entity does not declare
EntityFields == {"id", "tenantId", "createdAt", "name", "size", "open"}

-----------------------------------------------------------------------------
(* Access *)

\* A grant of the actor, the host's word, and nobody acting for the actor.
CanUseOwnerBypass(caller) ==
    caller.actor /\ caller.bypassAuthority /\ ~caller.impersonated /\ caller.ownerBypass

NeedsBundle(caller) == caller.actor /\ ~CanUseOwnerBypass(caller)

\* Why the caller may not read the entity at all.
EnforceReadAccess(caller, entity) ==
    LET capability == entity.capability # ""
        bundle == caller.bundle
    IN  IF NeedsBundle(caller) /\ capability /\ ~caller.hasCapability THEN "capability"
        ELSE IF NeedsBundle(caller) /\ ~bundle.made THEN "forbidden"
        ELSE IF /\ NeedsBundle(caller) /\ capability
                /\ ~HasGlobalAbacCapability(bundle.policies, entity.capability) THEN "forbidden"
        ELSE IF ~caller.actor /\ capability THEN "forbidden"
        ELSE IF ~caller.enabled THEN "forbidden" ELSE ""

\* A tenant's rows, and what the entity adds when it is not scoped to tenants.
BuildStructuralScope(caller, entity) ==
    (IF caller.scope = "tenant" /\ entity.tenantField
     THEN <<Condition("tenantId", "eq", Scalar(caller.tenant))>> ELSE <<>>)
    \o entity.scopeFilter

\* The rows the caller's policies let it read.
BuildReadScope(caller) ==
    IF NeedsBundle(caller) THEN <<BuildActionScope(caller.bundle.policies, "read")>> ELSE <<>>

JoinFilters(filters) == IF filters = <<>> THEN Scoped!NoFilter ELSE CombineAnd(filters)

-----------------------------------------------------------------------------
(* Filters, search and sort *)

MAX_NESTING_DEPTH == 1   \* stands for 5
MAX_CONDITIONS == 3      \* stands for 50
DEFAULT_MAX_SORT_KEYS == 3

Unfit == [kind |-> "unfit"]

\* A bug to be caught: the fields the policies hide may be asked about.
EffectiveColumnsUndenied(listed, caller) == IF listed = AnyField THEN EntityFields ELSE listed
\* The fields a caller may ask about: those listed, without those its policies
\* hide; without policies and without a list, any.
EffectiveColumns(listed, caller) ==
    IF ~NeedsBundle(caller) THEN listed
    ELSE (IF listed = AnyField THEN EntityFields ELSE listed)
         \ ResolveFieldQueryDenials(caller.bundle.policies)
Permitted(field, columns) == columns = AnyField \/ field \in columns

OPERATORS ==
    {"eq", "neq", "contains", "startsWith", "endsWith", "isEmpty", "isNotEmpty", "gt", "lt", "gte", "lte",
     "isTrue", "isFalse", "isNull", "isNotNull", "between", "in"}
ValuelessOps == {"isEmpty", "isNotEmpty", "isTrue", "isFalse", "isNull", "isNotNull"}

\* Number() of a value, or the value itself when that is no number: null is
\* zero, and so is an empty list; a list of one is its element.
CoerceToNumber(value) ==
    LET number(v) == CASE v.t = "number" -> v
                       [] v = Null \/ v = [t |-> "string", v |-> <<>>] -> [t |-> "number", v |-> <<0>>]
                       [] v.t = "boolean" -> [t |-> "number", v |-> v.v]
                       [] OTHER -> CoercePolicyValue("number", v)
        single == IF value.shape = "scalar" THEN value.from
                  ELSE IF value.shape = "list" /\ value.list = <<>> THEN Null
                  ELSE IF value.shape = "list" /\ Len(value.list) = 1 THEN value.list[1] ELSE Invalid
    IN  IF single = Invalid \/ number(single) = Invalid THEN value ELSE Scalar(number(single))

CoerceByKind(value, kind) ==
    CASE kind = "number" -> CoerceToNumber(value)
      [] kind = "boolean" /\ value.from.t = "string" /\ CoercePolicyValue("boolean", value.from) # Invalid ->
            Scalar(CoercePolicyValue("boolean", value.from))
      [] OTHER -> value

\* A list of two is a list; a range needs a bound.
ToPredicateValue(value) ==
    CASE value.shape = "object" -> Unfit
      [] value.shape = "range" /\ value.from = Absent /\ value.to = Absent -> Unfit
      [] OTHER -> value

Bytes(value) == Len(value.from.v) + Len(value.list)

\* A condition of the query: of a field the caller may filter by, under the
\* name of its column.  The equality of a day is a range from its beginning to
\* its end, here its letter twice.
PredicateFromFilterCondition(condition, entity, columns) ==
    LET named == condition.field \in DOMAIN entity.filterFieldMeta
        field == IF named THEN entity.filterFieldMeta[condition.field].column ELSE condition.field
        kind == IF named THEN entity.filterFieldMeta[condition.field].kind ELSE "string"
        value == ToPredicateValue(CoerceByKind(condition.value, kind))
        day == /\ kind = "date" /\ condition.op = "eq" /\ condition.value.shape = "scalar"
               /\ CoercePolicyValue("date", condition.value.from) # Invalid
        accepted ==
            /\ condition.field # "" /\ Permitted(field, columns) /\ condition.op \in OPERATORS
            /\ condition.value = Nothing => condition.op \in ValuelessOps
            /\ value # Unfit
            /\ entity.maxFilterValueBytes = Unlimited \/ Bytes(value) <= entity.maxFilterValueBytes
    IN  IF ~accepted THEN Unfit
        ELSE IF day THEN Condition(field, "between", Between(condition.value.from, condition.value.from))
        ELSE Condition(field, condition.op, value)

IsFilterGroup(condition) == "conditions" \in DOMAIN condition

RECURSIVE CountConditions(_)
CountConditions(group) ==
    FoldLeft(LAMBDA n, c : n + 1 + (IF IsFilterGroup(c) THEN CountConditions(c) ELSE 0), 0, group.conditions)

\* The predicates of a group's conditions, none for an empty group.
JoinGroup(logic, predicates) == IF predicates = <<>> THEN Scoped!NoFilter ELSE Combine(logic, predicates)
JoinParsed(logic, parsed) ==
    IF Contains(parsed, Unfit) THEN Unfit
    ELSE JoinGroup(logic, SelectSeq(parsed, LAMBDA p : p # Scoped!NoFilter))
RECURSIVE ParseFilterGroup(_, _, _, _)
ParseFilterGroup(group, entity, columns, depth) ==
    IF depth > MAX_NESTING_DEPTH \/ group.logic \notin {"AND", "OR", ""} THEN Unfit
    ELSE JoinParsed(group.logic, [i \in DOMAIN group.conditions |->
        IF IsFilterGroup(group.conditions[i])
        THEN ParseFilterGroup(group.conditions[i], entity, columns, depth + 1)
        ELSE PredicateFromFilterCondition(group.conditions[i], entity, columns)])

\* The search of a query in every column that may be searched.
SearchToPredicate(search, entity, columns) ==
    LET op == IF entity.searchStrategy = "prefix" THEN "startsWith" ELSE "contains"
        fields == SetToSeq(columns)
    IN  CombineOr([i \in DOMAIN fields |-> Condition(fields[i], op, Scalar(search))])

\* The predicates of a query's filters, or why there are none.
SearchAndGroup(filters, entity, searchable, group) ==
    LET searched == filters.search.v # <<>> /\ searchable # {}
        limited == \/ entity.maxSearchBytes # Unlimited /\ Len(filters.search.v) > entity.maxSearchBytes
                   \/ entity.maxSearchableColumns # Unlimited /\ Cardinality(searchable) > entity.maxSearchableColumns
        found == (IF searched THEN <<SearchToPredicate(filters.search, entity, searchable)>> ELSE <<>>)
                 \o (IF group = Scoped!NoFilter THEN <<>> ELSE <<group>>)
    IN  IF searched /\ limited THEN [error |-> "validation", predicates |-> <<>>]
        ELSE IF searched /\ entity.searchStrategy = "fullText" THEN [error |-> "configuration", predicates |-> <<>>]
        ELSE IF group = Unfit \/ CountConditions(filters) > MAX_CONDITIONS
             THEN [error |-> "validation", predicates |-> <<>>]
        ELSE [error |-> "", predicates |-> IF found = <<>> THEN <<>> ELSE <<CombineAnd(found)>>]
FiltersToPredicate(filters, entity, searchable, filterable) ==
    SearchAndGroup(filters, entity, searchable, ParseFilterGroup(filters, entity, filterable, 0))

\* The sort asked for is of a few fields the caller may sort by.
ParseSortString(sorting, columns) ==
    Len(sorting) <= DEFAULT_MAX_SORT_KEYS /\ \A i \in DOMAIN sorting : Permitted(sorting[i].field, columns)

\* The compiler of predicates takes the operands its operators can have, of
\* columns there are; anything else is an error of the program.
CompilableCondition(c) ==
    /\ c.field \in EntityFields
    /\ c.op = "in" => c.value.shape = "list"
    /\ c.op = "between" => c.value.shape = "range"
    /\ c.op \in TextOps => c.value.from.t = "string"
    /\ c.op \in OrderOps \cup {"eq", "neq"} => c.value.shape = "scalar"
Compilable(filter) == filter = Scoped!NoFilter \/ \A c \in ConditionsOf(filter) : CompilableCondition(c)

-----------------------------------------------------------------------------
(* Rows *)

\* What the handlers ask of a repository.
Reading(caller, filter) ==
    [op |-> "findMany", id |-> Null, filter |-> filter, versioned |-> FALSE, expected |-> Absent, page |-> 1,
     pageSize |-> 1, maxPageSize |-> 100, maxOffset |-> Scoped!NotGiven, sort |-> <<>>, leaks |-> FALSE,
     tenant |-> caller.tenant]
\* Tenants read through the wrapper that keeps them to their rows.
WithScopedPersistence(table, caller, entity, call) ==
    LET tenanted == caller.scope = "tenant" /\ entity.tenantField
        asked == IF tenanted THEN Scoped!Forwarded(call) ELSE call
        answered(found) == IF tenanted THEN Scoped!ScopedAnswer(table, call, found) ELSE found
    IN  IF ~Compilable(call.filter) THEN Scoped!Refused(table, "other")
        ELSE answered(Scoped!Pg!QueryCall(table, asked))

PlanOf(caller, row) ==
    IF NeedsBundle(caller) THEN ResolveFieldReadOverrides(caller.bundle.policies, row)
    ELSE [f \in DOMAIN row |-> "allow"]
Project(row, plan) == ProjectResponseRecord([f \in DOMAIN row \cap EntityFields |-> row[f]], plan)

\* What a hook makes of the projected rows: nothing, one row less, another
\* order, or rows with everything in them that it could learn elsewhere.
Enriched(hook, rows, durable) ==
    CASE hook = "drop" /\ rows # <<>> -> Tail(rows)
      [] hook = "swap" -> Reverse(rows)
      [] hook = "reveal" -> durable
      [] OTHER -> rows

\* The rows as many and with the keys they had, where a key is to be seen; and
\* shown as the rows they were may be.
Represent(hook, durable, plans) ==
    LET rows == [i \in DOMAIN durable |-> Project(durable[i], plans[i])]
        enriched == Enriched(hook, rows, durable)
        kept == \A i \in DOMAIN enriched : "id" \notin DOMAIN enriched[i] \/ enriched[i].id = durable[i].id
    IN  IF hook = "none" THEN Answer(rows, 0)
        ELSE IF Len(enriched) # Len(durable) \/ ~kept THEN Failure("forbidden")
        ELSE Answer([i \in DOMAIN enriched |-> Project(enriched[i], plans[i])], 0)

DefaultSize == 4   \* stands for 10

PageOf(query) ==
    [page |-> IF query.page = Scoped!NotGiven THEN 1 ELSE query.page,
     pageSize |-> IF query.pageSize = Scoped!NotGiven THEN DefaultSize ELSE query.pageSize]

\* What was found, or why it is not told.
ListShown(caller, entity, raw) ==
    IF raw.error # "" THEN Failure(raw.error)
    ELSE IF entity.maxCount # Unlimited /\ raw.count > entity.maxCount THEN Failure("validation")
    ELSE [Represent(entity.listHook, raw.rows, [i \in DOMAIN raw.rows |-> PlanOf(caller, raw.rows[i])])
             EXCEPT !.count = raw.count]
ListParsed(table, caller, entity, query, parsed) ==
    LET paging == PageOf(query)
        filter == JoinFilters(BuildStructuralScope(caller, entity) \o BuildReadScope(caller) \o parsed.predicates)
        sort == IF query.sorting = <<>> THEN entity.defaultSort ELSE query.sorting
    IN  IF paging.page < 1 \/ paging.pageSize < 1 THEN Failure("validation")
        ELSE IF entity.maxOffset # Unlimited /\ (paging.page - 1) * paging.pageSize > entity.maxOffset
             THEN Failure("validation")
        ELSE IF parsed.error # "" THEN Failure(parsed.error)
        ELSE IF ~ParseSortString(query.sorting, EffectiveColumns(AnyField, caller)) THEN Failure("validation")
        ELSE ListShown(caller, entity,
                 WithScopedPersistence(table, caller, entity,
                     [Reading(caller, filter) EXCEPT
                         !.page = paging.page, !.pageSize = paging.pageSize, !.sort = sort]))
List(table, caller, entity, query) ==
    ListParsed(table, caller, entity, query,
        FiltersToPredicate(query.filters, entity,
            LET columns == EffectiveColumns(entity.searchableColumns, caller)
            IN  IF columns = AnyField THEN {} ELSE columns,
            EffectiveColumns(entity.filterableColumns, caller)))

\* The row that was found, as it may be shown.
DetailRow(hook, rows, plan) ==
    LET row == Project(rows[1], plan)
    IN  Answer(<<IF hook = "none" THEN row ELSE Project(Enriched(hook, <<row>>, rows)[1], plan)>>, 1)
DetailShown(caller, entity, raw) ==
    IF raw.error # "" THEN Failure(raw.error)
    ELSE IF raw.rows = <<>> THEN Failure("not found")
    ELSE DetailRow(entity.detailHook, raw.rows, PlanOf(caller, raw.rows[1]))
DetailCall(caller, scope, id) ==
    IF scope = <<>> THEN [Reading(caller, Scoped!NoFilter) EXCEPT !.op = "findById", !.id = id]
    ELSE [Reading(caller, And(<<Scoped!IdFilter(id), CombineAnd(scope)>>)) EXCEPT !.op = "findOneWhere"]
Detail(table, caller, entity, id) ==
    DetailShown(caller, entity,
        WithScopedPersistence(table, caller, entity,
            DetailCall(caller, BuildStructuralScope(caller, entity) \o BuildReadScope(caller), id)))

Read(table, caller, entity, query) ==
    LET refusal == EnforceReadAccess(caller, entity)
    IN  IF refusal # "" THEN Failure(refusal)
        ELSE IF query.op = "detail" THEN Detail(table, caller, entity, query.id)
        ELSE List(table, caller, entity, query)

-----------------------------------------------------------------------------
(* The cache's key *)

\* What a bundle's digest is of: all of it.
SecurityDigest(caller) ==
    [policies |-> caller.bundle.policies, inactive |-> caller.bundle.inactive, context |-> caller.context,
     tenant |-> caller.scope = "tenant", cacheScopeKey |-> caller.cacheScopeKey]

NoPartition == [kind |-> "none"]

\* Whose answers may be shared.
DeriveSecurityCachePartition(caller, hook) ==
    IF hook # "none" THEN NoPartition
    ELSE IF ~caller.actor THEN [kind |-> "public"]
    ELSE IF CanUseOwnerBypass(caller) THEN [kind |-> "bypass", id |-> caller.id]
    ELSE IF caller.cacheScopeKey = "" THEN NoPartition
    ELSE [kind |-> "abac", digest |-> SecurityDigest(caller)]

\* A bug to be caught: the key leaves the tenant out.
CacheKeyOfAnyTenant(caller, query) ==
    [partition |-> DeriveSecurityCachePartition(caller, "none"),
     scopeKey |-> IF NeedsBundle(caller) THEN caller.cacheScopeKey ELSE "", query |-> query]
CacheKey(caller, query) ==
    [partition |-> DeriveSecurityCachePartition(caller, "none"),
     scope |-> IF caller.scope = "tenant" THEN caller.tenant ELSE [t |-> caller.scope, v |-> <<>>],
     scopeKey |-> IF NeedsBundle(caller) THEN caller.cacheScopeKey ELSE "", query |-> query]
Cacheable(caller, entity, query) ==
    /\ EnforceReadAccess(caller, entity) = ""
    /\ DeriveSecurityCachePartition(caller, IF query.op = "list" THEN entity.listHook ELSE entity.detailHook) # NoPartition

-----------------------------------------------------------------------------
(* What a reader should be told *)

\* The fields the caller's policies hide and no condition of theirs tells of.
Hidden(caller) ==
    {f \in ResolveFieldQueryDenials(caller.bundle.policies) :
        \A i \in DOMAIN caller.bundle.policies :
            \A c \in ConditionsOf(caller.bundle.policies[i].compiled) : c.field # f}

\* The fields the entity itself sorts and scopes its rows by.
OfEntity(entity) ==
    {entity.defaultSort[i].field : i \in DOMAIN entity.defaultSort}
    \cup {c.field : c \in UNION {ConditionsOf(p) : p \in ToSet(entity.scopeFilter)}}

\* Rows that differ only in a field the caller's policies hide are told apart
\* by no answer, whatever is asked for, in whatever order, page or count.
QueriesBlind(table, caller, entity, query) ==
    NeedsBundle(caller) =>
        \A f \in Hidden(caller) \ OfEntity(entity) :
            LET changed(r) == IF PlanOf(caller, r)[f] = "allow" THEN r ELSE [r EXCEPT ![f].v[1] = 60 - @]
                answer(rows) == Read(rows, caller, entity, query)
            IN  answer({changed(r) : r \in table}) = answer(table)

\* A row is told only to those its tiers allow it, and to its tenant; a row of a
\* list is the row its key finds.
Readable(table, caller, entity) ==
    {r \in table :
        /\ NeedsBundle(caller) => Tiers!RecordAction(TierPolicies(caller.bundle.policies), "read", r)
        /\ caller.scope = "tenant" /\ entity.tenantField => r.tenantId = caller.tenant}
AnswerConfined(table, caller, entity, query, answer, readable) ==
    LET detail(r) == Read(table, caller, [entity EXCEPT !.detailHook = entity.listHook],
                          [query EXCEPT !.op = "detail", !.id = r.id])
    IN  answer.error = "" =>
        /\ \A i \in DOMAIN answer.rows : \E r \in readable : Project(r, PlanOf(caller, r)) = answer.rows[i]
        /\ query.op = "list" => Len(answer.rows) <= answer.count /\ answer.count <= Cardinality(readable)
        /\ query.op = "list" /\ entity.listHook = "none" =>
              {answer.rows[i] : i \in DOMAIN answer.rows}
                  \subseteq UNION {ToSet(detail(r).rows) : r \in table}

\* Who is given another's cached answer would have been given the same.
AnswerShared(table, caller, others, entity, query, answer) ==
    Cacheable(caller, entity, query) =>
        \A other \in others :
            Cacheable(other, entity, query) /\ CacheKey(other, query) = CacheKey(caller, query) =>
                Read(table, other, entity, query) = answer

\* Both of an answer.
AnswerApart(table, caller, others, entity, query, answer) ==
    /\ AnswerConfined(table, caller, entity, query, answer, Readable(table, caller, entity))
    /\ AnswerShared(table, caller, others, entity, query, answer)
ReadsApart(table, caller, others, entity, query) ==
    AnswerApart(table, caller, others, entity, query, Read(table, caller, entity, query))
=============================================================================

---------------------------- MODULE MCCalculations ----------------------------
(* A catalog of three fields, predicates of up to three conditions, and       *)
(* bundles of up to three policies.                                           *)
EXTENDS Calculations, TLC

StringV(letters) == [t |-> "string", v |-> letters]
NumberV(n) == [t |-> "number", v |-> <<n>>]
BooleanV(n) == [t |-> "boolean", v |-> <<n>>]

MCFieldTypes == [name |-> "string", size |-> "number", open |-> "boolean"]
MCFieldOperators ==
    [name |-> {"equals", "notEquals", "contains", "isNull", "isEmpty", "in"},
     size |-> {"equals", "greaterThan", "isNotNull", "between", "in"},
     open |-> {"isTrue", "isFalse", "equals"}]
MCFieldValues ==
    [name |-> {Null, StringV(<<>>), StringV(<<10>>), StringV(<<UpperCase(10)>>), StringV(<<10, 11>>)},
     size |-> {Null, NumberV(1), NumberV(2)},
     open |-> {Null, BooleanV(0), BooleanV(1)}]

-----------------------------------------------------------------------------
(* Predicates *)

NameConditions ==
    {Condition("name", op, Scalar(v)) :
        op \in {"eq", "neq", "contains", "startsWith", "endsWith"}, v \in {StringV(<<10>>), StringV(<<UpperCase(11)>>)}}
    \cup {Condition("name", op, Scalar(Null)) : op \in {"eq", "neq"}}
    \cup {Condition("name", op, Nothing) : op \in {"isNull", "isNotNull", "isEmpty", "isNotEmpty"}}
    \cup {Condition("name", "in", Listed(vs)) : vs \in {<<>>, <<Null>>, <<Null, StringV(<<10>>)>>}}
OtherConditions ==
    {Condition("size", op, Scalar(NumberV(1))) : op \in {"eq", "gt", "lt", "gte", "lte"}}
    \cup {Condition("size", "between", Between(a, b)) : a \in {Absent, Null, NumberV(2)}, b \in {Absent, NumberV(1)}}
    \cup {Condition("open", op, Nothing) : op \in {"isTrue", "isFalse"}}
Leaves == NameConditions \cup OtherConditions \cup {Literal(TRUE), Literal(FALSE), AlwaysTrue, AlwaysFalse}

Pairs == {And(<<a, b>>) : a, b \in Leaves} \cup {Or(<<a, b>>) : a, b \in Leaves}
MCTrees ==
    Leaves \cup Pairs \cup {Not(p) : p \in Leaves} \cup {Not(Not(p)) : p \in Leaves}
    \cup {And(<<Or(<<a, Literal(FALSE)>>), b>>) : a \in OtherConditions, b \in NameConditions}
    \cup {Not(And(<<Or(<<a, AlwaysFalse>>), Not(b)>>)) : a \in OtherConditions, b \in NameConditions}

-----------------------------------------------------------------------------
(* Policies *)

NoValue(field, operator) == Clause(field, operator, Nothing, Nothing, "")
WithValue(field, operator, v) == Clause(field, operator, Scalar(v), Nothing, "")
WithAttr(field, operator, attr) == Clause(field, operator, Nothing, Nothing, attr)

Always == ClauseGroup("AND", <<>>)
Only(clause) == ClauseGroup("AND", <<clause>>)
Named == Only(WithValue("name", "equals", StringV(<<10>>)))
NotNamed == Only(WithValue("name", "notEquals", StringV(<<10>>)))
Mine == Only(WithAttr("name", "equals", "user.branchId"))
Large == Only(WithValue("size", "greaterThan", Text(1)))
OpenOrNameless == ClauseGroup("OR", <<NoValue("open", "isTrue"), Only(WithValue("name", "equals", Null))>>)
Sized == Only(Clause("size", "in", Nothing, Listed(<<NumberV(1)>>), ""))
Never == ClauseGroup("OR", <<>>)

\* Policy number id; what is not given is the same for all.
P(id, effect, priority, system, user, read) ==
    [policyId |-> id, effect |-> effect, priority |-> priority, scopeType |-> "tenant_default",
     scopeRef |-> Absent, startsAt |-> Unbounded, endsAt |-> Unbounded, moduleKey |-> ModuleKey,
     actions |-> {"read", "update"}, capabilities |-> {}, systemScope |-> system, userFilters |-> user,
     read |-> read, write |-> {}, query |-> {}]
NoRead == <<>>

MCPolicies ==
    {P(1, "allow", 1, Always, Always, NoRead),
     P(2, "allow", 1, Named, Always, [name |-> "allow", size |-> "mask"]),
     P(3, "deny", 1, Mine, Always, [size |-> "allow"]),
     P(4, "deny", 2, NotNamed, Always, NoRead),
     P(5, "allow", 2, Large, Always, [name |-> "mask", open |-> "allow"]),
     P(6, "allow", 3, OpenOrNameless, Large, [name |-> "omit"]),
     P(7, "deny", 2, Never, Always, NoRead),
     P(8, "allow", 2, Always, Mine, [name |-> "allow"]),
     [P(9, "deny", 3, Always, Always, NoRead) EXCEPT !.startsAt = 2, !.scopeType = "role", !.scopeRef = Text(5)],
     [P(10, "allow", 2, Large, Always, [name |-> "allow", size |-> "allow", open |-> "mask"])
        EXCEPT !.scopeType = "branch", !.scopeRef = Text(10)],
     P(11, "allow", 1, Sized, Always, NoRead)}
MCPolicySets == UNION {{ps \in SUBSET MCPolicies : Cardinality(ps) = n} : n \in 0..3}

ContextOf(branch, role) ==
    [a \in USER_ATTRS |-> IF a = "user.branchId" THEN branch ELSE IF a = "user.roleId" THEN role ELSE Absent]
MCContexts == {ContextOf(Text(10), Text(5)), ContextOf(Absent, Text(5))}

-----------------------------------------------------------------------------
(* Stores: tables of two rows.  It is 10 by both clocks, or 12 by the         *)
(* process's; a row whose lease ends at 10 is at the instant of expiry.       *)

Acme == Requester("tenant", "acme", FALSE)
Bolt == Requester("tenant", "bolt", FALSE)
Platform == Requester("platform", Nil, FALSE)
Operator == Requester("platform", Nil, TRUE)
System == Requester("system", Nil, FALSE)

Job(scope, tenant, key, runAt) ==
    [scope |-> scope, tenant |-> tenant, type |-> "mail", version |-> 1, priority |-> 1, maxAttempts |-> Unset,
     runAt |-> runAt, key |-> key, correlation |-> "c", partition |-> Nil]
AcmeJob == Job("tenant", "acme", "k", 5)
MCJobs ==
    {AcmeJob, Job("tenant", "bolt", "k", Unset), Job("platform", Nil, "k", 5), Job("system", "acme", "k", 5),
     Job("tenant", "acme", Nil, 5), [AcmeJob EXCEPT !.maxAttempts = 0], [AcmeJob EXCEPT !.version = 2],
     [AcmeJob EXCEPT !.partition = "p", !.maxAttempts = 1], [AcmeJob EXCEPT !.type = Blank]}

Call(op) ==
    [op |-> op, id |-> 1, requester |-> Acme, worker |-> "w", token |-> 7, attempt |-> 1, status |-> "succeeded",
     until |-> 20, before |-> 6, lease |-> 3, limit |-> 2, now |-> 10, db |-> 10, job |-> AcmeJob, required |-> FALSE,
     historyFails |-> FALSE, key |-> "k", correlation |-> "c"]

Pending(job, id) == NewJobRow([job EXCEPT !.priority = id], [Call("enqueue") EXCEPT !.id = id, !.now = id])
Running(row, lease) ==
    [row EXCEPT !.status = "running", !.attempts = 1, !.leaseOwner = "w", !.claimToken = 7, !.leaseExpiresAt = lease,
                !.nextAttemptAt = NoTime]
RowsOf(id) ==
    LET acme == Pending(AcmeJob, id)
        bolt == Pending(Job("tenant", "bolt", "k", 5), id)
        queued == Pending([AcmeJob EXCEPT !.partition = "p", !.key = "q"], id)
        queuedOfBolt(key) == Pending([Job("tenant", "bolt", key, 5) EXCEPT !.partition = "p"], id)
    IN  {acme, bolt, queued, [queued EXCEPT !.status = "retrying", !.attempts = 3],
         [acme EXCEPT !.nextAttemptAt = 11], Running(acme, 12), Running(acme, 10), Running(acme, 9),
         Running(Pending([AcmeJob EXCEPT !.maxAttempts = 1], id), 11), Running(queuedOfBolt("k"), 12),
         [acme EXCEPT !.status = "succeeded"], Pending(Job("platform", Nil, "k", 5), id),
         Running(queuedOfBolt("q"), 12)}
MCJobTables == {<<a, [b EXCEPT !.key = "r"]>> : a \in RowsOf(1), b \in RowsOf(2)}

Asked(op) == {[Call(op) EXCEPT !.requester = r] : r \in {Acme, Bolt, Platform}}
MCJobCalls ==
    UNION {Asked(op) : op \in {"getById", "getByCorrelationId", "getByIdempotencyKey", "getLatestPrior", "findPending"}}
    \cup {[Call("enqueue") EXCEPT !.id = 3, !.requester = r, !.job = j] :
            r \in {Acme, Platform, Operator, System}, j \in MCJobs}
    \cup {[c EXCEPT !.limit = n, !.now = now] : c \in Asked("claimDue"), n \in {1, 2}, now \in {10, 12}}
    \cup {[Call("renewLease") EXCEPT !.lease = n, !.token = t] : n \in {0, 3}, t \in {6, 7}}
    \cup {[Call("mark") EXCEPT !.status = s, !.token = t, !.required = r, !.historyFails = f] :
            s \in {"succeeded", "retrying", "dead_letter"}, t \in {6, 7}, r \in BOOLEAN, f \in BOOLEAN}
    \cup {[c EXCEPT !.required = r, !.historyFails = f] : c \in Asked("cancel"), r \in BOOLEAN, f \in BOOLEAN}

ScheduleRowsOf(id) ==
    LET idle == [id |-> id, enabled |-> TRUE, nextRunAt |-> 4 + id, lastRunAt |-> NoTime, status |-> "idle",
                 leaseOwner |-> Nil, leaseExpiresAt |-> NoTime, claimToken |-> 0]
    IN  {idle, [idle EXCEPT !.enabled = FALSE], [idle EXCEPT !.nextRunAt = 11]}
        \cup {[idle EXCEPT !.status = "running", !.leaseOwner = "w", !.claimToken = 7, !.leaseExpiresAt = e] :
                e \in {NoTime, 9, 10, 12}}
MCScheduleTables == {<<a, b>> : a \in ScheduleRowsOf(1), b \in ScheduleRowsOf(2)}
MCScheduleCalls ==
    {[Call("claimDueSchedules") EXCEPT !.limit = n, !.now = now] : n \in {1, 2}, now \in {10, 12}}
    \cup {[Call(op) EXCEPT !.token = t, !.lease = n] :
            op \in {"advanceSchedule", "renewScheduleLease", "releaseSchedule"}, t \in {6, 7}, n \in {0, 3}}

\* Keys
Tags == {"orders"}
Version(type, digits) == [type |-> type, digits |-> digits]
KeyCallOf(op) ==
    [op |-> op, id |-> 3, key |-> "k", fingerprint |-> "f", token |-> 7, lease |-> 5, db |-> 10, limit |-> 1, worker |-> "w",
     claimToken |-> 8, resource |-> "order", version |-> Version("number", TRUE), tags |-> Tags, result |-> "answer"]
KeyRowsOf(id, key) ==
    LET reserved == [Reserved([KeyCallOf("acquire") EXCEPT !.id = id, !.key = key, !.db = 6]) EXCEPT !.token = 7]
        committed == [reserved EXCEPT !.status = "business-committed", !.resource = "order", !.pending = Tags,
                                      !.version = EncodeResourceVersion(Version("string", TRUE))]
    IN  {reserved, [reserved EXCEPT !.createdAt = 5], [reserved EXCEPT !.createdAt = 4], [reserved EXCEPT !.token = 6],
         [reserved EXCEPT !.fingerprint = "g"], committed, [committed EXCEPT !.pending = Corrupt],
         [committed EXCEPT !.pending = NoTags, !.version.envelope = FALSE],
         [committed EXCEPT !.status = "completed", !.result = "answer", !.pending = NoTags],
         [committed EXCEPT !.status = "poisoned"]}
        \cup {[committed EXCEPT !.claimOwner = "w", !.claimToken = c, !.claimExpiresAt = e] : c \in {8, 9}, e \in {9, 10, 11}}
MCKeyTables ==
    {(1 :> a) : a \in KeyRowsOf(1, "l")} \cup {1 :> a @@ 2 :> b : a \in KeyRowsOf(1, "k"), b \in KeyRowsOf(2, "l")}
MCKeyCalls ==
    {KeyCallOf(op) : op \in {"acquire", "renew", "findCommitted", "claimPending", "recover", "ackInvalidations",
                             "ackClaimed", "completeClaimed", "complete"}}
    \cup {[KeyCallOf(op) EXCEPT !.limit = 2, !.claimToken = 4] : op \in {"findCommitted", "claimPending"}}
    \cup {[KeyCallOf("markCommitted") EXCEPT !.version = v, !.tags = t] :
            v \in {Version("number", TRUE), Version("string", TRUE), Version("string", FALSE), NoVersion},
            t \in {Tags, NoTags}}

-----------------------------------------------------------------------------
(* Repositories: up to three rows of two tenants *)

TenantA == StringV(<<1>>)
TenantB == StringV(<<2>>)
Row(id, tenant, version, name) ==
    [id |-> NumberV(id), tenantId |-> tenant, version |-> NumberV(version), createdAt |-> NumberV(5 - id), name |-> StringV(<<name>>)]
FirstRows == {Row(1, TenantA, 1, 10), Row(1, TenantA, 2, 11), Row(1, TenantB, 1, 10)}
SecondRows == {Row(2, TenantA, 1, 10), Row(2, TenantA, 1, 11), Row(2, TenantA, 2, UpperCase(10)), Row(2, TenantB, 2, 10)}
MCRowTables ==
    {{}} \cup {{a} : a \in FirstRows} \cup {{a, b} : a \in FirstRows, b \in SecondRows}
    \cup {{a, b, Row(3, TenantA, 2, 10)} : a \in FirstRows, b \in SecondRows}

NameIs(n) == Condition("name", "eq", Scalar(StringV(<<n>>)))
Unversioned == Absent
AskRows(op) ==
    [op |-> op, id |-> NumberV(1), filter |-> NameIs(10), data |-> [name |-> StringV(<<12>>)], expected |-> NumberV(1),
     versioned |-> TRUE, idempotent |-> FALSE, page |-> -1, pageSize |-> -1, maxPageSize |-> 2, maxOffset |-> -1,
     sort |-> <<>>, fault |-> "none", raced |-> FALSE, leaks |-> FALSE, tenant |-> TenantA]
SortBy(field, desc) == <<[field |-> field, desc |-> desc]>>
Versions == {[versioned |-> v, expected |-> e] : v \in BOOLEAN, e \in {Unversioned, NumberV(1), NumberV(2)}}
WithVersions(calls) == {[c EXCEPT !.versioned = v.versioned, !.expected = v.expected] : c \in calls, v \in Versions}
Filters == {NameIs(10), Scoped!NoFilter, Condition("id", "eq", Scalar(NumberV(2))), Not(AlwaysFalse), Or(<<NameIs(11), NameIs(10)>>),
            Condition("name", "startsWith", Scalar(StringV(<<UpperCase(10)>>)))}
UpdateOps == {"updateOneWhere", "updateOneWhereReturning", "updateManyWhere"}
Datas == {[name |-> StringV(<<12>>)], [name |-> StringV(<<12>>), version |-> NumberV(7)]}
MCRowCalls ==
    {[AskRows("findById") EXCEPT !.id = NumberV(i), !.leaks = l] : i \in 1..2, l \in BOOLEAN}
    \cup {[AskRows("findOneWhere") EXCEPT !.filter = f, !.leaks = l] : f \in Filters, l \in BOOLEAN}
    \cup {[AskRows("findMany") EXCEPT !.filter = f, !.page = p, !.leaks = l, !.pageSize = 1] :
            f \in {NameIs(10), Scoped!NoFilter}, p \in {-1, 1, 2}, l \in BOOLEAN}
    \cup {[AskRows("findMany") EXCEPT !.filter = Scoped!NoFilter, !.sort = s, !.page = p[1], !.pageSize = p[2], !.maxOffset = p[3]] :
            s \in {<<>>, SortBy("version", TRUE), SortBy("id", TRUE), SortBy("secret", FALSE)},
            p \in {<<-1, -1, -1>>, <<2, 1, -1>>, <<2, 3, 1>>, <<0, 1, -1>>, <<1, 7, -1>>, <<5, 2, -1>>}}
    \cup {[AskRows("insert") EXCEPT !.data = d, !.fault = f] : f \in {"none", "check", "deadlock"},
            d \in {[id |-> NumberV(1), name |-> StringV(<<12>>)], [id |-> NumberV(4), name |-> StringV(<<12>>), tenantId |-> TenantB],
                   [name |-> StringV(<<12>>), tenantId |-> TenantA], [id |-> NumberV(4), tenantId |-> TenantA]}}
    \cup WithVersions({[AskRows("update") EXCEPT !.data = d, !.id = NumberV(i), !.raced = r] : d \in Datas, i \in 1..2, r \in BOOLEAN})
    \cup WithVersions({[AskRows(op) EXCEPT !.filter = f, !.raced = r] : op \in UpdateOps, f \in Filters, r \in BOOLEAN})
    \cup {[AskRows(op) EXCEPT !.data = d] : op \in UpdateOps \cup {"update"},
            d \in Datas \cup {[tenantId |-> TenantB], [createdAt |-> NumberV(1)]}}
    \cup {[AskRows(op) EXCEPT !.fault = f] : op \in UpdateOps \cup {"update", "delete", "deleteWhere"}, f \in {"unique", "serialization"}}
    \cup WithVersions({[AskRows("delete") EXCEPT !.id = NumberV(i), !.idempotent = d] : i \in 1..2, d \in BOOLEAN})
    \cup WithVersions({[AskRows("deleteWhere") EXCEPT !.filter = f] : f \in Filters})

\* Batches of up to two items.
Event(key, print, tenant) == [key |-> key, print |-> print, tenant |-> tenant]
MCDatabases ==
    {[rows |-> t, outbox |-> o, audits |-> {}, reservation |-> r, aborted |-> FALSE] :
        t \in {{Row(1, TenantA, 1, 10), Row(2, TenantB, 1, 10)}, {Row(1, TenantA, 2, 10), Row(2, TenantA, 1, 10)}},
        o \in {{}, {Event("e", 1, TenantA)}, {Event("e", 2, TenantA), Event("e", 2, TenantB)}}, r \in {0, 7}}
Command(op) ==
    [kind |-> "command", op |-> op, filter |-> NameIs(10), data |-> [name |-> StringV(<<12>>)], expected |-> NumberV(1),
     versioned |-> TRUE, rows |-> 1, fault |-> "none", global |-> FALSE, encoded |-> FALSE, refused |-> ""]
Recorded(kind, record) == [kind |-> kind, record |-> record, refused |-> ""]
Items ==
    {[Command(op) EXCEPT !.expected = e, !.rows = n] : op \in {"update", "delete"}, e \in {Unversioned, NumberV(1)}, n \in {-1, 1}}
    \cup {[Command("insert") EXCEPT !.data = [id |-> NumberV(i), name |-> StringV(<<12>>)] @@ d] : i \in {2, 4},
            d \in {<<>>, [tenantId |-> TenantB]}}
    \cup {[Command("update") EXCEPT !.versioned = FALSE, !.data = [tenantId |-> TenantB]], Command("opaque")}
    \cup {Recorded("outbox", Event("e", n, t)) : n \in 1..2, t \in {Null, TenantA, TenantB}}
    \cup {Recorded("audit", Event("a", 1, t)) : t \in {Null, TenantB}}
    \cup {[kind |-> "idempotency", token |-> 7, refused |-> ""]}
MCPlans ==
    {[items |-> i, tenant |-> TenantA, late |-> l, maxBatchItems |-> 3] :
        i \in {<<a>> : a \in Items} \cup {<<a, b>> : a \in Items, b \in Items},
        l \in {{}, {Event("e", 1, TenantA)}}}

-----------------------------------------------------------------------------
(* Readers: four rows of two tenants, what hides some of their fields, and    *)
(* what is asked of them.                                                     *)

Item(id, tenant, name, size, open) ==
    [id |-> NumberV(id), tenantId |-> tenant, createdAt |-> NumberV(5 - id), name |-> StringV(<<name>>),
     size |-> NumberV(size), open |-> BooleanV(open), secret |-> StringV(<<1>>)]
MCReadTables ==
    {{Item(1, TenantA, 10, 1, 0), Item(2, TenantA, 11, 2, 1), Item(3, TenantB, 10, 3, 1)},
     {Item(1, TenantA, 11, 2, 1), Item(2, TenantB, 10, 1, 0), Item(3, TenantA, 10, 2, 0)}, {}}

Reader(scope, tenant, context, policies, key) ==
    [scope |-> scope, actor |-> scope # "public", id |-> "u", tenant |-> tenant, context |-> context,
     bundle |-> CreateAbacBundle(policies, IF scope = "tenant" THEN "tenant" ELSE "platform", context, 1),
     bypassAuthority |-> FALSE, impersonated |-> FALSE, ownerBypass |-> TRUE, hasCapability |-> TRUE, enabled |-> TRUE,
     cacheScopeKey |-> key]
Grant(id, read) == [P(id, "allow", 1, Always, Always, read) EXCEPT !.capabilities = {"see"}]
Here == ContextOf(Text(10), Text(5))
There == ContextOf(Text(11), Text(5))
Hiding == <<Grant(1, [name |-> "omit", size |-> "mask", open |-> "allow"])>>
MinePolicy == <<P(2, "allow", 1, Mine, Always, NoRead)>>
Tiered ==
    <<P(1, "allow", 1, Always, Always, NoRead), P(2, "deny", 2, Large, Always, [name |-> "omit"]),
      [P(3, "allow", 1, Always, Always, NoRead) EXCEPT !.query = {"open"}]>>
Masking == <<Grant(1, [name |-> "mask", open |-> "omit", size |-> "allow"]), P(2, "allow", 2, Large, Always, [size |-> "allow"])>>
Public == Reader("public", Null, Here, <<>>, "")
Owner == [Reader("tenant", TenantA, Here, <<>>, "") EXCEPT !.bypassAuthority = TRUE]
MCReadCallers ==
    {Reader("tenant", t, c, p, k) : t \in {TenantA, TenantB}, c \in {Here, There}, p \in {Hiding, MinePolicy}, k \in {"", "k"}}
    \cup {Reader("tenant", TenantA, Here, p, "k") : p \in {Tiered, Masking, <<>>, <<P(7, "deny", 2, Named, Always, NoRead)>>}}
    \cup {Public, [Public EXCEPT !.enabled = FALSE], Owner, [Owner EXCEPT !.id = "v"], [Owner EXCEPT !.impersonated = TRUE],
          [Owner EXCEPT !.tenant = TenantB], [Owner EXCEPT !.scope = "platform", !.tenant = Null],
          [Reader("tenant", TenantA, Here, Hiding, "k") EXCEPT !.hasCapability = FALSE],
          Reader("platform", Null, Here, <<[Grant(1, [name |-> "omit"]) EXCEPT !.scopeType = "platform_default"]>>, "k")}

Meta == [sz |-> [column |-> "size", kind |-> "number"], open |-> [column |-> "open", kind |-> "boolean"],
         day |-> [column |-> "name", kind |-> "date"]]
Entity ==
    [tenantField |-> TRUE, scopeFilter |-> <<>>, capability |-> "", filterableColumns |-> Reads!AnyField,
     searchableColumns |-> {"name", "size"}, filterFieldMeta |-> Meta, defaultSort |-> <<>>, listHook |-> "none",
     detailHook |-> "none", searchStrategy |-> "contains", maxSearchBytes |-> Reads!Unlimited, maxSearchableColumns |-> Reads!Unlimited,
     maxFilterValueBytes |-> Reads!Unlimited, maxOffset |-> Reads!Unlimited, maxCount |-> Reads!Unlimited]
MCReadEntities ==
    {Entity, [Entity EXCEPT !.capability = "see", !.listHook = "same", !.detailHook = "reveal"],
     [Entity EXCEPT !.tenantField = FALSE, !.listHook = "swap", !.scopeFilter = <<Condition("open", "isTrue", Nothing)>>],
     [Entity EXCEPT !.tenantField = FALSE, !.listHook = "drop", !.searchStrategy = "fullText"],
     [Entity EXCEPT !.searchStrategy = "prefix", !.filterableColumns = {"size", "open"}, !.defaultSort = SortBy("size", TRUE),
                    !.listHook = "reveal", !.maxFilterValueBytes = 1, !.maxOffset = 1, !.maxCount = 2],
     [Entity EXCEPT !.tenantField = FALSE, !.searchableColumns = Reads!AnyField, !.maxSearchBytes = 1, !.maxSearchableColumns = 2]}

Wanted(logic, conditions, search) == [logic |-> logic, conditions |-> conditions, search |-> StringV(search)]
NoWish == Wanted("", <<>>, <<>>)
Wish(field, op, value) == [field |-> field, op |-> op, value |-> value]
OddOperands ==
    {Wish("sz", "eq", Scalar(Null)), Wish("sz", "in", Listed(<<Text(1)>>)), Wish("sz", "in", Listed(<<NumberV(1), NumberV(2)>>)),
     Wish("sz", "between", Between(NumberV(1), Absent)), Wish("sz", "between", Between(Absent, Absent)), Wish("sz", "gt", Nothing),
     Wish("name", "contains", Scalar(NumberV(1))), Wish("name", "eq", Operand("object", Absent, Absent, <<>>)),
     Wish("open", "eq", Scalar(Text(TrueWord))), Wish("day", "eq", Scalar(Text(FirstDate))), Wish("nowhere", "isNull", Nothing),
     Wish("name", "like", Scalar(Text(10))), Wish("name", "startsWith", Scalar(StringV(<<10, 11>>)))}
NameWish == Wish("name", "eq", Scalar(StringV(<<10>>)))
Asking(filters, sorting) ==
    [op |-> "list", id |-> Null, page |-> Scoped!NotGiven, pageSize |-> Scoped!NotGiven, filters |-> filters, sorting |-> sorting]
MCReadQueries ==
    {Asking(NoWish, s) : s \in {<<>>, SortBy("name", FALSE), SortBy("size", TRUE), SortBy("open", FALSE), SortBy("createdAt", TRUE),
                                SortBy("id", TRUE) \o SortBy("id", TRUE) \o SortBy("id", TRUE) \o SortBy("id", FALSE)}}
    \cup {Asking(Wanted("", <<w>>, <<>>), <<>>) : w \in OddOperands \cup {NameWish}}
    \cup {Asking(Wanted("", <<>>, s), <<>>) : s \in {<<10>>, <<10, 11>>}}
    \cup {Asking(Wanted(l, <<Wanted("AND", <<NameWish>>, <<>>), Wish("open", "isTrue", Nothing)>>, <<>>), <<>>) :
            l \in {"AND", "OR", "XOR"}}
    \cup {Asking(Wanted("OR", <<Wanted("AND", <<Wanted("AND", <<>>, <<>>)>>, <<>>), NameWish>>, <<>>), <<>>),
          Asking(Wanted("OR", <<NameWish, NameWish, NameWish, NameWish>>, <<>>), <<>>)}
    \cup {[Asking(NoWish, <<>>) EXCEPT !.page = p, !.pageSize = 1] : p \in {0, 2, 3, 7}}
    \cup {[Asking(NoWish, <<>>) EXCEPT !.op = "detail", !.id = NumberV(i)] : i \in 1..4}

-----------------------------------------------------------------------------
(* Requests under a rate limit *)

NoWindow == [form |-> "malformed", unit |-> "none", count |-> 1]
Route(kind, action, consistency, failureMode, max, window, store) ==
    [kind |-> kind, scope |-> "tenant", action |-> action, consistency |-> consistency,
     configured |-> "none", policy |-> "none", failureMode |-> failureMode, max |-> max,
     window |-> window, store |-> store, cache |-> store # "none"]

Ticks(n) == [form |-> "number", unit |-> "none", count |-> n]
OneMinute == [form |-> "text", unit |-> "minute", count |-> 1]

Creating == Route("write", "create", "none", "fail-open", 2, OneMinute, "adapter")
Updating == [Route("write", "update", "none", "fail-open", 1, Ticks(1), "plain")
                EXCEPT !.configured = "best-effort"]
Listing == Route("read", "list", "best-effort", "none", 1, OneMinute, "adapter")
Detailing == Route("read", "detail", "atomic", "none", 1, Ticks(2), "adapter")
Misconfigured ==
    {[Creating EXCEPT !.store = "none"], [Creating EXCEPT !.store = "plain"],
     [Creating EXCEPT !.max = 0], [Creating EXCEPT !.window = NoWindow],
     [Creating EXCEPT !.window.count = 0], [Updating EXCEPT !.cache = FALSE],
     [Creating EXCEPT !.kind = "direct", !.consistency = "atomic", !.policy = "best-effort"]}

AnnAtHome == [tenant |-> "t1", actor |-> "ann", ip |-> "ip1", custom |-> "none"]
AnnAbroad == [AnnAtHome EXCEPT !.ip = "ip2"]
Keyed == [AnnAtHome EXCEPT !.custom = "ip1"]
Nobody == [AnnAtHome EXCEPT !.tenant = "none", !.actor = "none"]

Limited(route, caller) == [route |-> route, caller |-> caller]
MCCalls == {Limited(route, caller) :
               route \in {Creating, Updating, Listing, Detailing} \cup Misconfigured,
               caller \in {AnnAtHome, AnnAbroad, Keyed, Nobody}}

MCSituations ==
    LET together(c) == [r \in Requests |-> c]
        but(c, d) == [together(c) EXCEPT !["r1"] = d]
    IN  {together(Limited(route, AnnAtHome)) : route \in {Creating, Updating, Listing, Detailing}}
        \cup {together(Limited(route, AnnAbroad)) : route \in Misconfigured}
        \cup {but(Limited(Detailing, AnnAtHome), Limited(Listing, AnnAtHome)),
              but(Limited(Creating, Keyed), Limited(Detailing, Keyed)),
              but(Limited(Updating, Nobody), Limited(Updating, AnnAbroad)),
              but(Limited(Listing, Nobody), Limited(Detailing, Nobody))}

MCUnitLength == [u \in {"second", "minute", "hour"} |->
                    CASE u = "second" -> 1 [] u = "minute" -> 2 [] OTHER -> 3]

-----------------------------------------------------------------------------
(* Definitions: a sound one with one or two of its parts replaced.           *)

Word(word) == Worded(word, "nothing")
Joined(word, join) == Worded(word, join)
Typed(type) == [type |-> type, format |-> "none", nullable |-> "unsaid"]
FourFields == [id |-> Typed("string"), tenant |-> Typed("string"), version |-> Typed("number"), name |-> Typed("string")]
Capable(key, skip) == [form |-> "object", skip |-> skip, key |-> key]
LimitOf(max, consistency, window) == [max |-> max, consistency |-> consistency, window |-> window]
SoundInput ==
    [PlainInput(Word("orders"), Word("order"), FourFields) EXCEPT
        !.tenantField = "tenant", !.versionField = "version", !.scoping = [@ EXCEPT !.mode = "scoped"],
        !.validation = {"create", "update"}, !.policy = Capable(Joined("order", "colon"), "unsaid")]

Parts ==
    [moduleKey |-> {Joined("orders", "dot"), Joined("orders", "dash"), Empty},
     name |-> {Joined("order", "dash"), Joined("order", "space"), Empty},
     fields |-> {<<>>, [FourFields EXCEPT !.version.type = "string"], [FourFields EXCEPT !.name.type = "blob"],
                 [FourFields EXCEPT !.name.format = "email"], [FourFields EXCEPT !.name.format = "colour"],
                 [FourFields EXCEPT !.name.nullable = "malformed"],
                 [tenant |-> Typed("string"), version |-> Typed("number"), name |-> Typed("json")]},
     primaryKey |-> {"none", "nowhere"}, tenantField |-> {"none", "nowhere"},
     versionField |-> {"none", "name", "nowhere"},
     immutable |-> {<<"name", "name">>, <<"nowhere">>, <<"name", "id">>},
     searchable |-> {<<"name">>, <<"nowhere">>}, filterable |-> {<<"name">>, <<"id", "id">>},
     sortable |-> {<<"name">>, <<"nowhere">>}, sortColumn |-> {"name", "nowhere"},
     sortDesc |-> {"malformed", "yes"},
     scoping |-> {[mode |-> "none", acknowledged |-> a, scopeFilter |-> f] : a \in BOOLEAN, f \in {"none", "malformed"}},
     policy |-> {Capable(NoText, "yes"), Capable(NoText, "unsaid"), Capable(Word("cache"), "no"),
                 Capable(Word("bypassAuthority"), "unsaid"), Capable(Joined("order", "space"), "unsaid"),
                 Capable(Word("order"), "yes"), [Capable(Word("order"), "no") EXCEPT !.form = "list"]},
     concurrency |-> {[declared |-> TRUE, versionField |-> f] : f \in {"none", "version", "name"}},
     rateLimit |-> {[create |-> LimitOf(m, c, w)] : m \in {0, 1}, c \in {"atomic", "none"}, w \in {OneMinute, NoWindow}}
                    \cup {[list |-> LimitOf(1, "best-effort", w)] :
                             w \in {Ticks(0), Ticks(2), [OneMinute EXCEPT !.count = 0], [OneMinute EXCEPT !.unit = "day"]}}
                    \cup {[export |-> LimitOf(1, "atomic", OneMinute)]},
     crud |-> {[list |-> [beforeCommitTransform |-> "given"]], [list |-> [afterCommit |-> "given"]],
               [create |-> [afterCommit |-> "malformed"]], [nested |-> [note |-> "given"]],
               [nested |-> [afterCommit |-> "given"]]},
     crudHooks |-> {"empty", "writableMutationHooks", "malformed"},
     audit |-> {[enabled |-> TRUE, resource |-> t, guarantee |-> g, classification |-> <<>>] :
                   t \in {NoText, Empty}, g \in {"none", "durable"}}
                \cup {[enabled |-> FALSE, resource |-> NoText, guarantee |-> "none", classification |-> c] :
                        c \in {[name |-> "mask"], [name |-> "hide"], [nowhere |-> "omit"]}},
     cache |-> {[enabled |-> TRUE, tag |-> t, keyPrefix |-> NoText] : t \in {NoText, Empty}},
     queryLimits |-> {{0, 5}, {5}}, searchStrategy |-> {"prefix", "regex"},
     validation |-> {{}, {"create"}},
     routes |-> {[r \in CrudRoutes |-> IF r \in off THEN "off" ELSE "unsaid"] :
                    off \in {{"update", "delete"}, {"update"}, {"create", "update"}}}]

Replaced(part) == {[SoundInput EXCEPT ![part] = v] : v \in Parts[part]}
MCEntityInputs ==
    UNION {UNION {{[input EXCEPT ![other] = v] : v \in Parts[other], input \in Replaced(part)} : other \in DOMAIN Parts} :
              part \in DOMAIN Parts}

RouteSwitches == {[r \in CrudRoutes |-> "unsaid"], [r \in CrudRoutes |-> "off"],
                  [r \in CrudRoutes |-> IF r \in {"update", "delete"} THEN "off" ELSE "on"]}
MCProjectConfigs ==
    {[tenantScoping |-> s, capabilityKey |-> k, crud |-> c] :
        s \in {"none", "scoped"}, k \in {NoText, Word("orders"), Word("cache"), Joined("orders", "space")}, c \in RouteSwitches}
MCGivenEntities ==
    {[name |-> n, moduleKey |-> Word("orders"), fields |-> f, primaryKey |-> p, versionField |-> v, searchable |-> <<"name">>,
      filterable |-> <<>>, sortColumn |-> s, validation |-> b, routes |-> r, crud |-> c] :
        n \in {Word("order"), Joined("order", "capital"), Empty}, f \in {<<>>, FourFields}, p \in {"none", "id", "nowhere"},
        v \in {"none", "version", "name"}, s \in {"none", "name"}, b \in {{}, {"create", "update"}},
        r \in {{"list"}, CrudRoutes, {"list", "update", "export"}}, c \in RouteSwitches}

-----------------------------------------------------------------------------
(* Cron expressions: hours of two minutes, days of three hours, weeks of two *)
(* days and two years of two months, the last longer than its like.         *)

Month(month, length) == [day \in 1..length |-> [month |-> month, day |-> day]]
MCDates == Month(1, 4) \o Month(2, 2) \o Month(1, 4) \o Month(2, 3)

Plain(n) == <<Cron!Value(n, Cron!NoStep)>>
Every == <<Cron!Star(Cron!NoStep)>>
MCExpressions ==
    {<<m, h, d, mo, w>> :
        m \in {Every, Plain(1)},
        h \in {Plain(1), <<Cron!Value(0, Cron!NoStep), Cron!Value(2, Cron!NoStep)>>},
        d \in {Every, Plain(3), <<Cron!Star(2)>>}, mo \in {Every, Plain(2)}, w \in {Every, Plain(2)}}
    \cup {<<<<Cron!Value(0, 2)>>, Every, <<Cron!Span(1, 2, Cron!NoStep)>>, Every, Every>>,
          <<Every, <<Cron!Span(0, 2, 2)>>, Every, Every, Plain(1)>>,
          <<Plain(0), Plain(0), Plain(4), Plain(2), Plain(1)>>, <<Every, Every, Plain(4), Plain(1), Every>>,
          <<Plain(2), Every, Every, Every, Every>>, <<Every, Every, Plain(0), Every, Every>>,
          <<Every, <<Cron!Span(2, 1, Cron!NoStep)>>, Every, Every, Every>>,
          <<Every, Every, Every, <<Cron!Star(0)>>, Every>>,
          <<<<Cron!Unreadable>>, Every, Every, Every, Every>>, <<Every, Every, Every, Every>>}

\* Changes of a third and of two thirds of a day's hours, back and forth.
Changing(before, at, after) == [known |-> TRUE, first |-> before, changes |-> <<[at |-> at, offset |-> after]>>]
MCZones == {Changing(o, 8, 2 - o) : o \in {0, 2}} \cup {Changing(0, 13, 4), Changing(4, 13, 0)}
MCPlaces ==
    [zone : MCZones, disambiguation : {"skip", "earlier", "later", "reject"}]
    \cup [zone : {Cron!Utc, [Cron!Utc EXCEPT !.known = FALSE]}, disambiguation : {"skip"}]
MCStarts == {0} \cup 5..20
MCSpans == {[length |-> 12, count |-> 2]}
=============================================================================

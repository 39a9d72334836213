---------------------------- MODULE D1Repositories ----------------------------
(* A repository on Cloudflare D1 (packages/adapters/src/drizzle-d1/           *)
(* drizzleRepository.ts), and the batches that are its transactions           *)
(* (drizzlePersistenceProvider.ts).                                           *)
EXTENDS RepositoryRows

\* What an error of the driver becomes.
RethrowConstraintError(fault) ==
    CASE fault = "unique" -> "conflict"
      [] fault \in {"foreign key", "check"} -> "business rule"
      [] fault = "not null" -> "validation"
      [] OTHER -> "other"

FindById(table, call) == Result(table, AnyRow(Matching("like", table, IdFilter(call.id))), 0)

FindOneWhere(table, call) ==
    IF call.filter = NoFilter THEN Refused(table, "validation")
    ELSE Result(table, AnyRow(Matching("like", table, call.filter)), 0)

FindMany(table, call) ==
    LET paging == ResolvePagination(call)
        known == \A i \in DOMAIN call.sort : call.sort[i].field \in Columns
    IN  IF ~paging.given \/ ~known THEN Refused(table, "validation")
        ELSE Page("like", table, call, paging, CompileOrderBy(call.sort))

\* Inserted and read back, unless there is no primary key to read by.
Insert(table, call) ==
    LET fault == InsertFault(table, call)
        row == NewRow(call.data)
    IN  IF fault # "none" THEN Refused(table, RethrowConstraintError(fault))
        ELSE IF "id" \notin DOMAIN call.data THEN Refused(table \cup {row}, "other")
        ELSE Result(table \cup {row}, <<row>>, 0)

\* The keys of the rows that match, at most two; then an update of the one.
UpdateHeld(now, call, hit) ==
    IF hit = {} THEN Missed(now, call)
    ELSE Result(Updated(now, hit, call), SetToSeq({SetData(r, call) : r \in hit}), 1)
UpdateMatched(table, call, matched) ==
    LET refusal == WriteRefusal(call, GuardFilter(call.filter))
        now == Meanwhile(table, call)
    IN  IF refusal # "" THEN Refused(table, refusal)
        ELSE IF Cardinality(matched) > 1 THEN Refused(table, "validation")
        ELSE IF matched = {} THEN Missed(table, call)
        ELSE IF NamesVersion(call) THEN Refused(table, "configuration")
        ELSE IF call.fault # "none" THEN Refused(now, RethrowConstraintError(call.fault))
        ELSE UpdateHeld(now, call,
                 {r \in Matching("like", now, call.filter) : Held(r, call) /\ \E m \in matched : m.id = r.id})
UpdateOne(table, call) == UpdateMatched(table, call, Matching("like", table, call.filter))
UpdateOneWhere(table, call) == [UpdateOne(table, call) EXCEPT !.rows = <<>>]
UpdateOneWhereReturning(table, call) == [UpdateOne(table, call) EXCEPT !.count = 0]

\* update(id) is an update of one row by its key.
UpdateById(table, call) ==
    IF ~AssertVersionedWriteHasExpectedVersion(call) THEN Refused(table, "configuration")
    ELSE FoundOrRefused(UpdateOneWhereReturning(table, [call EXCEPT !.filter = IdFilter(call.id)]))

UpdateManyWhere(table, call) ==
    LET refusal == WriteRefusal(call, GuardFilter(call.filter))
    IN  IF refusal # "" THEN Refused(table, refusal)
        ELSE IF call.fault # "none" THEN Refused(table, RethrowConstraintError(call.fault))
        ELSE UpdateHit(table, call, {r \in Matching("like", table, call.filter) : Held(r, call)})

\* A delete hands on what the driver throws.
Delete(table, call) ==
    LET refusal == WriteRefusal(call, "")
        hit == {r \in table : r.id = call.id /\ Held(r, call)}
    IN  IF refusal # "" THEN Refused(table, refusal)
        ELSE IF call.fault # "none" THEN Refused(table, "other")
        ELSE IF hit = {} /\ ~call.idempotent THEN Refused(table, "not found")
        ELSE Result(table \ hit, <<>>, 0)

DeleteWhere(table, call) ==
    LET refusal == WriteRefusal(call, GuardFilter(call.filter))
    IN  IF refusal # "" THEN Refused(table, refusal)
        ELSE IF call.fault # "none" THEN Refused(table, "other")
        ELSE DeleteHit(table, call, {r \in Matching("like", table, call.filter) : Held(r, call)})

QueryCall(table, call) ==
    CASE call.op = "findById" -> FindById(table, call)
      [] call.op = "findOneWhere" -> FindOneWhere(table, call)
      [] call.op = "findMany" -> FindMany(table, call)

RepositoryCall(table, call) ==
    CASE call.op \in Queries -> QueryCall(table, call)
      [] call.op = "insert" -> Insert(table, call)
      [] call.op = "update" -> UpdateById(table, call)
      [] call.op = "updateOneWhere" -> UpdateOneWhere(table, call)
      [] call.op = "updateOneWhereReturning" -> UpdateOneWhereReturning(table, call)
      [] call.op = "updateManyWhere" -> UpdateManyWhere(table, call)
      [] call.op = "delete" -> Delete(table, call)
      [] call.op = "deleteWhere" -> DeleteWhere(table, call)

-----------------------------------------------------------------------------
(* Batches.  The database is its rows, the outbox, the audit records and the  *)
(* idempotency reservation that is still in progress; a plan is a sequence of *)
(* items, encoded, checked and then executed as one.                          *)

NoTenant == Null
Protected(command) ==
    {"id", "createdAt"} \cup (IF command.versioned THEN {"version"} ELSE {})

AssertProtectedUpdateFields(command) ==
    IF "tenantId" \in DOMAIN command.data THEN "tenant scope"
    ELSE IF Protected(command) \cap DOMAIN command.data # {} THEN "immutable" ELSE ""

\* What refuses a command, whoever it is for.
CommandRefusal(command) ==
    LET protected == IF command.op = "update" THEN AssertProtectedUpdateFields(command) ELSE ""
    IN  IF protected # "" THEN protected
        ELSE IF command.op # "insert" /\ command.versioned /\ command.expected = Absent THEN "configuration"
        ELSE ""

WithVersion(command, filter) ==
    IF command.versioned THEN And(<<filter, Condition("version", "eq", Scalar(command.expected))>>) ELSE filter
NewValues(command, tenant) ==
    [f \in DOMAIN command.data \cup (IF tenant = NoTenant THEN {} ELSE {"tenantId"})
                               \cup (IF command.versioned THEN {"version"} ELSE {}) |->
        IF f = "version" /\ command.versioned THEN NumberOf(1)
        ELSE IF f = "tenantId" /\ tenant # NoTenant THEN tenant ELSE command.data[f]]

\* The command with the tenant's values and filter; opaque queries, entities
\* without a tenant and other tenants' rows are refused.
EncodeTenantCommand(command, tenant) ==
    LET own == And(<<command.filter, Condition("tenantId", "eq", Scalar(tenant))>>)
        foreign == "tenantId" \in DOMAIN command.data /\ command.data.tenantId # tenant
    IN  IF command.op = "opaque" \/ command.global \/ (command.op = "insert" /\ foreign)
        THEN [command EXCEPT !.refused = "configuration"]
        ELSE [command EXCEPT !.refused = CommandRefusal(command), !.filter = WithVersion(command, own),
                             !.data = IF command.op = "insert" THEN NewValues(command, tenant) ELSE @]

\* Outside a tenant there are commands of global entities alone.
EncodeUnscopedCommand(command) ==
    IF ~command.global THEN [command EXCEPT !.refused = "configuration"]
    ELSE [command EXCEPT !.refused = CommandRefusal(command), !.filter = WithVersion(command, @),
                         !.data = IF command.op = "insert" THEN NewValues(command, NoTenant) ELSE @]

\* One statement of a batch; the rows it changes must be as many as expected.
RunCommand(db, command) ==
    LET hit == IF command.op = "insert" THEN {} ELSE Matching("like", db.rows, command.filter)
        changed == IF command.op = "insert" THEN 1 ELSE Cardinality(hit)
        fault == IF command.op = "insert" THEN InsertFault(db.rows, command) ELSE command.fault
    IN  IF fault # "none" \/ (command.op # "insert" /\ command.rows \notin {NotGiven, changed})
        THEN [db EXCEPT !.aborted = TRUE]
        ELSE [db EXCEPT !.rows = CASE command.op = "insert" -> @ \cup {NewRow(command.data)}
                                   [] command.op = "update" -> Updated(@, hit, command)
                                   [] command.op = "delete" -> @ \ hit]

SameEvent(a, b) == a.key = b.key /\ a.tenant = b.tenant

\* The database after one item, or aborted; replayed events are not repeated.
RunItem(db, item, replayed) ==
    IF db.aborted THEN db
    ELSE CASE item.kind = "command" -> RunCommand(db, item)
           [] item.kind = "audit" -> [db EXCEPT !.audits = @ \cup {item.record}]
           [] item.kind = "idempotency" ->
                IF db.reservation = item.token THEN [db EXCEPT !.reservation = 0] ELSE [db EXCEPT !.aborted = TRUE]
           [] item.kind = "outbox" ->
                IF item.record \in replayed THEN db
                ELSE IF \E e \in db.outbox : SameEvent(e, item.record) THEN [db EXCEPT !.aborted = TRUE]
                ELSE [db EXCEPT !.outbox = @ \cup {item.record}]

\* An update or a delete that counts its rows takes an assertion as well, and a
\* settled reservation its receipt.
FitsLimits(items, maxBatchItems) ==
    LET weight(i) == IF i.kind = "idempotency" \/ (i.kind = "command" /\ i.op # "insert" /\ i.rows # NotGiven) THEN 2 ELSE 1
    IN  FoldLeft(LAMBDA n, i : n + weight(i), 0, items) <= maxBatchItems

\* One event key stands for one event, in the plan and in the outbox as it is
\* looked up; events found there are replayed.  Then the statements run as one,
\* unless they are too many; `late' is what others add to the outbox meanwhile.
ExecuteAtomicBatch(db, plan, late, maxBatchItems) ==
    LET items == [i \in DOMAIN plan |->
                     IF plan[i].kind = "command" /\ ~plan[i].encoded THEN EncodeUnscopedCommand(plan[i]) ELSE plan[i]]
        events == {items[i].record : i \in {j \in DOMAIN items : items[j].kind = "outbox"}}
        refusals == SelectSeq(items, LAMBDA i : i.kind = "command" /\ i.refused # "")
        now == [db EXCEPT !.outbox = @ \cup {e \in late : ~\E o \in db.outbox : SameEvent(e, o)}]
        replayed == events \cap db.outbox
        after == FoldLeft(LAMBDA d, i : RunItem(d, i, replayed), now, items)
    IN  IF \E a \in events, b \in events \cup db.outbox : SameEvent(a, b) /\ a.print # b.print
        THEN [db |-> db, error |-> "conflict"]
        ELSE IF refusals # <<>> THEN [db |-> db, error |-> refusals[1].refused]
        ELSE IF ~FitsLimits(items, maxBatchItems) THEN [db |-> db, error |-> "limit"]
        ELSE IF after.aborted THEN [db |-> now, error |-> "aborted"]
        ELSE [db |-> after, error |-> ""]
=============================================================================

--------------------------- MODULE ScopedPersistence ---------------------------
(* The repositories of the three databases, behind the wrapper that keeps a   *)
(* tenant to its own rows (packages/core/src/ports/scopedPersistence.ts), and *)
(* what one call of either should do.                                         *)
EXTENDS RepositoryRows

Pg == INSTANCE PgRepositories
D1 == INSTANCE D1Repositories
MySql == INSTANCE MySqlRepositories

ImmutableFields == {"createdAt"}

\* A bug to be caught: a filter that was given stands for itself.
WithTenantScopeOfNobody(filter, tenant) ==
    IF filter = NoFilter THEN Condition("tenantId", "eq", Scalar(tenant)) ELSE filter
WithTenantScope(filter, tenant) ==
    LET own == Condition("tenantId", "eq", Scalar(tenant))
    IN  IF filter = NoFilter THEN own ELSE And(<<filter, own>>)

AssertUpdateDataValid(call) ==
    IF "tenantId" \in DOMAIN call.data THEN "tenant scope"
    ELSE IF DOMAIN call.data \cap ({"id"} \cup ImmutableFields \cup (IF call.versioned THEN {"version"} ELSE {})) # {}
         THEN "immutable" ELSE ""

AssertSafeDestructiveFilter(filter) ==
    IF IsAlwaysTruePredicate(filter) THEN "configuration" ELSE ""

\* The first of the refusals, in their order.
FirstRefusal(refusals) ==
    LET made == SelectSeq(refusals, LAMBDA r : r # "") IN IF made = <<>> THEN "" ELSE made[1]

VersionRefusal(call) == IF AssertVersionedWriteHasExpectedVersion(call) THEN "" ELSE "configuration"

\* Rows of another tenant go to nobody, whatever the adapter did to find them.
AssertTenantRowsEcho(result, tenant) ==
    IF \E i \in DOMAIN result.rows : result.rows[i].tenantId # tenant
    THEN Refused(result.table, "tenant scope") ELSE result

Repository(dialect, table, call) ==
    CASE dialect = "pg" -> Pg!RepositoryCall(table, call)
      [] dialect = "d1" -> D1!RepositoryCall(table, call)
      [] dialect = "mysql" -> MySql!RepositoryCall(table, call)

\* What the wrapper asks the repository for: an operation with the tenant's scope
\* around its filter, which an adapter that leaks leaves out of its queries.
AskScoped(call, op, filter) ==
    [call EXCEPT !.op = op, !.filter = IF call.leaks THEN filter ELSE WithTenantScope(filter, call.tenant)]
Stamped(call) ==
    [f \in DOMAIN call.data \cup {"tenantId"} |-> IF f = "tenantId" THEN call.tenant ELSE call.data[f]]
Forwarded(call) ==
    CASE call.op = "findById" -> AskScoped(call, "findOneWhere", IdFilter(call.id))
      [] call.op = "insert" -> [call EXCEPT !.data = Stamped(call)]
      [] call.op = "update" -> AskScoped(call, "updateOneWhereReturning", IdFilter(call.id))
      [] call.op = "delete" -> AskScoped(call, "deleteWhere", IdFilter(call.id))
      [] OTHER -> AskScoped(call, call.op, call.filter)

\* Each operation checks its arguments, asks, and looks at what it is answered.
ScopedRead(call, found) == AssertTenantRowsEcho(found, call.tenant)

AssertQueryOptions(call) ==
    \/ call.page = NotGiven /\ call.pageSize = NotGiven
    \/ call.page \in 1..MaxSafeInteger /\ call.pageSize \in 1..MaxSafeInteger
ScopedFindMany(table, call, found) ==
    IF ~AssertQueryOptions(call) THEN Refused(table, "configuration")
    ELSE AssertTenantRowsEcho(found, call.tenant)

ScopedInsert(table, call, inserted) ==
    IF "tenantId" \in DOMAIN call.data /\ call.data.tenantId # call.tenant
    THEN Refused(table, "tenant scope") ELSE inserted

ScopedUpdate(table, call, updated) ==
    LET refusal == FirstRefusal(<<AssertUpdateDataValid(call), VersionRefusal(call)>>)
    IN  IF refusal # "" THEN Refused(table, refusal)
        ELSE AssertTenantRowsEcho(FoundOrRefused(updated), call.tenant)

\* updateOneWhere, updateOneWhereReturning and updateManyWhere.
ScopedUpdateWhere(table, call, updated) ==
    LET refusal == FirstRefusal(<<AssertUpdateDataValid(call), AssertSafeDestructiveFilter(call.filter), VersionRefusal(call)>>)
    IN  IF refusal # "" THEN Refused(table, refusal)
        ELSE AssertTenantRowsEcho(updated, call.tenant)

ScopedDelete(table, call, deleted) ==
    IF VersionRefusal(call) # "" THEN Refused(table, "configuration")
    ELSE IF deleted.error = "" /\ deleted.count = 0 /\ ~call.idempotent THEN Refused(deleted.table, "not found")
    ELSE [deleted EXCEPT !.count = 0]

ScopedDeleteWhere(table, call, deleted) ==
    LET refusal == FirstRefusal(<<AssertSafeDestructiveFilter(call.filter), VersionRefusal(call)>>)
    IN  IF refusal # "" THEN Refused(table, refusal) ELSE deleted

ScopedAnswer(table, call, answer) ==
    CASE call.op \in {"findById", "findOneWhere"} -> ScopedRead(call, answer)
      [] call.op = "findMany" -> ScopedFindMany(table, call, answer)
      [] call.op = "insert" -> ScopedInsert(table, call, answer)
      [] call.op = "update" -> ScopedUpdate(table, call, answer)
      [] call.op \in {"updateOneWhere", "updateOneWhereReturning", "updateManyWhere"} ->
            ScopedUpdateWhere(table, call, answer)
      [] call.op = "delete" -> ScopedDelete(table, call, answer)
      [] call.op = "deleteWhere" -> ScopedDeleteWhere(table, call, answer)

ScopedCall(dialect, table, call) == ScopedAnswer(table, call, Repository(dialect, table, Forwarded(call)))

\* A tenant's batch: its commands are encoded, its records are its own.
NormalizeTenantRecord(record, tenant) ==
    IF record.tenant \notin {Null, tenant} THEN [refused |-> "tenant scope", record |-> record]
    ELSE [refused |-> "", record |-> [record EXCEPT !.tenant = tenant]]
ScopedItem(item, tenant) ==
    CASE item.kind = "command" -> [D1!EncodeTenantCommand(item, tenant) EXCEPT !.encoded = TRUE]
      [] item.kind = "idempotency" -> item
      [] OTHER -> LET normal == NormalizeTenantRecord(item.record, tenant)
                  IN  [item EXCEPT !.record = normal.record, !.refused = normal.refused]
ScopedBatch(db, plan, tenant, late, maxBatchItems) ==
    LET items == [i \in DOMAIN plan |-> ScopedItem(plan[i], tenant)]
        refused == SelectSeq(items, LAMBDA i : i.refused # "")
    IN  IF refused # <<>> THEN [db |-> db, error |-> refused[1].refused]
        ELSE D1!ExecuteAtomicBatch(db, items, late, maxBatchItems)

-----------------------------------------------------------------------------
(* What a call should do *)

Deletes == {"delete", "deleteWhere"}

\* The databases differ in an insert without a primary key, in an update that
\* names the version, in the number of statements of an update by its key, in
\* what they make of a driver's error, and in how they compare texts.
AnswersAgree(call, pg, d1, mysql) ==
    LET keyless == call.op = "insert" /\ "id" \notin DOMAIN call.data
        faulty == call.fault # "none" /\ pg.error # ""
    IN  /\ pg.table = mysql.table
        /\ ~keyless /\ ~faulty => pg = mysql
        /\ ~NamesVersion(call) /\ ~(call.raced /\ call.op = "update") =>
              pg.table = d1.table /\ (~keyless /\ ~faulty => pg = d1)
        /\ faulty => "" \notin {d1.error, mysql.error}
ComparedAlike(table, filter) ==
    filter = NoFilter \/ \A r \in table : \A c, d \in Collations : Selects(c, r, filter) <=> Selects(d, r, filter)
RepositoriesAgree(table, call) ==
    ComparedAlike(table, call.filter) =>
        AnswersAgree(call, Pg!RepositoryCall(table, call), D1!RepositoryCall(table, call),
                     MySql!RepositoryCall(table, call))

Dialects == {"pg", "d1", "mysql"}
OfOthers(table, tenant) == {r \in table : r.tenantId # tenant}

\* A scoped call leaves the rows of other tenants alone, tells nothing of them,
\* and does what it would do if there were none; only a primary key that is
\* taken is taken for everybody.
ScopedApart(table, call, result, alone) ==
    /\ OfOthers(result.table, call.tenant)
          \in {OfOthers(table, call.tenant), OfOthers(Meanwhile(table, call), call.tenant)}
    /\ \A i \in DOMAIN result.rows : result.rows[i].tenantId = call.tenant
    /\ call.op # "insert" /\ ~call.leaks =>
          /\ [result EXCEPT !.table = {}] = [alone EXCEPT !.table = {}]
          /\ result.table \ OfOthers(result.table, call.tenant) = alone.table
TenantApart(table, call) ==
    call.op \in Queries \/ ~call.leaks =>
        \A dialect \in Dialects :
            LET answer(rows) == ScopedCall(dialect, rows, call)
            IN  ScopedApart(table, call, answer(table), answer(table \ OfOthers(table, call.tenant)))

\* A write changes a row of a versioned entity only if the caller knows its
\* version, which then moves on by one; an operation on one row changes one at
\* most and says which; and what was refused changed nothing.
Guarded(before, result, call) ==
    LET after == result.table
        lost == before \ after
        became(r) == {s \in after : s.id = r.id}
    IN  /\ call.versioned => \A r \in lost :
              /\ r.version = call.expected
              /\ \A s \in became(r) : s.version.v[1] = r.version.v[1] + 1
        /\ call.op \notin Deletes => \A r \in lost : became(r) # {}
        /\ call.op \in Deletes => after \subseteq before
        /\ call.op \notin {"updateManyWhere", "deleteWhere"} => Cardinality(lost) <= 1
        /\ result.error # "" => after = before
        /\ result.error = "" /\ call.op \in {"update", "updateOneWhereReturning"} =>
              {result.rows[i] : i \in DOMAIN result.rows} = after \ before
        /\ result.error = "" /\ call.op = "updateOneWhere" => result.count = Cardinality(lost)
WriteGuarded(table, call, result) ==
    \E before \in {table, Meanwhile(table, call)} : Guarded(before, result, call)
WritesGuarded(table, call) ==
    call.op \notin Queries \cup {"insert"} /\ ~call.leaks =>
        \A dialect \in Dialects :
            /\ WriteGuarded(table, call, Repository(dialect, table, call))
            /\ WriteGuarded(table, call, ScopedCall(dialect, table, call))

\* A batch changes everything or nothing; a tenant's changes and records what
\* is the tenant's; a command counts on its rows and versions; and an event key
\* stands for one event.
WholeBatch(db, plan, tenant, late, result) ==
    LET after == result.db
        commands == {plan[i] : i \in {j \in DOMAIN plan : plan[j].kind = "command"}}
        records == {plan[i].record : i \in {j \in DOMAIN plan : plan[j].kind \in {"audit", "outbox"}}}
    IN  /\ OfOthers(after.rows, tenant) = OfOthers(db.rows, tenant)
        /\ \A e \in (after.outbox \ (db.outbox \cup late)) \cup (after.audits \ db.audits) : e.tenant = tenant
        /\ \A a, b \in after.outbox : D1!SameEvent(a, b) => a = b
        /\ result.error # "" => after.rows = db.rows /\ after.audits = db.audits /\ after.reservation = db.reservation
        /\ result.error = "" =>
              /\ \A r \in records : [r EXCEPT !.tenant = tenant] \in after.outbox \cup after.audits
              /\ \A i \in DOMAIN plan : plan[i].kind = "idempotency" => plan[i].token = db.reservation /\ after.reservation = 0
              /\ \A c \in commands : c.op # "insert" /\ c.rows = 1 /\ Len(plan) = 1 => Cardinality(db.rows \ after.rows) = 1
        /\ \A c \in commands : c.versioned /\ c.op # "insert" /\ Len(plan) = 1 =>
              \A r \in db.rows \ after.rows : r.version = c.expected
BatchWhole(db, plan, tenant, late, maxBatchItems) ==
    WholeBatch(db, plan, tenant, late, ScopedBatch(db, plan, tenant, late, maxBatchItems))
=============================================================================

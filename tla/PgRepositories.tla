---------------------------- MODULE PgRepositories ----------------------------
(* A repository on PostgreSQL (packages/adapters/src/drizzle-pg/              *)
(* drizzleRepository.ts): writes return the rows they changed.                *)
EXTENDS RepositoryRows

\* What an error of the driver becomes.
RethrowConstraintError(fault) ==
    CASE fault = "unique" -> "conflict"
      [] fault \in {"foreign key", "check"} -> "business rule"
      [] fault = "not null" -> "validation"
      [] fault \in {"serialization", "deadlock"} -> "retryable"
      [] OTHER -> "other"

FindById(table, call) == Result(table, AnyRow(Matching("exact", table, IdFilter(call.id))), 0)

FindOneWhere(table, call) ==
    IF call.filter = NoFilter THEN Refused(table, "validation")
    ELSE Result(table, AnyRow(Matching("exact", table, call.filter)), 0)

FindMany(table, call) ==
    LET paging == ResolvePagination(call)
        known == \A i \in DOMAIN call.sort : call.sort[i].field \in Columns
    IN  IF ~paging.given \/ ~known THEN Refused(table, "validation")
        ELSE Page("exact", table, call, paging, CompileOrderBy(call.sort))

Insert(table, call) ==
    LET fault == InsertFault(table, call)
        row == NewRow(call.data)
    IN  IF fault # "none" THEN Refused(table, RethrowConstraintError(fault))
        ELSE Result(table \cup {row}, <<row>>, 0)

\* update(id): one statement.
UpdateById(table, call) ==
    LET refusal == WriteRefusal(call, "")
        hit == {r \in table : r.id = call.id /\ Held(r, call)}
    IN  IF refusal # "" THEN Refused(table, refusal)
        ELSE IF NamesVersion(call) THEN Refused(table, "configuration")
        ELSE IF call.fault # "none" THEN Refused(table, RethrowConstraintError(call.fault))
        ELSE IF hit = {} THEN Refused(table, IF call.expected # Absent THEN "concurrency" ELSE "not found")
        ELSE Result(Updated(table, hit, call), SetToSeq({SetData(r, call) : r \in hit}), 0)

\* The keys of the rows that match, at most two; then an update of the one.
UpdateHeld(now, call, hit) ==
    IF hit = {} THEN Missed(now, call)
    ELSE Result(Updated(now, hit, call), SetToSeq({SetData(r, call) : r \in hit}), 1)
UpdateMatched(table, call, matched) ==
    LET refusal == WriteRefusal(call, GuardFilter(call.filter))
        now == Meanwhile(table, call)
    IN  IF refusal # "" THEN Refused(table, refusal)
        ELSE IF Cardinality(matched) > 1 THEN Refused(table, "validation")
        ELSE IF matched = {} THEN Missed(table, call)
        ELSE IF call.fault # "none" THEN Refused(now, RethrowConstraintError(call.fault))
        ELSE UpdateHeld(now, call,
                 {r \in Matching("exact", now, call.filter) : Held(r, call) /\ \E m \in matched : m.id = r.id})
UpdateOne(table, call) == UpdateMatched(table, call, Matching("exact", table, call.filter))
UpdateOneWhere(table, call) == [UpdateOne(table, call) EXCEPT !.rows = <<>>]
UpdateOneWhereReturning(table, call) == [UpdateOne(table, call) EXCEPT !.count = 0]

UpdateManyWhere(table, call) ==
    LET refusal == WriteRefusal(call, GuardFilter(call.filter))
    IN  IF refusal # "" THEN Refused(table, refusal)
        ELSE IF call.fault # "none" THEN Refused(table, RethrowConstraintError(call.fault))
        ELSE UpdateHit(table, call, {r \in Matching("exact", table, call.filter) : Held(r, call)})

Delete(table, call) ==
    LET refusal == WriteRefusal(call, "")
        hit == {r \in table : r.id = call.id /\ Held(r, call)}
    IN  IF refusal # "" THEN Refused(table, refusal)
        ELSE IF call.fault # "none" THEN Refused(table, RethrowConstraintError(call.fault))
        ELSE IF hit = {} /\ ~call.idempotent THEN Refused(table, "not found")
        ELSE Result(table \ hit, <<>>, 0)

DeleteWhere(table, call) ==
    LET refusal == WriteRefusal(call, GuardFilter(call.filter))
    IN  IF refusal # "" THEN Refused(table, refusal)
        ELSE IF call.fault # "none" THEN Refused(table, RethrowConstraintError(call.fault))
        ELSE DeleteHit(table, call, {r \in Matching("exact", table, call.filter) : Held(r, call)})

QueryCall(table, call) ==
    CASE call.op = "findById" -> FindById(table, call)
      [] call.op = "findOneWhere" -> FindOneWhere(table, call)
      [] call.op = "findMany" -> FindMany(table, call)

RepositoryCall(table, call) ==
    CASE call.op \in Queries -> QueryCall(table, call)
      [] call.op = "insert" -> Insert(table, call)
      [] call.op = "update" -> UpdateById(table, call)
      [] call.op = "updateOneWhere" -> UpdateOneWhere(table, call)
      [] call.op = "updateOneWhereReturning" -> UpdateOneWhereReturning(table, call)
      [] call.op = "updateManyWhere" -> UpdateManyWhere(table, call)
      [] call.op = "delete" -> Delete(table, call)
      [] call.op = "deleteWhere" -> DeleteWhere(table, call)
=============================================================================

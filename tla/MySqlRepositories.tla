-------------------------- MODULE MySqlRepositories --------------------------
(* A repository on MySQL (packages/adapters/src/drizzle-mysql/                *)
(* drizzleRepository.ts): writes count the rows they changed, and what they   *)
(* wrote is read back.                                                        *)
EXTENDS RepositoryRows

\* What an error of the driver becomes.
RethrowConstraintError(fault) ==
    CASE fault = "unique" -> "conflict"
      [] fault \in {"foreign key", "check"} -> "business rule"
      [] fault = "not null" -> "validation"
      [] fault \in {"deadlock", "lock timeout"} -> "retryable"
      [] OTHER -> "other"

FindById(table, call) == Result(table, AnyRow(Matching("folding", table, IdFilter(call.id))), 0)

FindOneWhere(table, call) ==
    IF call.filter = NoFilter THEN Refused(table, "validation")
    ELSE Result(table, AnyRow(Matching("folding", table, call.filter)), 0)

FindMany(table, call) ==
    LET paging == ResolvePagination(call)
        known == \A i \in DOMAIN call.sort : call.sort[i].field \in Columns
    IN  IF ~paging.given \/ ~known THEN Refused(table, "validation")
        ELSE Page("folding", table, call, paging, CompileOrderBy(call.sort))

\* Without a primary key there is nothing to read back by, once it is inserted.
Insert(table, call) ==
    LET fault == InsertFault(table, call)
        row == NewRow(call.data)
    IN  IF fault # "none" THEN Refused(table, RethrowConstraintError(fault))
        ELSE IF "id" \notin DOMAIN call.data THEN Refused(table \cup {row}, "configuration")
        ELSE Result(table \cup {row}, <<row>>, 0)

\* update(id): one statement, and the row is read back.
UpdateById(table, call) ==
    LET refusal == WriteRefusal(call, "")
        hit == {r \in table : r.id = call.id /\ Held(r, call)}
    IN  IF refusal # "" THEN Refused(table, refusal)
        ELSE IF NamesVersion(call) THEN Refused(table, "configuration")
        ELSE IF call.fault # "none" THEN Refused(table, RethrowConstraintError(call.fault))
        ELSE IF hit = {} THEN Refused(table, IF call.expected # Absent THEN "concurrency" ELSE "not found")
        ELSE Result(Updated(table, hit, call), AnyRow(Matching("folding", Updated(table, hit, call), IdFilter(call.id))), 0)

\* The keys of the rows that match, at most two; then an update of the one.
UpdateHeld(now, call, hit) ==
    IF hit = {} THEN Missed(now, call)
    ELSE Result(Updated(now, hit, call), AnyRow({r \in Updated(now, hit, call) : \E h \in hit : h.id = r.id}), 1)
UpdateMatched(table, call, matched) ==
    LET refusal == WriteRefusal(call, GuardFilter(call.filter))
        now == Meanwhile(table, call)
    IN  IF refusal # "" THEN Refused(table, refusal)
        ELSE IF Cardinality(matched) > 1 THEN Refused(table, "validation")
        ELSE IF matched = {} THEN Missed(table, call)
        ELSE IF call.fault # "none" THEN Refused(now, RethrowConstraintError(call.fault))
        ELSE UpdateHeld(now, call,
                 {r \in Matching("folding", now, call.filter) : Held(r, call) /\ \E m \in matched : m.id = r.id})
UpdateOne(table, call) == UpdateMatched(table, call, Matching("folding", table, call.filter))
UpdateOneWhere(table, call) == [UpdateOne(table, call) EXCEPT !.rows = <<>>]
UpdateOneWhereReturning(table, call) == [UpdateOne(table, call) EXCEPT !.count = 0]

UpdateManyWhere(table, call) ==
    LET refusal == WriteRefusal(call, GuardFilter(call.filter))
    IN  IF refusal # "" THEN Refused(table, refusal)
        ELSE IF call.fault # "none" THEN Refused(table, RethrowConstraintError(call.fault))
        ELSE UpdateHit(table, call, {r \in Matching("folding", table, call.filter) : Held(r, call)})

Delete(table, call) ==
    LET refusal == WriteRefusal(call, "")
        hit == {r \in table : r.id = call.id /\ Held(r, call)}
    IN  IF refusal # "" THEN Refused(table, refusal)
        ELSE IF call.fault # "none" THEN Refused(table, RethrowConstraintError(call.fault))
        ELSE IF hit = {} /\ ~call.idempotent THEN Refused(table, "not found")
        ELSE Result(table \ hit, <<>>, 0)

DeleteWhere(table, call) ==
    LET refusal == WriteRefusal(call, GuardFilter(call.filter))
    IN  IF refusal # "" THEN Refused(table, refusal)
        ELSE IF call.fault # "none" THEN Refused(table, RethrowConstraintError(call.fault))
        ELSE DeleteHit(table, call, {r \in Matching("folding", table, call.filter) : Held(r, call)})

QueryCall(table, call) ==
    CASE call.op = "findById" -> FindById(table, call)
      [] call.op = "findOneWhere" -> FindOneWhere(table, call)
      [] call.op = "findMany" -> FindMany(table, call)

RepositoryCall(table, call) ==
    CASE call.op \in Queries -> QueryCall(table, call)
      [] call.op = "insert" -> Insert(table, call)
      [] call.op = "update" -> UpdateById(table, call)
      [] call.op = "updateOneWhere" -> UpdateOneWhere(table, call)
      [] call.op = "updateOneWhereReturning" -> UpdateOneWhereReturning(table, call)
      [] call.op = "updateManyWhere" -> UpdateManyWhere(table, call)
      [] call.op = "delete" -> Delete(table, call)
      [] call.op = "deleteWhere" -> DeleteWhere(table, call)
=============================================================================

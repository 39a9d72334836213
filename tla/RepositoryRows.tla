---------------------------- MODULE RepositoryRows ----------------------------
(* What the repositories of the three databases share.  A table is a set of   *)
(* rows, a row a function from fields to typed values; a call has its         *)
(* operation, its arguments and its options, `versioned' when its entity has  *)
(* a version field, and what happens to its statements: a fault the driver    *)
(* reports, another writer's update between two of them.                      *)
EXTENDS Predicates, FiniteSets

NumberOf(n) == [t |-> "number", v |-> <<n>>]

\* What a call leaves and answers: rows in their order, a count, a page.
Result(table, rows, count) ==
    [table |-> table, error |-> "", rows |-> rows, count |-> count, page |-> 0, pageSize |-> 0]
Refused(table, error) == [Result(table, <<>>, 0) EXCEPT !.error = error]

\* No filter given, no version, no page.
NoFilter == [kind |-> "undefined"]
NotGiven == -1
GeneratedId == NumberOf(9)

\* The columns of the table that may be sorted by.
Columns == {"id", "tenantId", "version", "createdAt", "name", "size", "open"}

Queries == {"findById", "findOneWhere", "findMany"}

Matching(collation, table, filter) == {r \in table : Selects(collation, r, filter)}
IdFilter(id) == Condition("id", "eq", Scalar(id))
AnyRow(rows) == IF rows = {} THEN <<>>
                ELSE <<CHOOSE r \in rows : \A s \in rows : r.id.v[1] <= s.id.v[1]>>

-----------------------------------------------------------------------------
(* Guards *)

\* A filter that any row passes whatever its values, or none.
RECURSIVE AlwaysHolds(_, _)
AlwaysHolds(p, truth) ==
    LET absorbing == IF truth THEN "or" ELSE "and"
    IN  CASE p.kind = "literal" -> p.value = truth
          [] p.kind = absorbing -> \E i \in DOMAIN p.filters : AlwaysHolds(p.filters[i], truth)
          [] p.kind \in {"and", "or"} -> \A i \in DOMAIN p.filters : AlwaysHolds(p.filters[i], truth)
          [] p.kind = "not" -> AlwaysHolds(p.filter, ~truth)
          [] OTHER -> FALSE
IsAlwaysTruePredicate(p) == AlwaysHolds(p, TRUE)

GuardFilter(filter) ==
    IF filter = NoFilter THEN "validation" ELSE IF IsAlwaysTruePredicate(filter) THEN "configuration" ELSE ""

\* assertVersionedWriteHasExpectedVersion, of numbers.
AssertVersionedWriteHasExpectedVersion(call) == ~call.versioned \/ call.expected # Absent

\* Refused before any statement: a version is given if and only if there is one.
WriteRefusal(call, guard) ==
    IF guard # "" THEN guard
    ELSE IF ~AssertVersionedWriteHasExpectedVersion(call) \/ (call.expected # Absent /\ ~call.versioned)
         THEN "configuration" ELSE ""

\* A bug to be caught: the version is left out of the statement.
HeldByAnyone(r, call) == TRUE
Held(r, call) == call.expected = Absent \/ r.version = call.expected

\* The row with the call's values, its version incremented by the statement.
SetData(r, call) ==
    [f \in DOMAIN r |->
        IF call.versioned /\ f = "version" THEN NumberOf(r.version.v[1] + 1)
        ELSE IF f \in DOMAIN call.data THEN call.data[f] ELSE r[f]]
Updated(table, hit, call) == (table \ hit) \cup {SetData(r, call) : r \in hit}
NamesVersion(call) == call.versioned /\ "version" \in DOMAIN call.data

\* A conditional write that met no row.
Missed(table, call) ==
    IF call.expected # Absent THEN Refused(table, "concurrency") ELSE Result(table, <<>>, 0)

\* A conditional update or delete of the rows it hits, and what it answers.
UpdateHit(table, call, hit) ==
    IF hit = {} THEN Missed(table, call) ELSE Result(Updated(table, hit, call), <<>>, Cardinality(hit))
DeleteHit(table, call, hit) ==
    IF hit = {} THEN Missed(table, call) ELSE Result(table \ hit, <<>>, Cardinality(hit))

\* An update by its key that met no row and said so by answering none.
FoundOrRefused(updated) ==
    IF updated.error = "" /\ updated.rows = <<>> THEN Refused(updated.table, "not found") ELSE updated

\* What another writer did between the call's first statement and its second:
\* row 1 has a later version and another name.
Meanwhile(table, call) ==
    IF ~call.raced THEN table
    ELSE {IF r.id = NumberOf(1) THEN [r EXCEPT !.version = NumberOf(@.v[1] + 1), !.name.v = <<19>>] ELSE r : r \in table}

-----------------------------------------------------------------------------
(* Queries *)

MaxSafeInteger == 6      \* stands for 2^53 - 1
DefaultPageSize == 2     \* stands for 20

\* The page, its size and its offset, or why there is none.
ResolvePagination(call) ==
    LET page == IF call.page = NotGiven THEN 1 ELSE call.page
        asked == IF call.pageSize = NotGiven THEN DefaultPageSize ELSE call.pageSize
        pageSize == IF asked < call.maxPageSize THEN asked ELSE call.maxPageSize
        safe(n) == n > 0 /\ n <= MaxSafeInteger
        offset == (page - 1) * pageSize
    IN  [given |-> /\ safe(page) /\ safe(asked)
                   /\ page - 1 <= MaxSafeInteger \div pageSize
                   /\ call.maxOffset = NotGiven \/ offset <= call.maxOffset,
         page |-> page, pageSize |-> pageSize, offset |-> offset]

\* The sort asked for, made total by the primary key.
CompileOrderBy(sort) ==
    IF sort = <<>> THEN <<[field |-> "createdAt", desc |-> FALSE], [field |-> "id", desc |-> FALSE]>>
    ELSE IF \E i \in DOMAIN sort : sort[i].field = "id" THEN sort
    ELSE Append(sort, [field |-> "id", desc |-> sort[Len(sort)].desc])

Before(order, a, b) ==
    \E i \in DOMAIN order :
        /\ \A j \in 1..(i - 1) : a[order[j].field] = b[order[j].field]
        /\ IF order[i].desc THEN a[order[i].field].v[1] > b[order[i].field].v[1]
           ELSE a[order[i].field].v[1] < b[order[i].field].v[1]

\* findMany: the count of all rows that match and one page of them.
PageOfRows(table, paging, ordered) ==
    LET last == paging.offset + paging.pageSize
    IN  [Result(table, SubSeq(ordered, paging.offset + 1, IF last < Len(ordered) THEN last ELSE Len(ordered)),
                Len(ordered))
            EXCEPT !.page = paging.page, !.pageSize = paging.pageSize]
Page(collation, table, call, paging, order) ==
    PageOfRows(table, paging,
               SetToSortSeq({r \in table : call.filter = NoFilter \/ Selects(collation, r, call.filter)},
                            LAMBDA a, b : Before(order, a, b)))

\* An insert as the database takes it: null columns get their defaults, a
\* missing or repeated primary key and a missing tenant are its business.
NewRow(data) ==
    [id |-> IF "id" \in DOMAIN data THEN data.id ELSE GeneratedId,
     tenantId |-> data.tenantId,
     version |-> IF "version" \in DOMAIN data THEN data.version ELSE NumberOf(1),
     createdAt |-> NumberOf(0), name |-> data.name]
InsertFault(table, call) ==
    IF call.fault # "none" THEN call.fault
    ELSE IF {"tenantId", "name"} \ DOMAIN call.data # {} THEN "not null"
    ELSE IF \E r \in table : r.id = NewRow(call.data).id THEN "unique"
    ELSE "none"
=============================================================================

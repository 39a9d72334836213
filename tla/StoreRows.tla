------------------------------ MODULE StoreRows ------------------------------
(* Tables and the statements on them; who may enqueue and see which jobs, and *)
(* which are fit to be stored and executed; and the rows of the jobs and the  *)
(* idempotency tables, the same on every database.  Ids and tokens are        *)
(* numbers, 0 is no token, and the token generated for a row is that of       *)
(* Fresh.  A call carries its arguments and two clocks: `now' is the          *)
(* process's, `db' the database's.                                            *)
EXTENDS Integers, Sequences, FiniteSets, SequencesExt

-----------------------------------------------------------------------------
(* Tables.  A table is a function from row ids to rows; a null time is        *)
(* NoTime, and a comparison with it is not true.  A statement answers and     *)
(* leaves a table.                                                            *)

NoTime == -1
Lt(a, b) == NoTime \notin {a, b} /\ a < b
Le(a, b) == NoTime \notin {a, b} /\ a <= b

IsTable(table) == table = [id \in DOMAIN table |-> table[id]]

Outcome(table, answer) == [table |-> table, answer |-> answer]

Insert(table, row) ==
    [id \in DOMAIN table \cup {row.id} |-> IF id = row.id THEN row ELSE table[id]]

Rows(table, Where(_)) == {table[id] : id \in {i \in DOMAIN table : Where(table[i])}}

\* UPDATE ... SET ... WHERE; Set gives the row its new values.
Update(table, Where(_), Set(_)) ==
    [id \in DOMAIN table |-> IF Where(table[id]) THEN Set(table[id]) ELSE table[id]]

\* The answer of an update whose affected rows are counted.
Updated(table, Where(_), Set(_), applied, missed) ==
    Outcome(Update(table, Where, Set), IF Rows(table, Where) # {} THEN applied ELSE missed)

\* SELECT ... ORDER BY ... LIMIT, as the sequence of the rows.
Select(table, Where(_), Before(_, _), limit) ==
    LET ordered == SetToSortSeq(Rows(table, Where), Before)
    IN  SubSeq(ordered, 1, IF Len(ordered) < limit THEN Len(ordered) ELSE limit)

\* ORDER BY a pair of columns.
Earlier(a, b, c, d) == a < c \/ (a = c /\ b < d)

\* SELECT ... LIMIT without an order, as a set: any of the rows; their ids
\* decide here.
SelectAny(table, Where(_), limit) ==
    LET found == Rows(table, Where)
    IN  {r \in found : Cardinality({q \in found : q.id < r.id}) < limit}

-----------------------------------------------------------------------------
(* Requesters and the jobs they ask for (execution/types.ts,                  *)
(* jobFingerprint.ts).  Strings are told apart by name alone: "" is the empty *)
(* one and Blank one of spaces.                                               *)

Nil == "null"
Blank == " "
Unset == -2
JobScopes == {"tenant", "platform", "system"}

\* A caller, its tenant if it has one, and whether a platform caller has the
\* capability enqueue:system.
Requester(scope, tenant, enqueueSystem) ==
    [scope |-> scope, tenant |-> tenant, enqueueSystem |-> enqueueSystem]
RequesterJobScope(requester) == requester.scope
RequesterTenantId(requester) == IF requester.scope = "tenant" THEN requester.tenant ELSE Nil

\* A bug to be caught: a requester without a tenant sees every scope.
VisibleByTenant(row, requester) ==
    RequesterTenantId(requester) # Nil => row.tenant = RequesterTenantId(requester)

\* The rows a requester's queries are filtered to.
Visible(row, requester) ==
    /\ row.scope = RequesterJobScope(requester)
    /\ RequesterTenantId(requester) # Nil => row.tenant = RequesterTenantId(requester)

AssertJobRequesterCanEnqueue(requester, tenant) ==
    requester.scope = "tenant" => requester.tenant = tenant

\* The tenant's name is checked before the scope; a platform caller that may
\* enqueue system work may enqueue work of any scope.
AssertRequesterCanEnqueueScope(requester, scope, tenant) ==
    /\ AssertJobRequesterCanEnqueue(requester, tenant)
    /\ \/ requester.scope = "system"
       \/ requester.scope = "tenant" /\ scope = "tenant"
       \/ requester.scope = "platform" /\ (scope = "platform" \/ requester.enqueueSystem)

AssertJobScopeCanEnqueue(scope, tenant) == scope = "tenant" <=> tenant # Nil

\* A bug to be caught: any number of attempts will do.
AssertDurableJobLoosely(job) ==
    /\ job.scope \in JobScopes
    /\ job.type \notin {"", Blank}
    /\ job.version >= 1
    /\ job.key # "" /\ job.correlation # "" /\ job.partition # ""

\* A job fit to be stored.  What is left out is Nil or Unset.
AssertDurableJob(job) ==
    /\ job.scope \in JobScopes
    /\ job.type \notin {"", Blank}
    /\ job.version >= 1
    /\ job.maxAttempts = Unset \/ job.maxAttempts >= 1
    /\ job.key # "" /\ job.correlation # "" /\ job.partition # ""

\* What identifies a job for the replay of its idempotency key, the time it is
\* to run at included.
BuildJobFingerprintInput(job, runAt) ==
    [scope |-> job.scope, type |-> job.type, version |-> job.version, tenant |-> job.tenant, runAt |-> runAt,
     maxAttempts |-> IF job.maxAttempts = Unset THEN 3 ELSE job.maxAttempts, priority |-> job.priority,
     correlation |-> job.correlation, partition |-> job.partition]

\* A stored job fit to be executed; the dispatcher buries any other.
AssertStoredJobShape(stored) ==
    /\ stored.type \notin {"", Blank}
    /\ stored.version >= 1
    /\ stored.scope \in JobScopes
    /\ stored.attemptsCompleted >= 0 /\ stored.currentAttempt >= 0
    /\ stored.maxAttempts >= 1

Fresh(id) == 100 + id

\* The table after a transition of the rows in moved: the token by which the
\* history finds them is cleared in the end.
Transitioned(table, moved) ==
    [id \in DOMAIN table |->
        IF \E r \in moved : r.id = id THEN CHOOSE r \in moved : r.id = id ELSE table[id]]

\* The columns that handing a row back clears.
Released(row, status) ==
    [row EXCEPT !.status = status, !.leaseOwner = Nil, !.leaseExpiresAt = NoTime, !.claimToken = 0]

-----------------------------------------------------------------------------
(* Jobs *)

BuildIdempotencyScope(tenant, scope) == IF tenant = Nil THEN <<scope>> ELSE <<"tenant", tenant>>

NewJobRow(job, call) ==
    LET runAt == IF job.runAt = Unset THEN call.now ELSE job.runAt
    IN  [id |-> call.id, scope |-> job.scope, tenant |-> job.tenant, type |-> job.type, version |-> job.version,
         status |-> "pending", priority |-> job.priority, attempts |-> 0,
         maxAttempts |-> IF job.maxAttempts = Unset THEN 3 ELSE job.maxAttempts,
         runAt |-> runAt, nextAttemptAt |-> runAt, leaseOwner |-> Nil, leaseExpiresAt |-> NoTime, claimToken |-> 0,
         key |-> job.key, keyScope |-> BuildIdempotencyScope(job.tenant, job.scope),
         fingerprint |-> BuildJobFingerprintInput(job, runAt), correlation |-> job.correlation,
         partition |-> job.partition, createdAt |-> call.now, startedAt |-> NoTime, completedAt |-> NoTime]

ToStoredJob(row) ==
    [type |-> row.type, version |-> row.version, scope |-> row.scope, tenantId |-> row.tenant,
     currentAttempt |-> row.attempts, attemptsCompleted |-> IF row.attempts > 0 THEN row.attempts - 1 ELSE 0,
     maxAttempts |-> row.maxAttempts]

JobColumns ==
    {"id", "scope", "tenant", "type", "version", "status", "priority", "attempts", "maxAttempts", "runAt",
     "nextAttemptAt", "leaseOwner", "leaseExpiresAt", "claimToken", "key", "keyScope", "fingerprint",
     "correlation", "partition", "createdAt", "startedAt", "completedAt"}

\* What an enqueue answers: its job, or why there is none.
Accepted(row) == [refused |-> "", jobs |-> {row}]
Rejected(reason) == [refused |-> reason, jobs |-> {}]

\* What an applied transition answers, and the history row it leaves.
Applied(table, execution) == Outcome(table, [applied |-> TRUE, reason |-> "", history |-> execution])
Refused(table, reason) == Outcome(table, [applied |-> FALSE, reason |-> reason, history |-> {}])
Execution(id, status, attempt, worker) == {[job |-> id, status |-> status, attempt |-> attempt, worker |-> worker]}

-----------------------------------------------------------------------------
(* Idempotency rows *)

\* The tags of a column, a column no tags can be read from, and none.
Corrupt == {"corrupt"}
NoTags == {}

\* A version is a number, a string that looks like one, another string, or none;
\* it is stored in an envelope that keeps its type, and a column of before there
\* was one is a number if it looks like one.
NoVersion == [type |-> "none", digits |-> FALSE]
EncodeResourceVersionBare(version) == [envelope |-> FALSE, version |-> version]   \* a bug to be caught
EncodeResourceVersion(version) == [envelope |-> TRUE, version |-> version]
DecodeResourceVersion(stored) ==
    IF ~stored.envelope /\ stored.version.digits THEN [stored.version EXCEPT !.type = "number"] ELSE stored.version

KeyColumns ==
    {"id", "key", "fingerprint", "token", "status", "result", "resource", "version", "pending", "createdAt",
     "claimToken", "claimOwner", "claimExpiresAt"}

SameKey(r, call) == r.key = call.key
Reserved(call) ==
    [id |-> call.id, key |-> call.key, fingerprint |-> call.fingerprint, token |-> Fresh(call.id), status |-> "in-progress",
     result |-> Nil, resource |-> Nil, version |-> EncodeResourceVersion(NoVersion), pending |-> NoTags,
     createdAt |-> call.db, claimToken |-> 0, claimOwner |-> Nil, claimExpiresAt |-> NoTime]
=============================================================================

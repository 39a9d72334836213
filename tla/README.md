# kittle: models and proofs

kittle is a TypeScript framework for multi-tenant CRUD services: entities, attribute-based access control,
operation pipelines, and durable execution (jobs, schedules, idempotent HTTP mutations) over Drizzle adapters for
Cloudflare D1, PostgreSQL and MySQL. This directory holds TLA+ modules for its core logic, the TLC configurations
that check them, and TLAPS proofs of what matters most. Paths below are relative to `src/packages/`.

## 1. The system

| Component | Source | State | Operations | What is hard |
|---|---|---|---|---|
| Job store | `adapters/src/drizzle-*/drizzleJobStore.ts`, `*Session.ts` | `jobs` rows (status, attempts, owner, token, lease, next attempt), `executions` rows | enqueue, claimDue, renewLease, markSucceeded, markRetrying, markFailed, cancel | stale claims, races of claim updates, history beside or inside the transition |
| Job dispatcher | `core/src/execution/dispatcher.ts`, `retryPolicy.ts`, `executionContext.ts` | per worker: batch, heartbeat, timer, running execution | dispatchDueJobs, executeJob, handleJobError, fencedEffect | three signals race for one attempt; executions outlive their dispatch; processes die |
| Schedule dispatcher and store | `core/src/execution/scheduleDispatcher.ts`, `adapters/src/drizzle-*/drizzleScheduleStore.ts` | `schedules` rows (next run, lease, token, last status), occurrences as jobs | claim, renew, advance, materializeDueSchedules | crash between enqueue and advance, overlap policies, missed runs, lost leases |
| Schedule calculator | `core/src/execution/scheduleCalculator.ts` | none | shouldFireSchedule, computeScheduleOccurrences, calculateNextRun, the cron search | local times that repeat or do not exist |
| Idempotent writes | `adapters/src/drizzle-*/drizzleIdempotencyStore.ts`, `adapters/src/http/createFrameworkWriteHandler.ts`, `idempotencyFinalizer.ts` | one row per key: owner, status, lease, result, pending invalidations | acquire, renew, markCommittedInTransaction, recover, complete, claim and acknowledge invalidations | commit without an answer, takeover of a lapsed owner, replays, retries of invalidation |
| Cache and generations | `core/src/cache`, `adapters/src/cache` | entries under keys and tag generations, one counter per tag | getOrSet, invalidateTags | a fill that began before an invalidation, vectors of generations read one by one |
| Operation pipeline | `core/src/operation/*.ts` | one transaction or batch, collected effects, markers, hooks | runStandardOperation, runAtomicBatchOperation, transaction retry | effects of an attempt that rolled back, retries after an unknown outcome |
| HTTP mutation handlers | `adapters/src/http/crudHandlers`, `adapters/src/server/authorizedRepository.ts` | none between requests; one row, under a lock or a version | create, update, delete, insert | policies and rows that change between the checks and the write |
| Persistence | `core/src/ports/persistence.ts`, `scopedPersistence.ts`, `adapters/src/drizzle-*/drizzleRepository.ts`, `drizzlePersistenceProvider.ts` | entity rows with versions | finds, inserts, conditional updates and deletes, transactions, batches, scopes | lost updates between two statements, three dialects, tenants kept apart |
| Access control | `core/src/domain/abac*.ts`, `predicate*.ts`, `evaluatePredicate.ts`, `fieldAccess.ts`, `adapters/src/drizzle-shared/predicateCompiler.ts` | none | three-valued evaluation, bundles, read scopes, field masks | unknown values, agreement of memory and SQL, failing closed |
| Read handlers | `adapters/src/http/crudHandlers/list.ts`, `detail.ts`, `filterInterop.ts` | none | list, detail, hooks, projection, cache key | what a query tells of hidden fields, who shares a cached answer |
| Rate limit | `core/src/rate-limit`, `adapters/src/cache/cacheBackedRateLimitStore.ts` | a counter per window | enforceRateLimit, checkRateLimit | read-modify-write, window boundaries, failing and forgetting stores |
| Audit and outbox | `adapters/src/drizzle-*/drizzleAuditSink.ts`, `drizzleOutboxSink.ts` | appended rows | append inside the transaction | atomicity with the write, replays of one key |
| Entity definitions | `core/src/entity`, `adapters/src/http/CRUD.ts`, `fastify`, `nestjs`, `server/defineProject.ts` | none | defineEntity, CRUD(), defineProject | checks that must agree with what is done later |
| Foundation, job registry, testing contracts | `core/src/foundation`, `core/src/execution/job*.ts`, `testing/` | none | errors, identifiers, hashes | |
| User interface | `ui/` | component state | React components and helpers | not concurrent with the above |

How they interact. The job dispatcher is the only caller of the job store besides producers (enqueue), operators
(cancel) and the schedule dispatcher, which enqueues occurrences under an idempotency key and, for overlap policy
`queue`, a partition key. The write handler calls the idempotency store around an operation pipeline, whose
transaction marks the key as committed; after the commit it advances the generations of the tags it made stale, and
a finalizer does so for requests that died. Inside the pipeline a CRUD handler resolves the caller's policies, reads
the row and writes it through a repository. List and detail handlers read through a cache service of their own. All
coordination between processes is through rows and their conditions: there is no lock service and no message broker.

What makes each part correct:

- job store: one live holder of a job and of a partition; an attempt is settled once; what has ended stays ended; the
  history tells what happened;
- job dispatcher: the outcome recorded is that of the signal that won; effects and hooks belong to the current
  attempt; no execution keeps a worker from its next poll;
- schedules: no occurrence is lost to a failure, none overlaps where overlap is to be skipped, a schedule never goes
  back and moves on in the end; an expression is due at the first instant it stands for;
- idempotent writes: a key is committed once and has one answer; tags it made stale are invalidated before anybody is
  answered, and at some time whoever dies; retries succeed;
- cache: what can be found under current generations is as recent as the last published write;
- operation pipeline: audit, outbox and marker become durable with the mutation or not at all, effects run once, and
  the caller is told the truth;
- mutations: of two writers that read one version one fails, and a committed change is permitted by policies about
  the very record it replaces and the one it leaves;
- persistence: a conditional write changes what its version and scope allow or nothing, a scoped repository reaches
  no other tenant, and the three databases agree;
- access control: a bundle is whole or refused, a scope compiled for queries is the decision row by row, what is
  hidden of a row neither a response nor a query tells;
- rate limit: a window admits at most its limit while no count is lost, and refuses nobody below it;
- entity definitions: what was accepted is not refused later.

## 2. Modules

| Module | Models | Uses |
|---|---|---|
| `JobLifecycle` | the promise of a job store: one holder per job and per partition, one report per attempt, one end | |
| `JobStore` | the two tables and every operation that writes them; clients are arbitrary | `JobLifecycle` |
| `JobDispatcher` | workers, executions, hooks, effects and faults | `JobStore` |
| `ScheduleDispatcher` | due, skipped and next occurrences over a given set of them; workers that materialize schedules, the schedule rows, the jobs of occurrences | |
| `WriteOnce` | the promise of an idempotency key | |
| `WriteHandler` | the idempotency table and its statements; write requests, their retries, and finalizers | `WriteOnce` |
| `CacheService` | reads and invalidations over shared generations | |
| `OperationOutcome` | what an operation promises its caller | |
| `OperationPipeline` | both pipelines, their collectors, transactions, batches and effects | `OperationOutcome` |
| `PolicyTiers` | what policies decide of a record: tiers of priority, denials before permissions | |
| `GuardedRecord` | the promise of the mutations of one record | `PolicyTiers` |
| `CrudMutations` | create, update and delete handlers and the AuthorizedRepository, racing under changing policies | `PolicyTiers`, `GuardedRecord` |
| `Predicates` | predicates in memory, simplified, and as SQL | |
| `PolicyDecisions` | from stored policies to bundles, scopes, capabilities and read plans | `Predicates`, `PolicyTiers` |
| `StoreRows`, `PgStores`, `MySqlStores`, `D1Stores`, `StoreStatements` | each call of the job, schedule and idempotency stores on each database, and what they should do alike | |
| `RepositoryRows`, `PgRepositories`, `MySqlRepositories`, `D1Repositories`, `ScopedPersistence` | each call of a repository on each database, D1's batches, and the tenant's wrapper | `Predicates` |
| `ReadHandlers` | list and detail requests | `PolicyDecisions`, `ScopedPersistence` |
| `EntityDefinitions` | defineEntity, its validation, CRUD() and the bindings | |
| `CronCalculator` | cron expressions, local times and the search for the next one | |
| `RateLimits` | requests under a limit over an atomic or a read-modify-write store | |
| `Calculations` | asks the modules above (from `Predicates` on) one question after another and states what the answers should be | all of them |
| `MC*` | instances for TLC | |
| `JobProofs`, `ScheduleProofs`, `WriteHandlerProofs`, `CacheServiceProofs`, `AnswerProofs`, `CrudMutationsProofs`, `OperationPipelineProofs` | TLAPS proofs; those about `JobLifecycle` are in the module itself | |

`JobStore` is shown to implement `JobLifecycle` (the dispatcher is written over its actions), `WriteHandler` to
implement `WriteOnce`, `OperationPipeline` to implement `OperationOutcome`, and `CrudMutations` to implement
`GuardedRecord`. A schedule's jobs are modelled in `ScheduleDispatcher` by the three states its decisions tell apart;
the cache in `WriteHandler` is the set of mutations whose tags are still stale, and `CacheService` shows what an
invalidation that returned is worth. The stores appear twice: their interleavings in `JobStore`, `WriteHandler` and
`ScheduleDispatcher` with the rows' columns that coordination rests on, and each statement with all its columns,
errors and dialects in the `*Stores` modules.

Modules with theorems, and what they use, declare nothing RECURSIVE; parameters are CONSTANTS with named assumptions.
Policies, predicates and what rests on them are trees and therefore recursive: they are TLC's alone. `StoreStatements`
and `EntityDefinitions` ask their questions by themselves (`StoresSpec`, `DefinitionsSpec`) as well as in
`Calculations`, so that they can be proved about without them.

## 3. Correspondence

### Job store

A row is `job[j]`. Its columns are status, attempts, leaseOwner (`owner`), claimToken (`token`, a number: tokens are
fresh UUIDs, so only their identity matters), leaseExpiresAt (`lease`, the time left) and nextAttemptAt (`wait`, the
time left). `Tick` is the database clock. Every SQL statement is one action; a call of several statements (claimDue,
a best-effort cancel, a best-effort transition with its history insert) is several, and its process may die between
them. The WHERE clauses are `Due`, `NoRunningSibling`, `Holds`, `Fenced` and `Cancellable`.

Three constants tell the deployments apart. `Serial`: D1 runs one statement at a time; PostgreSQL evaluates the
`NOT EXISTS` of the claim against the statement's snapshot and rechecks only the row it writes, so `ClaimProbe` and
`ClaimRow` are two steps. `Required`: whether the history row is written in the transition's transaction.
`CountsRows`: whether `atomicJobTransition` learns how many rows its update matched; with node-postgres it does not.
There, too, a cancel with required history always fails and leaves the row alone: its history row names a column in the
VALUES of an INSERT (`drizzleJobStore.ts:728`), which D1's INSERT ... SELECT allows and PostgreSQL does not, so `Cancel`
requires `CountsRows`. MySQL's store is the best-effort one.

In `JobStore` a worker may use any claim it was ever given, at any time and repeatedly: the store's promises must not
rest on the dispatcher's good behaviour.

### Job dispatcher

`at[w]` is where worker `w` is in dispatchDueJobs; `running` holds the executions that have not settled, also those
their dispatch gave up on. `Settles`, `Heartbeat` (`Lose`) and `Timeout` are the three signals of `Promise.race`; the
first sets `by`. `Decide`, `GraceEnds` and `Settle` are what follows. `Throws` is a store call that throws, applied or
not. `Crash` ends the process with its executions. Durations are abstracted: the timer and the grace period may end at
any time, a heartbeat may come at any time or be late, which includes every setting of the code's intervals. A job that
waits in a batch is renewed before it is looked at (`Refence`), and `LateWorkFenced` says what that is good for. `Hook`
is a hook of the user, which `handleJobError` awaits without a limit (`dispatcher.ts:881`, `:934`).

### Schedules

`schedule[s]` is a row: the next occurrence, lastStatus, the claim token and whether its lease is held; a token is the
least number not in use, since only equality is ever asked of it. `jobs[s, o]` is the job of an occurrence: none,
queued, running or ended, with its runAt. One poll takes `Poll`, `ClaimSchedule` or `MissSchedule` for each row,
`Readback`, then for each claim a decision (`Fence`, with `Decide`), for each of its occurrences `Lookup`, `Refence`
and `Enqueue`, and last `Advance` or `Fail`. assertHeld is part of the step it guards, and `Refence` is a step of its
own, because what follows it is not guarded again: `scheduleDispatcher.ts:279` enqueues after the last look at the
lease, whatever the comment at :213 says of every write being fenced. `NothingPassedOver` and `FiredIsEnqueued` hold
all the same, since the occurrence's idempotency key makes the late enqueue the same job; `OverlapRespected` is
stated for workers that did not outlive their lease (`late = 0`).

Occurrences are a set of instants (`Slots`), increasing as the cron calculator's are. `MisfireAfter` stands for the hour
of `shouldFireSchedule`. `JobStarts`, `JobRetries` and `JobEnds` are the job dispatcher.

Two things the model shows and no property forbids. The loop asks the overlap policy of each occurrence only under
misfire policy `queue_all` (`scheduleDispatcher.ts:229`), so a schedule that skips both misfires and overlaps has all
its due occurrences enqueued together, against the comment at :206 that overlap is evaluated for each;
`OverlapRespected` leaves that policy out. And
with no earlier job the decision falls back on lastStatus (`scheduleCalculator.ts:496`), which the claim itself sets
to running: after a worker died before the first enqueue of a schedule with overlap `skip`, the next worker skips that
occurrence although nothing ran, while `SPECIFICATION.md:197` bases such decisions on durable execution history.

### Idempotent writes

The first part of `WriteHandler` holds the columns of the table, one function each; a row is `absent`, `in-progress`,
`business-committed` or `completed`. `token[k]` is the request that owns the row: every acquire draws a fresh UUID, so
request and token are the same thing, and a takeover is a change of token. A lease is fresh or has run out. Each
statement is an operator with the WHERE clause beside it (`Takeable`, `Owned`, `Markable`, `Completable`, `Drainable`,
`Ackable`).

The second part moves requests of the CRUD handlers (`action`: create, update or delete) through the handler's awaits:
`Lookup`, `Begin`, `Read` or `TryTakeover` and `Recheck`, then `Drain` and `Recomplete` for a committed row, or the run
with its `Heartbeat`, the `Commit` with its marker (or `Refuse`), `Invalidate`, `Finalize`, `GiveBack` (recover() in the
catch block) and `Respond`. A transaction's commit and its marker are one step, as they are on PostgreSQL and in a D1
batch. `Crash` is a death or a call that throws at a place where the handler does nothing about it, a commit of unknown
outcome included: the mutation is there or not and the client is told nothing. `FinalizationThrows` are the throws the
handler catches. `Retry` is a client that was not told of success and sends its request again, under a new token. `Claim`,
`InvalidateClaimed` and `Acknowledge` are the finalizer's loop, `DrainThrows` and `DrainCrash` its faults.

`row[k]` is what the handlers find of the resource, and `TakeAway` what others do to it meanwhile. It matters twice. An
update or delete loads the resource before it acquires the key (`createFrameworkWriteHandler.ts:391`) and answers 404
when it is not there (`Found`). And a committed mutation is answered by reading the resource again: when it is gone, no
longer readable or of another version, the answer is a conflict, now and at every retry (`Recoverable`;
`createFrameworkWriteHandler.ts:591-616`, which `idempotencyCrashRecovery.test.ts` expects). So `RetriesSucceed`
promises success only as long as the resource is there. Others may take it away, and a committed delete always does: its
retry gets 404 every time, from `delete.ts:314`, and its receipt is never asked for, although `SPECIFICATION.md:163`
says that a crashed request must be recoverable. Without "deleted" among its exceptions the property is violated.

A request without a key touches no row of the table and is not told to try again; its mutation is in `CrudMutations`. When
a hook throws after its commit, it answers its client while the tags it made stale stay stale
(`createFrameworkWriteHandler.ts:773`), which the code accepts. Handlers whose operation is not one of the CRUD handlers'
may have no recoverCommittedResponse and are not modelled.

### Cache

`gen` holds the counters of `DbTagGenerationStore`, or of `InMemoryCacheAdapter` within one process; each read of one
and each increment is atomic. `entries` is the payload. Nothing more is assumed of it than that it returns what was
once stored under a key: `Stores` may lose any entry, which covers expiry, eviction, deleteTag, and lagging KV replicas.
`version[k]` counts the commits to what `k` reads; `published[k]` is the latest of them whose invalidation has returned.
A commit and its invalidation are apart, as they are in the handler, and an invalidation may be abandoned between
two tags.

Each request constructs a `CacheService` of its own (`list.ts:429`, `detail.ts:234`,
`createFrameworkWriteHandler.ts:486` and `:585`), so `localTagGenerations` begins empty and `inFlight` never holds
another reader's promise. `Collect` fetches generations tag by tag, in any order. `Hit` and `Rechecked` are a get and
the second look; `Miss`, `Resolve` and `Verified` are the resolver, the look after it, and set. A best-effort reader
falls back on what it remembers (`blind`); a critical one fails.

Reads and writes of one scope have the same tags (`buildReadTags` in `crudHandlers/shared.ts:572`, `invalidateTags` in
`createCrudHandlers.ts:42`); `TagsOf` is that function. Two observations. All tenants share the tag `scope:tenant`, so
a write of any tenant makes every tenant's entries unreachable, while the comment at `shared.ts:573` promises that one
tenant's write cannot churn every tenant's cache; this costs freshness nothing. And `InMemoryCacheAdapter.clear()`
(`inMemoryCacheAdapter.ts:121`) sets generations back to zero, after which a fill that began before an invalidation
could be stored under a generation that is current again; tests are its only callers and it is not modelled.

### Operations

`OperationPipeline` moves a run `o` through the places `pc[o]` of runOperation: `Start` chooses the mode (an
interactive transaction, an atomic batch or neither) from the definition and the backend, `Refuse` is every check before
it. `Open`, `Before`, `Execute`, `After`, `RunEffect`, `WriteAudit`, `AppendOutbox`, `CommitMarker` and `Commit` are the
transaction's stages, `CallbackThrows` what a throwing callback or statement does at each, with the two guards that
forbid a rerun (an effect that ran, `HadSideEffects`; a commit of unknown outcome, `CommitThrows`). `Prepare`, `Precheck`,
`ExecuteBatch`, `BatchAborts`, `BatchUnknown`, `Verify` are the batch. `Readd`, `OnBusinessResult`, `AfterCommitHooks`,
`RunDeferred` and `Return` follow the commit. The collector is five variables (`effects`, `records`, `queue`, `budget`,
`taken`), the transaction two (`written`, `appended`), and what application code may do is any choice of what it
registers, throws and writes. `accepted`, `promised`, `calls` and `ran` are histories. What a transactional effect itself
registers as one is never executed (`standardOperationPipeline.ts:128` runs a copy) and is left out.

`HonestAnswer` is what the caller is to be told by all accounts. It is implied by `ImplementsOutcome` where twice what a
callback may register fits the deferral budget; otherwise `readdDeferredEffects` can throw after the commit
(`standardOperationPipeline.ts:193-194`), outside everything that would turn the error into one that says so.

### Mutations of a record

`CrudMutations` has one record, `Writers` that each make one mutation of it, and the bundle of `policies` in force,
which may change or be unresolvable at any step. A handler resolves a bundle for each decision it makes: `auth` for the
authorize stage, `scope` for the filter of the write, and one for the row it answers with. `seen` is the row the
request last read. In a transaction the write locks the row (`pending`); on D1 a batch is one step. On PostgreSQL a
filter is evaluated against the row the lock was waited for; MySQL looks the row's key up first, by a plain SELECT
(`fetchMatchingPrimaryKeys`, `Probe`), and evaluates the filter again in its UPDATE. An entity
without a version is fenced by nothing but the scope: `update.ts:142` enforces the policies on a row that may have
changed when it is written, and an update of an unversioned entity whose conditional policy has no write list is
permitted of a row that no longer matches; `ImplementsGuardedRecord` speaks of what the filter sees. The policies'
conditions are any sets of records, so `PolicyTiers` needs no predicates; `Calculations` shows that predicates and
their SQL decide as it does (`ScopeIsDecision`).

Observations no property contradicts: the AuthorizedRepository throws Forbidden after an insert or update that was
applied when no policy allows reading (`authorizedRepository.ts`); MySQL's updateOneWhereReturning outside a transaction
may read back nothing and answer CONFLICT though it was applied; `delete.ts` compares If-Match only in the write's
filter, never at the read; OptimisticConcurrencyError is not mapped and becomes a 500, though `adapters/README.md:250`
says 409.

### Predicates and policies

A value has a type and its parts, text its letters in two cases. `EvaluatePredicate` is the evaluation in memory,
`Selects` that of the compiled SQL with the database's own truth values, `SimplifyPredicate` the simplifier. Memory and
SQL part in two ways. A negation of what is unknown of a row is true in SQL, whose conditions are all COALESCE(...,
FALSE), and unknown in memory, which does not match, against `SPECIFICATION.md:114`, which says they must agree; no
compiled policy contains such a negation, which is what `BundlesFailClosed` and `ScopeIsDecision` check. And a database
compares texts its own way (`Collations`): LIKE ignores the case of letters on SQLite, so on D1, and on MySQL, whose
default collation makes equality ignore it too. `PredicatesSound` says exactly how far apart they are: SQL selects what
memory would match if it took the unknown for false before it negates (`Settled`), which is what it does match where
nothing is negated; and LIKE without negations selects more rows, never fewer. Policies' clauses look for no part of a
text, since `abacPolicyNormalizer.ts:137-143` rejects that as not portable, and so `ScopeIsDecision` holds on PostgreSQL
and D1; on MySQL it asks for a collation that minds the case, as does the tenant filter, which otherwise takes tenants
for one whose identifiers differ only by case. `ESCAPE '\'` is read as it is meant; on MySQL that depends on sql_mode.
Where the modules read rows for a handler they take PostgreSQL's comparison. `PolicyDecisions` parses, coerces and
compiles stored policies, and builds bundles, scopes, capabilities and read plans. Observations: operators `in` and
`between` are accepted in a policy's clauses and then rejected by the compiler; `equals` without a value compiles to the
text "undefined"; the write lists of deny policies change nothing but the reason; a field hidden only by not being on an
allowlist may still be queried (the catalog's query grants decide); and `isAlwaysTruePredicate` knows only the empty
conjunction. Global capabilities ignore denials with conditions.

### Stores and repositories

Each call is an operator from a table and its arguments to an answer and a table, read from each database's own source.
`JobsAgree`, `SchedulesAgree`, `KeysAgree` and `RepositoriesAgree` compare them, and name where the sources differ: D1
claims a running schedule with a null lease or at the very instant of its expiry, the others do not; MySQL knows no
required history; PostgreSQL with required history answers "applied" and inserts the history row whether or not a row
moved, and refuses every cancel with HISTORY_FAILED; D1 inserts history with the row or not at all; MySQL and D1 insert
a row without a primary key and then throw; D1 refuses a version field in the data where the others override it, and
hands on raw errors of deletes. MySQL's SQL is not all valid and is read for what it evidently means. An idempotent
delete with a stale version answers success though the row stays. A retried enqueue that leaves runAt to the clock
conflicts with its first (`execution/types.ts:693`). Scope wrappers are `ScopedPersistence`; an adapter that leaks on
reads is part of the inputs, since the wrapper filters what it is handed. Tables and filters on which databases compare
texts differently are exempt from `RepositoriesAgree` (`ComparedAlike`); that nulls sort differently is not in the
inputs.

### Reads, limits, definitions and schedules' expressions

`ReadHandlers` follows a list or detail request from access over the parsed filters, search and sort, the entity's scope
and the policies' scope, to the rows, the hook that enriches them, the projection and the cache key. Observations: a
masked primary key makes every list with a hook 403 (`list.ts:283-291`), a filter value of the wrong shape is a plain
Error and a 500, and a number filter coerces null to 0. The default sort and the entity's own scope are exempt from
query denials.

`RateLimits` has requests in places, a bucket per key and a clock of ticks, a minute being two; an atomic store
increments in one step, the read-modify-write store in two, with its read of the time and of the bucket in one. `Forget`
subsumes expiry, eviction and `clear()`. `loose` is the history of the keys a count of which was lost: a store that is
not atomic may admit more, and `LimitKept` says exactly when. A window of hundreds of digits, which parses as Infinity,
is left out.

`EntityDefinitions` abstracts a text to a word and what joins it, which is what the patterns look at; inputs are a sound
definition with one or two parts replaced. What it shows: defineEntity turns a missing `sortableColumns` into an empty
list, so that any default sort is refused unless it is declared, which the Fastify and project bindings, accepting
`listDefaults.sortColumn`, never do; `CRUD()` forwards no `sortableColumns` either; defineProject with tenantScoping
"scoped" always throws; `toModuleKey` makes "order-line" of "OrderLine", which the pattern of module keys refuses; a
rate limit or `auth` given as `true` has no effect; `CRUD()`'s check of a durable audit can never fire; and
createFrameworkWriteHandler ignores its `failureMode`.

`CronCalculator` works on a scaled clock (hours of two minutes, days of three hours, weeks of two days, a calendar of
months of four, two, four and three days) and offsets that change once. A repeated local hour fires once, at its first
pass. Observations: `HasPossibleCalendarDate` takes an expression whose days of the month never exist for impossible
although its weekdays do (`0 0 30 2 1` is never due); a day field like `*/2` restricts nothing beside a weekday, as the
tests promise (`scheduleCalculator.test.ts:130-150`), and nothing without one either; and disambiguation "later", which
the dispatcher never asks for, misses instants from within the first pass of a repeated hour.

## 4. Runs

| Run | Question | Instance | Result |
|---|---|---|---|
| `JobStore_d1` | partitions are exclusive, the history is truthful, the store implements `JobLifecycle` (so an attempt is settled once, finality, takeover only after a lapse) | 2 jobs of one partition, 2 workers | holds |
| `JobStore_readcommitted` | partitions are exclusive under read committed | 2 jobs, 2 workers | violated |
| `JobDispatcher_onejob` | the outcome is that of the race, late work is fenced, workers return to their poll, jobs end or are stranded | 1 job of 2 attempts, 2 workers, a crash, effects | holds |
| `JobDispatcher_besteffort` | hooks and history follow the transition, with a crash between the two and a throwing call | 1 job, 2 workers, best-effort history, read committed | holds |
| `JobDispatcher_pgrequired` | an attempt is settled once, and a job ended by one attempt, where rows are not counted | 1 job, 2 workers | violated |
| `ScheduleDispatcher_faulty` | overlap, nothing passed over, nothing fired that was not enqueued, due schedules move on | 1 schedule, 2 workers, 3 occurrences, one fault, one delay | holds |
| `WriteHandler_once` | refinement of `WriteOnce`, receipts, obligations, answers, liveness | 3 requests, 1 key, 1 finalizer, 2 faults; create, update or delete | holds |
| `WriteHandler_notags` | retries succeed for a handler without tags | 2 requests, 1 key, 1 fault | violated |
| `CacheService` | fenced entries, fresh reads | a critical and a best-effort read, 1 key, 2 tags, 1 invalidation, 2 commits | holds |
| `OperationPipeline_runs` | all or nothing, effects once, refinement of `OperationOutcome`, every run is answered | 2 runs of one row: keyed or retried beside plain or read; PostgreSQL and D1 | holds |
| `CrudMutations_races` | no update lost, answers truthful, refinement of `GuardedRecord` | 2 writers of every kind, 2 fields, 3 bundles, one change of policies, every dialect | holds |
| `Calculations` | eleven questions to the pure modules (below) | thousands of inputs; 3 interleaved requests under a limit | holds |

The three violated runs are disagreements of the code with its own documents and comments:

- `JobStore_readcommitted`: the comment at `drizzle-pg/drizzleJobStore.ts:477` says the claim update fences two
  workers racing for one partition. Under read committed each update judges its `NOT EXISTS` by its own snapshot, and
  both jobs run.
- `JobDispatcher_pgrequired`: `pgSession.ts:32` asks for `affectedRows`, which node-postgres does not set, so an
  update that matched no row counts as applied: a worker that lost its claim is told that it settled its attempt, and the
  job, handed on meanwhile, is ended by two different attempts, each settled once.
- `WriteHandler_notags`: `createFrameworkWriteHandler.ts:579` takes the empty list of obligations of a handler
  without tags for an obligation, and without a cache adapter refuses every retry of a committed mutation, against
  `SPECIFICATION.md:163`.

`Calculations` asks one question at a time, and each property is what the answers to one kind of question should be.
`PredicatesSound`: memory, SQL and the simplifier agree, but for negations of the unknown, of which it says what they
select, and the case of texts. `BundlesFailClosed`: a bundle contains every active policy or is not made.
`ScopeIsDecision`: a compiled scope selects the rows the tiers allow. `HiddenStaysHidden`: neither a projection nor a
query tells of hidden fields. `DialectsAgree`, `TenantsApart`, `RetriesAnswered`, `WritesGuarded`: the stores and
repositories, each database by itself and against the others. `LimitKept`: rate limits, the only question with a course
of its own. `DefinitionsUsable` and `OccurrencesFirst`: entity definitions and cron expressions.

Bounds. Two jobs are what a partition needs, two workers what a takeover needs, two attempts what a retry and a last
attempt need; a lease of one tick passes through held, expiring and lapsed. Attempts bound the claims and so the tokens;
`MaxCrashes` and `MaxErrors` bound the faults. For schedules, `MaxNow` bounds the clock so that up to three occurrences
are due at once, `QueueAllLimit` of two is met and exceeded; `MaxFaults` counts deaths and throwing calls, `MaxLate`
leases that run out under a living worker. Three requests are two for one mutation and one that uses their key for
another; two faults let a retry fail as well. For the cache, the properties speak of one entry and one key at a time and
fills come from the database, so one key, a `Capacity` of one entry, one invalidation of two tags (`MaxInvalidations`)
and a commit on either side of it (`MaxVersion` of two) show every order of fill and invalidation; the proofs cover the
rest. For operations, two runs show every conflict over the row, a lock and an outbox key; `MaxRegistered` is what one
callback registers, `MaxEffects` what an attempt does, and `MaxDeferred`, the code's 1000, is 4, the least budget that
two callbacks and their readding fit (see the theorem `PipelineKeepsItsWord`). For mutations, two writers show every
race of two, one change of policies falls between any two decisions, and three bundles tell writes, reads and field
lists apart. In `Calculations`, constants of the code are scaled: the largest safe integer is 6, the default page size
2, a list's default page 4, filters nest one deep and have three conditions; tables have up to four rows. The limit's
situations have three requests, which is one more than any limit, and `MaxTime` of 3 spans two windows.

Deadlock is checked except where everything may really be over: in the runs of the write handler and of the mutations all
requests may be answered. Worker and writer identities are symmetric in safety runs; no liveness run uses symmetry.

Fairness. In `DFairSpec` time passes and a live worker takes its next step, since every wait in dispatchDueJobs is on a
timer, on a store call or on a hook of the user; timers fire and store calls return. Nothing is assumed of executions,
hooks, heartbeats or operators: a hook that never settles keeps its worker (`WorkerReturns`), and jobs end as long as
the hooks of one worker return (`EndsOrIsStranded`). In `SFairSpec` workers keep polling, which their intervals do, and
the lease of a claim nobody holds runs out. In `WFairSpec` a living request takes its next step, so its operation and
its hooks are assumed to settle, a client that was not told of success tries again, the finalizer's interval keeps
firing, and leases of keys and claims run out; faults are bounded and so end. In `OFairSpec` some run that has begun and
does not wait for another's lock goes on: callbacks and statements return or throw. A job whose last attempt is lost
stays running on a lapsed lease, which no condition of claimDue reaches (`drizzleJobStore.ts:462`), though
`core/README.md:218` speaks of recovery of stale leases: `EndsOrIsStranded` says so.

## 5. Proofs

Every theorem holds for every value of the constants that satisfies the named assumptions of its module, and its
hypotheses where it names any. Each safety proof has one shape: an inductive invariant that TLC checked on the run's
instance first, a lemma per action that says what the step does, and a lemma per part of the invariant that each
action that can disturb it keeps it.

`JobLifecycle` proves the abstract promises by the inductive invariant `LifecycleInv`: besides the two promises it needs
that a reported attempt is over and that a job with a reported end is ended (`Recorded`).

`JobProofs` proves of the store, for every set of jobs and workers and every mode, type correctness, and by `RowsStep`
(every way a step may change a row) that final states are final and that a running job changes hands only after its
lease lapsed, the latter with the invariant that every token in use was issued. Where rows are counted or history is
best-effort (`CountsRows \/ ~Required`) an attempt is settled once (`StoreSettlesOnce`) and the history is true
(`StoreHistoryTruthful`): each refers to what a worker was told, so the invariant says of a report that it was of a
transition that was applied. Under `Serial` alone no partition has two live holders (`StoreKeepsPartitionsApart`), and
under both the store implements `JobLifecycle`, step by step. Without `Serial` the run `JobStore_readcommitted`, without
`CountsRows` the run `JobDispatcher_pgrequired` shows the promise broken, so neither hypothesis can go.

Every step of the dispatcher is one of the store or leaves the store alone (the lemma `DispatcherUsesTheStore`), by
which the theorems above carry over to it. That rests on where a worker can be: it retries an attempt only while there
is one left (`Judged`), and on the assumption that the delays of its policy are among those the store is asked for
(`DelaysAssumption`). The invariant has two parts. `StoreInv` says what a claim is worth: an attempt is granted once,
and who holds a row under its token holds the row's attempt (`Grants`); this is why a renewal, which looks at the token
only, tells the current attempt from an earlier one. `DInv` says of each worker that what waits in its batch was neither
started nor settled (`Waits`), that its claim is open until it settles it (`Course`), and that the decision recorded of
its race is the one it acts on (`Decisions`). A lemma per action says that it is `Orderly`: it touches one worker, and
starts, decides or settles no claim but that worker's, which leaves the other workers' parts alone because two workers
never hold a claim of one attempt (`OthersWork`). From this follow `OutcomesMatchRaces`, in every mode of the store,
and, where rows are counted or history is best-effort, `HooksFollow`, `HistoryFollows` and `LateWorkIsFenced`: both ways
late work could get on, from the batch to an execution and from an execution to its effect, pass through a renewal.

`ScheduleProofs` proves the three safety properties of the scheduler, for any schedules, workers, occurrences and
policies and any number of faults. Schedules and workers are finite (`FinitenessAssumption`), so that there always is a
fresh token, and every time has a later occurrence (`ClockAssumption`). The recursive part, least and greatest
occurrences of a set, is taken from well-founded induction once (`NatHasLeast`, `BoundedHasGreatest`). `SInv` says that
what a worker holds is due and its row still at the occurrence of the claim (`ClaimsAt`), which rests on fresh tokens: a
lost claim does not come back (`RowsKept`). And it says that every occurrence the loop has left behind has its job,
unless it gives way to the one before (`LoopAt`). `NoOccurrenceIsPassedOver` and `FiringIsEnqueuedFirst` follow with no
assumption on delays: leases run out anywhere, an enqueue after the last look at the lease included.
`OverlapIsRespected` needs more, since the decision looks at the history and enqueues much later. While nothing is late
a claim is lost only by letting go of it (`Exclusive`), so what a worker saw stays true of its schedule. `HistoryAt`
says that the job under way has the greatest runAt, that the jobs of a row from its next occurrence on are the first
ones, and that a row moves on past the runAt of what it leaves behind: for `fire_now`, whose jobs run at the time of the
poll, that is why looking at the last job by runAt is looking at the right one. `SeesAt` bounds the history by the clock
of the poll, and `LeavesEnded` says that the loop went past no job under way unless it is about to give way.

`WriteHandlerProofs` rests on `WInv`: that a row counts its
commits (`Settled`), what the place of a request says of the row of its key (`RequestAt`: a request past its commit still
owns the row, and nobody is about to complete it while the tags are stale), and that a finalizer only holds committed
rows (`DrainedAt`). `ReceiptTruthful` and `ObligationKept` are parts of it; neither is inductive alone, since completing
a row is safe only because of where the request that does it has been. Every step then is a step of `WriteOnce` or
stutters, which gives `PromiseKept`. The promise itself has an inductive invariant of its own, by which whatever keeps it
commits once and tells one answer (`PromiseMeansOnce`); the two together are `CommittedAndToldOnce`.

`CacheServiceProofs` rests on `CInv`. `EntriesFenced` is not inductive: a vector of generations that is not current
must be known to stay so. `NothingAhead` says that no vector is ahead of the counters; then a vector that differs from
them is behind, and behind for good, also one put together from reads before and after an invalidation. Every entry
and every resolved value is `Sound`: overtaken, or as recent as what is published; the last advance of an invalidation
overtakes every vector of its key at the moment it publishes. For hits, a read whose value is too old has a tag that
its second look will find changed or has found changed (`Noticed`), so looking at all tags twice is as good as one
snapshot of them.

`AnswerProofs` proves three properties of `Calculations`. `LimitKept`, for any number of requests, routes, limits and
windows: every bucket there is, kept or in a request's hands, was reached one request at a time: at each count up to its
own somebody was counted in its window (`Reached`), so whoever is refused is so for requests that were counted. Of a key
of which no count was lost, two requests of one window were counted at different counts (`Exact`), so those admitted are
at most as many as the limit. `DefinitionsUsable`, for any inputs of `defineEntity` and of the two bindings, of which no
more is assumed than that they have their parts, a tenant scoping mode and whole numbers in their windows
(`InputsAssumption`; of the bindings' arguments nothing): normalizing again changes nothing, part by part
(`NormalStands`), so what `validateEntity` accepted it accepts again and so does `CRUD()`; what a binding hands on is an
input of that kind whatever it was given (`FastifyTyped`, `ProjectTyped`); and operations have places of their own
(`PlacesApart`), so that a binding has as many as it serves. `RetriesAnswered`, for whatever jobs and keys a store finds
and whatever is asked of it (`EveryRetryAnswered`): the assumption, `CallsAreMade`, is what the tables' unique indexes
and earlier enqueues leave, namely that no two rows have one key, and that a stored job is fit to be executed and has
the fingerprint of its own scope and tenant; a call has its arguments, an enqueue a new id, and tags that are written
can be read. TLC checks it of the run's rows and calls. Then the row an enqueue answers is the only one with its key in
the table it leaves (`AnswersFor`), and a committed key's row is alone with it (`Alone`): a retry finds that row and no
other, whatever status it has come to, and its fingerprint decides. The argument is made for PostgreSQL. That D1 and
MySQL give the same answers and leave the same tables is proved operation by operation (`SameEnqueue`, `SameKeyCall`),
which for idempotency keys is their part of `DialectsAgree` on every table (`KeyStoresAgree`).

`CrudMutationsProofs` rests on `CInv`: types, where the course of a request has led it, what it may have answered and
what it has made sure of before it writes (`Path`, `Answered`, `Decided`), that the lock is held by the request with a
change to commit (`Locked`), that this change is one the policies permit (`PendingPermitted`), and that the log is the
row's history in order (`VersionsTell`, `ChangesInOrder`, `CreatedOnce`, `Logged`). Every step is quiet, takes the lock,
releases it or commits a permitted change; the last is a step of `GuardedRecord`. Two lemmas carry the policies' side:
writing fewer fields is allowed where writing more is (`WritingLessIsAllowed`), and a merged record is a record
(`MergeMakesRecords`). Of the policies themselves, which that proof takes as they are, the same module proves for every
set of policies and any conditions: the filter a query is given selects the records the tiers allow one by one
(`ScopesDecideAsTiers`; the reason is that the tier of any matching policy with nothing above it is the tier that
decides), a collection refused outright holds no allowed record (`RefusedCollectionsAreEmpty`, from the assumption
`StaticConditions` that what is true or false before a record is seen is so of every record), and one more denial never
lets more through, of a decision, a filter or a write (`DenialsOnlyRestrict`). That compiled predicates mean the same in
the database as the tiers in memory is the part left to the run of `Calculations` (`ScopeIsDecision`).

`OperationPipelineProofs` rests on `OInv`: for each run, where it may be and with which database session (`OPath`,
`OHeld`), what its collector holds (`OCollected`), when its transactional effect was called (`OCalled`), that the
best-effort effects accepted are those run, queued or taken, each once (`ODeferrals`, `ORoom`), and what its commit left
in the tables (`OCommitted`); across runs, that two never hold the row's or a key's lock (`OLocks`). From it follow
`AllOrNothing` and `EffectsOnce`, for any number of runs. `PipelineKeepsItsWord` states that the pipeline implements
`OperationOutcome` under `HalfTheBudget`: the deferral budget is at least twice what the hooks and the business function
register. That is the condition outside which the code answers an ordinary error after a commit (section 3), and holds
in the run. What that outcome is worth is proved of the abstract specification alone (`OutcomeMeansHonesty`: one update
of the row at most, success told only after it, failure only without it), and the two together give `HonestAnswer`
(`CallersAreToldHonestly`).

Left to TLC. Liveness under fairness and ENABLED are beyond the prover. The properties of `Calculations` except
`LimitKept`, `DefinitionsUsable` and `RetriesAnswered` rest on predicates, policies and rows that are recursive data: a
RECURSIVE operator cannot be reasoned about here, and induction over trees needs theorems with operator parameters, which
no installed prover instantiates. Of the stores, so does what claims and lists rows in an order (`JobsAgree`,
`SchedulesAgree`, `RequestersApart`): the library's sorting cannot be expanded by the prover.
Of the schedule dispatcher that is `DueSchedulesMoveOn`.

## 6. Not modelled, and the plan

Not modelled because they have no state or order to speak of: parsing and routing of HTTP requests, server bindings beyond
their definitions, error classes, fingerprints and canonical JSON (compared as values), the user interface's rendering.
The user interface's query builder, which composes the filters that `ReadHandlers` parses, is a calculation that could
join `Calculations`: its advanced mode submits conditions nobody filled in, keeps the pair of a `between` when another
operator is chosen, and allows more conditions than the server accepts. Of the cache, `InMemoryCacheAdapter.clear()` and
KV adapters without a generation store are left out; of the idempotency store, what nothing calls (releaseSchedule,
ackInvalidations, completeClaimedInvalidation) appears only as statements in `*Stores`. Delivery of outbox records is not
in this repository.

Next: the query builder as a question of `Calculations`.

-------------------------- MODULE OperationPipeline --------------------------
(***************************************************************************)
(* Operations (runOperation) that mutate, or read, one versioned row: the  *)
(* standard pipeline over an interactive transaction (PostgreSQL, MySQL)   *)
(* or over none, and the pipeline that ends in one atomic batch (D1).      *)
(*                                                                         *)
(* The code of an application - hooks, the body, effects - is what it may  *)
(* register, fail with and write; a run may die at any step, a statement   *)
(* may fail, and the outcome of a commit may not become known.             *)
(***************************************************************************)
EXTENDS Integers, Sequences, FiniteSets

CONSTANTS
    Ops,          \* operation runs, each with an operation id of its own
    Definitions,  \* the operation definitions each run may be given
    Environments, \* what the server provides: see EnvironmentRecord
    Records,      \* the outbox records each run's code may register
    MaxDeferred,  \* OperationEffectCollector.defaultMaxDeferredEffects
    MaxRegistered, \* bound on the best-effort effects the body registers
    MaxEffects    \* bound on the best-effort effects of one attempt

Backends == {"postgresql", "mysql", "cloudflare-d1"}
AuditGuarantees == {"absent", "atomic", "durable", "best-effort"}

DefinitionRecord ==
    [kind: {"read", "mutation"},
     atomicity: {"none", "preferred", "required", "atomic-batch"},
     atomicBatch: BOOLEAN,  \* a standard mutation that can also run as a batch
     audit: AuditGuarantees,
     auditRequired: {"yes", "unset", "no"},
     auditFallback: BOOLEAN,     \* fallbackAuditGuarantee is "best-effort"
     outboxRequired: BOOLEAN,
     maxAttempts: Nat,      \* of the transaction retry policy; 0 without one
     marker: BOOLEAN]       \* the request brought a commit marker

EnvironmentRecord == [backend: Backends, actor: BOOLEAN, sinks: BOOLEAN]

\* Commit markers come with idempotent writes (createFrameworkWriteHandler).
ASSUME DefinitionsAssumption ==
    Definitions \in [Ops -> SUBSET {d \in DefinitionRecord : d.marker => d.kind = "mutation"}]
ASSUME RecordsAssumption == \A o \in Ops : \A r \in Records[o] : r.key \notin Ops
ASSUME EnvironmentsAssumption == Environments \subseteq EnvironmentRecord
ASSUME BoundsAssumption == 
    MaxDeferred \in Nat /\ MaxRegistered \in Nat /\ MaxEffects \in Nat

VARIABLES
    env,      \* the environment all runs share
    def,      \* the definition of each run
    row,      \* the runs that updated the row, in order: its version is Len(row)
    audits,   \* the runs whose audit record is in the audit table
    outbox,   \* the outbox table
    receipts, \* the runs whose commit marker's receipt is in the database
    pc,       \* where each run is
    base,     \* the version its update expects
    attempt,  \* transactions it has begun
    effects,  \* its collector: it holds a transactional effect,
    records,  \*   outbox records,
    queue,    \*   best-effort effects,
    budget,   \*   and deferredEffectCount
    taken,    \* pendingEffects: best-effort effects taken at the commit
    written,  \* uncommitted writes of its transaction: "row", "audit", "receipt"
    appended, \* outbox records in its transaction, or its batch
    failed,   \* a post-commit callback threw
    answer,   \* what the caller was told
    accepted, \* history: outbox records its last attempt's collector accepted
    promised, \* history: best-effort effects that collector accepted
    calls,    \* history: how often its transactional effect was executed
    ran       \* history: best-effort effects executed, in order

tables == <<row, audits, outbox, receipts>>
collector == <<effects, records, queue, budget, taken>>
session == <<written, appended>>
histories == <<accepted, promised, calls, ran>>
vars == <<env, def, tables, pc, base, attempt, collector, session, failed,
          answer, histories>>

(***************************************************************************)
(* Definitions.                                                            *)
(***************************************************************************)
HasRequiredAtomicity(d) == d.atomicity \in {"required", "atomic-batch"}

ValidAuditAndOutbox(d) ==
    /\ d.audit # "absent" /\ d.auditRequired = "yes"
          => d.audit # "best-effort" /\ ~d.auditFallback
    /\ d.audit = "atomic" => HasRequiredAtomicity(d)
    /\ d.audit = "durable" => d.atomicity = "required" \/ d.auditFallback
    /\ d.outboxRequired => HasRequiredAtomicity(d)

\* validateOperationDefinition() lets the definition through.
Valid(d) ==
    /\ d.kind = "mutation" => HasRequiredAtomicity(d)
    /\ d.atomicity = "atomic-batch" => d.kind = "mutation"
    /\ d.maxAttempts > 0 => d.atomicity \in {"preferred", "required"}
    /\ ValidAuditAndOutbox(d)

SupportsTransactions(e) == e.backend # "cloudflare-d1"
SupportsAtomicBatch(e) == e.backend = "cloudflare-d1"

UsesTransaction(d, e) ==
    d.atomicity \in {"preferred", "required"} /\ SupportsTransactions(e)

UsesBatch(d, e) ==
    /\ SupportsAtomicBatch(e)
    /\ \/ d.atomicity = "atomic-batch"
       \/ d.atomicity = "required" /\ d.kind = "mutation" /\ d.atomicBatch

UsesNeither(d, e) ==
    \/ d.atomicity = "none"
    \/ d.atomicity = "preferred" /\ ~SupportsTransactions(e)

\* How a standard operation delivers its audit record.
AuditDelivery(d, e) ==
    IF d.audit = "durable" /\ SupportsTransactions(e) THEN "outbox"
    ELSE IF d.audit = "atomic" THEN "transactional"
    ELSE "best-effort"

\* Outbox audit without transactions: only where the fallback was chosen.
AuditDeliverable(d, e) ==
    d.audit = "durable" /\ ~SupportsTransactions(e)
        => d.auditFallback /\ d.auditRequired = "no"

Preflight(d, e) ==
    /\ d.audit # "absent" =>
         /\ d.auditRequired = "yes" => AuditDelivery(d, e) # "best-effort"
         /\ d.auditRequired # "no" =>
              /\ e.actor /\ e.sinks
              /\ AuditDelivery(d, e) # "best-effort" => d.atomicity = "required"
    /\ d.outboxRequired => e.sinks /\ d.atomicity = "required"

Audited(o) == def[o].audit # "absent" /\ env.actor
\* The record of a durable audit, under the idempotency key of its operation.
AuditEvent(o) == [key |-> o, event |-> "audit"]

(***************************************************************************)
(* States.                                                                 *)
(***************************************************************************)
InCallback == {"before", "execute", "after", "effects", "audit", "append", "marker"}
PreCommit == {"idle", "open", "prepare", "fence"} \cup InCallback
Committing == {"commit", "batch"}
PostCommit == {"readd", "verify", "business", "hooks", "deferred"}
Ended == {"done", "dead"}
Places == PreCommit \cup Committing \cup PostCommit \cup Ended

Answers == {"none", "result", "committed", "failed", "unknown"}
Parts == {"row", "audit", "receipt"}
OutboxRecords == (UNION {Records[o] : o \in Ops}) \cup {AuditEvent(o) : o \in Ops}
\* A best-effort effect, by the transaction it was registered in and the count
\* it was registered at.
Deferred == [attempt: Nat, n: Nat]

Mutates(o) == def[o].kind = "mutation"
InTransaction(o) == UsesTransaction(def[o], env)
InBatch(o) == UsesBatch(def[o], env)
Updated(o) == \E i \in 1..Len(row) : row[i] = o

OTypeOK ==
    /\ env \in Environments
    /\ def \in [Ops -> DefinitionRecord] /\ \A o \in Ops : def[o] \in Definitions[o]
    /\ row \in Seq(Ops)
    /\ audits \subseteq Ops /\ receipts \subseteq Ops
    /\ outbox \subseteq OutboxRecords
    /\ pc \in [Ops -> Places]
    /\ base \in [Ops -> Nat] /\ attempt \in [Ops -> Nat]
    /\ effects \in [Ops -> BOOLEAN]
    /\ records \in [Ops -> SUBSET OutboxRecords]
    /\ queue \in [Ops -> Seq(Deferred)] /\ budget \in [Ops -> Nat]
    /\ taken \in [Ops -> Seq(Deferred)]
    /\ written \in [Ops -> SUBSET Parts]
    /\ appended \in [Ops -> SUBSET OutboxRecords]
    /\ failed \in [Ops -> BOOLEAN]
    /\ answer \in [Ops -> Answers]
    /\ accepted \in [Ops -> SUBSET OutboxRecords]
    /\ promised \in [Ops -> SUBSET Deferred]
    /\ calls \in [Ops -> Nat]
    /\ ran \in [Ops -> Seq(Deferred)]

OInit ==
    /\ env \in Environments
    /\ def \in [Ops -> UNION {Definitions[o] : o \in Ops}]
    /\ \A o \in Ops : def[o] \in Definitions[o]
    /\ row = <<>> /\ audits = {} /\ outbox = {} /\ receipts = {}
    /\ pc = [o \in Ops |-> "idle"]
    /\ base = [o \in Ops |-> 0] /\ attempt = [o \in Ops |-> 0]
    /\ effects = [o \in Ops |-> FALSE] /\ records = [o \in Ops |-> {}]
    /\ queue = [o \in Ops |-> <<>>] /\ budget = [o \in Ops |-> 0]
    /\ taken = [o \in Ops |-> <<>>]
    /\ written = [o \in Ops |-> {}] /\ appended = [o \in Ops |-> {}]
    /\ failed = [o \in Ops |-> FALSE]
    /\ answer = [o \in Ops |-> "none"]
    /\ accepted = [o \in Ops |-> {}] /\ promised = [o \in Ops |-> {}]
    /\ calls = [o \in Ops |-> 0] /\ ran = [o \in Ops |-> <<>>]

(***************************************************************************)
(* Steps of both pipelines.                                                *)
(***************************************************************************)
Goto(o, place) == pc' = [pc EXCEPT ![o] = place]

\* dispose(): the collector is emptied.
Dispose(o) ==
    /\ effects' = [effects EXCEPT ![o] = FALSE]
    /\ records' = [records EXCEPT ![o] = {}]
    /\ queue' = [queue EXCEPT ![o] = <<>>]
    /\ budget' = [budget EXCEPT ![o] = 0]
    /\ taken' = [taken EXCEPT ![o] = <<>>]

Ends(o, told) ==
    /\ Goto(o, "done")
    /\ answer' = [answer EXCEPT ![o] = told]
    /\ Dispose(o)

DiscardRecords(o) ==
    /\ appended' = [appended EXCEPT ![o] = {}]
    /\ UNCHANGED written

Discard(o) ==
    /\ written' = [written EXCEPT ![o] = {}]
    /\ appended' = [appended EXCEPT ![o] = {}]

Accepts(d, e) ==
    /\ Valid(d)
    /\ UsesTransaction(d, e) \/ UsesBatch(d, e) \/ UsesNeither(d, e)
    /\ ~UsesBatch(d, e) => AuditDeliverable(d, e)

\* runOperation() validates the definition and chooses the pipeline; the
\* caller has read the row it is about to change.
Start(o) ==
    /\ pc[o] = "idle" /\ Accepts(def[o], env)
    /\ base' = [base EXCEPT ![o] = Len(row)]
    /\ Goto(o, IF InTransaction(o) THEN "open" ELSE IF InBatch(o) THEN "prepare" ELSE "before")
    /\ UNCHANGED <<env, def, tables, attempt, collector, session, failed, answer, histories>>

Refuse(o) ==
    /\ pc[o] = "idle" /\ ~Accepts(def[o], env)
    /\ Ends(o, "failed")
    /\ UNCHANGED <<env, def, tables, base, attempt, session, failed, histories>>

\* The best-effort effects a collector that has counted k accepts next.
Fresh(o, k, n) == [i \in 1..n |-> [attempt |-> attempt[o], n |-> k + i]]
Elements(s) == {s[i] : i \in 1..Len(s)}

\* Application code registers a best-effort effect after the commit, or none.
Late(o) == IF Cardinality(promised[o]) < MaxEffects THEN 0..1 ELSE {0}

\* Bound: application code registers one outbox record at a time.
Registrations(o) == {{}} \cup {{r} : r \in Records[o]}

\* addBestEffortEffect(), n times; a read's collector refuses.
Defer(o, n) ==
    /\ n > 0 => Mutates(o) /\ budget[o] + n <= MaxDeferred
    /\ queue' = [queue EXCEPT ![o] = @ \o Fresh(o, budget[o], n)]
    /\ budget' = [budget EXCEPT ![o] = @ + n]
    /\ promised' = [promised EXCEPT ![o] = @ \cup Elements(Fresh(o, budget[o], n))]

(***************************************************************************)
(* The standard pipeline.                                                  *)
(***************************************************************************)
\* An attempt begins: a transaction, and an empty collector.
Open(o) ==
    /\ pc[o] = "open"
    /\ attempt' = [attempt EXCEPT ![o] = @ + 1]
    /\ accepted' = [accepted EXCEPT ![o] = {}]
    /\ promised' = [promised EXCEPT ![o] = {}]
    /\ Goto(o, "before")
    /\ UNCHANGED <<env, def, tables, base, collector, session, failed, answer, calls, ran>>

\* The before hooks run, the caller is authorized, preflight() passes, and the
\* hooks or the body register what is to happen with the commit and after it.
Before(o) ==
    /\ pc[o] = "before" /\ Preflight(def[o], env)
    /\ \E effect \in BOOLEAN, R \in Registrations(o), n \in 0..MaxRegistered :
         /\ effect \/ R # {} => Mutates(o)
         /\ effects' = [effects EXCEPT ![o] = effect]
         /\ records' = [records EXCEPT ![o] = R]
         /\ accepted' = [accepted EXCEPT ![o] = R]
         /\ Defer(o, n)
    /\ Goto(o, "execute")
    /\ UNCHANGED <<env, def, tables, base, attempt, taken, session, failed, answer, calls, ran>>

RowLocked(o) == \E p \in Ops \ {o} : "row" \in written[p]

\* The body updates the row (repository.update), once no other transaction
\* has it locked and if the version is still the expected one.
Execute(o) ==
    /\ pc[o] = "execute"
    /\ Mutates(o) => ~RowLocked(o) /\ base[o] = Len(row)
    /\ written' = [written EXCEPT ![o] = IF Mutates(o) THEN {"row"} ELSE {}]
    /\ Goto(o, "after")
    /\ UNCHANGED <<env, def, tables, base, attempt, collector, appended, failed, answer, histories>>

DeliversAudit(o, how) == Audited(o) /\ AuditDelivery(def[o], env) = how

\* The after hooks run, and buildAudit() registers the audit record or leaves
\* it to writeAudit(); effects need a transaction, a read's collector takes none.
After(o) ==
    /\ pc[o] = "after"
    /\ effects[o] \/ records[o] # {} => InTransaction(o)
    /\ DeliversAudit(o, "outbox") => Mutates(o)
    /\ LET events == IF DeliversAudit(o, "outbox") THEN {AuditEvent(o)} ELSE {} IN
         /\ records' = [records EXCEPT ![o] = @ \cup events]
         /\ accepted' = [accepted EXCEPT ![o] = @ \cup events]
    /\ Defer(o, IF DeliversAudit(o, "best-effort") /\ env.sinks THEN 1 ELSE 0)
    /\ Goto(o, "effects")
    /\ UNCHANGED <<env, def, tables, base, attempt, effects, taken, session, failed, answer, calls, ran>>

\* The transactional effect is executed; it may register outbox records.
RunEffect(o) ==
    /\ pc[o] = "effects"
    /\ \E R \in Registrations(o) :
         /\ R # {} => effects[o]
         /\ records' = [records EXCEPT ![o] = @ \cup R]
         /\ accepted' = [accepted EXCEPT ![o] = @ \cup R]
    /\ calls' = [calls EXCEPT ![o] = IF effects[o] THEN @ + 1 ELSE @]
    /\ Goto(o, "audit")
    /\ UNCHANGED <<env, def, tables, base, attempt, effects, queue, budget, taken, session, failed, answer, promised, ran>>

\* The audit record goes into the transaction; one that only reads refuses it.
WriteAudit(o) ==
    /\ pc[o] = "audit"
    /\ DeliversAudit(o, "transactional") => env.sinks /\ Mutates(o)
    /\ written' = [written EXCEPT ![o] =
            @ \cup (IF DeliversAudit(o, "transactional") THEN {"audit"} ELSE {})]
    /\ Goto(o, "append")
    /\ UNCHANGED <<env, def, tables, base, attempt, collector, appended, failed, answer, histories>>

Clash(r, q) == r.key = q.key /\ r # q

\* Another transaction has inserted a record of the same key.
KeyLocked(o) == \E p \in Ops \ {o} : \E r \in records[o], q \in appended[p] : q.key = r.key

AppendWhatIsNew(o) ==
    /\ pc[o] = "append"
    /\ records[o] # {} => env.sinks
    /\ ~KeyLocked(o)
    /\ appended' = [appended EXCEPT ![o] =
            {r \in records[o] : \A q \in outbox : q.key # r.key}]
    /\ Goto(o, "marker")
    /\ UNCHANGED <<env, def, tables, base, attempt, collector, written, failed, answer, histories>>

\* persistOutbox(): the insert waits for an uncommitted record of the same key;
\* a record already there is left alone, another one with its key a conflict.
AppendOutbox(o) ==
    /\ pc[o] = "append"
    /\ records[o] # {} => env.sinks
    /\ ~KeyLocked(o) /\ \A r \in records[o], q \in records[o] \cup outbox : ~Clash(r, q)
    /\ appended' = [appended EXCEPT ![o] = records[o] \ outbox]
    /\ Goto(o, "marker")
    /\ UNCHANGED <<env, def, tables, base, attempt, collector, written, failed, answer, histories>>

TakeACopy(o) ==
    /\ taken' = [taken EXCEPT ![o] = queue[o]]
    /\ effects' = [effects EXCEPT ![o] = FALSE]
    /\ records' = [records EXCEPT ![o] = {}]
    /\ UNCHANGED queue

\* takePreCommitEffects()
Take(o) ==
    /\ taken' = [taken EXCEPT ![o] = queue[o]]
    /\ queue' = [queue EXCEPT ![o] = <<>>]
    /\ effects' = [effects EXCEPT ![o] = FALSE]
    /\ records' = [records EXCEPT ![o] = {}]

\* The commit marker writes its receipt. Outside a transaction nothing is left
\* to commit, and the effects are taken.
CommitMarker(o) ==
    /\ pc[o] = "marker"
    /\ written' = [written EXCEPT ![o] = @ \cup (IF def[o].marker THEN {"receipt"} ELSE {})]
    /\ IF InTransaction(o)
         THEN Goto(o, "commit") /\ UNCHANGED <<effects, records, queue, taken>>
         ELSE Goto(o, "readd") /\ Take(o)
    /\ UNCHANGED <<env, def, tables, base, attempt, budget, appended, failed, answer, histories>>

\* What commits, commits together.
Publish(o) ==
    /\ row' = IF "row" \in written[o] THEN Append(row, o) ELSE row
    /\ audits' = IF "audit" \in written[o] THEN audits \cup {o} ELSE audits
    /\ receipts' = IF "receipt" \in written[o] THEN receipts \cup {o} ELSE receipts
    /\ outbox' = outbox \cup appended[o]

\* The callback has returned: the transaction commits.
Commit(o) ==
    /\ pc[o] = "commit"
    /\ Publish(o) /\ Discard(o) /\ Take(o)
    /\ Goto(o, "readd")
    /\ UNCHANGED <<env, def, base, attempt, budget, failed, answer, histories>>

\* The commit throws, whether it took place or not; the operation is not rerun.
CommitThrows(o) ==
    /\ pc[o] = "commit"
    /\ Publish(o) \/ UNCHANGED tables
    /\ Discard(o)
    /\ Ends(o, "unknown")
    /\ UNCHANGED <<env, def, base, attempt, failed, histories>>

HadRecords(o) == records[o] # {} \/ def[o].marker

HadSideEffects(o) == effects[o] \/ records[o] # {} \/ def[o].marker

\* Something in the callback throws, a RetryablePersistenceError or another
\* error. The transaction is rolled back and the run ends, or begins anew.
CallbackThrows(o) ==
    /\ pc[o] \in InCallback
    /\ Discard(o)
    /\ \E retryable \in BOOLEAN :
         IF /\ retryable /\ InTransaction(o) /\ ~HadSideEffects(o)
            /\ attempt[o] < def[o].maxAttempts
         THEN Goto(o, "open") /\ Dispose(o) /\ UNCHANGED answer
         ELSE Ends(o, "failed")
    /\ UNCHANGED <<env, def, tables, base, attempt, failed, histories>>

(***************************************************************************)
(* The atomic-batch pipeline. "written" and "appended" are the items of    *)
(* the batch: nothing of them is in the database before it executes.       *)
(***************************************************************************)
\* Hooks, authorization and prepare() build the batch; the collector is closed.
Prepare(o) ==
    /\ pc[o] = "prepare"
    /\ def[o].audit # "absent" /\ def[o].auditRequired # "no" => env.actor
    /\ \E R \in Registrations(o), n \in 0..MaxRegistered :
         /\ n <= MaxDeferred
         /\ appended' = [appended EXCEPT ![o] = R]
         /\ accepted' = [accepted EXCEPT ![o] = R]
         /\ taken' = [taken EXCEPT ![o] = Fresh(o, 0, n)]
         /\ promised' = [promised EXCEPT ![o] = Elements(Fresh(o, 0, n))]
         /\ budget' = [budget EXCEPT ![o] = n]
    /\ written' = [written EXCEPT ![o] =
            {"row"} \cup (IF Audited(o) THEN {"audit"} ELSE {})
                    \cup (IF def[o].marker THEN {"receipt"} ELSE {})]
    /\ Goto(o, "fence")
    /\ UNCHANGED <<env, def, tables, base, attempt, effects, records, queue, failed, answer, calls, ran>>

\* The markers' fences hold, and the provider looks for outbox records that are
\* there already: the same one is left out, another one of its key a conflict.
Precheck(o) ==
    /\ pc[o] = "fence"
    /\ \A r \in appended[o] : \A q \in appended[o] \cup outbox : ~Clash(r, q)
    /\ appended' = [appended EXCEPT ![o] = @ \ outbox]
    /\ Goto(o, "batch")
    /\ UNCHANGED <<env, def, tables, base, attempt, collector, written, failed, answer, histories>>

PrepareThrows(o) ==
    /\ pc[o] \in {"prepare", "fence"}
    /\ Discard(o)
    /\ Ends(o, "failed")
    /\ UNCHANGED <<env, def, tables, base, attempt, failed, histories>>

BatchHoldsUnversioned(o) ==
    \A r \in appended[o] : \A q \in outbox : q.key # r.key

\* The mutation assertion counts one changed row, and the unique index on
\* scope and key lets every outbox record in.
BatchHolds(o) ==
    /\ base[o] = Len(row)
    /\ \A r \in appended[o] : \A q \in outbox : q.key # r.key

ExecuteBatch(o) ==
    /\ pc[o] = "batch" /\ BatchHolds(o)
    /\ Publish(o) /\ Discard(o)
    /\ Goto(o, "verify")
    /\ UNCHANGED <<env, def, base, attempt, collector, failed, answer, histories>>

\* The batch aborts as a whole: one of these, a lost reservation, a limit.
BatchAborts(o) ==
    /\ pc[o] = "batch"
    /\ Discard(o)
    /\ Ends(o, "failed")
    /\ UNCHANGED <<env, def, tables, base, attempt, failed, histories>>

\* The call for the batch fails, whether it was executed or not.
BatchUnknown(o) ==
    /\ pc[o] = "batch"
    /\ (BatchHolds(o) /\ Publish(o)) \/ UNCHANGED tables
    /\ Discard(o)
    /\ Ends(o, "unknown")
    /\ UNCHANGED <<env, def, base, attempt, failed, histories>>

\* The results are validated, verify() and the after hooks run; they too may
\* register a best-effort effect.
Verify(o) ==
    /\ pc[o] = "verify"
    /\ \E n \in Late(o) : Defer(o, n)
    /\ Goto(o, "business")
    /\ UNCHANGED <<env, def, tables, base, attempt, effects, records, taken, session, failed, answer, accepted, calls, ran>>

\* One of them throws, an OperationCommittedEffectError.
VerifyThrows(o) ==
    /\ pc[o] = "verify"
    /\ Ends(o, "committed")
    /\ UNCHANGED <<env, def, tables, base, attempt, session, failed, histories>>

(***************************************************************************)
(* After the commit: the standard pipeline registers the effects it took   *)
(* again and then calls onBusinessResult, the batch pipeline the other way *)
(* round.                                                                  *)
(***************************************************************************)
\* The effects taken are registered again, and count again towards the budget:
\* beyond it addBestEffortEffect() throws a ConfigurationError out of the run.
Readd(o) ==
    /\ pc[o] = "readd"
    /\ IF budget[o] + Len(taken[o]) <= MaxDeferred
         THEN /\ queue' = [queue EXCEPT ![o] = @ \o taken[o]]
              /\ budget' = [budget EXCEPT ![o] = @ + Len(taken[o])]
              /\ taken' = [taken EXCEPT ![o] = <<>>]
              /\ Goto(o, IF InBatch(o) THEN "hooks" ELSE "business")
              /\ UNCHANGED <<effects, records, answer>>
         ELSE Ends(o, "failed")
    /\ UNCHANGED <<env, def, tables, base, attempt, session, failed, histories>>

\* onBusinessResult, then the afterCommit hooks; what they throw is kept for
\* the end. Each may register a best-effort effect.
Callback(o, place, next) ==
    /\ pc[o] = place
    /\ \E throws \in BOOLEAN : failed' = [failed EXCEPT ![o] = @ \/ throws]
    /\ \E n \in Late(o) : Defer(o, n)
    /\ Goto(o, next)
    /\ UNCHANGED <<env, def, tables, base, attempt, effects, records, taken, session, answer, accepted, calls, ran>>

OnBusinessResult(o) == Callback(o, "business", IF InBatch(o) THEN "readd" ELSE "hooks")
AfterCommitHooks(o) == Callback(o, "hooks", "deferred")

\* runPendingEffects(): the next effect runs, and may register another.
RunDeferred(o) ==
    /\ pc[o] = "deferred" /\ queue[o] # <<>>
    /\ ran' = [ran EXCEPT ![o] = Append(@, Head(queue[o]))]
    /\ \E n \in Late(o) :
         /\ budget[o] + n <= MaxDeferred
         /\ queue' = [queue EXCEPT ![o] = Tail(@) \o Fresh(o, budget[o], n)]
         /\ budget' = [budget EXCEPT ![o] = @ + n]
         /\ promised' = [promised EXCEPT ![o] = @ \cup Elements(Fresh(o, budget[o], n))]
    /\ UNCHANGED <<env, def, tables, pc, base, attempt, effects, records, taken, session, failed, answer, accepted, calls>>

Return(o) ==
    /\ pc[o] = "deferred" /\ queue[o] = <<>>
    /\ Ends(o, IF failed[o] THEN "committed" ELSE "result")
    /\ UNCHANGED <<env, def, tables, base, attempt, session, failed, histories>>

\* The process dies, and the database drops what it had not committed.
Crash(o) ==
    /\ pc[o] \notin {"idle"} \cup Ended
    /\ Goto(o, "dead")
    /\ Discard(o) /\ Dispose(o)
    /\ UNCHANGED <<env, def, tables, base, attempt, failed, answer, histories>>

Transacts(o) ==
    \/ Open(o) \/ Before(o) \/ Execute(o) \/ After(o) \/ RunEffect(o)
    \/ WriteAudit(o) \/ AppendOutbox(o) \/ CommitMarker(o)
    \/ Commit(o) \/ CommitThrows(o) \/ CallbackThrows(o)

Batches(o) ==
    \/ Prepare(o) \/ Precheck(o) \/ PrepareThrows(o)
    \/ ExecuteBatch(o) \/ BatchAborts(o) \/ BatchUnknown(o)
    \/ Verify(o) \/ VerifyThrows(o)

Finishes(o) ==
    \/ Readd(o) \/ OnBusinessResult(o) \/ AfterCommitHooks(o)
    \/ RunDeferred(o) \/ Return(o)

Proceeds(o) == Start(o) \/ Refuse(o) \/ Transacts(o) \/ Batches(o) \/ Finishes(o)

AllEnded == (\A o \in Ops : pc[o] \in Ended) /\ UNCHANGED vars

ONext == (\E o \in Ops : Proceeds(o) \/ Crash(o)) \/ AllEnded

OSpec == OInit /\ [][ONext]_vars

Waits(o) ==
    \/ pc[o] = "execute" /\ Mutates(o) /\ RowLocked(o)
    \/ pc[o] = "append" /\ KeyLocked(o)

\* Callbacks and statements return or throw, but a statement that waits for
\* another run's lock may do so for as long as the lock is held.
OFairSpec ==
    OSpec /\ WF_vars(\E o \in Ops : pc[o] # "idle" /\ ~Waits(o) /\ Proceeds(o))

(***************************************************************************)
(* What is checked.                                                        *)
(***************************************************************************)
\* An update is in the database together with everything its run registered
\* for the commit - outbox records, the audit record, the receipt of its
\* marker - and nothing of a run whose update is not there is: in one
\* transaction or one batch, whatever throws or dies, and although another
\* run may append a record of the same key at the same time.
AllOrNothing ==
    /\ \A o \in Ops : Updated(o) =>
         /\ accepted[o] \subseteq outbox
         /\ def[o].marker => o \in receipts
         /\ Audited(o) /\ (InBatch(o) \/ DeliversAudit(o, "transactional")) => o \in audits
         /\ DeliversAudit(o, "outbox") => AuditEvent(o) \in outbox
    /\ \A o \in audits \cup receipts : Updated(o)
    /\ \A r \in outbox : \E o \in Ops : Updated(o) /\ r \in accepted[o]
    /\ \A r, q \in outbox : ~Clash(r, q)

\* The caller is told of success only after the update is committed, and an
\* error that does not say so (OperationCommittedEffectError) means that it is
\* not: work after the commit that fails is not reported as a rollback.
HonestAnswer ==
    \A o \in Ops : Mutates(o) =>
        /\ answer[o] \in {"result", "committed"} => Updated(o)
        /\ answer[o] = "failed" => ~Updated(o)

NoRepetition(s) == \A i, j \in 1..Len(s) : s[i] = s[j] => i = j

\* Effects run once at most.  A transactional effect may have acted outside the
\* database: a transaction that registered one is not rerun.  Best-effort
\* effects run after the commit, only those the committed attempt registered,
\* and all of those before the caller gets its result - however they are taken,
\* registered again, and joined by others that callbacks and effects register
\* meanwhile.
EffectsOnce ==
    \A o \in Ops :
        /\ calls[o] <= 1 /\ NoRepetition(ran[o])
        /\ Mutates(o) /\ ran[o] # <<>> => Updated(o)
        /\ Elements(ran[o]) \subseteq promised[o]
        /\ answer[o] = "result" => Elements(ran[o]) = promised[o]

Outcome == INSTANCE OperationOutcome WITH
    mutations <- {o \in Ops : Mutates(o)}, told <- answer

\* Seen from outside, an operation updates the row once or not at all, from
\* the version its caller saw, and then tells the caller so (OperationOutcome).
ImplementsOutcome == Outcome!Spec

\* A run that has begun is answered, unless its process dies: no lock or
\* uncommitted record of another run holds it up for ever.
AnsweredOrDead == <>[](\A o \in Ops : pc[o] \in {"idle"} \cup Ended)
=============================================================================

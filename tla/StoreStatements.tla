--------------------------- MODULE StoreStatements ---------------------------
(* What one call of a store should do, whichever database it runs on: the     *)
(* three databases are compared with one another, and calls that follow each  *)
(* other with what was asked of the first.                                    *)
EXTENDS StoreRows

CONSTANTS
    JobTables, JobCalls, ScheduleTables, ScheduleCalls, KeyTables, KeyCalls
                     \* the rows a store may find, and the calls of it

VARIABLE storeCall   \* the call that is asked about, and the rows it finds

Pg == INSTANCE PgStores
D1 == INSTANCE D1Stores
MySql == INSTANCE MySqlStores

CallJobStore ==
    \E table \in JobTables, call \in JobCalls : storeCall' = [subject |-> "jobs", table |-> table, call |-> call]
CallScheduleStore ==
    \E table \in ScheduleTables, call \in ScheduleCalls :
        storeCall' = [subject |-> "schedules", table |-> table, call |-> call]
CallIdempotencyStore ==
    \E table \in KeyTables, call \in KeyCalls : storeCall' = [subject |-> "keys", table |-> table, call |-> call]

Unasked == [subject |-> "nothing"]
StoresSpec ==
    /\ storeCall = Unasked
    /\ [][CallJobStore \/ CallScheduleStore \/ CallIdempotencyStore \/ storeCall' = Unasked]_storeCall

-----------------------------------------------------------------------------
(* The rows there can be, and the calls that can be made *)

\* Jobs that were enqueued: fit to be executed, each under its id, with the
\* fingerprint of what it was enqueued with, and under a key of its own if it
\* has one.
EnqueuedJobs(table) ==
    /\ IsTable(table)
    /\ \A i \in DOMAIN table :
          /\ JobColumns \subseteq DOMAIN table[i]
          /\ table[i].id = i
          /\ AssertStoredJobShape(ToStoredJob(table[i]))
          /\ table[i].fingerprint.scope = table[i].scope /\ table[i].fingerprint.tenant = table[i].tenant
    /\ \A i, j \in DOMAIN table :
          /\ table[i].key # Nil
          /\ table[i].key = table[j].key /\ table[i].keyScope = table[j].keyScope
          => i = j

\* A call has the arguments of its operation; an enqueue has a new id.
JobCallMade(call, tables) ==
    /\ {"op", "id", "now", "db", "job", "requester"} \subseteq DOMAIN call
    /\ call.op = "enqueue" => \A table \in tables : call.id \notin DOMAIN table

ReservedKeys(table) ==
    /\ IsTable(table)
    /\ \A i \in DOMAIN table : KeyColumns \subseteq DOMAIN table[i]
    /\ \A i, j \in DOMAIN table : table[i].key = table[j].key => i = j

\* Tags that are written can be read, and an answer that is recorded is one.
KeyCallMade(call) ==
    /\ {"op", "id", "db", "key", "fingerprint", "token", "resource", "version", "tags", "result", "limit"}
         \subseteq DOMAIN call
    /\ call.tags # Corrupt /\ call.result # Nil /\ call.fingerprint # "another"

CallsAreMade ==
    /\ \A table \in JobTables : EnqueuedJobs(table)
    /\ \A call \in JobCalls : JobCallMade(call, JobTables)
    /\ \A table \in KeyTables : ReservedKeys(table)
    /\ \A call \in KeyCalls : KeyCallMade(call)

-----------------------------------------------------------------------------
(* What they should do *)

Unrequired(call) == [call EXCEPT !.required = FALSE]

\* MySQL writes history after the fact at all times.  With required history D1
\* does the same, but nothing when the history fails.  PostgreSQL does what D1
\* does to a row that is the caller's; without one D1 refuses, and PostgreSQL
\* changes no job, writes history of what did not happen and reports it as
\* applied.  It cancels no job then, and says that the history failed.
JobAnswersAgree(table, call, pg, d1, mysql, unrequired) ==
    IF ~call.required THEN pg = d1 /\ d1 = mysql
    ELSE /\ mysql = unrequired
         /\ call.op \notin {"mark", "cancel"} => pg = d1 /\ d1 = mysql
         /\ call.op \in {"mark", "cancel"} =>
                /\ ~call.historyFails => d1 = unrequired
                /\ call.historyFails => ~d1.answer.applied /\ d1.table = table
         /\ call.op = "mark" =>
                IF d1.answer.reason = "LEASE_LOST"
                THEN pg.table = table /\ pg.answer.applied # call.historyFails
                     /\ (pg.answer.applied <=> pg.answer.history # {})
                ELSE pg = d1
         /\ call.op = "cancel" => pg = Refused(table, "HISTORY_FAILED")
JobsAgree(table, call) ==
    JobAnswersAgree(table, call, Pg!JobCall(table, call), D1!JobCall(table, call), MySql!JobCall(table, call),
                    MySql!JobCall(table, Unrequired(call)))

\* At the instant a lease expires, and on a running row without one, D1 alone
\* claims a schedule.
SchedulesAgree(table, call) ==
    LET d1 == D1!ScheduleCall(table, call)
        undisputed == \A i \in DOMAIN table :
                          table[i].status = "running" => table[i].leaseExpiresAt \notin {NoTime, call.db}
    IN  /\ Pg!ScheduleCall(table, call) = MySql!ScheduleCall(table, call)
        /\ undisputed \/ call.op # "claimDueSchedules" => Pg!ScheduleCall(table, call) = d1

KeysAgree(table, call) ==
    LET pg == Pg!KeyCall(table, call)
    IN  pg = D1!KeyCall(table, call) /\ pg = MySql!KeyCall(table, call)

\* The jobs that are a requester's.
Own(row, requester) ==
    row.scope = requester.scope /\ (requester.scope = "tenant" => row.tenant = requester.tenant)

\* What a requester is told depends on what it may see alone, and it changes
\* nothing else; live siblings of a partition hold a job back whosever they are.
RequesterApart(Call(_, _), table, call) ==
    LET result == Call(table, call)
        hidden == {i \in DOMAIN table : ~Own(table[i], call.requester)}
        kept == {i \in DOMAIN table : i \notin hidden \/ table[i].partition # Nil}
        alone == Call([i \in kept |-> table[i]], call)
    IN  /\ \A i \in hidden : result.table[i] = table[i]
        /\ call.op # "enqueue" =>
              /\ result.answer = alone.answer
              /\ \A i \in kept : result.table[i] = alone.table[i]
RequestersApart(table, call) ==
    call.op \notin {"mark", "renewLease"} =>
        /\ RequesterApart(Pg!JobCall, table, call)
        /\ RequesterApart(D1!JobCall, table, call)
        /\ RequesterApart(MySql!JobCall, table, call)

\* A job that was accepted is one a dispatcher executes, of the tenant it was
\* asked for; asked for again with its key and its time it is answered and not
\* added, whatever became of it.
EnqueuedOnce(EnqueueJob(_, _), table, call) ==
    LET first == EnqueueJob(table, call)
    IN  \A row \in first.answer.jobs :
            /\ AssertStoredJobShape(ToStoredJob(row))
            /\ row.scope = call.job.scope /\ row.tenant = call.job.tenant
            /\ call.job.key # Nil /\ call.job.runAt # Unset =>
                  \A status \in {"running", "succeeded", "cancelled"} :
                      LET since == [first.table EXCEPT ![row.id].status = status]
                      IN  EnqueueJob(since, [call EXCEPT !.id = 9, !.now = @ + 1, !.db = @ + 1])
                            = Outcome(since, Accepted(since[row.id]))
EnqueuesOnce(table, call) ==
    call.op = "enqueue" =>
        /\ EnqueuedOnce(Pg!EnqueueJob, table, call)
        /\ EnqueuedOnce(D1!EnqueueJob, table, call)
        /\ EnqueuedOnce(MySql!EnqueueJob, table, call)

\* What a transaction recorded is what a retry with the same key is told, its
\* version of the type it had, until the answer is recorded, and then that
\* answer; no other request with the key is told either, and when the answer is
\* recorded nothing is left to invalidate.
ReceiptReturned(KeyCall(_, _), table, call) ==
    LET marked == KeyCall(table, call)
        later == [call EXCEPT !.id = 9, !.db = @ + 100]
        retry == [later EXCEPT !.op = "acquire"]
        told == KeyCall(marked.table, retry).answer
        completed == KeyCall(marked.table, [later EXCEPT !.op = "complete"])
        other(t) == KeyCall(t, [retry EXCEPT !.fingerprint = "another"]).answer
    IN  marked.answer = "committed" =>
            /\ told = [outcome |-> "business-committed", token |-> call.token, resource |-> call.resource,
                       version |-> call.version, tags |-> call.tags]
            /\ completed.answer = "completed"
            /\ KeyCall(completed.table, retry).answer = [outcome |-> "replay", result |-> call.result]
            /\ other(marked.table).outcome = "conflict" /\ other(completed.table).outcome = "conflict"
            /\ call.key \notin KeyCall(completed.table, [later EXCEPT !.op = "findCommitted"]).answer
            /\ \A i \in DOMAIN table : table[i].key # call.key => completed.table[i] = table[i]
ReceiptsReturned(table, call) ==
    call.op = "markCommitted" =>
        /\ ReceiptReturned(Pg!KeyCall, table, call)
        /\ ReceiptReturned(D1!KeyCall, table, call)
        /\ ReceiptReturned(MySql!KeyCall, table, call)

\* What is asked for again is not done again: an accepted job is fit to be
\* executed, is of the scope and tenant asked for, and asking again with its key
\* and its time answers it and adds none, whatever has become of it (enqueue);
\* a retry with a committed key is told the resource, the version, of its type,
\* and the tags its receipt was written with, later the recorded answer, and
\* nobody else's request is (resolveExisting, complete).
RetriesAnswered ==
    /\ storeCall.subject = "jobs" => EnqueuesOnce(storeCall.table, storeCall.call)
    /\ storeCall.subject = "keys" => ReceiptsReturned(storeCall.table, storeCall.call)
=============================================================================

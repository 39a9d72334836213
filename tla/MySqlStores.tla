------------------------------ MODULE MySqlStores ------------------------------
(* The statements of the three stores on MySQL (packages/adapters/src/        *)
(* drizzle-mysql), each call on its own, read from its own source: history is *)
(* always written after the update, whatever its mode.  The SQL is read for   *)
(* what it says where MySQL would not parse it.                               *)
EXTENDS StoreRows

-----------------------------------------------------------------------------
(* Jobs *)

EnqueueJob(table, call) ==
    LET job == call.job
        new == NewJobRow(job, call)
        clash == Rows(table, LAMBDA r : job.key # Nil /\ r.key = job.key /\ r.keyScope = new.keyScope)
        existing == CHOOSE r \in clash : TRUE
    IN  IF ~AssertDurableJob(job) THEN Outcome(table, Rejected("invalid"))
        ELSE IF ~AssertRequesterCanEnqueueScope(call.requester, job.scope, job.tenant)
                \/ ~AssertJobScopeCanEnqueue(job.scope, job.tenant) THEN Outcome(table, Rejected("tenant scope"))
        ELSE IF clash = {} THEN Outcome(Insert(table, new), Accepted(new))
        ELSE IF existing.fingerprint # new.fingerprint THEN Outcome(table, Rejected("conflict"))
        ELSE Outcome(table, Accepted(existing))

GetById(table, call) ==
    Rows(table, LAMBDA r : r.id = call.id /\ Visible(r, call.requester))

GetByCorrelationId(table, call) ==
    Select(table, LAMBDA r : r.correlation = call.correlation /\ Visible(r, call.requester),
           LAMBDA a, b : a.createdAt > b.createdAt, 5)

GetByIdempotencyKey(table, call) ==
    Rows(table, LAMBDA r :
        /\ r.key = call.key
        /\ r.keyScope = BuildIdempotencyScope(RequesterTenantId(call.requester), RequesterJobScope(call.requester))
        /\ Visible(r, call.requester))

GetLatestPriorScheduleExecution(table, call) ==
    Select(table, LAMBDA r : r.correlation = call.correlation /\ Lt(r.runAt, call.before) /\ Visible(r, call.requester),
           LAMBDA a, b : a.runAt > b.runAt, 1)

FindPending(table, call) ==
    Select(table, LAMBDA r : r.status \in {"pending", "retrying"} /\ Visible(r, call.requester),
           LAMBDA a, b : Earlier(a.priority, a.createdAt, b.priority, b.createdAt), call.limit)

JobDue(r, call) ==
    \/ r.status \in {"pending", "retrying"} /\ Le(r.nextAttemptAt, call.now) /\ r.attempts < r.maxAttempts
    \/ r.status = "running" /\ r.attempts < r.maxAttempts /\ Lt(r.leaseExpiresAt, call.db)

NoRunningSibling(table, r, call) ==
    Rows(table, LAMBDA s : /\ s.partition # Nil /\ s.partition = r.partition /\ s.id # r.id
                           /\ s.status = "running" /\ Lt(call.db, s.leaseExpiresAt)) = {}

\* The candidates, one update each, and the rows still held.
ClaimDueJobs(table, call) ==
    LET eligible == Select(table, LAMBDA r : JobDue(r, call) /\ Visible(r, call.requester),
                           LAMBDA a, b : Earlier(a.priority, a.runAt, b.priority, b.runAt), call.limit)
        claim(t, row) == Update(t,
            LAMBDA r : r.id = row.id /\ JobDue(r, call) /\ Visible(r, call.requester) /\ NoRunningSibling(t, r, call),
            LAMBDA r : [r EXCEPT !.status = "running", !.leaseOwner = call.worker, !.leaseExpiresAt = call.db + call.lease,
                                 !.claimToken = Fresh(r.id), !.attempts = @ + 1, !.startedAt = call.now, !.nextAttemptAt = NoTime])
        claimed == FoldLeft(claim, table, eligible)
    IN  Outcome(claimed, Rows(claimed, LAMBDA r :
            /\ \E i \in DOMAIN eligible : eligible[i].id = r.id /\ r.claimToken = Fresh(r.id)
            /\ r.leaseOwner = call.worker /\ r.status = "running" /\ Lt(call.db, r.leaseExpiresAt)))

HeldJob(r, call) ==
    /\ r.id = call.id /\ r.leaseOwner = call.worker /\ r.claimToken = call.token
    /\ r.status = "running" /\ Lt(call.db, r.leaseExpiresAt)

RenewJobLease(table, call) ==
    IF call.lease <= 0 THEN Outcome(table, FALSE)
    ELSE Updated(table, LAMBDA r : HeldJob(r, call), LAMBDA r : [r EXCEPT !.leaseExpiresAt = call.db + call.lease], TRUE, FALSE)

\* markSucceeded, markRetrying and markFailed.
MarkJob(table, call) ==
    LET where(r) == /\ HeldJob(r, call) /\ r.attempts = call.attempt
                    /\ call.status = "retrying" => r.attempts < r.maxAttempts
        set(r) == IF call.status = "retrying"
                  THEN [Released(r, "retrying") EXCEPT !.nextAttemptAt = call.until]
                  ELSE [Released(r, call.status) EXCEPT !.completedAt = call.now]
        execution == Execution(call.id, call.status, call.attempt, call.worker)
    IN  IF Rows(table, where) = {} THEN Refused(table, "LEASE_LOST")
        ELSE Applied(Update(table, where, set), IF call.historyFails THEN {} ELSE execution)

CancelJob(table, call) ==
    LET where(r) == /\ r.id = call.id /\ r.status \notin {"succeeded", "cancelled", "dead_letter"}
                    /\ Visible(r, call.requester)
        set(r) == [Released(r, "cancelled") EXCEPT !.completedAt = call.now]
        execution == Execution(call.id, "cancelled", table[call.id].attempts, "cancellation")
    IN  IF Rows(table, where) = {} THEN Refused(table, "INVALID_STATE")
        ELSE Applied(Update(table, where, set), IF call.historyFails THEN {} ELSE execution)

JobCall(table, call) ==
    CASE call.op = "enqueue" -> EnqueueJob(table, call)
      [] call.op = "getById" -> Outcome(table, GetById(table, call))
      [] call.op = "getByCorrelationId" -> Outcome(table, GetByCorrelationId(table, call))
      [] call.op = "getByIdempotencyKey" -> Outcome(table, GetByIdempotencyKey(table, call))
      [] call.op = "getLatestPrior" -> Outcome(table, GetLatestPriorScheduleExecution(table, call))
      [] call.op = "findPending" -> Outcome(table, FindPending(table, call))
      [] call.op = "claimDue" -> ClaimDueJobs(table, call)
      [] call.op = "renewLease" -> RenewJobLease(table, call)
      [] call.op = "mark" -> MarkJob(table, call)
      [] call.op = "cancel" -> CancelJob(table, call)

-----------------------------------------------------------------------------
(* Schedules *)

ScheduleDue(r, call) == r.enabled /\ Le(r.nextRunAt, call.now)

ClaimDueSchedules(table, call) ==
    LET eligible == Select(table, LAMBDA r : ScheduleDue(r, call), LAMBDA a, b : a.nextRunAt < b.nextRunAt, call.limit)
        claim(t, row) == Update(t,
            LAMBDA r : /\ r.id = row.id /\ ScheduleDue(r, call)
                       /\ (r.status # "running" \/ Lt(r.leaseExpiresAt, call.db)),
            LAMBDA r : [r EXCEPT !.status = "running", !.leaseOwner = call.worker,
                                 !.leaseExpiresAt = call.db + call.lease, !.claimToken = Fresh(r.id)])
        claimed == FoldLeft(claim, table, eligible)
        held == Rows(claimed, LAMBDA r :
            /\ \E i \in DOMAIN eligible : eligible[i].id = r.id /\ r.claimToken = Fresh(r.id)
            /\ r.leaseOwner = call.worker /\ r.status = "running" /\ Lt(call.db, r.leaseExpiresAt))
    IN  Outcome(claimed, {[r EXCEPT !.status = table[r.id].status] : r \in held})

HeldSchedule(r, call) ==
    /\ r.id = call.id /\ r.leaseOwner = call.worker /\ r.claimToken = call.token
    /\ r.status = "running" /\ Lt(call.db, r.leaseExpiresAt)

AdvanceSchedule(table, call) ==
    Updated(table, LAMBDA r : HeldSchedule(r, call),
            LAMBDA r : [Released(r, call.status) EXCEPT !.nextRunAt = call.until, !.lastRunAt = call.before], TRUE, FALSE)

RenewScheduleLease(table, call) ==
    IF call.lease <= 0 THEN Outcome(table, FALSE)
    ELSE Updated(table, LAMBDA r : HeldSchedule(r, call), LAMBDA r : [r EXCEPT !.leaseExpiresAt = call.db + call.lease], TRUE, FALSE)

ReleaseSchedule(table, call) ==
    Updated(table, LAMBDA r : HeldSchedule(r, call), LAMBDA r : Released(r, "idle"), TRUE, FALSE)

ScheduleCall(table, call) ==
    CASE call.op = "claimDueSchedules" -> ClaimDueSchedules(table, call)
      [] call.op = "advanceSchedule" -> AdvanceSchedule(table, call)
      [] call.op = "renewScheduleLease" -> RenewScheduleLease(table, call)
      [] call.op = "releaseSchedule" -> ReleaseSchedule(table, call)

-----------------------------------------------------------------------------
(* Idempotency rows *)

\* "" when the row says nothing yet; reading corrupt tags throws.
ResolveExisting(r, call) ==
    IF r.fingerprint # call.fingerprint THEN [outcome |-> "conflict"]
    ELSE IF r.status = "completed" /\ r.result # Nil THEN [outcome |-> "replay", result |-> r.result]
    ELSE IF r.status = "business-committed" /\ r.pending = Corrupt THEN [outcome |-> "throws"]
    ELSE IF r.status = "business-committed"
         THEN [outcome |-> "business-committed", token |-> r.token, resource |-> r.resource,
               version |-> DecodeResourceVersion(r.version), tags |-> r.pending]
    ELSE [outcome |-> ""]

Poison(table, rows) ==
    Update(table, LAMBDA r : \E p \in rows : r.key = p.key /\ r.token = p.token /\ r.status = "business-committed",
           LAMBDA r : [r EXCEPT !.status = "poisoned"])

TakeoverOrRecheck(table, call) ==
    LET takeable(r) == /\ SameKey(r, call) /\ r.fingerprint = call.fingerprint /\ r.status = "in-progress"
                       /\ Lt(r.createdAt, call.db - call.lease)
        current == CHOOSE r \in Rows(table, LAMBDA r : SameKey(r, call)) : TRUE
        resolved == ResolveExisting(current, call)
    IN  IF Rows(table, takeable) # {}
        THEN Outcome(Update(table, takeable, LAMBDA r : [r EXCEPT !.token = Fresh(call.id), !.createdAt = call.db]),
                    [outcome |-> "acquired", token |-> Fresh(call.id)])
        ELSE IF resolved.outcome = "" THEN Outcome(table, [outcome |-> "in-progress"])
        ELSE IF resolved.outcome = "throws" THEN Outcome(Poison(table, {current}), resolved) ELSE Outcome(table, resolved)

Acquire(table, call) ==
    LET existing == Rows(table, LAMBDA r : SameKey(r, call))
        row == CHOOSE r \in existing : TRUE
        resolved == ResolveExisting(row, call)
    IN  IF existing = {}
        THEN Outcome(Insert(table, Reserved(call)), [outcome |-> "acquired", token |-> Fresh(call.id)])
        ELSE IF resolved.outcome = "throws" THEN Outcome(Poison(table, {row}), resolved)
        ELSE IF resolved.outcome = "" THEN TakeoverOrRecheck(table, call) ELSE Outcome(table, resolved)

OwnedKey(r, call) == SameKey(r, call) /\ r.fingerprint = call.fingerprint /\ r.token = call.token

RenewKey(table, call) ==
    Updated(table, LAMBDA r : OwnedKey(r, call) /\ r.status = "in-progress",
            LAMBDA r : [r EXCEPT !.createdAt = call.db], "renewed", "throws")

\* The receipt in the transaction of the mutation: its resource and its tags,
\* never an answer.
MarkCommitted(table, call) ==
    Updated(table, LAMBDA r : OwnedKey(r, call) /\ r.status = "in-progress",
            LAMBDA r : [r EXCEPT !.status = "business-committed", !.result = Nil, !.resource = call.resource,
                                 !.version = EncodeResourceVersion(call.version), !.pending = call.tags],
            "committed", "throws")

Pending(r) == r.status = "business-committed" /\ r.pending # NoTags

\* Rows whose tags cannot be read are poisoned on the way.
FindCommitted(table, call) ==
    LET rows == SelectAny(table, Pending, call.limit)
        corrupt == {r \in rows : r.pending = Corrupt}
    IN  Outcome(Poison(table, corrupt), {r.key : r \in rows \ corrupt})

Unclaimed(r, call) == Pending(r) /\ (r.claimExpiresAt = NoTime \/ r.claimExpiresAt < call.db)
ClaimPending(table, call) ==
    LET rows == SelectAny(table, LAMBDA r : Unclaimed(r, call), call.limit)
        corrupt == {r \in rows : r.pending = Corrupt}
        good == rows \ corrupt
        claimed(r) == \E g \in good : r.key = g.key /\ r.token = g.token /\ Unclaimed(r, call)
    IN  Outcome(Update(Poison(table, corrupt), claimed,
                      LAMBDA r : [r EXCEPT !.claimOwner = call.worker, !.claimToken = call.claimToken, !.claimExpiresAt = call.db + call.lease]),
               {r.key : r \in good})

Recover(table, call) ==
    Updated(table, LAMBDA r : OwnedKey(r, call) /\ r.status \in {"in-progress", "business-committed"},
            LAMBDA r : [r EXCEPT !.status = "business-committed"], "recovered", "throws")

Acknowledged(r) == [r EXCEPT !.pending = NoTags, !.claimOwner = Nil, !.claimToken = 0, !.claimExpiresAt = NoTime]
Completed(r, call) == [Acknowledged(r) EXCEPT !.status = "completed", !.result = call.result]
ClaimHeld(r, call) ==
    /\ OwnedKey(r, call) /\ r.status = "business-committed"
    /\ r.claimToken # 0 /\ r.claimToken = call.claimToken /\ Lt(call.db, r.claimExpiresAt)

AckInvalidations(table, call) ==
    Updated(table, LAMBDA r : OwnedKey(r, call) /\ r.status = "business-committed", Acknowledged, "acknowledged", "throws")
AckClaimedInvalidation(table, call) ==
    Updated(table, LAMBDA r : ClaimHeld(r, call), Acknowledged, "acknowledged", "throws")
CompleteClaimedInvalidation(table, call) ==
    Updated(table, LAMBDA r : ClaimHeld(r, call), LAMBDA r : Completed(r, call), "completed", "throws")
Complete(table, call) ==
    Updated(table, LAMBDA r : OwnedKey(r, call) /\ r.status = "business-committed", LAMBDA r : Completed(r, call), "completed", "throws")

KeyCall(table, call) ==
    CASE call.op = "acquire" -> Acquire(table, call)
      [] call.op = "renew" -> RenewKey(table, call)
      [] call.op = "markCommitted" -> MarkCommitted(table, call)
      [] call.op = "findCommitted" -> FindCommitted(table, call)
      [] call.op = "claimPending" -> ClaimPending(table, call)
      [] call.op = "recover" -> Recover(table, call)
      [] call.op = "ackInvalidations" -> AckInvalidations(table, call)
      [] call.op = "ackClaimed" -> AckClaimedInvalidation(table, call)
      [] call.op = "completeClaimed" -> CompleteClaimedInvalidation(table, call)
      [] call.op = "complete" -> Complete(table, call)
=============================================================================

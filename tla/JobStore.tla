------------------------------ MODULE JobStore ------------------------------
(***************************************************************************)
(* The durable job table and the operations DrizzleJobStore offers on it:  *)
(* enqueue, claimDue, renewLease, markSucceeded, markRetrying, markFailed  *)
(* and cancel.  Workers are the most general clients: a claim, once handed *)
(* out, may be used at any later time and any number of times, whatever    *)
(* became of the row meanwhile.  JobDispatcher restricts the clients to    *)
(* what dispatchDueJobs does.                                              *)
(*                                                                         *)
(* Time is kept as time left: `lease' is what is left of leaseExpiresAt,   *)
(* positive while the lease holds, negative once it has run out, zero at   *)
(* the instant of expiry, when the row is neither held nor reclaimable.    *)
(* `wait' is what is left until nextAttemptAt.  A null column is -1 for a  *)
(* lease and 0 for a wait.                                                 *)
(***************************************************************************)
EXTENDS Integers, FiniteSets

CONSTANTS
    Jobs,         \* the rows the table may come to hold
    Workers,      \* worker ids (lease owners)
    Canceller,    \* the history's worker id of a cancellation
    None,         \* a null owner, a null partition, no job
    PartitionOf,  \* the partition key of each job, None when it has none
    MaxAttempts,  \* the maxAttempts column of each job
    ClaimLimit,   \* the limit of claimDue
    LeaseTerm,    \* the lease duration, in ticks
    Delays,       \* the delays, in ticks, a run or a retry may be put off by
    Serial,       \* claim updates run one at a time (D1), or each against a
                  \* statement snapshot (PostgreSQL, read committed)
    Required,     \* executionHistory is "required" rather than "best_effort"
    CountsRows    \* atomicJobTransition learns how many rows it updated (D1),
                  \* or reads a field the driver does not set (node-postgres)

ASSUME JobsAssumption == IsFiniteSet(Jobs) /\ None \notin Jobs
ASSUME WorkersAssumption == None \notin Workers /\ Canceller \notin Workers
ASSUME AttemptsAssumption == MaxAttempts \in [Jobs -> Nat \ {0}]
ASSUME LimitAssumption == ClaimLimit \in Nat \ {0}
ASSUME TermAssumption == LeaseTerm \in Nat \ {0} /\ Delays \subseteq Nat
ASSUME ModeAssumption ==
    Serial \in BOOLEAN /\ Required \in BOOLEAN /\ CountsRows \in BOOLEAN

VARIABLES
    job,       \* the rows
    issued,    \* how many claim tokens were generated; a token is its number
    scan,      \* the claimDue call each worker is in
    claims,    \* the claims claimDue ever returned
    applied,   \* the transitions reported to their worker as applied
    unlogged,  \* applied transitions whose best-effort history insert is due
    history,   \* the rows of the executions table
    cancelling \* the best-effort cancel call in progress on each job

vars == <<job, issued, scan, claims, applied, unlogged, history, cancelling>>

Terminal == {"succeeded", "failed", "dead_letter", "cancelled"}
Waiting == {"pending", "retrying"}
Statuses == {"absent", "running"} \cup Waiting \cup Terminal

Row == [status: Statuses, attempts: Nat, owner: Workers \cup {None},
        token: Nat, lease: Int, wait: Nat]
Claim == [job: Jobs, worker: Workers, token: Nat, attempt: Nat]
Outcome == [job: Jobs, worker: Workers \cup {Canceller}, attempt: Nat,
            status: Terminal \cup {"retrying"}]
Scan == [active: BOOLEAN, todo: SUBSET Jobs, got: SUBSET Claim,
         probed: Jobs \cup {None}]
NoScan == [active |-> FALSE, todo |-> {}, got |-> {}, probed |-> None]
NoCancel == [step |-> "none", attempt |-> 0]

TypeOK ==
    /\ job \in [Jobs -> Row]
    /\ issued \in Nat
    /\ scan \in [Workers -> Scan]
    /\ claims \subseteq Claim
    /\ applied \subseteq Outcome
    /\ unlogged \subseteq Outcome
    /\ history \subseteq Outcome
    /\ cancelling \in [Jobs -> [step: {"none", "selected", "logged"}, attempt: Nat]]

\* A row nobody holds, after n attempts.
Unheld(n, status, d) ==
    [status |-> status, attempts |-> n, owner |-> None, token |-> 0, lease |-> -1, wait |-> d]

Init ==
    /\ job = [j \in Jobs |-> Unheld(0, "absent", 0)]
    /\ issued = 0
    /\ scan = [w \in Workers |-> NoScan]
    /\ claims = {}
    /\ applied = {}
    /\ unlogged = {}
    /\ history = {}
    /\ cancelling = [j \in Jobs |-> NoCancel]

-----------------------------------------------------------------------------
(* Conditions of the WHERE clauses *)

Live(j) == job[j].status = "running" /\ job[j].lease > 0
Lapsed(j) == job[j].status = "running" /\ job[j].lease < 0

\* A bug to be caught: a lapsed lease is not looked at.
DueWaitingOnly(j) ==
    job[j].attempts < MaxAttempts[j] /\ job[j].status \in Waiting /\ job[j].wait = 0

\* The row is due: waiting and its time has come, or running on a lapsed lease;
\* in both cases with an attempt left.
Due(j) ==
    /\ job[j].attempts < MaxAttempts[j]
    /\ \/ job[j].status \in Waiting /\ job[j].wait = 0
       \/ Lapsed(j)

Siblings(j) == {k \in Jobs \ {j} : PartitionOf[k] = PartitionOf[j] /\ PartitionOf[j] # None}
NoRunningSibling(j) == \A k \in Siblings(j) : ~Live(k)

\* The claim is the one the row was last granted under, and its lease holds.
Holds(c) ==
    /\ Live(c.job)
    /\ job[c.job].owner = c.worker
    /\ job[c.job].token = c.token

\* A bug to be caught: finished jobs can be cancelled.
CancellableUnlessCancelled(j) == job[j].status \notin {"absent", "cancelled"}

Cancellable(j) == job[j].status \in {"pending", "running", "retrying", "failed"}

-----------------------------------------------------------------------------
(* enqueue, and the passing of time *)

Enqueue(j, d) ==
    /\ job[j].status = "absent"
    /\ job' = [job EXCEPT ![j] = Unheld(0, "pending", d)]
    /\ UNCHANGED <<issued, scan, claims, applied, unlogged, history, cancelling>>

Elapsed(r) ==
    [status |-> r.status, attempts |-> r.attempts, owner |-> r.owner, token |-> r.token,
     lease |-> IF r.lease > -1 THEN r.lease - 1 ELSE -1,
     wait |-> IF r.wait > 0 THEN r.wait - 1 ELSE 0]

Tick ==
    /\ job' = [j \in Jobs |-> Elapsed(job[j])]
    /\ UNCHANGED <<issued, scan, claims, applied, unlogged, history, cancelling>>

-----------------------------------------------------------------------------
(* claimDue: select the eligible ids, update each row that still qualifies, *)
(* read back those still held                                              *)

\* A claimDue call with these ids still to update and these rows claimed.
Scanning(todo, got) == [active |-> TRUE, todo |-> todo, got |-> got, probed |-> None]

Eligible == {j \in Jobs : Due(j)}

ClaimSelect(w) ==
    /\ ~scan[w].active
    /\ Eligible # {}
    /\ \E S \in SUBSET Eligible :
         /\ S # {}
         /\ \/ S = Eligible /\ Cardinality(S) <= ClaimLimit
            \/ Cardinality(S) = ClaimLimit
         /\ scan' = [scan EXCEPT ![w] = Scanning(S, {})]
    /\ UNCHANGED <<job, issued, claims, applied, unlogged, history, cancelling>>

\* The UPDATE of a row judges its siblings by the snapshot the statement began
\* with ...
ClaimProbe(w, j) ==
    /\ j \in scan[w].todo
    /\ scan[w].probed = None
    /\ Due(j) /\ NoRunningSibling(j)
    /\ scan' = [scan EXCEPT ![w].probed = j]
    /\ UNCHANGED <<job, issued, claims, applied, unlogged, history, cancelling>>

\* A bug to be caught: the sibling rows are not looked at.
QualifiesAlone(w, j) == scan[w].probed = j /\ Due(j)

\* ... and, under read committed, rechecks only the row itself when it comes to
\* write it.  Where updates are serial nothing has changed in between.
Qualifies(w, j) ==
    /\ scan[w].probed = j
    /\ Due(j)
    /\ Serial => NoRunningSibling(j)

ClaimRow(w, j) ==
    /\ j \in scan[w].todo
    /\ Qualifies(w, j)
    /\ issued' = issued + 1
    /\ job' = [job EXCEPT ![j] =
                 [status |-> "running", attempts |-> @.attempts + 1, owner |-> w,
                  token |-> issued + 1, lease |-> LeaseTerm, wait |-> 0]]
    /\ scan' = [scan EXCEPT ![w] =
                  Scanning(@.todo \ {j},
                           @.got \cup {[job |-> j, worker |-> w, token |-> issued + 1,
                                        attempt |-> job[j].attempts + 1]})]
    /\ UNCHANGED <<claims, applied, unlogged, history, cancelling>>

ClaimMiss(w, j) ==
    /\ j \in scan[w].todo
    /\ \/ scan[w].probed = None /\ ~(Due(j) /\ NoRunningSibling(j))
       \/ scan[w].probed = j /\ ~Qualifies(w, j)
    /\ scan' = [scan EXCEPT ![w] = Scanning(@.todo \ {j}, @.got)]
    /\ UNCHANGED <<job, issued, claims, applied, unlogged, history, cancelling>>

ClaimReadback(w) ==
    /\ scan[w].active
    /\ scan[w].todo = {}
    /\ claims' = claims \cup {c \in scan[w].got : Holds(c)}
    /\ scan' = [scan EXCEPT ![w] = NoScan]
    /\ UNCHANGED <<job, issued, applied, unlogged, history, cancelling>>

\* The call fails, or its process dies, half way: rows it claimed stay claimed.
ClaimAbort(w) ==
    /\ scan[w].active
    /\ scan' = [scan EXCEPT ![w] = NoScan]
    /\ UNCHANGED <<job, issued, claims, applied, unlogged, history, cancelling>>

-----------------------------------------------------------------------------
(* renewLease and the transitions out of running *)

RenewLease(c) ==
    /\ c \in claims
    /\ Holds(c)
    /\ job' = [job EXCEPT ![c.job].lease = LeaseTerm]
    /\ UNCHANGED <<issued, scan, claims, applied, unlogged, history, cancelling>>

\* A bug to be caught: the fence is the lease owner alone.
FencedByOwner(c, status) ==
    /\ Live(c.job)
    /\ job[c.job].owner = c.worker
    /\ status = "retrying" => job[c.job].attempts < MaxAttempts[c.job]

\* The fence of every transition: the claim, its attempt, and, for a retry,
\* an attempt left.
Fenced(c, status) ==
    /\ Holds(c)
    /\ job[c.job].attempts = c.attempt
    /\ status = "retrying" => job[c.job].attempts < MaxAttempts[c.job]

\* A bug to be caught: settling starts the count of attempts afresh.
SettledAfresh(r, status, d) == Unheld(0, status, d)
Settled(r, status, d) == Unheld(r.attempts, status, d)

OutcomeOf(c, status) ==
    [job |-> c.job, worker |-> c.worker, attempt |-> c.attempt, status |-> status]

\* Report the outcome as applied; the history row is written in the same
\* transaction or left to a later insert.
Report(o) ==
    /\ applied' = applied \cup {o}
    /\ IF Required
       THEN history' = history \cup {o} /\ UNCHANGED unlogged
       ELSE unlogged' = unlogged \cup {o} /\ UNCHANGED history

\* A bug to be caught: no session looks at how many rows it updated.
TransitionUncounted(c, status, d) ==
    /\ c \in claims
    /\ job' = IF Fenced(c, status)
              THEN [job EXCEPT ![c.job] = Settled(@, status, d)] ELSE job
    /\ Report(OutcomeOf(c, status))
    /\ UNCHANGED <<issued, scan, claims, cancelling>>

\* A session that cannot count the updated rows takes an update of no row for
\* an applied one.
Transition(c, status, d) ==
    /\ c \in claims
    /\ \/ /\ Fenced(c, status)
          /\ job' = [job EXCEPT ![c.job] = Settled(@, status, d)]
       \/ /\ Required /\ ~CountsRows /\ ~Fenced(c, status)
          /\ UNCHANGED job
    /\ Report(OutcomeOf(c, status))
    /\ UNCHANGED <<issued, scan, claims, cancelling>>

MarkSucceeded(c) == Transition(c, "succeeded", 0)
MarkRetrying(c, d) == Transition(c, "retrying", d)
MarkFailed(c, status) == Transition(c, status, 0)

\* The best-effort insert after a transition; its failure is swallowed.
RecordExecution(o) ==
    /\ o \in unlogged
    /\ unlogged' = unlogged \ {o}
    /\ history' \in {history, history \cup {o}}
    /\ UNCHANGED <<job, issued, scan, claims, applied, cancelling>>

-----------------------------------------------------------------------------
(* cancel: one transaction when history is required, which on the session    *)
(* that counts no rows always fails, since its insert names a column of      *)
(* another table; otherwise read the row, write the history, update the row  *)
(* if it can still be cancelled                                              *)

Cancellation(j, n) ==
    [job |-> j, worker |-> Canceller, attempt |-> n, status |-> "cancelled"]

Cancel(j) ==
    /\ Cancellable(j)
    /\ IF Required
       THEN /\ CountsRows
            /\ job' = [job EXCEPT ![j] = Settled(@, "cancelled", 0)]
            /\ history' = history \cup {Cancellation(j, job[j].attempts)}
            /\ UNCHANGED cancelling
       ELSE /\ cancelling[j].step = "none"
            /\ cancelling' = [cancelling EXCEPT ![j] = [step |-> "selected",
                                                        attempt |-> job[j].attempts]]
            /\ UNCHANGED <<job, history>>
    /\ UNCHANGED <<issued, scan, claims, applied, unlogged>>

CancelLog(j) ==
    /\ cancelling[j].step = "selected"
    /\ cancelling' = [cancelling EXCEPT ![j].step = "logged"]
    /\ history' \in {history, history \cup {Cancellation(j, cancelling[j].attempt)}}
    /\ UNCHANGED <<job, issued, scan, claims, applied, unlogged>>

CancelApply(j) ==
    /\ cancelling[j].step = "logged"
    /\ cancelling' = [cancelling EXCEPT ![j] = NoCancel]
    /\ job' = IF Cancellable(j)
              THEN [job EXCEPT ![j] = Settled(@, "cancelled", 0)] ELSE job
    /\ UNCHANGED <<issued, scan, claims, applied, unlogged, history>>

-----------------------------------------------------------------------------
Claiming(w) ==
    \/ ClaimSelect(w) \/ ClaimReadback(w)
    \/ \E j \in Jobs : ClaimProbe(w, j) \/ ClaimRow(w, j) \/ ClaimMiss(w, j)

Using(c) ==
    \/ RenewLease(c)
    \/ MarkSucceeded(c)
    \/ \E d \in Delays : MarkRetrying(c, d)
    \/ \E status \in {"failed", "dead_letter", "cancelled"} : MarkFailed(c, status)

Cancelling(j) == Cancel(j) \/ CancelLog(j) \/ CancelApply(j)

Enqueued == {j \in Jobs : job[j].status # "absent"}

\* Only what a claim settled is left to be logged.
Next ==
    \/ Tick
    \/ \E j \in Jobs, d \in Delays : Enqueue(j, d)
    \/ \E j \in Enqueued : Cancelling(j)
    \/ \E w \in Workers : Claiming(w) \/ ClaimAbort(w)
    \/ \E c \in claims : Using(c) \/ \E o \in unlogged : RecordExecution(o)

Spec == Init /\ [][Next]_vars

-----------------------------------------------------------------------------
(* The abstract job: a lease that holds is a holding, one that ran out a     *)
(* forfeit                                                                   *)

PhaseOf(r) ==
    IF r.status \in Waiting THEN "queued"
    ELSE IF r.status # "running" THEN r.status
    ELSE IF r.lease > 0 THEN "held" ELSE "forfeited"

Lifecycle == INSTANCE JobLifecycle WITH
    phase <- [j \in Jobs |-> PhaseOf(job[j])],
    attempt <- [j \in Jobs |-> job[j].attempts],
    holder <- [j \in Jobs |-> job[j].owner],
    outcomes <- applied

-----------------------------------------------------------------------------
(* Properties *)

\* Every step of the store is a step of the abstract job, or none.
ImplementsLifecycle == Lifecycle!Spec

\* Jobs of one partition are never running under a live lease together
\* (NewJob.partitionKey, the NOT EXISTS of claimDue).
PartitionExclusive == \A j \in Jobs : Live(j) => NoRunningSibling(j)

\* An attempt is settled at most once and a job ended at most once, whatever
\* stale claims on it are still used (the token, attempt and lease fences of
\* the mark operations).
SettledOnce ==
    \A a, b \in applied :
        a.job = b.job /\ (a.attempt = b.attempt \/ {a.status, b.status} \subseteq Terminal)
            => a = b

\* The executions table ends an attempt only as the row did: a worker's entry
\* is a transition that was applied, and a terminal one is how the job ended,
\* unless it failed and was then cancelled.
HistoryTruthful ==
    \A h \in history :
        /\ h.worker # Canceller => h \in applied
        /\ h.worker = Canceller /\ Required => job[h.job].status = "cancelled"
        /\ h.worker # Canceller /\ h.status \in Terminal =>
              \/ job[h.job].status = h.status
              \/ h.status = "failed" /\ job[h.job].status = "cancelled"

\* A finished job stays as it finished: only a failed job may still be
\* cancelled, and no row changes its attempts once it has finished.
FinalStaysFinal ==
    [][\A j \in Jobs : job[j].status \in Terminal =>
          /\ job'[j].attempts = job[j].attempts
          /\ \/ job'[j].status = job[j].status
             \/ job[j].status = "failed" /\ job'[j].status = "cancelled"]_vars

\* Whoever takes a job over from a running claim does so at the next attempt,
\* under a token no earlier claim had, and after the lease ran out.
TakeoverOnlyAfterLapse ==
    [][\A j \in Jobs : job[j].status = "running" /\ job'[j].status = "running"
                       /\ job'[j].token # job[j].token =>
          /\ Lapsed(j)
          /\ job'[j].attempts = job[j].attempts + 1
          /\ \A c \in claims : c.token # job'[j].token]_vars
=============================================================================

--------------------------- MODULE JobDispatcher ---------------------------
(***************************************************************************)
(* dispatchDueJobs: each worker claims a batch and executes its jobs one   *)
(* after the other.  Around the user's execute() run a heartbeat that      *)
(* renews the lease and a timer; the first of result, timeout and lease    *)
(* loss decides what becomes of the attempt.  An execution that ignores    *)
(* its abort outlives the dispatch that started it.  A worker process may  *)
(* die at any point, and starts again under the same worker id.            *)
(*                                                                         *)
(* The table is JobStore's, and every step here takes a step of JobStore   *)
(* or leaves the table alone.                                              *)
(***************************************************************************)
EXTENDS JobStore

CONSTANTS
    RetryDelay,  \* delayMs of the retry policy, in ticks
    Backoff,     \* its backoffMultiplier
    MaxCrashes,  \* bound on process deaths
    MaxErrors,   \* bound on store calls that throw
    WithEffects  \* whether executions use fencedEffect

\* A policy's delays are among those a retry may be put off by.
ASSUME DelaysAssumption ==
    /\ 0 \in Delays
    /\ \A j \in Jobs : \A n \in 1..(MaxAttempts[j] - 1) : RetryDelay * Backoff ^ (n - 1) \in Delays
ASSUME FaultsAssumption == MaxCrashes \in Nat /\ MaxErrors \in Nat

VARIABLES
    at,       \* where each worker is
    running,  \* claims whose execute() has not settled
    started,  \* claims whose execute() was called
    decided,  \* what decided each execution: [claim, by]
    hooks,    \* the hooks run, with the attempt they ran for
    checked,  \* claims whose fenced effect passed assertLease and is to run
    effects,  \* the fenced effects that ran
    faults    \* how many processes died and calls threw

dispatch == <<at, running, started, decided, hooks, checked, effects, faults>>
dvars == <<vars, dispatch>>

Kinds == {"retryable", "permanent", "cancelled"}
Results == {"ok", "malformed"} \cup Kinds
Deciders == Results \cup {"timeout", "lost"}
NoClaim == [job |-> None, worker |-> None, token |-> 0, attempt |-> 0]

Idle == [pc |-> "idle", batch |-> {}, claim |-> NoClaim, by |-> "none",
         lost |-> FALSE, verdict |-> "none"]

DTypeOK ==
    /\ at \in [Workers -> [pc: {"idle", "claiming", "next", "vet", "run", "grace",
                                "settle", "log", "hook"},
                           batch: SUBSET claims, claim: claims \cup {NoClaim},
                           by: Deciders \cup {"none"}, lost: BOOLEAN,
                           verdict: Terminal \cup {"retrying", "none"}]]
    /\ running \subseteq started /\ started \subseteq claims
    /\ decided \subseteq [claim: started, by: Deciders]
    /\ hooks \subseteq [job: Jobs, attempt: Nat, kind: {"onRetry", "onMaxRetriesExceeded"}]
    /\ checked \subseteq running /\ effects \subseteq started
    /\ faults \in [crashes: 0..MaxCrashes, errors: 0..MaxErrors]

DInit ==
    /\ Init
    /\ at = [w \in Workers |-> Idle]
    /\ running = {} /\ started = {} /\ decided = {} /\ hooks = {}
    /\ checked = {} /\ effects = {}
    /\ faults = [crashes |-> 0, errors |-> 0]

Goes(w, changes) == at' = [at EXCEPT ![w] = changes]
NextJob(w) == [Idle EXCEPT !.pc = "next", !.batch = at[w].batch]

-----------------------------------------------------------------------------
(* Claiming a batch *)

Poll(w) ==
    /\ at[w].pc = "idle"
    /\ ClaimSelect(w)
    /\ Goes(w, [at[w] EXCEPT !.pc = "claiming"])
    /\ UNCHANGED <<running, started, decided, hooks, checked, effects, faults>>

ClaimEach(w) ==
    /\ at[w].pc = "claiming"
    /\ \E j \in Jobs : ClaimProbe(w, j) \/ ClaimRow(w, j) \/ ClaimMiss(w, j)
    /\ UNCHANGED dispatch

Claimed(w) ==
    /\ at[w].pc = "claiming"
    /\ ClaimReadback(w)
    /\ Goes(w, [at[w] EXCEPT !.pc = "next", !.batch = claims' \ claims])
    /\ UNCHANGED <<running, started, decided, hooks, checked, effects, faults>>

BatchDone(w) ==
    /\ at[w].pc = "next" /\ at[w].batch = {}
    /\ Goes(w, Idle)
    /\ UNCHANGED <<vars, running, started, decided, hooks, checked, effects, faults>>

-----------------------------------------------------------------------------
(* executeJob *)

\* A job of the batch waited behind the others, so its lease is renewed before
\* anything else; when that fails the job is let go.
Refence(w, c) ==
    /\ at[w].pc = "next" /\ c \in at[w].batch
    /\ \/ RenewLease(c) /\ Goes(w, [at[w] EXCEPT !.pc = "vet", !.batch = @ \ {c}, !.claim = c])
       \/ ~Holds(c) /\ Goes(w, [at[w] EXCEPT !.batch = @ \ {c}]) /\ UNCHANGED vars
    /\ UNCHANGED <<running, started, decided, hooks, checked, effects, faults>>

\* A row of the wrong shape is dead-lettered without renewing its lease.
Malformed(w, c) ==
    /\ at[w].pc = "next" /\ c \in at[w].batch
    /\ Goes(w, [at[w] EXCEPT !.pc = "settle", !.batch = @ \ {c}, !.claim = c,
                             !.verdict = "dead_letter"])
    /\ UNCHANGED <<vars, running, started, decided, hooks, checked, effects, faults>>

\* An unknown definition fails the job; a scope mismatch, an invalid retry
\* policy, too many attempts or an undecodable payload dead-letters it.
Reject(w) ==
    /\ at[w].pc = "vet"
    /\ \E verdict \in {"failed", "dead_letter"} :
         Goes(w, [at[w] EXCEPT !.pc = "settle", !.verdict = verdict])
    /\ UNCHANGED <<vars, running, started, decided, hooks, checked, effects, faults>>

Launch(w) ==
    /\ at[w].pc = "vet"
    /\ at[w].claim.attempt <= MaxAttempts[at[w].claim.job]
    /\ Goes(w, [at[w] EXCEPT !.pc = "run"])
    /\ running' = running \cup {at[w].claim}
    /\ started' = started \cup {at[w].claim}
    /\ UNCHANGED <<vars, decided, hooks, checked, effects, faults>>

\* The first signal decides the race.
Decided(w, by) ==
    IF at[w].by # "none" THEN decided' = decided
    ELSE decided' = decided \cup {[claim |-> at[w].claim, by |-> by]}
\* A bug to be caught: the last signal decides.
WonLast(w, by) == by
Won(w, by) == IF at[w].by = "none" THEN by ELSE at[w].by

Settles(c) ==
    /\ c \in running
    /\ c \notin checked
    /\ running' = running \ {c}
    /\ \E result \in Results :
         IF at[c.worker].pc = "run" /\ at[c.worker].claim = c
         THEN /\ Decided(c.worker, result)
              /\ Goes(c.worker, [at[c.worker] EXCEPT !.by = Won(c.worker, result)])
         ELSE UNCHANGED <<at, decided>>
    /\ UNCHANGED <<vars, started, hooks, checked, effects, faults>>

\* The heartbeat beats until the attempt is settled, unless it lost the lease.
Beating(w) == at[w].pc \in {"run", "grace", "settle"} /\ at[w].claim \in started /\ ~at[w].lost

Lose(w) ==
    /\ Goes(w, [at[w] EXCEPT !.lost = TRUE,
                             !.by = IF at[w].pc = "run" THEN Won(w, "lost") ELSE @])
    /\ IF at[w].pc = "run" THEN Decided(w, "lost") ELSE UNCHANGED decided

Heartbeat(w) ==
    /\ Beating(w)
    /\ \/ RenewLease(at[w].claim) /\ UNCHANGED <<at, decided>>
       \/ ~Holds(at[w].claim) /\ Lose(w) /\ UNCHANGED vars
    /\ UNCHANGED <<running, started, hooks, checked, effects, faults>>

Timeout(w) ==
    /\ at[w].pc = "run" /\ at[w].by = "none"
    /\ Decided(w, "timeout")
    /\ Goes(w, [at[w] EXCEPT !.by = "timeout"])
    /\ UNCHANGED <<vars, running, started, hooks, checked, effects, faults>>

\* handleJobError: what a failure of this kind does to this attempt.
ShouldRetry(c) == c.attempt < MaxAttempts[c.job]
VerdictOn(kind, c) ==
    IF kind = "cancelled" THEN "cancelled"
    ELSE IF kind = "retryable" /\ ShouldRetry(c) THEN "retrying" ELSE "dead_letter"

Decide(w) ==
    /\ at[w].pc = "run" /\ at[w].by # "none"
    /\ LET by == at[w].by IN
       \/ /\ by \in {"timeout", "lost"}
          /\ Goes(w, [at[w] EXCEPT !.pc = "grace"])
       \/ /\ by = "malformed"
          /\ Goes(w, [at[w] EXCEPT !.pc = "settle", !.verdict = "dead_letter"])
       \/ /\ by \in {"ok"} \cup Kinds /\ at[w].lost
          /\ Goes(w, NextJob(w))
       \/ /\ by = "ok" /\ ~at[w].lost
          /\ Goes(w, [at[w] EXCEPT !.pc = "settle", !.verdict = "succeeded"])
       \/ /\ by \in Kinds /\ ~at[w].lost
          /\ Goes(w, [at[w] EXCEPT !.pc = "settle", !.verdict = VerdictOn(by, at[w].claim)])
    /\ UNCHANGED <<vars, running, started, decided, hooks, checked, effects, faults>>

\* A bug to be caught: an aborted execution is awaited without a limit.
GraceEndsSettled(w) ==
    /\ at[w].pc = "grace" /\ at[w].claim \notin running
    /\ IF at[w].by = "lost" \/ at[w].lost
       THEN Goes(w, NextJob(w))
       ELSE Goes(w, [at[w] EXCEPT !.pc = "settle",
                                  !.verdict = VerdictOn("retryable", at[w].claim)])
    /\ UNCHANGED <<vars, running, started, decided, hooks, checked, effects, faults>>

\* An aborted execution is given cancellationGraceMs to settle.  A timed-out
\* one that does is retried whatever it returned; one that does not is stalled,
\* and left to its lease.
GraceEnds(w) ==
    /\ at[w].pc = "grace"
    /\ IF at[w].by = "lost" \/ at[w].lost \/ at[w].claim \in running
       THEN Goes(w, NextJob(w))
       ELSE Goes(w, [at[w] EXCEPT !.pc = "settle",
                                  !.verdict = VerdictOn("retryable", at[w].claim)])
    /\ UNCHANGED <<vars, running, started, decided, hooks, checked, effects, faults>>

\* getNextRetryDelay, for an attempt that will be retried
RetryWait(c) == RetryDelay * Backoff ^ (c.attempt - 1)

\* A bug to be caught: a cancelled execution is taken for a dead one.
HasHookIfCancelled(w) ==
    at[w].verdict \in {"retrying", "dead_letter", "cancelled"} /\ at[w].by # "malformed"

\* Only handleJobError has hooks, for a retry and for a dead letter that
\* followed an execution; a malformed result is dead-lettered without one.
HasHook(w) ==
    \/ at[w].verdict = "retrying"
    \/ at[w].verdict = "dead_letter" /\ at[w].by \in {"timeout"} \cup Kinds

AfterSettling(w) ==
    IF ~Required THEN Goes(w, [at[w] EXCEPT !.pc = "log"])
    ELSE IF HasHook(w) THEN Goes(w, [at[w] EXCEPT !.pc = "hook"])
    ELSE Goes(w, NextJob(w))

Mark(c, verdict) ==
    \/ verdict = "succeeded" /\ MarkSucceeded(c)
    \/ verdict = "retrying" /\ MarkRetrying(c, RetryWait(c))
    \/ verdict \in {"failed", "dead_letter", "cancelled"} /\ MarkFailed(c, verdict)

Settle(w) ==
    /\ at[w].pc = "settle"
    /\ LET c == at[w].claim IN
       \/ /\ Mark(c, at[w].verdict)
          /\ AfterSettling(w)
       \/ /\ ~Fenced(c, at[w].verdict) /\ (Required => CountsRows)
          /\ Goes(w, NextJob(w)) /\ UNCHANGED vars
    /\ UNCHANGED <<running, started, decided, hooks, checked, effects, faults>>

Log(w) ==
    /\ at[w].pc = "log"
    /\ RecordExecution(OutcomeOf(at[w].claim, at[w].verdict))
    /\ IF HasHook(w) THEN Goes(w, [at[w] EXCEPT !.pc = "hook"]) ELSE Goes(w, NextJob(w))
    /\ UNCHANGED <<running, started, decided, hooks, checked, effects, faults>>

Hook(w) ==
    /\ at[w].pc = "hook"
    /\ hooks' = hooks \cup {[job |-> at[w].claim.job, attempt |-> at[w].claim.attempt,
                             kind |-> IF at[w].verdict = "retrying" THEN "onRetry"
                                      ELSE "onMaxRetriesExceeded"]}
    /\ Goes(w, NextJob(w))
    /\ UNCHANGED <<vars, running, started, decided, checked, effects, faults>>

-----------------------------------------------------------------------------
(* fencedEffect: renew the lease, then run the effect *)

\* A bug to be caught: the effect trusts the lease the job was launched under.
EffectCheckTrusting(c) ==
    /\ WithEffects
    /\ c \in running \ (checked \cup effects)
    /\ checked' = checked \cup {c}
    /\ UNCHANGED <<vars, at, running, started, decided, hooks, effects, faults>>

EffectCheck(c) ==
    /\ WithEffects
    /\ c \in running \ (checked \cup effects)
    /\ RenewLease(c)
    /\ checked' = checked \cup {c}
    /\ UNCHANGED <<at, running, started, decided, hooks, effects, faults>>

EffectRun(c) ==
    /\ c \in checked
    /\ checked' = checked \ {c}
    /\ effects' = effects \cup {c}
    /\ UNCHANGED <<vars, at, running, started, decided, hooks, faults>>

-----------------------------------------------------------------------------
(* Faults *)

\* A store call throws.  A throwing mark operation may have been applied.
Throws(w) ==
    /\ faults.errors < MaxErrors
    /\ faults' = [faults EXCEPT !.errors = @ + 1]
    /\ \/ /\ at[w].pc = "claiming"
          /\ ClaimAbort(w) /\ Goes(w, Idle) /\ UNCHANGED decided
       \/ /\ at[w].pc = "next"
          /\ \E c \in at[w].batch : Goes(w, [at[w] EXCEPT !.batch = @ \ {c}])
          /\ UNCHANGED <<vars, decided>>
       \/ /\ Beating(w)
          /\ Lose(w) /\ UNCHANGED vars
       \/ /\ at[w].pc = "settle"
          /\ Mark(at[w].claim, at[w].verdict) \/ UNCHANGED vars
          /\ Goes(w, NextJob(w)) /\ UNCHANGED decided
    /\ UNCHANGED <<running, started, hooks, checked, effects>>

\* The process dies with everything it was doing, and is started again.
Crash(w) ==
    /\ faults.crashes < MaxCrashes
    /\ faults' = [faults EXCEPT !.crashes = @ + 1]
    /\ IF scan[w].active THEN ClaimAbort(w) ELSE UNCHANGED vars
    /\ Goes(w, Idle)
    /\ running' = {c \in running : c.worker # w}
    /\ checked' = {c \in checked : c.worker # w}
    /\ UNCHANGED <<started, decided, hooks, effects>>

-----------------------------------------------------------------------------
\* What a worker does without the user's hooks.
Working(w) ==
    \/ Poll(w) \/ ClaimEach(w) \/ Claimed(w) \/ BatchDone(w)
    \/ \E c \in at[w].batch : Refence(w, c) \/ Malformed(w, c)
    \/ Reject(w) \/ Launch(w) \/ Timeout(w) \/ Decide(w) \/ GraceEnds(w)
    \/ Settle(w) \/ Log(w)

Dispatching(w) == Working(w) \/ Hook(w)

Executing(c) == Settles(c) \/ EffectCheck(c) \/ EffectRun(c)

\* Producers, operators and the clock use the table beside the workers.
Outside ==
    /\ \/ Tick
       \/ \E j \in Jobs : Cancelling(j) \/ Enqueue(j, 0)
    /\ UNCHANGED dispatch

DNext ==
    \/ Outside
    \/ \E w \in Workers : Dispatching(w) \/ Heartbeat(w) \/ Throws(w) \/ Crash(w)
    \/ \E c \in running : Executing(c)

DSpec == DInit /\ [][DNext]_dvars

\* A worker that is alive takes its next step: its calls of the store return and
\* its timers fire.  An execution or a hook, which are the user's, need not ever
\* settle, nor anyone cancel.
DFairSpec ==
    /\ DSpec
    /\ WF_dvars(Tick /\ UNCHANGED dispatch)
    /\ \A w \in Workers : WF_dvars(Working(w))

-----------------------------------------------------------------------------
(* Properties *)

HandedOn(c) == \E d \in claims : d.job = c.job /\ d.attempt > c.attempt

\* A job that waited in a batch, however long, is not taken to execution once it
\* has been settled, cancelled or handed to a later attempt; and once it has been
\* handed to a later attempt, no effect of an earlier one gets past its lease
\* assertion any more, not even that of an execution its dispatcher gave up on.
LateWorkFenced ==
    [][/\ \A w \in Workers : at[w].pc = "next" /\ at'[w].pc = "vet" =>
             LET c == at'[w].claim IN
             /\ job[c.job].status = "running" /\ ~HandedOn(c)
             /\ ~\E o \in applied : o.job = c.job /\ o.attempt >= c.attempt
       /\ \A c \in checked' \ checked : ~HandedOn(c)]_dvars

\* The outcome of an attempt is the one its race was decided by: success only
\* of an execution that returned before the timer fired and the lease was
\* found lost, a retry only of a retryable failure or a timeout, and nothing
\* at all of an execution that lost its lease.
OutcomeMatchesRace ==
    \A o \in applied : \A d \in decided :
        d.claim.job = o.job /\ d.claim.attempt = o.attempt =>
            CASE o.status = "succeeded" -> d.by = "ok"
              [] o.status = "retrying" -> d.by \in {"retryable", "timeout"}
              [] o.status = "cancelled" -> d.by = "cancelled"
              [] o.status = "dead_letter" -> d.by \in {"malformed", "timeout"} \cup Kinds
              [] OTHER -> FALSE

\* Hooks follow durable transitions: onRetry runs for an attempt the table
\* recorded as retried, onMaxRetriesExceeded once per job, which is then dead.
HooksFollowTransitions ==
    /\ \A h \in hooks :
          \E o \in applied :
            /\ o.job = h.job /\ o.attempt = h.attempt
            /\ o.status = IF h.kind = "onRetry" THEN "retrying" ELSE "dead_letter"
    /\ \A g, h \in hooks :
          g.job = h.job /\ g.kind = h.kind /\ g.kind = "onMaxRetriesExceeded" => g = h

\* A worker's line in the executions table was preceded by the transition it
\* tells of, and ends the job as the row did, also when the two are written
\* one after the other and the process may die between them.
HistoryFollowsOutcome ==
    \A h \in history : h.worker # Canceller =>
        /\ h \in applied
        /\ h.status \in Terminal \ {"failed"} => job[h.job].status = h.status

\* No execution, however it hangs, keeps a worker from its next poll; only a
\* hook that never settles does, which is awaited without a limit.
WorkerReturns ==
    \A w \in Workers : []<>(at[w].pc = "idle") \/ <>[](at[w].pc = "hook")

\* A job that is enqueued ends, as long as not every worker is kept by a hook,
\* except one whose last attempt was lost: it stays running on a lapsed lease,
\* out of reach of claimDue and of every transition.
HooksReturn(w) == []<>(at[w].pc # "hook")
EndsOrIsStranded ==
    (\E w \in Workers : HooksReturn(w)) =>
    \A j \in Jobs : <>[](\/ job[j].status \in {"absent"} \cup Terminal
                         \/ Lapsed(j) /\ job[j].attempts = MaxAttempts[j])
=============================================================================

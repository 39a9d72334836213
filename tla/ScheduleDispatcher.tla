------------------------- MODULE ScheduleDispatcher -------------------------
(***************************************************************************)
(* materializeDueSchedules over DrizzleScheduleStore: a worker claims due  *)
(* schedules and, for each, decides which missed occurrences become jobs,  *)
(* enqueues them under the occurrence's idempotency key and advances the   *)
(* schedule.  Its lease may run out at any point, and so may the process.  *)
(*                                                                         *)
(* Of a job the decisions see only whether it is queued, running or ended, *)
(* and its runAt.  A lease is held or has run out; the renewal interval    *)
(* changes nothing else, and its failure is that of the next assertHeld.   *)
(* Claim tokens matter only up to equality: a new one is the least number  *)
(* not in use.  The times a cron expression stands for are given as the    *)
(* set Slots; how they are calculated is CronCalculator.                   *)
(***************************************************************************)
EXTENDS Integers, FiniteSets

CONSTANTS
    Slots,          \* the occurrences of the cron expression
    MisfireAfter,   \* lateness the misfire policy "skip" still tolerates
    Schedules, Workers,
    None,           \* no owner, no schedule
    Policies,       \* the policies the schedules may have
    ClaimLimit,     \* the limit of claimDueSchedules
    QueueAllLimit,  \* maxQueueAllOccurrences
    MaxNow,         \* bound on the clock
    MaxFaults,      \* bound on process deaths, calls that throw and delays
    MaxLate         \* bound on the delays: a lease runs out under a living worker,
                    \* or the clock moves while a poll claims

ASSUME SlotsAssumption == Slots \subseteq Nat
ASSUME MisfireAssumption == MisfireAfter \in Nat
ASSUME ClockAssumption ==
    MaxNow \in Nat /\ \A n \in 0..MaxNow : \E o \in Slots : o > n
ASSUME LimitAssumption ==
    ClaimLimit \in Nat \ {0} /\ QueueAllLimit \in Nat \ {0} /\ MaxFaults \in Nat /\ MaxLate \in Nat
ASSUME FinitenessAssumption == IsFiniteSet(Schedules) /\ IsFiniteSet(Workers)
ASSUME NamesAssumption == None \notin Schedules /\ None \notin Workers

-----------------------------------------------------------------------------
(* The decisions about a due schedule that need no store: whether it fires,  *)
(* which occurrences are due, and when it runs next                          *)

Overlaps == {"allow", "skip", "queue"}
Misfires == {"skip", "fire_now", "queue_all"}
Policy == [overlap: Overlaps, misfire: Misfires]
ASSUME PoliciesAssumption == Policies \subseteq Policy
Priors == {"none", "queued", "running", "ended"}
LastStatuses == {"none", "running", "fired", "skipped", "failed"}

Active == {"queued", "running"}

\* A bug to be caught: only a running execution is in the way of the next.
ShouldFireBesideQueued(policy, next, last, now, prior) ==
    IF now < next THEN "ignore"
    ELSE IF now - next > MisfireAfter /\ policy.misfire = "skip" THEN "skip"
    ELSE IF policy.overlap = "queue" THEN "queue"
    ELSE IF policy.overlap = "skip" /\ prior = "running" THEN "skip"
    ELSE "fire"

\* `last' is the lastStatus column of before the claim, `prior' the state of
\* the last execution before this occurrence.
ShouldFire(policy, next, last, now, prior) ==
    IF now < next THEN "ignore"
    ELSE IF now - next > MisfireAfter /\ policy.misfire = "skip" THEN "skip"
    ELSE IF policy.overlap = "queue" THEN "queue"
    ELSE IF policy.overlap = "skip"
            /\ (prior \in Active \/ (prior = "none" /\ last = "running")) THEN "skip"
    ELSE "fire"

Least(S) == CHOOSE n \in S : \A m \in S : n <= m
Greatest(S) == CHOOSE n \in S : \A m \in S : m <= n

\* The first k members of a set of times.
Earliest(k, S) == {n \in S : Cardinality({m \in S : m < n}) < k}

ComputeScheduleOccurrences(next, now, maxCount) ==
    Earliest(maxCount, {o \in Slots : next <= o /\ o <= now})

NextRun(after) == Least({o \in Slots : o > after})

-----------------------------------------------------------------------------
VARIABLES
    now,       \* the clock
    policy,    \* overlapPolicy and misfirePolicy of each schedule
    schedule,  \* the rows
    jobs,      \* the job of each occurrence
    pc,        \* where each worker is
    clock,     \* the `now' its poll works with
    picked,    \* the rows it selected and has still to claim
    batch,     \* its claims still to process
    cur,       \* the claim it is processing
    prior,     \* the state of the execution before that claim's occurrence
    todo,      \* the occurrences still to enqueue
    found,     \* what its lookup of the current occurrence's job returned
    chain,     \* lastJobStatus: the state of the occurrence before, in this loop
    faults,    \* how many deaths and throwing calls there were
    late       \* how many delays

progress == <<clock, picked, batch, cur, prior, todo, found, chain>>
svars == <<now, policy, schedule, jobs, pc, progress, faults, late>>

Occurrence == Schedules \X Slots
Claim == [schedule: Schedules, token: Nat, slot: Slots, last: LastStatuses]
NoClaim == [schedule |-> None, token |-> 0, slot |-> 0, last |-> "none"]
NoJob == [status |-> "none", runAt |-> 0]

Fences == {"fence", "refence", "close"}
Places == {"idle", "claiming", "next", "lookup", "enqueue", "advance", "skip",
           "fail"} \cup Fences

STypeOK ==
    /\ now \in 0..MaxNow
    /\ policy \in [Schedules -> Policies]
    /\ schedule \in [Schedules -> [next: Slots, status: LastStatuses, held: BOOLEAN,
                                   owner: Workers \cup {None}, token: Nat]]
    /\ jobs \in [Occurrence -> [status: Priors, runAt: Nat]]
    /\ pc \in [Workers -> Places]
    /\ clock \in [Workers -> 0..MaxNow]
    /\ picked \in [Workers -> SUBSET [schedule: Schedules, last: LastStatuses]]
    /\ batch \in [Workers -> SUBSET Claim]
    /\ cur \in [Workers -> Claim \cup {NoClaim}]
    /\ prior \in [Workers -> Priors] /\ found \in [Workers -> Priors]
    /\ chain \in [Workers -> Priors]
    /\ todo \in [Workers -> SUBSET Slots]
    /\ faults \in 0..MaxFaults
    /\ late \in 0..MaxLate

Init ==
    /\ now = 0
    /\ policy \in [Schedules -> Policies]
    /\ schedule = [s \in Schedules |-> [next |-> Least(Slots), status |-> "none",
                                        held |-> FALSE, owner |-> None, token |-> 0]]
    /\ jobs = [o \in Occurrence |-> NoJob]
    /\ pc = [w \in Workers |-> "idle"]
    /\ clock = [w \in Workers |-> 0]
    /\ picked = [w \in Workers |-> {}]
    /\ batch = [w \in Workers |-> {}]
    /\ cur = [w \in Workers |-> NoClaim]
    /\ prior = [w \in Workers |-> "none"]
    /\ todo = [w \in Workers |-> {}]
    /\ found = [w \in Workers |-> "none"]
    /\ chain = [w \in Workers |-> "none"]
    /\ faults = 0
    /\ late = 0

Goto(w, place) == pc' = [pc EXCEPT ![w] = place]

-----------------------------------------------------------------------------
(* The schedule store *)

\* The claim still owns the row, and its lease holds.
Holds(w, c) ==
    /\ schedule[c.schedule].status = "running"
    /\ schedule[c.schedule].held
    /\ schedule[c.schedule].owner = w
    /\ schedule[c.schedule].token = c.token

DueSchedules == {s \in Schedules : schedule[s].next <= now}

\* A bug to be caught: a lease that ran out is not looked at.
ClaimableIdleOnly(s, at) == schedule[s].next <= at /\ schedule[s].status # "running"

Claimable(s, at) ==
    /\ schedule[s].next <= at
    /\ schedule[s].status = "running" => ~schedule[s].held

Tokens == {schedule[s].token : s \in Schedules}
          \cup {c.token : c \in UNION {batch[w] \cup {cur[w]} : w \in Workers}}
FreshToken == Least((1 .. Cardinality(Tokens) + 1) \ Tokens)

AdvanceSchedule(w, next, status) ==
    schedule' = IF Holds(w, cur[w])
                THEN [schedule EXCEPT ![cur[w].schedule] =
                        [next |-> next, status |-> status, held |-> FALSE,
                         owner |-> None, token |-> 0]]
                ELSE schedule

-----------------------------------------------------------------------------
(* claimDueSchedules: select, update each row, read back those still held *)

Poll(w) ==
    /\ pc[w] = "idle"
    /\ DueSchedules # {}
    /\ \E S \in SUBSET DueSchedules :
         /\ Cardinality(S) <= ClaimLimit
         /\ \/ S = DueSchedules
            \/ /\ Cardinality(S) = ClaimLimit
               /\ \A s \in S, t \in DueSchedules \ S : schedule[s].next <= schedule[t].next
         /\ picked' = [picked EXCEPT ![w] =
                         {[schedule |-> s, last |-> schedule[s].status] : s \in S}]
    /\ clock' = [clock EXCEPT ![w] = now]
    /\ Goto(w, "claiming")
    /\ UNCHANGED <<now, policy, schedule, jobs, batch, cur, prior, todo, found, chain, faults,
                   late>>

ClaimSchedule(w, p) ==
    /\ pc[w] = "claiming" /\ p \in picked[w]
    /\ Claimable(p.schedule, clock[w])
    /\ schedule' = [schedule EXCEPT ![p.schedule] =
                      [next |-> @.next, status |-> "running", held |-> TRUE,
                       owner |-> w, token |-> FreshToken]]
    /\ batch' = [batch EXCEPT ![w] = @ \cup
                   {[schedule |-> p.schedule, token |-> FreshToken,
                     slot |-> schedule[p.schedule].next, last |-> p.last]}]
    /\ picked' = [picked EXCEPT ![w] = @ \ {p}]
    /\ UNCHANGED <<now, policy, jobs, pc, clock, cur, prior, todo, found, chain, faults, late>>

MissSchedule(w, p) ==
    /\ pc[w] = "claiming" /\ p \in picked[w]
    /\ ~Claimable(p.schedule, clock[w])
    /\ picked' = [picked EXCEPT ![w] = @ \ {p}]
    /\ UNCHANGED <<now, policy, schedule, jobs, pc, clock, batch, cur, prior, todo, found,
                   chain, faults, late>>

Readback(w) ==
    /\ pc[w] = "claiming" /\ picked[w] = {}
    /\ batch' = [batch EXCEPT ![w] = {c \in @ : Holds(w, c)}]
    /\ Goto(w, "next")
    /\ UNCHANGED <<now, policy, schedule, jobs, clock, picked, cur, prior, todo, found, chain,
                   faults, late>>

-----------------------------------------------------------------------------
(* One claim *)

\* The worker is done with its claim, and takes the next one.
Leave(w) ==
    /\ Goto(w, "next")
    /\ cur' = [cur EXCEPT ![w] = NoClaim]
    /\ todo' = [todo EXCEPT ![w] = {}]
    /\ prior' = [prior EXCEPT ![w] = "none"]
    /\ found' = [found EXCEPT ![w] = "none"]
    /\ chain' = [chain EXCEPT ![w] = "none"]
    /\ UNCHANGED <<clock, picked, batch>>

PolledOut(w) ==
    /\ pc[w] = "next" /\ batch[w] = {}
    /\ Goto(w, "idle")
    /\ clock' = [clock EXCEPT ![w] = 0]
    /\ UNCHANGED <<now, policy, schedule, jobs, picked, batch, cur, prior, todo, found, chain,
                   faults, late>>

\* getLatestPriorScheduleExecution: the last job of the schedule by runAt
\* that was to run before the occurrence.
Earlier(s, slot) ==
    {o \in Slots : jobs[s, o].status # "none" /\ jobs[s, o].runAt < slot}
LatestPrior(s, slot) ==
    LET last == CHOOSE o \in Earlier(s, slot) : \A q \in Earlier(s, slot) :
                    jobs[s, q].runAt <= jobs[s, o].runAt
    IN IF Earlier(s, slot) = {} THEN "none" ELSE jobs[s, last].status

PolicyOf(w) == policy[cur[w].schedule]
\* A bug to be caught: the latest missed occurrence is fired, not the one due.
DueOccurrencesLatest(p, c, at) ==
    IF p.misfire = "fire_now" THEN {Greatest({o \in Slots : o <= at})}
    ELSE ComputeScheduleOccurrences(c.slot, at, QueueAllLimit + 1)

DueOccurrences(p, c, at) ==
    IF p.misfire = "fire_now" THEN {c.slot}
    ELSE ComputeScheduleOccurrences(c.slot, at, QueueAllLimit + 1)

Decide(w, c) ==
    /\ pc[w] = "next" /\ c \in batch[w]
    /\ batch' = [batch EXCEPT ![w] = @ \ {c}]
    /\ cur' = [cur EXCEPT ![w] = c]
    /\ prior' = [prior EXCEPT ![w] = LatestPrior(c.schedule, c.slot)]
    /\ LET p == policy[c.schedule]
           due == DueOccurrences(p, c, clock[w])
       IN \/ /\ ShouldFire(p, c.slot, c.last, clock[w], prior'[w]) \in {"ignore", "skip"}
             /\ Goto(w, "skip")
             /\ UNCHANGED todo
          \/ /\ ShouldFire(p, c.slot, c.last, clock[w], prior'[w]) \in {"fire", "queue"}
             /\ IF p.misfire = "queue_all" /\ Cardinality(due) > QueueAllLimit
                THEN Goto(w, "fail") /\ UNCHANGED todo
                ELSE Goto(w, "fence") /\ todo' = [todo EXCEPT ![w] = due]
    /\ UNCHANGED <<now, policy, schedule, jobs, clock, picked, found, chain, faults, late>>

\* The occurrence the loop is at, and the step to the next one.
At(w) == Least(todo[w])
NextOccurrence(w) ==
    /\ todo' = [todo EXCEPT ![w] = @ \ {At(w)}]
    /\ found' = [found EXCEPT ![w] = "none"]
    /\ Goto(w, IF todo[w] = {At(w)} THEN "close" ELSE "fence")

\* Overlap is looked at again only under the misfire policy "queue_all".
OverlapsChain(w) ==
    /\ PolicyOf(w).misfire = "queue_all"
    /\ ShouldFire(PolicyOf(w), cur[w].slot, cur[w].last, clock[w],
                  IF chain[w] = "none" THEN prior[w] ELSE chain[w]) = "skip"

\* assertHeld renews the lease, or gives the claim up.
LeaseLost(w) ==
    /\ pc[w] \in Fences
    /\ ~Holds(w, cur[w])
    /\ Leave(w)
    /\ UNCHANGED <<now, policy, schedule, jobs, faults, late>>

Fence(w) ==
    /\ pc[w] = "fence"
    /\ Holds(w, cur[w])
    /\ Goto(w, "lookup")
    /\ UNCHANGED <<now, policy, schedule, jobs, progress, faults, late>>

Lookup(w) ==
    /\ pc[w] = "lookup"
    /\ found' = [found EXCEPT ![w] = jobs[cur[w].schedule, At(w)].status]
    /\ Goto(w, "refence")
    /\ UNCHANGED <<now, policy, schedule, jobs, clock, picked, batch, cur, prior, todo, chain,
                   faults, late>>

Refence(w) ==
    /\ pc[w] = "refence"
    /\ Holds(w, cur[w])
    /\ \/ OverlapsChain(w) /\ NextOccurrence(w) /\ UNCHANGED chain
       \/ /\ ~OverlapsChain(w) /\ found[w] # "none"
          /\ chain' = [chain EXCEPT ![w] = found[w]]
          /\ NextOccurrence(w)
       \/ /\ ~OverlapsChain(w) /\ found[w] = "none"
          /\ Goto(w, "enqueue")
          /\ UNCHANGED <<todo, found, chain>>
    /\ UNCHANGED <<now, policy, schedule, jobs, clock, picked, batch, cur, prior, faults, late>>

RunAt(w) == IF PolicyOf(w).misfire = "fire_now" THEN clock[w] ELSE At(w)

\* The job of this occurrence exists and was enqueued with another runAt.
Conflicts(w) ==
    LET j == jobs[cur[w].schedule, At(w)]
    IN j.status # "none" /\ j.runAt # RunAt(w)

\* The idempotency key admits one job per occurrence.
JobsAfterEnqueue(w) ==
    IF jobs[cur[w].schedule, At(w)].status = "none"
    THEN [jobs EXCEPT ![<<cur[w].schedule, At(w)>>] = [status |-> "queued", runAt |-> RunAt(w)]]
    ELSE jobs

Enqueue(w) ==
    /\ pc[w] = "enqueue"
    /\ ~Conflicts(w)
    /\ jobs' = JobsAfterEnqueue(w)
    /\ chain' = [chain EXCEPT ![w] = "queued"]
    /\ NextOccurrence(w)
    /\ UNCHANGED <<now, policy, schedule, clock, picked, batch, cur, prior, faults, late>>

EnqueueConflict(w) ==
    /\ pc[w] = "enqueue"
    /\ Conflicts(w)
    /\ Goto(w, "fail")
    /\ UNCHANGED <<now, policy, schedule, jobs, progress, faults, late>>

Close(w) ==
    /\ pc[w] = "close"
    /\ Holds(w, cur[w])
    /\ Goto(w, "advance")
    /\ UNCHANGED <<now, policy, schedule, jobs, progress, faults, late>>

\* The occurrence after the last one fired, or after now.
RunAfter(w) ==
    IF PolicyOf(w).misfire = "fire_now" THEN NextRun(clock[w])
    ELSE NextRun(Greatest(DueOccurrences(PolicyOf(w), cur[w], clock[w])))

MoveOn(w) ==
    \/ pc[w] = "advance" /\ AdvanceSchedule(w, RunAfter(w), "fired")
    \/ pc[w] = "skip" /\ AdvanceSchedule(w, NextRun(clock[w]), "skipped")

Advance(w) ==
    /\ MoveOn(w)
    /\ Leave(w)
    /\ UNCHANGED <<now, policy, jobs, faults, late>>

\* A bug to be caught: a failed schedule moves on to its next run.
FailPastOccurrence(w) ==
    /\ pc[w] = "fail"
    /\ AdvanceSchedule(w, NextRun(clock[w]), "failed")
    /\ Leave(w)
    /\ UNCHANGED <<now, policy, jobs, faults, late>>

\* The catch block: the schedule is let go where it was.
Fail(w) ==
    /\ pc[w] = "fail"
    /\ AdvanceSchedule(w, cur[w].slot, "failed")
    /\ Leave(w)
    /\ UNCHANGED <<now, policy, jobs, faults, late>>

-----------------------------------------------------------------------------
(* Faults *)

\* The claim is malformed, or the query for the prior execution throws.
DecideThrows(w, c) ==
    /\ faults + late < MaxFaults
    /\ faults' = faults + 1
    /\ pc[w] = "next" /\ c \in batch[w]
    /\ batch' = [batch EXCEPT ![w] = @ \ {c}]
    /\ cur' = [cur EXCEPT ![w] = c]
    /\ Goto(w, "fail")
    /\ UNCHANGED <<now, policy, schedule, jobs, clock, picked, prior, todo, found, chain, late>>

\* A store call throws; an enqueue or an advance may have been applied.
CallThrows(w) ==
    /\ faults + late < MaxFaults
    /\ faults' = faults + 1
    /\ \/ /\ pc[w] \in Fences \cup {"fail"}
          /\ Leave(w)
          /\ UNCHANGED <<schedule, jobs>>
       \/ /\ pc[w] \in {"lookup", "enqueue", "advance", "skip"}
          /\ Goto(w, "fail")
          /\ UNCHANGED <<schedule, jobs, progress>>
       \/ /\ pc[w] = "enqueue"
          /\ jobs' = JobsAfterEnqueue(w)
          /\ Goto(w, "fail")
          /\ UNCHANGED <<schedule, progress>>
       \/ /\ MoveOn(w)
          /\ Goto(w, "fail")
          /\ UNCHANGED <<jobs, progress>>
    /\ UNCHANGED <<now, policy, late>>

\* The process dies, or claimDueSchedules throws.
Crash(w) ==
    /\ faults + late < MaxFaults
    /\ pc[w] # "idle"
    /\ faults' = faults + 1
    /\ Goto(w, "idle")
    /\ clock' = [clock EXCEPT ![w] = 0]
    /\ picked' = [picked EXCEPT ![w] = {}]
    /\ batch' = [batch EXCEPT ![w] = {}]
    /\ cur' = [cur EXCEPT ![w] = NoClaim]
    /\ prior' = [prior EXCEPT ![w] = "none"]
    /\ todo' = [todo EXCEPT ![w] = {}]
    /\ found' = [found EXCEPT ![w] = "none"]
    /\ chain' = [chain EXCEPT ![w] = "none"]
    /\ UNCHANGED <<now, policy, schedule, jobs, late>>

-----------------------------------------------------------------------------
(* The clock, the leases and the jobs *)

LateIf(cond) ==
    /\ late' = IF cond THEN late + 1 ELSE late
    /\ late' <= MaxLate /\ faults + late' <= MaxFaults

Claiming == {w \in Workers : pc[w] = "claiming"}

Tick ==
    /\ now' = IF now < MaxNow THEN now + 1 ELSE now
    /\ LateIf(Claiming # {})
    /\ UNCHANGED <<policy, schedule, jobs, pc, progress, faults>>

\* The worker a row belongs to lives and has not let the claim go.
InHand(s) ==
    \E w \in Workers : \E c \in batch[w] \cup {cur[w]} : c.schedule = s /\ Holds(w, c)

LeaseRunsOut(s) ==
    /\ schedule[s].held
    /\ LateIf(InHand(s))
    /\ schedule' = [schedule EXCEPT ![s].held = FALSE]
    /\ UNCHANGED <<now, policy, jobs, pc, progress, faults>>

SetJob(s, o, status) ==
    /\ jobs' = [jobs EXCEPT ![<<s, o>>].status = status]
    /\ UNCHANGED <<now, policy, schedule, pc, progress, faults, late>>

\* A queueing schedule gives its jobs one partition key.
JobStarts(s, o) ==
    /\ jobs[s, o].status = "queued"
    /\ policy[s].overlap = "queue" => \A q \in Slots : jobs[s, q].status # "running"
    /\ SetJob(s, o, "running")

JobRetries(s, o) == jobs[s, o].status = "running" /\ SetJob(s, o, "queued")
JobEnds(s, o) == jobs[s, o].status \in Active /\ SetJob(s, o, "ended")

-----------------------------------------------------------------------------
Step(w) ==
    \/ Poll(w)
    \/ \E p \in picked[w] : ClaimSchedule(w, p) \/ MissSchedule(w, p)
    \/ Readback(w) \/ PolledOut(w)
    \/ \E c \in batch[w] : Decide(w, c)
    \/ Fence(w) \/ LeaseLost(w) \/ Lookup(w) \/ Refence(w)
    \/ Enqueue(w) \/ EnqueueConflict(w) \/ Close(w) \/ Advance(w) \/ Fail(w)

JobSteps(s, o) == JobStarts(s, o) \/ JobRetries(s, o) \/ JobEnds(s, o)

Next ==
    \/ \E w \in Workers : Step(w) \/ CallThrows(w) \/ Crash(w)
    \/ \E w \in Workers : \E c \in batch[w] : DecideThrows(w, c)
    \/ \E s \in Schedules : LeaseRunsOut(s) \/ \E o \in Slots : JobSteps(s, o)
    \/ Tick

SSpec == Init /\ [][Next]_svars

\* Workers keep polling, and the lease of a claim nobody holds runs out.
\* Faults are bounded, so they end.
SFairness ==
    /\ \A w \in Workers : WF_svars(Step(w))
    /\ \A s \in Schedules : WF_svars(LeaseRunsOut(s))
SFairSpec == SSpec /\ SFairness

-----------------------------------------------------------------------------
(* Properties *)

ActiveOccurrences(s) == {o \in Slots : jobs[s, o].status \in Active}

\* A schedule whose overlap policy is "skip" never has two jobs under way,
\* though it decides on one state of the history and enqueues in another.
\* Workers that outlive their leases are beyond this, and so is a schedule
\* that skips misfires too: all it has due is enqueued at once.
OverlapRespected ==
    late = 0 => \A s \in Schedules :
        policy[s].overlap = "skip" /\ policy[s].misfire # "skip" =>
            Cardinality(ActiveOccurrences(s)) <= 1

\* A schedule that queues all its occurrences, and may have several under
\* way, has a job for every occurrence it moved past, whatever failed, was
\* retried or was taken over meanwhile.
NothingPassedOver ==
    \A s \in Schedules :
        policy[s].misfire = "queue_all" /\ policy[s].overlap # "skip" =>
            \A o \in Slots : o < schedule[s].next => jobs[s, o].status # "none"

\* A schedule never moves back, and moves on from an occurrence as fired only
\* once that occurrence has its job (the enqueue comes before the advance,
\* and a failure lets the schedule go where it was).
FiredIsEnqueued ==
    [][\A s \in Schedules :
          /\ schedule'[s].next >= schedule[s].next
          /\ schedule'[s].next > schedule[s].next /\ schedule'[s].status = "fired"
                => jobs[s, schedule[s].next].status # "none"]_svars

\* A schedule catches up with the clock for good, whatever failed, was taken
\* over or ran late, unless more of its occurrences are due than one pass may
\* queue.
DueSchedulesMoveOn ==
    \A s \in Schedules :
        <>[](\/ schedule[s].next > now
             \/ policy[s].misfire = "queue_all" /\ now - schedule[s].next >= QueueAllLimit)
=============================================================================

------------------------------- MODULE JobProofs -------------------------------
(***************************************************************************)
(* For every set of jobs and workers, every partitioning, attempt limit,   *)
(* lease term and history mode.  The job store keeps its types, ends a job *)
(* once and lets a running one be taken over only after its lease.  Where  *)
(* a transition of no row is told from one of a row, or no history is      *)
(* required, an attempt is settled once and the history is true to the     *)
(* rows; where claim updates run one at a time, the jobs of a partition    *)
(* are kept apart; and a store of both kinds implements JobLifecycle.      *)
(*                                                                         *)
(* The dispatcher takes only steps of the store, whatever crashes, throws, *)
(* hangs or comes late, so all of this holds of it too; beyond it, an      *)
(* attempt ends as its race was decided, hooks follow transitions, and     *)
(* late work does not get past its fence.                                  *)
(***************************************************************************)
EXTENDS JobDispatcher, TLAPS

LEMMA SettledIsRow ==
    ASSUME NEW r \in Row, NEW status \in Terminal \cup {"retrying"}, NEW d \in Nat
    PROVE  Settled(r, status, d) \in Row
BY DEF Row, Settled, Unheld, Statuses, Terminal, Waiting

LEMMA ElapsedIsRow ==
    ASSUME NEW r \in Row
    PROVE  Elapsed(r) \in Row
BY DEF Row, Elapsed

LEMMA ReportKeepsTypes ==
    ASSUME TypeOK, NEW o \in Outcome, Report(o)
    PROVE  applied' \subseteq Outcome /\ unlogged' \subseteq Outcome /\ history' \subseteq Outcome
BY DEF TypeOK, Report

LEMMA TypesInitially == Init => TypeOK
BY DEF Init, Unheld, TypeOK, Row, Statuses, NoScan, NoCancel, Scan

LEMMA ClaimKeepsTypes ==
    ASSUME TypeOK, NEW w \in Workers, Claiming(w) \/ ClaimAbort(w)
    PROVE  TypeOK'
<1> USE DEF TypeOK
<1>1. CASE ClaimSelect(w)
  BY <1>1 DEF ClaimSelect, Eligible, Scan, Scanning
<1>2. CASE ClaimReadback(w)
  BY <1>2 DEF ClaimReadback, Scan, NoScan
<1>3. CASE ClaimAbort(w)
  BY <1>3 DEF ClaimAbort, Scan, NoScan
<1>4. ASSUME NEW j \in Jobs, ClaimProbe(w, j) PROVE TypeOK'
  BY <1>4 DEF ClaimProbe, Scan
<1>5. ASSUME NEW j \in Jobs, ClaimMiss(w, j) PROVE TypeOK'
  BY <1>5 DEF ClaimMiss, Scan, Scanning
<1>6. ASSUME NEW j \in Jobs, ClaimRow(w, j) PROVE TypeOK'
  <2> USE <1>6 DEF ClaimRow
  <2>1. issued' \in Nat
    OBVIOUS
  <2>2. job' \in [Jobs -> Row]
    BY <2>1, TermAssumption DEF Row, Statuses
  <2>3. scan' \in [Workers -> Scan]
    <3>1. [job |-> j, worker |-> w, token |-> issued + 1, attempt |-> job[j].attempts + 1] \in Claim
      BY DEF Claim, Row
    <3>2. QED
      BY <3>1 DEF Scan, Scanning
  <2>4. QED
    BY <2>1, <2>2, <2>3
<1>7. QED
  BY <1>1, <1>2, <1>3, <1>4, <1>5, <1>6 DEF Claiming

LEMMA TransitionKeepsTypes ==
    ASSUME TypeOK, NEW c \in claims, NEW status \in Terminal \cup {"retrying"}, NEW d \in Nat,
           Transition(c, status, d)
    PROVE  TypeOK'
<1> USE DEF TypeOK
<1>1. c.job \in Jobs /\ OutcomeOf(c, status) \in Outcome
  BY DEF Claim, OutcomeOf, Outcome
<1>2. job' \in [Jobs -> Row]
  <2>1. Settled(job[c.job], status, d) \in Row
    BY <1>1, SettledIsRow
  <2>2. QED
    BY <2>1 DEF Transition
<1>3. applied' \subseteq Outcome /\ unlogged' \subseteq Outcome /\ history' \subseteq Outcome
  BY <1>1, ReportKeepsTypes DEF Transition
<1>4. QED
  BY <1>2, <1>3 DEF Transition

LEMMA UseKeepsTypes ==
    ASSUME TypeOK, NEW c \in claims, Using(c)
    PROVE  TypeOK'
<1>1. CASE RenewLease(c)
  <2>1. c.job \in Jobs
    BY DEF TypeOK, Claim
  <2>2. [job[c.job] EXCEPT !.lease = LeaseTerm] \in Row
    BY <2>1, TermAssumption DEF TypeOK, Row
  <2>3. job' = [job EXCEPT ![c.job] = [job[c.job] EXCEPT !.lease = LeaseTerm]]
    BY <1>1 DEF RenewLease
  <2>4. job' \in [Jobs -> Row]
    BY <2>1, <2>2, <2>3 DEF TypeOK
  <2>5. QED
    BY <1>1, <2>4 DEF TypeOK, RenewLease
<1>2. CASE MarkSucceeded(c)
  BY <1>2, TransitionKeepsTypes DEF MarkSucceeded, Terminal
<1>3. ASSUME NEW d \in Delays, MarkRetrying(c, d) PROVE TypeOK'
  BY <1>3, TransitionKeepsTypes, TermAssumption DEF MarkRetrying
<1>4. ASSUME NEW status \in {"failed", "dead_letter", "cancelled"}, MarkFailed(c, status)
      PROVE TypeOK'
  BY <1>4, TransitionKeepsTypes DEF MarkFailed, Terminal
<1>5. QED
  BY <1>1, <1>2, <1>3, <1>4 DEF Using

LEMMA CancelKeepsTypes ==
    ASSUME TypeOK, NEW j \in Jobs, Cancelling(j)
    PROVE  TypeOK'
<1> USE DEF TypeOK
<1>1. Settled(job[j], "cancelled", 0) \in Row
  BY SettledIsRow DEF Terminal
<1>2. ASSUME NEW n \in Nat PROVE Cancellation(j, n) \in Outcome
  BY DEF Cancellation, Outcome, Terminal
<1>3. job[j].attempts \in Nat
  BY DEF Row
<1>4. CASE Cancel(j)
  <2>1. CASE Required
    BY <1>1, <1>2, <1>3, <1>4, <2>1 DEF Cancel
  <2>2. CASE ~Required
    BY <1>3, <1>4, <2>2 DEF Cancel
  <2>3. QED
    BY <2>1, <2>2
<1>6. CASE CancelLog(j)
  BY <1>2, <1>6 DEF CancelLog
<1>7. CASE CancelApply(j)
  BY <1>1, <1>7 DEF CancelApply, NoCancel
<1>8. QED
  BY <1>4, <1>6, <1>7 DEF Cancelling

LEMMA TypesInductive == TypeOK /\ [Next]_vars => TypeOK'
<1> SUFFICES ASSUME TypeOK, [Next]_vars PROVE TypeOK'
  OBVIOUS
<1>1. CASE UNCHANGED vars
  BY <1>1 DEF TypeOK, vars
<1>2. CASE Tick
  BY <1>2, ElapsedIsRow DEF TypeOK, Tick
<1>3. ASSUME NEW j \in Jobs, NEW d \in Delays, Enqueue(j, d) PROVE TypeOK'
  BY <1>3, TermAssumption DEF TypeOK, Enqueue, Unheld, Row, Statuses, Waiting
<1>4. ASSUME NEW o \in unlogged, RecordExecution(o) PROVE TypeOK'
  BY <1>4 DEF TypeOK, RecordExecution
<1>5. QED
  BY <1>1, <1>2, <1>3, <1>4, ClaimKeepsTypes, UseKeepsTypes, CancelKeepsTypes DEF Next, Enqueued

\* The rows, claims, outcomes and history of the store keep their types.
THEOREM StoreTyped == Spec => []TypeOK
BY TypesInitially, TypesInductive, PTL DEF Spec

-----------------------------------------------------------------------------
(* How a row may change, in every mode *)

\* A step writes at most one row, or lets time pass for all: it enqueues an
\* absent one, grants a due one under the next token, and takes a running or
\* cancellable one from its worker.
Granted(w, r, s) ==
    /\ r.status \in Waiting \/ (r.status = "running" /\ r.lease < 0)
    /\ s.status = "running" /\ s.attempts = r.attempts + 1
    /\ s.owner = w /\ s.token = issued + 1

RowStep(r, s) ==
    \/ s = r \/ s = Elapsed(r)
    \/ r.status = "absent" /\ s.status = "pending"
    \/ \E w \in Workers : Granted(w, r, s)
    \/ r.status = "running" /\ s.status = "running" /\ s.attempts = r.attempts /\ s.token = r.token
    \/ /\ r.status = "running" /\ s.status \in Terminal \cup {"retrying"}
       /\ s.attempts = r.attempts
    \/ /\ r.status \in {"pending", "running", "retrying", "failed"} /\ s.status = "cancelled"
       /\ s.attempts = r.attempts

LEMMA RowsStep ==
    ASSUME TypeOK, [Next]_vars, NEW j \in Jobs
    PROVE  RowStep(job[j], job'[j])
<1> DEFINE Goal == RowStep(job[j], job'[j])
<1>1. ASSUME Tick \/ UNCHANGED vars PROVE Goal
  BY <1>1 DEF Tick, vars, RowStep
<1>2. ASSUME NEW k \in Jobs, NEW d \in Delays, Enqueue(k, d) PROVE Goal
  BY <1>2 DEF TypeOK, Enqueue, Unheld, RowStep
<1>3. ASSUME NEW w \in Workers, Claiming(w) \/ ClaimAbort(w) PROVE Goal
  <2>1. ASSUME NEW k \in Jobs, ClaimRow(w, k) PROVE Goal
    <3>1. k # j => job'[j] = job[j]
      BY <2>1 DEF TypeOK, ClaimRow
    <3>2. k = j => Granted(w, job[j], job'[j])
      BY <2>1 DEF TypeOK, ClaimRow, Qualifies, Due, Lapsed, Granted
    <3>3. QED
      BY <3>1, <3>2 DEF RowStep
  <2>2. CASE UNCHANGED job
    BY <2>2 DEF RowStep
  <2>3. QED
    BY <1>3, <2>1, <2>2
       DEF Claiming, ClaimSelect, ClaimReadback, ClaimAbort, ClaimProbe, ClaimMiss
<1>4. ASSUME NEW c \in claims, Using(c) PROVE Goal
  <2>1. c.job \in Jobs
    BY DEF TypeOK, Claim
  <2>2. ASSUME NEW status \in Terminal \cup {"retrying"}, NEW d, Transition(c, status, d)
        PROVE  Goal
    BY <2>1, <2>2 DEF TypeOK, Transition, Fenced, Holds, Live, Settled, Unheld, RowStep
  <2>3. CASE RenewLease(c)
    BY <2>1, <2>3 DEF TypeOK, Row, RenewLease, Holds, Live, RowStep
  <2>4. QED
    BY <1>4, <2>2, <2>3 DEF Using, MarkSucceeded, MarkRetrying, MarkFailed, Terminal
<1>5. ASSUME NEW k \in Jobs, Cancelling(k) PROVE Goal
  BY <1>5 DEF TypeOK, Cancelling, Cancel, CancelLog, CancelApply,
              Cancellable, Settled, Unheld, RowStep
<1>6. ASSUME NEW o \in unlogged, RecordExecution(o) PROVE Goal
  BY <1>6 DEF RecordExecution, RowStep
<1>7. QED
  BY <1>1, <1>2, <1>3, <1>4, <1>5, <1>6 DEF Next, Enqueued

\* A finished job stays as it finished, in every mode of the store: also
\* where updated rows cannot be counted and claims race.
THEOREM StoreFinalStaysFinal == Spec => FinalStaysFinal
<1> DEFINE Stays(j) ==
      job[j].status \in Terminal =>
          /\ job'[j].attempts = job[j].attempts
          /\ \/ job'[j].status = job[j].status
             \/ job[j].status = "failed" /\ job'[j].status = "cancelled"
<1>1. ASSUME TypeOK, [Next]_vars, NEW j \in Jobs PROVE Stays(j)
  <2>1. RowStep(job[j], job'[j])
    BY <1>1, RowsStep
  <2>2. QED
    BY <2>1 DEF RowStep, Granted, Elapsed, Terminal, Waiting
<1>2. TypeOK /\ [Next]_vars => [\A j \in Jobs : Stays(j)]_vars
  BY <1>1
<1>3. QED
  BY <1>2, StoreTyped, PTL DEF Spec, FinalStaysFinal

\* Every token in use was issued.
TokensIssued ==
    /\ \A c \in claims : c.token <= issued
    /\ \A w \in Workers : \A c \in scan[w].got : c.token <= issued

LEMMA TokensInductive ==
    ASSUME TypeOK, TokensIssued, [Next]_vars
    PROVE  TokensIssued'
<1> USE DEF TokensIssued
<1>1. ASSUME NEW w \in Workers, Claiming(w) \/ ClaimAbort(w) PROVE TokensIssued'
  <2> USE DEF TypeOK
  <2>1. CASE ClaimSelect(w)
    BY <2>1 DEF ClaimSelect, Scanning
  <2>2. CASE ClaimReadback(w)
    BY <2>2 DEF ClaimReadback, NoScan
  <2>3. CASE ClaimAbort(w)
    BY <2>3 DEF ClaimAbort, NoScan
  <2>4. ASSUME NEW j \in Jobs, ClaimProbe(w, j) PROVE TokensIssued'
    <3>1. \A v \in Workers : scan'[v].got = scan[v].got
      BY <2>4 DEF ClaimProbe, Scan
    <3>2. QED
      BY <2>4, <3>1 DEF ClaimProbe
  <2>5. ASSUME NEW j \in Jobs, ClaimMiss(w, j) PROVE TokensIssued'
    BY <2>5 DEF ClaimMiss, Scanning
  <2>6. ASSUME NEW j \in Jobs, ClaimRow(w, j) PROVE TokensIssued'
    <3>1. issued' = issued + 1 /\ issued \in Nat /\ UNCHANGED claims
      BY <2>6 DEF ClaimRow
    <3>2. \A v \in Workers : \A c \in scan'[v].got :
             c \in scan[v].got \/ c.token = issued + 1
      BY <2>6 DEF ClaimRow, Scanning
    <3>3. \A v \in Workers : scan[v].got \subseteq Claim
      BY DEF Scan
    <3>4. QED
      BY <3>1, <3>2, <3>3 DEF Claim
  <2>7. QED
    BY <1>1, <2>1, <2>2, <2>3, <2>4, <2>5, <2>6 DEF Claiming
<1>2. CASE UNCHANGED <<issued, scan, claims>>
  BY <1>2
<1>3. ASSUME ~\E w \in Workers : Claiming(w) \/ ClaimAbort(w)
      PROVE  UNCHANGED <<issued, scan, claims>>
  BY <1>3 DEF Next, Enqueued, vars, Tick, Enqueue, Cancelling, Cancel, CancelLog, CancelApply,
              Using, RenewLease, MarkSucceeded, MarkRetrying, MarkFailed, Transition, RecordExecution
<1>4. QED
  BY <1>1, <1>2, <1>3

\* A running job is taken over only after its lease ran out, at its next
\* attempt and under a token that no claim ever handed out carries: whatever
\* an earlier claim is still used for, the token fence tells it apart.
THEOREM StoreTakeoverOnlyAfterLapse == Spec => TakeoverOnlyAfterLapse
<1> DEFINE Takeover(j) ==
      job[j].status = "running" /\ job'[j].status = "running" /\ job'[j].token # job[j].token =>
          /\ Lapsed(j)
          /\ job'[j].attempts = job[j].attempts + 1
          /\ \A c \in claims : c.token # job'[j].token
<1>1. ASSUME TypeOK, TokensIssued, [Next]_vars, NEW j \in Jobs PROVE Takeover(j)
  <2> SUFFICES ASSUME job[j].status = "running", job'[j].status = "running",
                      job'[j].token # job[j].token
               PROVE  /\ Lapsed(j)
                      /\ job'[j].attempts = job[j].attempts + 1
                      /\ \A c \in claims : c.token # job'[j].token
    OBVIOUS
  <2>1. PICK w \in Workers : Granted(w, job[j], job'[j])
    <3>1. RowStep(job[j], job'[j])
      BY <1>1, RowsStep
    <3>2. QED
      BY <3>1 DEF RowStep, Elapsed, Terminal
  <2>2. \A c \in claims : c.token \in Nat /\ c.token <= issued
    BY <1>1 DEF TypeOK, Claim, TokensIssued
  <2>3. QED
    BY <1>1, <2>1, <2>2 DEF Granted, Lapsed, Waiting, TypeOK
<1>2. TypeOK /\ TokensIssued /\ [Next]_vars => [\A j \in Jobs : Takeover(j)]_vars
  BY <1>1
<1>3. Init => TokensIssued
  BY DEF Init, TokensIssued, NoScan
<1>4. QED
  BY <1>2, <1>3, TokensInductive, StoreTyped, PTL DEF Spec, TakeoverOnlyAfterLapse

-----------------------------------------------------------------------------
(* Implementing the abstract job *)

USE DEF Lifecycle!lifecycle

\* A row that was never enqueued was never claimed either.
Unborn == \A j \in Jobs : job[j].status = "absent" => job[j].attempts = 0 /\ job[j].owner = None

LEMMA UnbornInductive ==
    ASSUME TypeOK, Unborn, [Next]_vars
    PROVE  Unborn'
<1> SUFFICES ASSUME NEW j \in Jobs, job'[j].status = "absent"
             PROVE  job'[j].attempts = 0 /\ job'[j].owner = None
  BY DEF Unborn
<1>1. RowStep(job[j], job'[j])
  BY RowsStep
<1>2. QED
  BY <1>1 DEF RowStep, Granted, Unborn, Elapsed, Terminal

LEMMA StoreInvariant == Spec => [](TypeOK /\ Unborn)
<1>1. Init => Unborn
  BY DEF Init, Unborn, Unheld
<1>2. QED
  BY <1>1, TypesInitially, TypesInductive, UnbornInductive, PTL DEF Spec

LEMMA MapsInitially == Init => Lifecycle!Init
BY DEF Init, Unheld, PhaseOf, Waiting, Lifecycle!Init

\* A step that leaves every row and every outcome alone is a stutter.
LEMMA SameRowsStutter ==
    ASSUME UNCHANGED <<job, applied>>
    PROVE  UNCHANGED Lifecycle!lifecycle
OBVIOUS

LEMMA EnqueueMaps ==
    ASSUME TypeOK, Unborn, NEW j \in Jobs, NEW d \in Delays, Enqueue(j, d)
    PROVE  Lifecycle!Submit(j)
<1>1. job' = [job EXCEPT ![j] = Unheld(0, "pending", d)] /\ job[j].status = "absent"
  BY DEF Enqueue
<1>2. PhaseOf(job[j]) = "absent" /\ job[j].attempts = 0 /\ job[j].owner = None
  BY <1>1 DEF Unborn, PhaseOf, Waiting
<1>3. /\ PhaseOf(Unheld(0, "pending", d)) = "queued"
      /\ Unheld(0, "pending", d).attempts = 0
      /\ Unheld(0, "pending", d).owner = None
  BY DEF Unheld, PhaseOf, Waiting
<1>4. QED
  BY <1>1, <1>2, <1>3 DEF TypeOK, Enqueue, Lifecycle!Submit

\* Time forfeits every holding whose lease it runs down.
LEMMA TickMaps ==
    ASSUME TypeOK, Tick
    PROVE  \E S \in SUBSET Jobs : Lifecycle!Forfeit(S)
<1> DEFINE S == {j \in Jobs : Live(j) /\ job[j].lease = 1}
<1>1. \A j \in S : PhaseOf(job[j]) = "held"
  BY DEF Live, PhaseOf, Waiting
<1>2. \A j \in Jobs : PhaseOf(job'[j]) = IF j \in S THEN "forfeited" ELSE PhaseOf(job[j])
  <2> SUFFICES ASSUME NEW j \in Jobs
               PROVE  PhaseOf(Elapsed(job[j])) =
                        IF j \in S THEN "forfeited" ELSE PhaseOf(job[j])
    BY DEF Tick
  <2>1. job[j].lease \in Int
    BY DEF TypeOK, Row
  <2>2. /\ Elapsed(job[j]).status = job[j].status
        /\ Elapsed(job[j]).lease = IF job[j].lease > -1 THEN job[j].lease - 1 ELSE -1
    BY DEF Elapsed
  <2>3. QED
    BY <2>1, <2>2 DEF PhaseOf, Live, Waiting
<1>3. \A j \in Jobs : job'[j].attempts = job[j].attempts /\ job'[j].owner = job[j].owner
  BY DEF Tick, Elapsed
<1>4. Lifecycle!Forfeit(S)
  BY <1>1, <1>2, <1>3 DEF Tick, Lifecycle!Forfeit
<1>5. QED
  BY <1>4

\* One claim update at a time: the row was queued or forfeited, and no held
\* job shares its partition.
LEMMA ClaimRowMaps ==
    ASSUME TypeOK, Serial, NEW w \in Workers, NEW j \in Jobs, ClaimRow(w, j)
    PROVE  Lifecycle!Take(j, w)
<1>1. PhaseOf(job[j]) \in {"queued", "forfeited"} /\ job[j].attempts < MaxAttempts[j]
  BY DEF TypeOK, Row, ClaimRow, Qualifies, Due, Lapsed, PhaseOf, Waiting
<1>2. \A k \in Jobs : PhaseOf(job[k]) = "held" => Live(k)
  BY DEF PhaseOf, Live, Waiting, TypeOK, Row, Statuses, Terminal
<1>3. \A k \in Jobs : PhaseOf(job[k]) = "held" => Lifecycle!Apart(j, k)
  BY <1>2 DEF ClaimRow, Qualifies, NoRunningSibling, Siblings, Lifecycle!Apart
<1>4. /\ job' = [job EXCEPT ![j] = job'[j]]
      /\ PhaseOf(job'[j]) = "held"
      /\ job'[j].attempts = job[j].attempts + 1
      /\ job'[j].owner = w
  BY TermAssumption DEF TypeOK, ClaimRow, PhaseOf, Waiting
<1>5. QED
  BY <1>1, <1>3, <1>4 DEF ClaimRow, TypeOK, Lifecycle!Take

\* A fenced transition is the holder's, of its own attempt.
LEMMA TransitionMaps ==
    ASSUME TypeOK, CountsRows, NEW c \in claims, NEW status \in Terminal \cup {"retrying"},
           NEW d \in Nat, Transition(c, status, d)
    PROVE  Lifecycle!Settle(c.job, status)
<1>1. c.job \in Jobs
  BY DEF TypeOK, Claim
<1>2. Fenced(c, status) /\ job' = [job EXCEPT ![c.job] = Settled(@, status, d)]
  BY DEF Transition
<1>3. PhaseOf(job[c.job]) = "held"
  BY <1>2 DEF Fenced, Holds, Live, PhaseOf, Waiting
<1>4. PhaseOf(Settled(job[c.job], status, d)) = IF status = "retrying" THEN "queued" ELSE status
  BY DEF Settled, Unheld, PhaseOf, Waiting, Terminal
<1>5. applied' = applied \cup {[job |-> c.job, worker |-> job[c.job].owner,
                                attempt |-> job[c.job].attempts, status |-> status]}
  BY <1>2 DEF Transition, Report, OutcomeOf, Fenced, Holds
<1>6. status = "retrying" => job[c.job].attempts < MaxAttempts[c.job]
  BY <1>2 DEF Fenced
<1>7. QED
  BY <1>1, <1>2, <1>3, <1>4, <1>5, <1>6 DEF TypeOK, Settled, Unheld, Lifecycle!Settle

LEMMA RenewMaps ==
    ASSUME TypeOK, NEW c \in claims, RenewLease(c)
    PROVE  UNCHANGED Lifecycle!lifecycle
<1>1. c.job \in Jobs
  BY DEF TypeOK, Claim
<1>2. \A j \in Jobs : /\ PhaseOf(job'[j]) = PhaseOf(job[j])
                       /\ job'[j].attempts = job[j].attempts
                       /\ job'[j].owner = job[j].owner
  BY <1>1, TermAssumption DEF TypeOK, Row, RenewLease, Holds, Live, PhaseOf, Waiting
<1>3. QED
  BY <1>2 DEF RenewLease

\* A cancellation is one step of the abstract job, whichever way it is made.
LEMMA CancelMaps ==
    ASSUME TypeOK, NEW j \in Jobs, Cancelling(j)
    PROVE  Lifecycle!Cancel(j) \/ UNCHANGED Lifecycle!lifecycle
<1>1. ASSUME Cancellable(j), job' = [job EXCEPT ![j] = Settled(@, "cancelled", 0)],
             applied' = applied
      PROVE  Lifecycle!Cancel(j)
  BY <1>1 DEF TypeOK, Row, Cancellable, Settled, Unheld, PhaseOf, Waiting, Lifecycle!Cancel
<1>2. CASE Cancel(j)
  BY <1>1, <1>2 DEF Cancel
<1>3. CASE CancelLog(j)
  BY <1>3 DEF CancelLog
<1>4. CASE CancelApply(j)
  BY <1>1, <1>4 DEF CancelApply
<1>5. QED
  BY <1>2, <1>3, <1>4 DEF Cancelling

LEMMA StepsMap ==
    ASSUME TypeOK, Unborn, Serial, CountsRows, [Next]_vars
    PROVE  [Lifecycle!Next]_(Lifecycle!lifecycle)
<1>1. CASE UNCHANGED vars
  BY <1>1 DEF vars
<1>2. CASE Tick
  BY <1>2, TickMaps DEF Lifecycle!Next
<1>3. ASSUME NEW j \in Jobs, NEW d \in Delays, Enqueue(j, d)
      PROVE  Lifecycle!Next
  BY <1>3, EnqueueMaps DEF Lifecycle!Next
<1>4. ASSUME NEW w \in Workers, Claiming(w) \/ ClaimAbort(w)
      PROVE  [Lifecycle!Next]_(Lifecycle!lifecycle)
  <2>1. ASSUME NEW j \in Jobs, ClaimRow(w, j) PROVE Lifecycle!Next
    BY <2>1, ClaimRowMaps DEF Lifecycle!Next
  <2>2. CASE ClaimSelect(w) \/ ClaimReadback(w) \/ ClaimAbort(w)
    BY <2>2 DEF ClaimSelect, ClaimReadback, ClaimAbort
  <2>3. ASSUME NEW j \in Jobs, ClaimProbe(w, j) \/ ClaimMiss(w, j)
        PROVE  UNCHANGED Lifecycle!lifecycle
    BY <2>3 DEF ClaimProbe, ClaimMiss
  <2>4. QED
    BY <1>4, <2>1, <2>2, <2>3 DEF Claiming
<1>5. ASSUME NEW c \in claims, Using(c)
      PROVE  [Lifecycle!Next]_(Lifecycle!lifecycle)
  <2>1. c.job \in Jobs
    BY DEF TypeOK, Claim
  <2>2. ASSUME NEW status \in Terminal \cup {"retrying"}, NEW d \in Nat, Transition(c, status, d)
        PROVE  Lifecycle!Next
    BY <2>1, <2>2, TransitionMaps DEF Lifecycle!Next, Lifecycle!Ends, Terminal
  <2>3. CASE RenewLease(c)
    BY <2>3, RenewMaps
  <2>4. CASE MarkSucceeded(c)
    BY <2>2, <2>4 DEF MarkSucceeded, Terminal
  <2>5. ASSUME NEW d \in Delays, MarkRetrying(c, d) PROVE Lifecycle!Next
    BY <2>2, <2>5, TermAssumption DEF MarkRetrying
  <2>6. ASSUME NEW status \in {"failed", "dead_letter", "cancelled"}, MarkFailed(c, status)
        PROVE  Lifecycle!Next
    BY <2>2, <2>6 DEF MarkFailed, Terminal
  <2>7. QED
    BY <1>5, <2>3, <2>4, <2>5, <2>6 DEF Using
<1>6. ASSUME NEW j \in Jobs, Cancelling(j)
      PROVE  [Lifecycle!Next]_(Lifecycle!lifecycle)
  BY <1>6, CancelMaps DEF Lifecycle!Next
<1>7. ASSUME NEW o \in unlogged, RecordExecution(o)
      PROVE  UNCHANGED Lifecycle!lifecycle
  BY <1>7 DEF RecordExecution
<1>8. QED
  BY <1>1, <1>2, <1>3, <1>4, <1>5, <1>6, <1>7 DEF Next, Enqueued

\* The job store keeps the promises of JobLifecycle, whatever its clients do
\* with the claims they hold, when claim updates are serial and transitions
\* are counted.
THEOREM StoreImplementsLifecycle ==
    ASSUME Serial, CountsRows
    PROVE  Spec => ImplementsLifecycle
<1>1. TypeOK /\ Unborn /\ [Next]_vars => [Lifecycle!Next]_(Lifecycle!lifecycle)
  BY StepsMap
<1>2. QED
  BY <1>1, MapsInitially, StoreInvariant, PTL DEF Spec, ImplementsLifecycle, Lifecycle!Spec

-----------------------------------------------------------------------------
(* Outcomes and their history, where a transition that updated no row is told *)
(* from one that did: claim updates may race                                  *)

\* What an outcome reported as applied says of its row, ever after: its attempt
\* is over, and a job it ended is still ended that way.
OutcomeStands(o) ==
    /\ o.worker # Canceller
    /\ job[o.job].status # "absent" /\ o.attempt <= job[o.job].attempts
    /\ o.attempt = job[o.job].attempts => job[o.job].status # "running"
    /\ o.status \in Terminal =>
          \/ job[o.job].status = o.status
          \/ o.status = "failed" /\ job[o.job].status = "cancelled"

OutcomesStand == \A o \in applied : OutcomeStands(o)

\* Once enqueued, a row loses no attempt, runs only at an attempt it ran at
\* already or at the next, and ends once.
LEMMA RowStepEnds ==
    ASSUME NEW r, NEW s, r.attempts \in Nat, RowStep(r, s), r.status # "absent"
    PROVE  /\ s.status # "absent"
           /\ \/ s.attempts = r.attempts /\ (s.status = "running" => r.status = "running")
              \/ s.attempts = r.attempts + 1
           /\ r.status \in Terminal =>
                 \/ s.status = r.status
                 \/ r.status = "failed" /\ s.status = "cancelled"
<1>1. CASE s = Elapsed(r)
  <2>1. s.status = r.status /\ s.attempts = r.attempts
    BY <1>1 DEF Elapsed
  <2>2. QED
    BY <2>1
<1>2. ASSUME NEW w \in Workers, Granted(w, r, s)
      PROVE  s.attempts = r.attempts + 1 /\ s.status = "running" /\ r.status \notin Terminal
  BY <1>2 DEF Granted, Terminal, Waiting
<1>3. QED
  BY <1>1, <1>2 DEF RowStep, Terminal

\* The history holds what was applied; cancellations that are logged apart from
\* the row exist only where history is not required.
HistoryKept ==
    /\ unlogged \subseteq applied
    /\ \A h \in history : h.worker # Canceller => h \in applied
    /\ Required =>
          /\ unlogged = {} /\ \A j \in Jobs : cancelling[j].step = "none"
          /\ \A h \in history : h.worker = Canceller => job[h.job].status = "cancelled"

\* A transition changes the row its outcome is of.
EndsAttempt(c, status) ==
    /\ Fenced(c, status)
    /\ job'[c.job].status = status /\ job'[c.job].attempts = job[c.job].attempts
    /\ applied' = applied \cup {OutcomeOf(c, status)}

LEMMA OutcomesComeFromFences ==
    ASSUME TypeOK, CountsRows \/ ~Required, [Next]_vars, ~UNCHANGED applied
    PROVE  \E c \in claims, status \in Terminal \cup {"retrying"} : EndsAttempt(c, status)
<1>1. PICK c \in claims : Using(c)
  BY DEF vars, Next, Enqueued, Tick, Enqueue, Cancelling, Cancel, CancelLog, CancelApply,
         Claiming, ClaimSelect, ClaimProbe, ClaimRow, ClaimMiss, ClaimReadback, ClaimAbort,
         RecordExecution
<1>2. c.job \in Jobs
  BY DEF TypeOK, Claim
<1>3. PICK status \in Terminal \cup {"retrying"} : \E d : Transition(c, status, d)
  BY <1>1 DEF Using, RenewLease, MarkSucceeded, MarkRetrying, MarkFailed, Terminal
<1>4. EndsAttempt(c, status)
  BY <1>2, <1>3 DEF TypeOK, Transition, Report, Settled, Unheld, EndsAttempt
<1>5. QED
  BY <1>4

LEMMA OutcomesKeepStanding ==
    ASSUME TypeOK, OutcomesStand, CountsRows \/ ~Required, [Next]_vars
    PROVE  OutcomesStand'
<1>1. ASSUME NEW o \in applied PROVE OutcomeStands(o)'
  <2>1. /\ o.job \in Jobs /\ o.attempt \in Nat
        /\ job[o.job].attempts \in Nat
    BY DEF TypeOK, Outcome, Row
  <2>2. RowStep(job[o.job], job'[o.job])
    BY <2>1, RowsStep
  <2>3. OutcomeStands(o)
    BY DEF OutcomesStand
  <2>4. QED
    BY <2>1, <2>2, <2>3, RowStepEnds DEF OutcomeStands, Terminal
<1>2. ASSUME NEW c \in claims, NEW status \in Terminal \cup {"retrying"}, EndsAttempt(c, status)
      PROVE  OutcomeStands(OutcomeOf(c, status))'
  <2>1. c.worker # Canceller /\ c.attempt \in Nat
    BY WorkersAssumption DEF TypeOK, Claim
  <2>2. QED
    BY <1>2, <2>1 DEF EndsAttempt, Fenced, OutcomeOf, OutcomeStands, Terminal
<1>3. QED
  BY <1>1, <1>2, OutcomesComeFromFences DEF OutcomesStand, EndsAttempt

\* Whatever stale claims are still used, and however claim updates race, an
\* attempt is settled at most once and a job ended at most once (the fences of
\* the mark operations), where updated rows are counted or history is not
\* required.
THEOREM StoreSettlesOnce ==
    ASSUME CountsRows \/ ~Required
    PROVE  Spec => []SettledOnce
<1>1. ASSUME TypeOK, OutcomesStand, SettledOnce, [Next]_vars PROVE SettledOnce'
  <2>1. ASSUME NEW c \in claims, NEW status \in Terminal \cup {"retrying"},
               EndsAttempt(c, status), NEW o \in applied, o.job = c.job
        PROVE  o.attempt # c.attempt /\ o.status \notin Terminal
    BY <1>1, <2>1 DEF OutcomesStand, OutcomeStands, EndsAttempt, Fenced, Holds, Live, Terminal
  <2>2. CASE UNCHANGED applied
    BY <1>1, <2>2 DEF SettledOnce
  <2>3. CASE ~UNCHANGED applied
    <3>1. PICK c \in claims, status \in Terminal \cup {"retrying"} : EndsAttempt(c, status)
      BY <1>1, <2>3, OutcomesComeFromFences
    <3>2. QED
      BY <1>1, <2>1, <3>1 DEF SettledOnce, EndsAttempt, OutcomeOf
  <2>4. QED
    BY <2>2, <2>3
<1>2. Init => OutcomesStand /\ SettledOnce
  BY DEF Init, OutcomesStand, SettledOnce
<1>3. TypeOK /\ OutcomesStand /\ [Next]_vars => OutcomesStand'
  BY OutcomesKeepStanding
<1>4. TypeOK /\ OutcomesStand /\ SettledOnce /\ [Next]_vars => SettledOnce'
  BY <1>1
<1>5. QED
  BY <1>2, <1>3, <1>4, StoreTyped, PTL DEF Spec

LEMMA HistoryKeptInductive ==
    ASSUME TypeOK, HistoryKept, [Next]_vars
    PROVE  HistoryKept'
<1> USE DEF HistoryKept
<1>1. ASSUME NEW h \in history, h.worker = Canceller, Required
      PROVE  job'[h.job].status = "cancelled"
  <2>1. h.job \in Jobs
    BY DEF TypeOK, Outcome
  <2>2. RowStep(job[h.job], job'[h.job])
    BY <2>1, RowsStep
  <2>3. QED
    BY <1>1, <2>1, <2>2, RowStepEnds DEF TypeOK, Row, Terminal
<1>2. ASSUME UNCHANGED <<applied, unlogged, history, cancelling>> PROVE HistoryKept'
  BY <1>1, <1>2
<1>3. ASSUME NEW c \in claims, NEW status, NEW d, Transition(c, status, d)
      PROVE  HistoryKept'
  <2>1. OutcomeOf(c, status).worker # Canceller
    BY WorkersAssumption DEF TypeOK, Claim, OutcomeOf
  <2>2. QED
    BY <1>1, <1>3, <2>1 DEF Transition, Report
<1>4. ASSUME NEW o \in unlogged, RecordExecution(o) PROVE HistoryKept'
  BY <1>1, <1>4 DEF RecordExecution
<1>5. ASSUME NEW j \in Jobs, Cancelling(j) PROVE HistoryKept'
  <2>1. CASE Cancel(j)
    BY <1>1, <2>1 DEF TypeOK, Cancel, Cancellation, Settled, Unheld
  <2>2. CASE CancelLog(j)
    BY <2>2 DEF CancelLog, Cancellation
  <2>3. CASE CancelApply(j)
    BY <2>3 DEF CancelApply
  <2>4. QED
    BY <1>5, <2>1, <2>2, <2>3 DEF Cancelling
<1>6. QED
  BY <1>2, <1>3, <1>4, <1>5
     DEF vars, Next, Enqueued, Tick, Enqueue, Using, RenewLease, MarkSucceeded, MarkRetrying,
         MarkFailed, Claiming, ClaimSelect, ClaimProbe, ClaimRow, ClaimMiss, ClaimReadback,
         ClaimAbort

\* The executions table is true to the jobs table: a worker's entry is of a
\* transition that was applied, an end it records is how the job ended, and a
\* required history records a cancellation only of a cancelled job.
THEOREM StoreHistoryTruthful ==
    ASSUME CountsRows \/ ~Required
    PROVE  Spec => []HistoryTruthful
<1>1. Init => OutcomesStand /\ HistoryKept
  BY DEF Init, OutcomesStand, HistoryKept, NoCancel
<1>2. TypeOK /\ OutcomesStand /\ [Next]_vars => OutcomesStand'
  BY OutcomesKeepStanding
<1>3. TypeOK /\ HistoryKept /\ [Next]_vars => HistoryKept'
  BY HistoryKeptInductive
<1>4. OutcomesStand /\ HistoryKept => HistoryTruthful
  BY DEF OutcomesStand, OutcomeStands, HistoryKept, HistoryTruthful
<1>5. QED
  BY <1>1, <1>2, <1>3, <1>4, StoreTyped, PTL DEF Spec

-----------------------------------------------------------------------------
(* Partitions                                                                 *)

\* A lease begins only in the claim update of the row.
LEMMA LeasesComeFromClaims ==
    ASSUME TypeOK, [Next]_vars, NEW j \in Jobs, Live(j)', ~Live(j)
    PROVE  \E w \in Workers : ClaimRow(w, j)
<1>1. job'[j] # job[j]
  BY DEF Live
<1>2. ~Tick
  BY DEF TypeOK, Row, Tick, Elapsed, Live
<1>3. ASSUME NEW k \in Jobs, NEW d \in Delays PROVE ~Enqueue(k, d)
  BY <1>1 DEF TypeOK, Enqueue, Unheld, Live
<1>4. ASSUME NEW c \in claims PROVE ~Using(c)
  <2>1. c.job \in Jobs
    BY DEF TypeOK, Claim
  <2>2. ASSUME NEW status \in Terminal \cup {"retrying"}, NEW d PROVE ~Transition(c, status, d)
    BY <1>1, <2>1 DEF TypeOK, Transition, Settled, Unheld, Live, Terminal
  <2>3. ~RenewLease(c)
    BY <1>1, <2>1 DEF TypeOK, RenewLease, Holds, Live
  <2>4. QED
    BY <2>2, <2>3 DEF Using, MarkSucceeded, MarkRetrying, MarkFailed, Terminal
<1>5. ASSUME NEW k \in Jobs PROVE ~Cancelling(k)
  BY <1>1 DEF TypeOK, Cancelling, Cancel, CancelLog, CancelApply, Settled, Unheld, Live
<1>6. ASSUME NEW w \in Workers, NEW k \in Jobs, ClaimRow(w, k) PROVE k = j
  BY <1>1, <1>6 DEF TypeOK, ClaimRow
<1>7. QED
  BY <1>1, <1>2, <1>3, <1>4, <1>5, <1>6
     DEF vars, Next, Enqueued, RecordExecution, Claiming, ClaimSelect, ClaimProbe, ClaimMiss,
         ClaimReadback, ClaimAbort

\* No two jobs of a partition are running under a live lease together (the
\* NOT EXISTS of claimDue), if claim updates run one at a time.
THEOREM StoreKeepsPartitionsApart ==
    ASSUME Serial
    PROVE  Spec => []PartitionExclusive
<1>1. ASSUME TypeOK, PartitionExclusive, [Next]_vars PROVE PartitionExclusive'
  <2>1. ASSUME NEW j \in Jobs, NEW k \in Siblings(j), Live(j)', Live(k)', ~Live(j) PROVE FALSE
    <3>1. PICK w \in Workers : ClaimRow(w, j)
      BY <1>1, <2>1, LeasesComeFromClaims
    <3>2. ~Live(k) /\ job'[k] = job[k]
      BY <1>1, <3>1 DEF TypeOK, ClaimRow, Qualifies, NoRunningSibling, Siblings
    <3>3. QED
      BY <2>1, <3>2 DEF Live
  <2>2. \A j \in Jobs : \A k \in Siblings(j) : k \in Jobs /\ j \in Siblings(k)
    BY DEF Siblings
  <2>3. QED
    BY <1>1, <2>1, <2>2 DEF PartitionExclusive, NoRunningSibling
<1>2. Init => PartitionExclusive
  BY DEF Init, Unheld, Live, PartitionExclusive
<1>3. TypeOK /\ PartitionExclusive /\ [Next]_vars => PartitionExclusive'
  BY <1>1
<1>4. QED
  BY <1>2, <1>3, StoreTyped, PTL DEF Spec

-----------------------------------------------------------------------------
(* What a claim says of its row                                               *)

\* The claims there are: those handed out, and those a call is about to.
Given == claims \cup UNION {scan[w].got : w \in Workers}

\* A claim is of an attempt of its job, which it alone is of; whoever holds the
\* row under it holds that attempt.
Grants ==
    /\ \A c \in Given :
          /\ 1 <= c.attempt /\ c.attempt <= job[c.job].attempts
          /\ job[c.job].status = "running" /\ job[c.job].token = c.token =>
                job[c.job].attempts = c.attempt
    /\ \A c, d \in Given : c.job = d.job /\ c.attempt = d.attempt => c = d
    /\ \A w \in Workers : \A c \in scan[w].got : c.worker = w /\ c \notin claims

\* A cancellation under way is of a job that was enqueued.
CancelsKnown == \A j \in Jobs : cancelling[j].step # "none" => job[j].status # "absent"

StoreInv == TypeOK /\ TokensIssued /\ Unborn /\ Grants /\ CancelsKnown

StoreCalls == <<issued, scan, claims>>

NoneMade ==
    /\ Given' \subseteq Given
    /\ \A w \in Workers : \A c \in scan'[w].got : c.worker = w /\ c \notin claims'

\* Only a claim update makes a claim; all else hands on, drops or keeps some.
LEMMA GivenStep ==
    ASSUME TypeOK, Grants, [Next]_vars
    PROVE  \/ NoneMade
           \/ \E w \in Workers, j \in Jobs : ClaimRow(w, j)
<1> USE DEF Given, Grants, NoneMade
<1>1. CASE UNCHANGED StoreCalls
  BY <1>1 DEF StoreCalls
<1>2. ASSUME NEW w \in Workers, ClaimSelect(w) \/ ClaimAbort(w) PROVE NoneMade
  BY <1>2 DEF TypeOK, ClaimSelect, ClaimAbort, Scanning, NoScan
<1>3. ASSUME NEW w \in Workers, ClaimReadback(w) PROVE NoneMade
  BY <1>3 DEF TypeOK, ClaimReadback, NoScan
<1>4. ASSUME NEW w \in Workers, NEW j \in Jobs, ClaimProbe(w, j) \/ ClaimMiss(w, j)
      PROVE NoneMade
  <2>1. claims' = claims /\ \A v \in Workers : scan'[v].got = scan[v].got
    BY <1>4 DEF TypeOK, Scan, ClaimProbe, ClaimMiss, Scanning
  <2>2. QED
    BY <2>1
<1>5. (\E w \in Workers : Claiming(w) \/ ClaimAbort(w)) \/ UNCHANGED StoreCalls
  BY DEF Next, Enqueued, vars, StoreCalls, Tick, Enqueue, Cancelling, Cancel, CancelLog, CancelApply,
         Using, RenewLease, MarkSucceeded, MarkRetrying, MarkFailed, Transition, RecordExecution
<1>6. QED
  BY <1>1, <1>2, <1>3, <1>4, <1>5 DEF Claiming

LEMMA GrantsInductive ==
    ASSUME StoreInv, [Next]_vars
    PROVE  Grants'
<1> DEFINE Sound(c) == /\ 1 <= c.attempt /\ c.attempt <= job[c.job].attempts
                       /\ job[c.job].status = "running" /\ job[c.job].token = c.token =>
                             job[c.job].attempts = c.attempt
<1>1. TypeOK /\ TokensIssued /\ Unborn /\ Grants
  BY DEF StoreInv
<1>2. Given \subseteq Claim
  BY <1>1 DEF TypeOK, Scan, Given
<1>3. \A c \in Given : c.token <= issued
  BY <1>1 DEF TokensIssued, Given
<1>4. \A c \in Given : Sound(c)
  BY <1>1 DEF Grants
<1>5. \A c, d \in Given : c.job = d.job /\ c.attempt = d.attempt => c = d
  BY <1>1 DEF Grants
<1>6. ASSUME NEW c \in Given PROVE Sound(c)'
  <2>1. c.job \in Jobs /\ c.attempt \in Nat /\ c.token \in Nat /\ c.token <= issued
    BY <1>2, <1>3 DEF Claim
  <2>2. RowStep(job[c.job], job'[c.job])
    BY <1>1, <2>1, RowsStep
  <2>3. /\ job[c.job].attempts \in Nat /\ job[c.job].token \in Nat /\ issued \in Nat
    BY <1>1, <2>1 DEF TypeOK, Row
  <2>4. job[c.job].status # "absent"
    BY <1>1, <1>4, <2>1, <2>3 DEF Unborn
  <2>5. QED
    BY <1>4, <2>1, <2>2, <2>3, <2>4 DEF RowStep, Granted, Elapsed, Terminal
<1>7. CASE NoneMade
  BY <1>5, <1>6, <1>7 DEF NoneMade, Grants
<1>8. ASSUME NEW w \in Workers, NEW j \in Jobs, ClaimRow(w, j) PROVE Grants'
  <2>0. PICK new : new = [job |-> j, worker |-> w, token |-> issued + 1,
                          attempt |-> job[j].attempts + 1]
    OBVIOUS
  <2>1. /\ claims' = claims
        /\ \A v \in Workers : scan'[v].got = IF v = w THEN scan[w].got \cup {new} ELSE scan[v].got
    BY <1>1, <1>8, <2>0 DEF TypeOK, ClaimRow, Scanning
  <2>2. Given' = Given \cup {new}
    BY <2>1 DEF Given
  <2>3. /\ job'[j].attempts = job[j].attempts + 1
        /\ job[j].attempts \in Nat /\ issued \in Nat
    BY <1>1, <1>8 DEF TypeOK, Row, ClaimRow
  <2>4. \A c \in Given : c.token # new.token
    BY <1>2, <1>3, <2>0, <2>3 DEF Claim
  <2>5. \A c \in Given : c.job = j => c.attempt # new.attempt
    BY <1>2, <1>4, <2>0, <2>3 DEF Claim
  <2>6. Sound(new)'
    BY <2>0, <2>3
  <2>7. \A c \in Given' : Sound(c)'
    BY <1>6, <2>2, <2>6
  <2>8. \A c, d \in Given' : c.job = d.job /\ c.attempt = d.attempt => c = d
    BY <1>5, <2>0, <2>2, <2>5
  <2>9. \A v \in Workers : \A c \in scan'[v].got : c.worker = v /\ c \notin claims'
    BY <1>1, <2>0, <2>1, <2>4 DEF Grants, Given
  <2>10. QED
    BY <2>7, <2>8, <2>9 DEF Grants
<1>9. QED
  BY <1>1, <1>7, <1>8, GivenStep

LEMMA CancelsInductive ==
    ASSUME TypeOK, CancelsKnown, [Next]_vars
    PROVE  CancelsKnown'
<1> SUFFICES ASSUME NEW j \in Jobs, cancelling'[j].step # "none" PROVE job'[j].status # "absent"
  BY DEF CancelsKnown
<1>1. job[j].status # "absent"
  <2>1. ASSUME cancelling'[j] # cancelling[j] PROVE Cancel(j) \/ CancelLog(j) \/ CancelApply(j)
    <3>1. ~UNCHANGED cancelling
      BY <2>1
    <3>2. ~UNCHANGED vars /\ ~Tick
      BY <3>1 DEF vars, Tick
    <3>3. ASSUME NEW k \in Jobs, NEW d \in Delays PROVE ~Enqueue(k, d)
      BY <3>1 DEF Enqueue
    <3>4. ASSUME NEW w \in Workers PROVE ~(Claiming(w) \/ ClaimAbort(w))
      BY <3>1 DEF Claiming, ClaimSelect, ClaimProbe, ClaimRow, ClaimMiss, ClaimReadback, ClaimAbort
    <3>5. ASSUME NEW c \in claims PROVE ~(Using(c) \/ \E o \in unlogged : RecordExecution(o))
      BY <3>1 DEF Using, RenewLease, MarkSucceeded, MarkRetrying, MarkFailed, Transition, RecordExecution
    <3>6. PICK k \in Jobs : Cancel(k) \/ CancelLog(k) \/ CancelApply(k)
      BY <3>2, <3>3, <3>4, <3>5 DEF Next, Enqueued, Cancelling
    <3>7. k = j
      BY <2>1, <3>6 DEF TypeOK, Cancel, CancelLog, CancelApply
    <3>8. QED
      BY <3>6, <3>7
  <2>2. QED
    BY <2>1 DEF CancelsKnown, TypeOK, Cancel, CancelLog, CancelApply, Cancellable, NoCancel
<1>2. RowStep(job[j], job'[j]) /\ job[j].attempts \in Nat
  BY RowsStep DEF TypeOK, Row
<1>3. QED
  BY <1>1, <1>2, RowStepEnds

LEMMA StoreInvInitially == Init => StoreInv
BY TypesInitially DEF Init, StoreInv, TokensIssued, Unborn, Unheld, Grants, Given, CancelsKnown,
                      NoScan, NoCancel

LEMMA StoreInvInductive == StoreInv /\ [Next]_vars => StoreInv'
BY TypesInductive, TokensInductive, UnbornInductive, GrantsInductive, CancelsInductive DEF StoreInv

-----------------------------------------------------------------------------
(* What is true of a worker                                                   *)

Places == {"idle", "claiming", "next", "vet", "run", "grace", "settle", "log", "hook"}
Between == {"idle", "claiming", "next"}

\* No outcome of the claim's attempt has been reported.
Open(c) == \A o \in applied : o.job = c.job => o.attempt # c.attempt

\* What a decided race lets become of the attempt.
Fits(by, verdict) ==
    \/ by = "ok" /\ verdict = "succeeded"
    \/ by \in {"retryable", "timeout"} /\ verdict = "retrying"
    \/ by = "cancelled" /\ verdict = "cancelled"
    \/ by \in {"malformed", "timeout", "retryable", "permanent"} /\ verdict = "dead_letter"

\* A job that is not executed fails or is dead; an executed one ends as decided.
Judged(w) ==
    \/ /\ at[w].claim \notin started /\ at[w].by = "none"
       /\ at[w].verdict \in {"failed", "dead_letter"}
    \/ /\ Fits(at[w].by, at[w].verdict)
       /\ at[w].verdict = "retrying" => ShouldRetry(at[w].claim)

Course(w) ==
    /\ at[w].pc \in {"idle", "claiming"} => at[w].batch = {}
    /\ at[w].pc \in Between => at[w].by = "none" /\ at[w].claim = NoClaim
    /\ at[w].pc \notin Between => at[w].claim \in claims /\ at[w].claim.worker = w
    /\ at[w].pc \in {"vet", "run", "grace", "settle"} => Open(at[w].claim)
    /\ at[w].pc = "vet" => at[w].claim \notin started /\ at[w].by = "none"
    /\ at[w].pc \in {"run", "grace"} => at[w].claim \in started
    /\ at[w].pc = "grace" => at[w].by \in {"timeout", "lost"}
    /\ at[w].pc = "settle" => Judged(w)
    /\ at[w].pc \in {"log", "hook"} => OutcomeOf(at[w].claim, at[w].verdict) \in applied
    /\ at[w].pc = "hook" => HasHook(w)

\* The jobs that wait in a worker's batch have not been started or settled.
Waits(w) ==
    \A c \in at[w].batch :
        c.worker = w /\ c \notin started /\ Open(c) /\ c # at[w].claim

Decisions(w) == \A d \in decided : d.claim = at[w].claim => d.by = at[w].by

Works(w) == Course(w) /\ Waits(w) /\ Decisions(w)

OutcomesClaimed == \A o \in applied : \E c \in claims : o.job = c.job /\ o.attempt = c.attempt

\* An attempt ended as its race was decided.
RacesMatched ==
    \A o \in applied : \A d \in decided :
        d.claim.job = o.job /\ d.claim.attempt = o.attempt => Fits(d.by, o.status)

HooksEarned ==
    \A h \in hooks : \E o \in applied :
        /\ o.job = h.job /\ o.attempt = h.attempt
        /\ o.status = IF h.kind = "onRetry" THEN "retrying" ELSE "dead_letter"

DInv ==
    /\ DTypeOK
    /\ \A w \in Workers : Works(w)
    /\ OutcomesClaimed /\ RacesMatched /\ HooksEarned

LEMMA DInvInitially == DInit => DInv
<1> SUFFICES ASSUME DInit PROVE DInv
  OBVIOUS
<1>1. \A w \in Workers : at[w] = Idle
  BY DEF DInit
<1>2. DTypeOK
  BY FaultsAssumption DEF DInit, DTypeOK, Idle, Deciders
<1>3. \A w \in Workers : Works(w)
  BY <1>1 DEF DInit, Works, Course, Waits, Decisions, Idle, Between
<1>4. OutcomesClaimed /\ RacesMatched /\ HooksEarned
  BY DEF DInit, Init, OutcomesClaimed, RacesMatched, HooksEarned
<1>5. QED
  BY <1>2, <1>3, <1>4 DEF DInv

-----------------------------------------------------------------------------
(* Every step is one of the store, or leaves the store alone                  *)

LEMMA MarkIsStoreStep ==
    ASSUME StoreInv, DInv, NEW w \in Workers, at[w].pc = "settle",
           Mark(at[w].claim, at[w].verdict)
    PROVE  Next
<1> DEFINE c == at[w].claim
<1>1. c \in claims /\ Judged(w)
  BY DEF DInv, Works, Course, Between
<1>2. c.job \in Jobs /\ c.attempt \in Nat /\ 1 <= c.attempt /\ MaxAttempts[c.job] \in Nat
  BY <1>1, AttemptsAssumption DEF StoreInv, TypeOK, Claim, Grants, Given
<1>3. CASE MarkSucceeded(c)
  BY <1>1, <1>3 DEF Next, Using
<1>4. CASE at[w].verdict = "retrying" /\ MarkRetrying(c, RetryWait(c))
  <2>1. c.attempt \in 1..(MaxAttempts[c.job] - 1)
    BY <1>1, <1>2, <1>4 DEF Judged, ShouldRetry
  <2>2. RetryWait(c) \in Delays
    BY <1>2, <2>1, DelaysAssumption DEF RetryWait
  <2>3. QED
    BY <1>1, <1>4, <2>2 DEF Next, Using
<1>5. ASSUME NEW status \in {"failed", "dead_letter", "cancelled"}, MarkFailed(c, status)
      PROVE  Next
  BY <1>1, <1>5 DEF Next, Using
<1>6. QED
  BY <1>3, <1>4, <1>5 DEF Mark

LEMMA OutsideIsStoreStep ==
    ASSUME StoreInv, Outside
    PROVE  Next
<1>1. ASSUME NEW j \in Jobs, Cancelling(j) PROVE j \in Enqueued
  BY <1>1
     DEF StoreInv, CancelsKnown, Cancelling, Cancel, CancelLog, CancelApply, Cancellable, Enqueued
<1>2. QED
  BY <1>1, DelaysAssumption DEF Outside, Next

LEMMA DispatcherUsesStore ==
    ASSUME StoreInv, DInv, [DNext]_dvars
    PROVE  [Next]_vars
<1> USE DEF DInv
<1>1. CASE UNCHANGED dvars
  BY <1>1 DEF dvars, vars
<1>2. CASE Outside
  BY <1>2, OutsideIsStoreStep
<1>3. ASSUME NEW w \in Workers,
             ClaimSelect(w) \/ ClaimReadback(w) \/ ClaimAbort(w) \/ ClaimEach(w)
      PROVE  Next
  BY <1>3 DEF Next, Claiming, ClaimEach
<1>4. ASSUME NEW c \in claims, RenewLease(c) PROVE Next
  BY <1>4 DEF Next, Using
<1>5. ASSUME NEW w \in Workers, Dispatching(w) PROVE [Next]_vars
  <2>1. ASSUME NEW c \in at[w].batch, Refence(w, c) PROVE [Next]_vars
    BY <1>4, <2>1 DEF DTypeOK, Refence, RenewLease
  <2>2. CASE Poll(w) \/ ClaimEach(w) \/ Claimed(w)
    BY <1>3, <2>2 DEF Poll, Claimed
  <2>3. CASE Settle(w)
    BY <2>3, MarkIsStoreStep DEF Settle
  <2>4. CASE Log(w)
    <3>1. at[w].claim \in claims
      BY <2>4 DEF Log, Works, Course, Between
    <3>2. QED
      BY <2>4, <3>1 DEF Log, RecordExecution, Next
  <2>5. QED
    BY <1>5, <2>1, <2>2, <2>3, <2>4
       DEF Dispatching, Working, BatchDone, Malformed, Reject, Launch, Timeout, Decide, GraceEnds, Hook
<1>6. ASSUME NEW w \in Workers, Heartbeat(w) PROVE [Next]_vars
  BY <1>4, <1>6 DEF Heartbeat, RenewLease
<1>7. ASSUME NEW w \in Workers, Throws(w) PROVE [Next]_vars
  BY <1>3, <1>7, MarkIsStoreStep DEF Throws
<1>8. ASSUME NEW w \in Workers, Crash(w) PROVE [Next]_vars
  BY <1>3, <1>8 DEF Crash
<1>9. ASSUME NEW c \in running, Executing(c) PROVE [Next]_vars
  BY <1>4, <1>9 DEF Executing, Settles, EffectCheck, EffectRun, RenewLease
<1>10. QED
  BY <1>1, <1>2, <1>5, <1>6, <1>7, <1>8, <1>9 DEF DNext

-----------------------------------------------------------------------------
(* What one worker's step leaves to the others                                *)

\* A step of w moves w alone, starts, decides or settles no claim but the one w
\* is at, and runs a hook only where w is at one.
Steps(w) ==
    /\ \A v \in Workers \ {w} : at'[v] = at[v]
    /\ claims \subseteq claims'
    /\ \/ started' = started
       \/ at[w].pc = "vet" /\ started' = started \cup {at[w].claim}
    /\ \/ decided' = decided
       \/ /\ at[w].pc = "run" /\ at[w].by = "none" /\ at'[w].by # "none"
          /\ decided' = decided \cup {[claim |-> at[w].claim, by |-> at'[w].by]}
    /\ \/ applied' = applied
       \/ /\ at[w].pc = "settle"
          /\ applied' = applied \cup {OutcomeOf(at[w].claim, at[w].verdict)}
    /\ \/ hooks' = hooks
       \/ /\ at[w].pc = "hook"
          /\ hooks' = hooks \cup {[job |-> at[w].claim.job, attempt |-> at[w].claim.attempt,
                                   kind |-> IF at[w].verdict = "retrying" THEN "onRetry"
                                            ELSE "onMaxRetriesExceeded"]}

\* What DInv and StoreInv say of the claims, for short.
ClaimsApart ==
    /\ claims \subseteq Claim
    /\ \A c, d \in claims : c.job = d.job /\ c.attempt = d.attempt => c = d

LEMMA ClaimsAreApart == StoreInv => ClaimsApart
BY DEF StoreInv, TypeOK, Grants, Given, ClaimsApart

LEMMA NoClaimIsNone == NoClaim \notin Claim
BY WorkersAssumption DEF NoClaim, Claim

\* A claim other than the one the step's worker is at stays open and unstarted.
LEMMA StaysOpen ==
    ASSUME StoreInv, DInv, NEW w \in Workers, Steps(w), NEW c \in claims, c # at[w].claim
    PROVE  /\ Open(c) => Open(c)'
           /\ c \notin started => c \notin started'
           /\ \A d \in decided' : d.claim = c => d \in decided
<1>1. c \notin started => c \notin started'
  BY DEF Steps
<1>2. \A d \in decided' : d.claim = c => d \in decided
  BY DEF Steps
<1>3. ASSUME Open(c), NEW o \in applied', o.job = c.job PROVE o.attempt # c.attempt
  <2>1. CASE o \in applied
    BY <1>3, <2>1 DEF Open
  <2>2. CASE /\ at[w].pc = "settle" /\ o = OutcomeOf(at[w].claim, at[w].verdict)
    <3>1. at[w].claim \in claims
      BY <2>2 DEF DInv, Works, Course, Between
    <3>2. o.job = at[w].claim.job /\ o.attempt = at[w].claim.attempt
      BY <2>2 DEF OutcomeOf
    <3>3. QED
      BY <1>3, <3>1, <3>2, ClaimsAreApart DEF ClaimsApart
  <2>3. QED
    BY <1>3, <2>1, <2>2 DEF Steps
<1>4. QED
  BY <1>1, <1>2, <1>3 DEF Open

\* Where a worker is at a claim, the claim is its own.
LEMMA OwnClaim ==
    ASSUME StoreInv, DInv, NEW w \in Workers
    PROVE  /\ at[w].claim \in claims \/ at[w].claim = NoClaim
           /\ at[w].claim \in claims => at[w].claim.worker = w /\ at[w].pc \notin Between
           /\ at[w].pc \notin Between => at[w].claim \in claims
           /\ at[w].batch \subseteq claims
<1>1. /\ at[w].claim \in claims \cup {NoClaim}
      /\ at[w].batch \subseteq claims
  BY DEF DInv, DTypeOK
<1>2. Course(w)
  BY DEF DInv, Works
<1>3. NoClaim \notin claims
  BY NoClaimIsNone, ClaimsAreApart DEF ClaimsApart
<1>4. QED
  BY <1>1, <1>2, <1>3 DEF Course

\* Every decision is of a claim.
LEMMA DecidedAreClaims ==
    ASSUME StoreInv, DInv, NEW w \in Workers, Steps(w), NEW d \in decided'
    PROVE  d.claim \in claims
<1>1. \A e \in decided : e.claim \in claims
  BY DEF DInv, DTypeOK
<1>2. at[w].pc = "run" => at[w].claim \in claims
  BY OwnClaim DEF Between
<1>3. QED
  BY <1>1, <1>2 DEF Steps

LEMMA OthersWork ==
    ASSUME StoreInv, DInv, NEW w \in Workers, Steps(w), NEW v \in Workers \ {w}
    PROVE  Works(v)'
<1>1. /\ at'[v] = at[v]
      /\ claims \subseteq claims' /\ started \subseteq started' /\ applied \subseteq applied'
  BY DEF Steps
<1>2. Course(v) /\ Waits(v) /\ Decisions(v)
  BY DEF DInv, Works
<1>0. PICK mine : mine = at[v].claim
  OBVIOUS
<1>3. mine \in claims => mine # at[w].claim
  BY <1>0, OwnClaim
<1>4. ASSUME mine \in claims
      PROVE  /\ Open(mine) => Open(mine)'
             /\ mine \notin started => mine \notin started'
             /\ \A d \in decided' : d.claim = mine => d \in decided
  BY <1>3, <1>4, StaysOpen
<1>5. Course(v)'
  <2>1. CASE at[v].pc \in Between
    BY <1>1, <1>2, <2>1 DEF Course, Between
  <2>2. CASE at[v].pc \notin Between
    <3>1. mine \in claims
      BY <1>0, <2>2, OwnClaim
    <3>2. /\ Open(at[v].claim) <=> Open(mine)
          /\ Open(at[v].claim)' <=> Open(mine)'
      BY <1>0, <1>1 DEF Open
    <3>3. HasHook(v) => HasHook(v)'
      BY <1>1 DEF HasHook
    <3>4. Judged(v) => Judged(v)'
      BY <1>0, <1>1, <1>4, <3>1 DEF Judged, ShouldRetry, Fits
    <3>5. OutcomeOf(at[v].claim, at[v].verdict) \in applied =>
            (OutcomeOf(at[v].claim, at[v].verdict) \in applied)'
      BY <1>1 DEF OutcomeOf
    <3>6. QED
      BY <1>0, <1>1, <1>2, <1>4, <2>2, <3>1, <3>2, <3>3, <3>4, <3>5 DEF Course, Between
  <2>3. QED
    BY <2>1, <2>2
<1>6. Waits(v)'
  <2>1. ASSUME NEW c \in at[v].batch PROVE c \in claims /\ c.worker = v /\ c # at[w].claim
    BY <1>2, <2>1, OwnClaim DEF Waits
  <2>2. QED
    BY <1>1, <1>2, <2>1, StaysOpen DEF Waits, Open
<1>7. Decisions(v)'
  BY <1>0, <1>1, <1>2, <1>4, DecidedAreClaims DEF Decisions
<1>8. QED
  BY <1>5, <1>6, <1>7 DEF Works

LEMMA RacesStayMatched ==
    ASSUME StoreInv, DInv, NEW w \in Workers, Steps(w)
    PROVE  RacesMatched'
<1> DEFINE c == at[w].claim
<1>1. c \in claims =>
        \A d \in decided : d.claim.job = c.job /\ d.claim.attempt = c.attempt => d.claim = c
  BY ClaimsAreApart DEF ClaimsApart, DInv, DTypeOK
<1>2. RacesMatched /\ Course(w) /\ Decisions(w)
  BY DEF DInv, Works
<1>3. CASE applied' = applied /\ decided' = decided
  BY <1>2, <1>3 DEF RacesMatched, Fits
<1>4. CASE /\ at[w].pc = "settle" /\ decided' = decided
           /\ applied' = applied \cup {OutcomeOf(at[w].claim, at[w].verdict)}
  <2>1. c \in claims /\ Judged(w)
    BY <1>2, <1>4 DEF Course, Between
  <2>2. \A d \in decided : d.claim \in started
    BY DEF DInv, DTypeOK
  <2>3. ASSUME NEW d \in decided, d.claim.job = c.job, d.claim.attempt = c.attempt
        PROVE  Fits(d.by, at[w].verdict)
    BY <1>1, <1>2, <2>1, <2>2, <2>3 DEF Judged, Decisions
  <2>4. ASSUME NEW o \in applied', NEW d \in decided',
               d.claim.job = o.job, d.claim.attempt = o.attempt
        PROVE  Fits(d.by, o.status)
    BY <1>2, <1>4, <2>3, <2>4 DEF RacesMatched, OutcomeOf
  <2>5. QED
    BY <2>4 DEF RacesMatched, Fits
<1>5. CASE /\ at[w].pc = "run" /\ applied' = applied
           /\ decided' = decided \cup {[claim |-> at[w].claim, by |-> at'[w].by]}
  <2>1. Open(c)
    BY <1>2, <1>5 DEF Course
  <2>2. ASSUME NEW o \in applied', NEW d \in decided',
               d.claim.job = o.job, d.claim.attempt = o.attempt
        PROVE  Fits(d.by, o.status)
    BY <1>2, <1>5, <2>1, <2>2 DEF RacesMatched, Open
  <2>3. QED
    BY <2>2 DEF RacesMatched, Fits
<1>6. QED
  BY <1>3, <1>4, <1>5 DEF Steps

LEMMA OutcomesStayClaimed ==
    ASSUME StoreInv, DInv, NEW w \in Workers, Steps(w)
    PROVE  OutcomesClaimed'
<1>1. at[w].pc = "settle" => at[w].claim \in claims
  BY OwnClaim DEF Between
<1>2. claims \subseteq claims' /\ OutcomesClaimed
  BY DEF Steps, DInv
<1>3. ASSUME NEW o \in applied' PROVE \E c \in claims : o.job = c.job /\ o.attempt = c.attempt
  BY <1>1, <1>2, <1>3 DEF Steps, OutcomesClaimed, OutcomeOf
<1>4. QED
  BY <1>2, <1>3 DEF OutcomesClaimed

LEMMA HooksStayEarned ==
    ASSUME StoreInv, DInv, NEW w \in Workers, Steps(w)
    PROVE  HooksEarned'
<1> DEFINE Earned(h) == \E o \in applied :
                          /\ o.job = h.job /\ o.attempt = h.attempt
                          /\ o.status = IF h.kind = "onRetry" THEN "retrying" ELSE "dead_letter"
<1>1. ASSUME at[w].pc = "hook"
      PROVE  Earned([job |-> at[w].claim.job, attempt |-> at[w].claim.attempt,
                     kind |-> IF at[w].verdict = "retrying" THEN "onRetry"
                              ELSE "onMaxRetriesExceeded"])
  <2>1. /\ OutcomeOf(at[w].claim, at[w].verdict) \in applied
        /\ at[w].verdict \in {"retrying", "dead_letter"}
    BY <1>1 DEF DInv, Works, Course, HasHook
  <2>2. QED
    BY <2>1 DEF OutcomeOf
<1>2. \A h \in hooks' : Earned(h)
  BY <1>1 DEF Steps, DInv, HooksEarned
<1>3. applied \subseteq applied'
  BY DEF Steps
<1>4. QED
  BY <1>2, <1>3 DEF HooksEarned

-----------------------------------------------------------------------------
(* What a step leaves to the worker that takes it                             *)

\* The worker is between jobs, with no more jobs in its batch than before.
Rests(w) ==
    /\ at'[w].pc \in Between /\ at'[w].claim = NoClaim /\ at'[w].by = "none"
    /\ at'[w].batch \subseteq at[w].batch
    /\ at'[w].pc \in {"idle", "claiming"} => at'[w].batch = {}

LEMMA RestingWorks ==
    ASSUME StoreInv, DInv, NEW w \in Workers, Steps(w), Rests(w)
    PROVE  Works(w)'
<1>1. Course(w)'
  BY DEF Rests, Course, Between
<1>2. NoClaim \notin claims
  BY NoClaimIsNone, ClaimsAreApart DEF ClaimsApart
<1>3. Waits(w)'
  <2>1. ASSUME NEW c \in at'[w].batch
        PROVE  c \in claims /\ c.worker = w /\ c # at[w].claim /\ c \notin started /\ Open(c)
    BY <2>1, OwnClaim DEF Rests, DInv, Works, Waits
  <2>2. QED
    BY <1>2, <2>1, StaysOpen DEF Rests, Waits, Open
<1>4. Decisions(w)'
  BY <1>2, DecidedAreClaims DEF Rests, Decisions
<1>5. QED
  BY <1>1, <1>3, <1>4 DEF Works

\* The worker takes a job from its batch.
Takes(w, c) ==
    /\ at[w].pc = "next" /\ c \in at[w].batch
    /\ at'[w].claim = c /\ at'[w].by = at[w].by
    /\ at'[w].batch = at[w].batch \ {c}
    /\ \/ at'[w].pc = "vet"
       \/ at'[w].pc = "settle" /\ at'[w].verdict = "dead_letter"

LEMMA TakingWorks ==
    ASSUME StoreInv, DInv, NEW w \in Workers, Steps(w), NEW c, Takes(w, c)
    PROVE  Works(w)'
<1>1. \A b \in at[w].batch :
         b \in claims /\ b.worker = w /\ b # at[w].claim /\ b \notin started /\ Open(b)
  BY OwnClaim DEF DInv, Works, Waits
<1>2. c \in claims /\ c.worker = w /\ c \notin started' /\ Open(c)'
  BY <1>1, StaysOpen DEF Takes
<1>3. at[w].by = "none"
  BY DEF Takes, DInv, Works, Course, Between
<1>4. Course(w)'
  <2>1. Open(at[w].claim)'
    BY <1>2 DEF Takes, Open
  <2>2. at'[w].pc = "settle" => Judged(w)'
    BY <1>2, <1>3 DEF Takes, Judged, ShouldRetry
  <2>3. claims \subseteq claims'
    BY DEF Steps
  <2>4. QED
    BY <1>2, <1>3, <2>1, <2>2, <2>3 DEF Takes, Course, Between
<1>5. Waits(w)'
  BY <1>1, StaysOpen DEF Takes, Waits, Open
<1>6. Decisions(w)'
  <2>1. \A d \in decided' : d.claim = c => d \in decided
    BY <1>1, StaysOpen DEF Takes
  <2>2. \A d \in decided : d.claim \in started
    BY DEF DInv, DTypeOK
  <2>3. QED
    BY <1>1, <2>1, <2>2 DEF Takes, Decisions
<1>7. QED
  BY <1>4, <1>5, <1>6 DEF Works

\* The worker stays at its job; the race is open, decided already, or decided now.
Stays(w) ==
    /\ at'[w].claim = at[w].claim /\ at'[w].batch = at[w].batch
    /\ \/ at'[w].by = at[w].by /\ decided' = decided
       \/ at[w].by = "none" /\ decided' = decided \cup {[claim |-> at[w].claim, by |-> at'[w].by]}

LEMMA StayingWorks ==
    ASSUME StoreInv, DInv, NEW w \in Workers, Steps(w), Stays(w), Course(w)'
    PROVE  Works(w)'
<1>1. \A b \in at[w].batch :
         b \in claims /\ b.worker = w /\ b # at[w].claim /\ b \notin started /\ Open(b)
  BY OwnClaim DEF DInv, Works, Waits
<1>2. Waits(w)'
  BY <1>1, StaysOpen DEF Stays, Waits, Open
<1>3. Decisions(w)'
  <2>1. Decisions(w) /\ \A d \in decided : d.by # "none"
    BY DEF DInv, Works, DTypeOK, Deciders, Results, Kinds
  <2>2. QED
    BY <2>1 DEF Stays, Decisions
<1>4. QED
  BY <1>2, <1>3 DEF Works

\* ... an attempt not settled yet, and one that is.
LEMMA HoldingWorks ==
    ASSUME StoreInv, DInv, NEW w \in Workers, Steps(w), Stays(w), applied' = applied,
           at[w].pc \in {"vet", "run", "grace", "settle"},
           at'[w].pc \in {"run", "grace", "settle"},
           at'[w].pc # "settle" => at[w].claim \in started',
           at'[w].pc = "grace" => at'[w].by \in {"timeout", "lost"},
           at'[w].pc = "settle" => Judged(w)'
    PROVE  Works(w)'
<1>1. Open(at[w].claim) /\ at[w].claim \in claims /\ at[w].claim.worker = w
  BY DEF DInv, Works, Course, Between
<1>2. claims \subseteq claims' /\ at'[w].claim = at[w].claim
  BY DEF Steps, Stays
<1>3. Open(at[w].claim)'
  BY <1>1, <1>2 DEF Open
<1>4. Course(w)'
  BY <1>1, <1>2, <1>3 DEF Course, Between
<1>5. QED
  BY <1>4, StayingWorks

LEMMA ReportedWorks ==
    ASSUME StoreInv, DInv, NEW w \in Workers, Steps(w), Stays(w),
           at[w].pc \in {"settle", "log"}, at'[w].pc \in {"log", "hook"},
           OutcomeOf(at'[w].claim, at'[w].verdict) \in applied',
           at'[w].pc = "hook" => HasHook(w)'
    PROVE  Works(w)'
<1>1. at[w].claim \in claims /\ at[w].claim.worker = w
  BY DEF DInv, Works, Course, Between
<1>2. claims \subseteq claims' /\ at'[w].claim = at[w].claim
  BY DEF Steps, Stays
<1>3. Course(w)'
  BY <1>1, <1>2 DEF Course, Between, OutcomeOf
<1>4. QED
  BY <1>3, StayingWorks

\* The places a worker can be at, for DTypeOK.
Where == [pc: Places, batch: SUBSET claims, claim: claims \cup {NoClaim},
          by: Deciders \cup {"none"}, lost: BOOLEAN,
          verdict: Terminal \cup {"retrying", "none"}]

\* A worker's step that keeps everything true: it keeps the other workers as
\* they are, and leaves its own in order.
Orderly(w) == Steps(w) /\ Works(w)' /\ DTypeOK'

LEMMA MovesKeepPlaces ==
    ASSUME DTypeOK, NEW w \in Workers, claims \subseteq claims', NEW r \in Where', Goes(w, r)
    PROVE  at' \in [Workers -> Where']
<1>1. at \in [Workers -> Where]
  BY DEF DTypeOK, Where, Places
<1>2. Where \subseteq Where'
  BY DEF Where
<1>3. at' = [at EXCEPT ![w] = r]
  BY DEF Goes
<1>4. QED
  BY <1>1, <1>2, <1>3

\* What DTypeOK says beside the places.
Tidy ==
    /\ running \subseteq started /\ checked \subseteq running /\ effects \subseteq started
    /\ faults \in [crashes: 0..MaxCrashes, errors: 0..MaxErrors]

LEMMA StepsKeepTypes ==
    ASSUME StoreInv, DInv, NEW w \in Workers, Steps(w), at' \in [Workers -> Where'], Tidy'
    PROVE  DTypeOK'
<1>1. at[w].pc \notin Between => at[w].claim \in claims /\ at[w].claim \in Claim
  BY OwnClaim, ClaimsAreApart DEF ClaimsApart
<1>2. claims \subseteq claims' /\ DTypeOK
  BY DEF Steps, DInv
<1>3. started' \subseteq claims'
  BY <1>1, <1>2 DEF Steps, DTypeOK, Between
<1>4. decided' \subseteq [claim: started', by: Deciders]
  <2>1. at'[w].by \in Deciders \cup {"none"}
    BY DEF Where
  <2>2. at[w].pc = "run" => at[w].claim \in started
    BY DEF DInv, Works, Course
  <2>3. started \subseteq started'
    BY DEF Steps
  <2>4. QED
    BY <1>2, <2>1, <2>2, <2>3 DEF Steps, DTypeOK
<1>5. hooks' \subseteq [job: Jobs, attempt: Nat, kind: {"onRetry", "onMaxRetriesExceeded"}]
  <2>1. at[w].pc = "hook" => at[w].claim.job \in Jobs /\ at[w].claim.attempt \in Nat
    BY <1>1 DEF Between, Claim
  <2>2. QED
    BY <1>2, <2>1 DEF Steps, DTypeOK
<1>6. at' \in [Workers -> [pc: {"idle", "claiming", "next", "vet", "run", "grace",
                                "settle", "log", "hook"},
                           batch: SUBSET claims', claim: claims' \cup {NoClaim},
                           by: Deciders \cup {"none"}, lost: BOOLEAN,
                           verdict: Terminal \cup {"retrying", "none"}]]
  BY DEF Where, Places
<1>7. QED
  BY <1>3, <1>4, <1>5, <1>6 DEF Tidy, DTypeOK

\* What the lemmas on the actions take from the invariant.
LEMMA WorkersInPlace ==
    ASSUME StoreInv, DInv, NEW w \in Workers
    PROVE  /\ at \in [Workers -> Where] /\ at[w] \in Where /\ Tidy
           /\ Course(w) /\ claims \subseteq Claim /\ NoClaim \notin claims
           /\ at[w].batch \subseteq claims
BY NoClaimIsNone, ClaimsAreApart, OwnClaim
   DEF DInv, DTypeOK, Where, Works, Places, Tidy, ClaimsApart

LEMMA RejectIsOrderly ==
    ASSUME StoreInv, DInv, NEW w \in Workers, Reject(w)
    PROVE  Orderly(w)
<1>1. at \in [Workers -> Where] /\ at[w] \in Where /\ Tidy /\ Course(w)
  BY WorkersInPlace
<1>2. PICK verdict \in {"failed", "dead_letter"} :
        at' = [at EXCEPT ![w] = [at[w] EXCEPT !.pc = "settle", !.verdict = verdict]]
  BY DEF Reject, Goes
<1>3. UNCHANGED <<claims, applied, started, decided, hooks, running, checked, effects, faults>>
  BY DEF Reject, vars
<1>4. Steps(w) /\ Tidy'
  BY <1>1, <1>2, <1>3 DEF Steps, Tidy
<1>5. at' \in [Workers -> Where']
  BY <1>1, <1>2, <1>3 DEF Where, Places, Terminal
<1>6. Stays(w) /\ at'[w].pc = "settle" /\ at'[w].verdict = verdict
  BY <1>1, <1>2, <1>3 DEF Where, Stays
<1>7. Judged(w)'
  BY <1>1, <1>2, <1>3, <1>6 DEF Reject, Course, Stays, Judged
<1>8. QED
  BY <1>3, <1>4, <1>5, <1>6, <1>7, HoldingWorks, StepsKeepTypes DEF Orderly, Reject

LEMMA LaunchIsOrderly ==
    ASSUME StoreInv, DInv, NEW w \in Workers, Launch(w)
    PROVE  Orderly(w)
<1>1. at \in [Workers -> Where] /\ at[w] \in Where /\ Tidy /\ Course(w)
  BY WorkersInPlace
<1>2. at[w].pc = "vet" /\ at' = [at EXCEPT ![w] = [at[w] EXCEPT !.pc = "run"]]
  BY DEF Launch, Goes
<1>3. /\ UNCHANGED <<claims, applied, decided, hooks, checked, effects, faults>>
      /\ running' = running \cup {at[w].claim} /\ started' = started \cup {at[w].claim}
  BY DEF Launch, vars
<1>4. Steps(w) /\ Tidy'
  BY <1>1, <1>2, <1>3 DEF Steps, Tidy
<1>5. at' \in [Workers -> Where']
  BY <1>1, <1>2, <1>3 DEF Where, Places
<1>6. Stays(w) /\ at'[w].pc = "run"
  BY <1>1, <1>2, <1>3 DEF Where, Stays
<1>7. QED
  BY <1>2, <1>3, <1>4, <1>5, <1>6, HoldingWorks, StepsKeepTypes DEF Orderly

\* The worker lets go of the job it is at, if any.
Retires(w, r) ==
    /\ at' = [at EXCEPT ![w] = r]
    /\ r.pc \in Between /\ r.claim = NoClaim /\ r.by = "none"
    /\ r.batch \subseteq at[w].batch
    /\ r.pc \in {"idle", "claiming"} => r.batch = {}

LEMMA RetiringIsOrderly ==
    ASSUME StoreInv, DInv, NEW w \in Workers, NEW r \in Where, Retires(w, r), Steps(w), Tidy'
    PROVE  Orderly(w)
<1>1. at \in [Workers -> Where]
  BY WorkersInPlace
<1>2. at' = [at EXCEPT ![w] = r] /\ at'[w] = r
  BY <1>1 DEF Retires
<1>3. Rests(w)
  BY <1>2 DEF Retires, Rests
<1>4. Where \subseteq Where'
  BY DEF Steps, Where
<1>5. at' \in [Workers -> Where']
  BY <1>1, <1>2, <1>4
<1>6. QED
  BY <1>3, <1>5, RestingWorks, StepsKeepTypes DEF Orderly

LEMMA IdleIsPlace == Idle \in Where
BY DEF Idle, Where, Places

LEMMA NextJobRetires ==
    ASSUME StoreInv, DInv, NEW w \in Workers, Goes(w, NextJob(w))
    PROVE  NextJob(w) \in Where /\ Retires(w, NextJob(w))
<1>1. at[w] \in Where
  BY WorkersInPlace
<1>2. /\ NextJob(w).pc = "next" /\ NextJob(w).batch = at[w].batch /\ NextJob(w).by = "none"
      /\ NextJob(w).claim = NoClaim
  BY DEF NextJob, Idle
<1>3. NextJob(w) \in Where
  BY <1>1, IdleIsPlace DEF NextJob, Where, Places
<1>4. QED
  BY <1>2, <1>3 DEF Goes, Retires, Between

LEMMA IdleRetires ==
    ASSUME NEW w \in Workers, Goes(w, Idle)
    PROVE  Retires(w, Idle)
BY DEF Goes, Retires, Idle, Between

\* Dropping a job of the batch.
LEMMA DroppingRetires ==
    ASSUME StoreInv, DInv, NEW w \in Workers, NEW c, at[w].pc = "next",
           Goes(w, [at[w] EXCEPT !.batch = @ \ {c}])
    PROVE  \E r \in Where : Retires(w, r)
<1>1. at[w] \in Where /\ Course(w)
  BY WorkersInPlace
<1>2. [at[w] EXCEPT !.batch = @ \ {c}] \in Where
  BY <1>1 DEF Where
<1>3. PICK r \in Where : r = [at[w] EXCEPT !.batch = @ \ {c}]
  BY <1>2
<1>4. r.pc = at[w].pc /\ r.batch \subseteq at[w].batch /\ r.claim = at[w].claim /\ r.by = at[w].by
  BY <1>1, <1>3 DEF Where
<1>5. Retires(w, r)
  BY <1>1, <1>3, <1>4 DEF Goes, Retires, Course, Between
<1>6. QED
  BY <1>5

LEMMA PollIsOrderly ==
    ASSUME StoreInv, DInv, NEW w \in Workers, Poll(w)
    PROVE  Orderly(w)
<1>1. at[w] \in Where /\ Course(w) /\ at \in [Workers -> Where] /\ Tidy
  BY WorkersInPlace
<1>2. PICK r : r = [at[w] EXCEPT !.pc = "claiming"]
  OBVIOUS
<1>3. /\ r \in Where /\ r.pc = "claiming" /\ r.batch = at[w].batch
      /\ r.claim = at[w].claim /\ r.by = at[w].by
  BY <1>1, <1>2 DEF Where, Places
<1>4. at' = [at EXCEPT ![w] = r]
  BY <1>2 DEF Poll, Goes
<1>5. UNCHANGED <<claims, applied, started, decided, hooks, running, checked, effects, faults>>
  BY DEF Poll, ClaimSelect
<1>6. Retires(w, r)
  BY <1>1, <1>3, <1>4 DEF Poll, Retires, Course, Between
<1>7. Steps(w) /\ Tidy'
  BY <1>1, <1>4, <1>5 DEF Steps, Tidy
<1>8. QED
  BY <1>3, <1>6, <1>7, RetiringIsOrderly

\* A step to the next job or to rest that changes nothing else, or settles or
\* runs a hook on the way.
LEMMA NextJobIsOrderly ==
    ASSUME StoreInv, DInv, NEW w \in Workers, Goes(w, NextJob(w)), Steps(w), Tidy'
    PROVE  Orderly(w)
BY NextJobRetires, RetiringIsOrderly

LEMMA BatchDoneIsOrderly ==
    ASSUME StoreInv, DInv, NEW w \in Workers, BatchDone(w)
    PROVE  Orderly(w)
<1>1. at \in [Workers -> Where] /\ Tidy
  BY WorkersInPlace
<1>2. UNCHANGED <<claims, applied, started, decided, hooks, running, checked, effects, faults>>
  BY DEF BatchDone, vars
<1>3. Steps(w) /\ Tidy'
  BY <1>1, <1>2 DEF BatchDone, Goes, Steps, Tidy
<1>4. QED
  BY <1>3, IdleRetires, IdleIsPlace, RetiringIsOrderly DEF BatchDone

LEMMA TakingIsOrderly ==
    ASSUME StoreInv, DInv, NEW w \in Workers, NEW c, Takes(w, c), Steps(w),
           at' \in [Workers -> Where'], Tidy'
    PROVE  Orderly(w)
BY TakingWorks, StepsKeepTypes DEF Orderly

LEMMA RefenceIsOrderly ==
    ASSUME StoreInv, DInv, NEW w \in Workers, NEW c \in at[w].batch, Refence(w, c)
    PROVE  Orderly(w)
<1>1. at[w] \in Where /\ at \in [Workers -> Where] /\ Tidy /\ c \in claims
  BY WorkersInPlace
<1>2. /\ UNCHANGED <<claims, applied, started, decided, hooks, running, checked, effects, faults>>
      /\ at[w].pc = "next"
  BY DEF Refence, RenewLease, vars
<1>3. CASE Goes(w, [at[w] EXCEPT !.pc = "vet", !.batch = @ \ {c}, !.claim = c])
  <2>1. Takes(w, c)
    BY <1>1, <1>2, <1>3 DEF Goes, Where, Takes
  <2>2. at' \in [Workers -> Where']
    BY <1>1, <1>2, <1>3 DEF Goes, Where, Places
  <2>3. Steps(w) /\ Tidy'
    BY <1>1, <1>2, <1>3 DEF Goes, Steps, Tidy
  <2>4. QED
    BY <2>1, <2>2, <2>3, TakingIsOrderly
<1>4. CASE Goes(w, [at[w] EXCEPT !.batch = @ \ {c}])
  <2>1. Steps(w) /\ Tidy'
    BY <1>1, <1>2, <1>4 DEF Goes, Steps, Tidy
  <2>2. QED
    BY <1>2, <1>4, <2>1, DroppingRetires, RetiringIsOrderly
<1>5. QED
  BY <1>3, <1>4 DEF Refence

LEMMA MalformedIsOrderly ==
    ASSUME StoreInv, DInv, NEW w \in Workers, NEW c \in at[w].batch, Malformed(w, c)
    PROVE  Orderly(w)
<1>1. at[w] \in Where /\ at \in [Workers -> Where] /\ Tidy /\ c \in claims
  BY WorkersInPlace
<1>2. UNCHANGED <<claims, applied, started, decided, hooks, running, checked, effects, faults>>
  BY DEF Malformed, vars
<1>3. at' = [at EXCEPT ![w] = [at[w] EXCEPT !.pc = "settle", !.batch = @ \ {c}, !.claim = c,
                                           !.verdict = "dead_letter"]]
  BY DEF Malformed, Goes
<1>4. Takes(w, c)
  BY <1>1, <1>3 DEF Malformed, Where, Takes
<1>5. at' \in [Workers -> Where']
  BY <1>1, <1>2, <1>3 DEF Where, Places, Terminal
<1>6. Steps(w) /\ Tidy'
  BY <1>1, <1>2, <1>3 DEF Steps, Tidy
<1>7. QED
  BY <1>4, <1>5, <1>6, TakingIsOrderly

\* The jobs of a batch read back are new: no execution or outcome is of one.
LEMMA ClaimedIsOrderly ==
    ASSUME StoreInv, DInv, NEW w \in Workers, Claimed(w)
    PROVE  Orderly(w)
<1>1. at[w] \in Where /\ at \in [Workers -> Where] /\ Tidy /\ Course(w) /\ NoClaim \notin claims
  BY WorkersInPlace
<1>2. /\ UNCHANGED <<applied, started, decided, hooks, running, checked, effects, faults>>
      /\ claims \subseteq claims' /\ at[w].pc = "claiming"
  BY DEF Claimed, ClaimReadback
<1>3. PICK new : new = claims' \ claims
  OBVIOUS
<1>4. at' = [at EXCEPT ![w] = [at[w] EXCEPT !.pc = "next", !.batch = new]]
  BY <1>3 DEF Claimed, Goes
<1>5. /\ at'[w].pc = "next" /\ at'[w].batch = new
      /\ at'[w].claim = NoClaim /\ at'[w].by = "none"
  BY <1>1, <1>2, <1>4 DEF Where, Course, Between
<1>6. Steps(w) /\ Tidy'
  BY <1>1, <1>2, <1>4 DEF Steps, Tidy
<1>7. at' \in [Workers -> Where']
  <2>1. Where \subseteq Where' /\ new \in SUBSET claims'
    BY <1>2, <1>3 DEF Where
  <2>2. [at[w] EXCEPT !.pc = "next", !.batch = new] \in Where'
    BY <1>1, <1>2, <2>1 DEF Where, Places
  <2>3. QED
    BY <1>1, <1>4, <2>1, <2>2
<1>8. Course(w)'
  BY <1>5 DEF Course, Between
<1>9. Waits(w)'
  <2>1. ASSUME NEW c \in new
        PROVE  c \in scan[w].got /\ c \notin claims /\ c \in Given /\ c.worker = w
    BY <1>3, <2>1 DEF Claimed, ClaimReadback, StoreInv, Grants, Given
  <2>2. ASSUME NEW c \in new, NEW o \in applied, o.job = c.job PROVE o.attempt # c.attempt
    <3>1. PICK d \in claims : o.job = d.job /\ o.attempt = d.attempt
      BY DEF DInv, OutcomesClaimed
    <3>2. c \in Given /\ d \in Given /\ c # d
      BY <2>1 DEF Given
    <3>3. \A a, b \in Given : a.job = b.job /\ a.attempt = b.attempt => a = b
      BY DEF StoreInv, Grants
    <3>4. QED
      BY <2>2, <3>1, <3>2, <3>3
  <2>3. started \subseteq claims /\ new \subseteq Claim
    BY <2>1 DEF DInv, DTypeOK, StoreInv, TypeOK, Scan
  <2>4. QED
    BY <1>2, <1>5, <2>1, <2>2, <2>3, NoClaimIsNone DEF Waits, Open
<1>10. Decisions(w)'
  BY <1>1, <1>5, <1>6, DecidedAreClaims DEF Decisions
<1>11. QED
  BY <1>6, <1>7, <1>8, <1>9, <1>10, StepsKeepTypes DEF Orderly, Works

\* The first signal decides.
LEMMA TimeoutIsOrderly ==
    ASSUME StoreInv, DInv, NEW w \in Workers, Timeout(w)
    PROVE  Orderly(w)
<1>1. at \in [Workers -> Where] /\ at[w] \in Where /\ Tidy /\ Course(w)
  BY WorkersInPlace
<1>2. /\ at[w].pc = "run" /\ at[w].by = "none"
      /\ at' = [at EXCEPT ![w] = [at[w] EXCEPT !.by = "timeout"]]
  BY DEF Timeout, Goes
<1>3. UNCHANGED <<claims, applied, started, hooks, running, checked, effects, faults>>
  BY DEF Timeout, vars
<1>4. /\ at'[w].pc = "run" /\ at'[w].by = "timeout" /\ at'[w].claim = at[w].claim
      /\ at'[w].batch = at[w].batch
  BY <1>1, <1>2 DEF Where
<1>5. decided' = decided \cup {[claim |-> at[w].claim, by |-> at'[w].by]}
  BY <1>2, <1>4 DEF Timeout, Decided
<1>6. Steps(w) /\ Stays(w) /\ Tidy'
  BY <1>1, <1>2, <1>3, <1>4, <1>5 DEF Steps, Stays, Tidy
<1>7. at' \in [Workers -> Where']
  BY <1>1, <1>2, <1>3 DEF Where, Deciders
<1>8. at[w].claim \in started'
  BY <1>1, <1>2, <1>3 DEF Course
<1>9. QED
  BY <1>2, <1>3, <1>4, <1>6, <1>7, <1>8, HoldingWorks, StepsKeepTypes DEF Orderly

\* A lost lease decides only an attempt that nothing has decided yet.
LEMMA LosingIsOrderly ==
    ASSUME StoreInv, DInv, NEW w \in Workers, Beating(w), Lose(w), Tidy',
           UNCHANGED <<claims, applied, started, hooks>>
    PROVE  Orderly(w)
<1>1. at \in [Workers -> Where] /\ at[w] \in Where /\ Course(w)
  BY WorkersInPlace
<1>2. PICK by : by = IF at[w].pc = "run" /\ at[w].by = "none" THEN "lost" ELSE at[w].by
  OBVIOUS
<1>3. at' = [at EXCEPT ![w] = [at[w] EXCEPT !.lost = TRUE, !.by = by]]
  <2>1. CASE at[w].pc = "run"
    BY <1>2, <2>1 DEF Lose, Goes, Won
  <2>2. CASE at[w].pc # "run"
    BY <1>2, <2>2 DEF Lose, Goes
  <2>3. QED
    BY <2>1, <2>2
<1>4. /\ at'[w].pc = at[w].pc /\ at'[w].by = by /\ at'[w].claim = at[w].claim
      /\ at'[w].batch = at[w].batch /\ at'[w].verdict = at[w].verdict
  BY <1>1, <1>3 DEF Where
<1>5. \/ by = at[w].by /\ decided' = decided
      \/ /\ at[w].pc = "run" /\ at[w].by = "none" /\ by = "lost"
         /\ decided' = decided \cup {[claim |-> at[w].claim, by |-> by]}
  BY <1>2 DEF Lose, Decided
<1>6. Steps(w) /\ Stays(w)
  BY <1>1, <1>3, <1>4, <1>5 DEF Steps, Stays
<1>7. at' \in [Workers -> Where']
  BY <1>1, <1>2, <1>3 DEF Where, Deciders
<1>8. at[w].pc \in {"run", "grace", "settle"} /\ at[w].claim \in started'
  BY DEF Beating
<1>9. at'[w].pc = "settle" => Judged(w)'
  BY <1>1, <1>4, <1>5 DEF Course, Judged, ShouldRetry
<1>10. at'[w].pc = "grace" => at'[w].by \in {"timeout", "lost"}
  BY <1>1, <1>4, <1>5 DEF Course
<1>11. QED
  BY <1>4, <1>6, <1>7, <1>8, <1>9, <1>10, HoldingWorks, StepsKeepTypes DEF Orderly

LEMMA HeartbeatIsOrderly ==
    ASSUME StoreInv, DInv, NEW w \in Workers, Heartbeat(w), Lose(w)
    PROVE  Orderly(w)
<1>1. Tidy
  BY WorkersInPlace
<1>2. UNCHANGED <<claims, applied, started, hooks, running, checked, effects, faults>> /\ Beating(w)
  BY DEF Heartbeat, RenewLease, vars
<1>3. Tidy'
  BY <1>1, <1>2 DEF Tidy
<1>4. QED
  BY <1>2, <1>3, LosingIsOrderly

\* An execution that settles decides the race of its worker, if it is still on.
LEMMA SettlingIsOrderly ==
    ASSUME StoreInv, DInv, NEW c \in running, Settles(c)
    PROVE  c.worker \in Workers /\ Orderly(c.worker)
<1>1. c \in claims /\ c.worker \in Workers
  BY ClaimsAreApart DEF DInv, DTypeOK, ClaimsApart, Claim
<1>2. PICK w \in Workers : w = c.worker
  BY <1>1
<1>3. at \in [Workers -> Where] /\ at[w] \in Where /\ Tidy /\ Course(w) /\ Works(w)
  BY WorkersInPlace DEF DInv
<1>4. UNCHANGED <<claims, applied, started, hooks, checked, effects, faults>>
  BY DEF Settles, vars
<1>5. Tidy'
  BY <1>3, <1>4 DEF Settles, Tidy
<1>6. CASE UNCHANGED <<at, decided>>
  <2>1. Steps(w)
    BY <1>4, <1>6 DEF Steps
  <2>2. Works(w)'
    BY <1>3, <1>4, <1>6 DEF Works, Course, Waits, Decisions, Judged, Open, HasHook, OutcomeOf
  <2>3. at' \in [Workers -> Where']
    BY <1>3, <1>4, <1>6 DEF Where
  <2>4. QED
    BY <1>2, <1>5, <2>1, <2>2, <2>3, StepsKeepTypes DEF Orderly
<1>7. CASE at[w].pc = "run" /\ at[w].claim = c
  <2>1. PICK result \in Results : /\ Decided(w, result)
                                  /\ Goes(w, [at[w] EXCEPT !.by = Won(w, result)])
    BY <1>2, <1>7 DEF Settles
  <2>2. PICK by : by = IF at[w].by = "none" THEN result ELSE at[w].by
    OBVIOUS
  <2>3. at' = [at EXCEPT ![w] = [at[w] EXCEPT !.by = by]]
    BY <2>1, <2>2 DEF Goes, Won
  <2>4. /\ at'[w].pc = at[w].pc /\ at'[w].by = by /\ at'[w].claim = at[w].claim
        /\ at'[w].batch = at[w].batch
    BY <1>3, <2>3 DEF Where
  <2>5. \/ by = at[w].by /\ decided' = decided
        \/ /\ at[w].by = "none" /\ by # "none"
           /\ decided' = decided \cup {[claim |-> at[w].claim, by |-> by]}
    BY <2>1, <2>2 DEF Decided, Results, Kinds
  <2>6. Steps(w) /\ Stays(w)
    BY <1>3, <1>4, <1>7, <2>3, <2>4, <2>5 DEF Steps, Stays
  <2>7. at' \in [Workers -> Where']
    BY <1>3, <1>4, <2>2, <2>3 DEF Where, Deciders
  <2>8. at[w].claim \in started'
    BY <1>3, <1>4, <1>7 DEF Course
  <2>9. QED
    BY <1>2, <1>4, <1>5, <1>7, <2>4, <2>6, <2>7, <2>8, HoldingWorks, StepsKeepTypes DEF Orderly
<1>8. QED
  BY <1>2, <1>6, <1>7 DEF Settles

\* A verdict fits the decision it is taken on.
LEMMA VerdictFits ==
    ASSUME NEW kind \in Kinds, NEW c
    PROVE  /\ Fits(kind, VerdictOn(kind, c)) /\ VerdictOn(kind, c) \in Terminal \cup {"retrying"}
           /\ VerdictOn(kind, c) = "retrying" => ShouldRetry(c)
BY DEF Kinds, VerdictOn, Fits, Terminal

LEMMA TimeoutFits ==
    ASSUME NEW c
    PROVE  /\ Fits("timeout", VerdictOn("retryable", c))
           /\ VerdictOn("retryable", c) \in Terminal \cup {"retrying"}
           /\ VerdictOn("retryable", c) = "retrying" => ShouldRetry(c)
BY DEF VerdictOn, Fits, Terminal

\* An executed attempt is settled as its race was decided.
LEMMA ConcludingIsOrderly ==
    ASSUME StoreInv, DInv, NEW w \in Workers, at[w].pc \in {"run", "grace"}, NEW verdict,
           verdict \in Terminal \cup {"retrying"}, Fits(at[w].by, verdict),
           verdict = "retrying" => ShouldRetry(at[w].claim),
           Goes(w, [at[w] EXCEPT !.pc = "settle", !.verdict = verdict]),
           UNCHANGED <<vars, running, started, decided, hooks, checked, effects, faults>>
    PROVE  Orderly(w)
<1>1. at \in [Workers -> Where] /\ at[w] \in Where /\ Tidy /\ Course(w)
  BY WorkersInPlace
<1>2. UNCHANGED <<claims, applied, started, decided, hooks, running, checked, effects, faults>>
  BY DEF vars
<1>3. at' = [at EXCEPT ![w] = [at[w] EXCEPT !.pc = "settle", !.verdict = verdict]]
  BY DEF Goes
<1>4. /\ at'[w].pc = "settle" /\ at'[w].verdict = verdict /\ at'[w].by = at[w].by
      /\ at'[w].claim = at[w].claim /\ at'[w].batch = at[w].batch
  BY <1>1, <1>3 DEF Where
<1>5. Steps(w) /\ Stays(w) /\ Tidy'
  BY <1>1, <1>2, <1>3, <1>4 DEF Steps, Stays, Tidy
<1>6. at' \in [Workers -> Where']
  BY <1>1, <1>2, <1>3 DEF Where, Places
<1>7. Judged(w)'
  BY <1>4 DEF Judged, ShouldRetry, Fits
<1>8. QED
  BY <1>2, <1>4, <1>5, <1>6, <1>7, HoldingWorks, StepsKeepTypes DEF Orderly

LEMMA LettingGoIsOrderly ==
    ASSUME StoreInv, DInv, NEW w \in Workers, Goes(w, NextJob(w)),
           UNCHANGED <<vars, running, started, decided, hooks, checked, effects, faults>>
    PROVE  Orderly(w)
<1>1. at \in [Workers -> Where] /\ Tidy
  BY WorkersInPlace
<1>2. UNCHANGED <<claims, applied, started, decided, hooks, running, checked, effects, faults>>
  BY DEF vars
<1>3. Steps(w) /\ Tidy'
  BY <1>1, <1>2 DEF Goes, Steps, Tidy
<1>4. QED
  BY <1>3, NextJobIsOrderly

LEMMA DecideIsOrderly ==
    ASSUME StoreInv, DInv, NEW w \in Workers, Decide(w)
    PROVE  Orderly(w)
<1>1. at \in [Workers -> Where] /\ at[w] \in Where /\ Tidy /\ Course(w)
  BY WorkersInPlace
<1>2. /\ UNCHANGED <<vars, running, started, decided, hooks, checked, effects, faults>>
      /\ at[w].pc = "run"
  BY DEF Decide
<1>3. CASE at[w].by \in {"timeout", "lost"} /\ Goes(w, [at[w] EXCEPT !.pc = "grace"])
  <2>1. UNCHANGED <<claims, applied, started, decided, hooks, running, checked, effects, faults>>
    BY <1>2 DEF vars
  <2>2. at' = [at EXCEPT ![w] = [at[w] EXCEPT !.pc = "grace"]]
    BY <1>3 DEF Goes
  <2>3. /\ at'[w].pc = "grace" /\ at'[w].by = at[w].by /\ at'[w].claim = at[w].claim
        /\ at'[w].batch = at[w].batch
    BY <1>1, <2>2 DEF Where
  <2>4. Steps(w) /\ Stays(w) /\ Tidy'
    BY <1>1, <2>1, <2>2, <2>3 DEF Steps, Stays, Tidy
  <2>5. at' \in [Workers -> Where']
    BY <1>1, <2>1, <2>2 DEF Where, Places
  <2>6. at[w].claim \in started'
    BY <1>1, <1>2, <2>1 DEF Course
  <2>7. QED
    BY <1>2, <1>3, <2>1, <2>3, <2>4, <2>5, <2>6, HoldingWorks, StepsKeepTypes DEF Orderly
<1>4. ASSUME NEW verdict, Goes(w, [at[w] EXCEPT !.pc = "settle", !.verdict = verdict]),
             verdict \in Terminal \cup {"retrying"}, Fits(at[w].by, verdict),
             verdict = "retrying" => ShouldRetry(at[w].claim)
      PROVE  Orderly(w)
  BY <1>2, <1>4, ConcludingIsOrderly
<1>5. CASE Goes(w, NextJob(w))
  BY <1>2, <1>5, LettingGoIsOrderly
<1>6. CASE /\ at[w].by = "malformed"
           /\ Goes(w, [at[w] EXCEPT !.pc = "settle", !.verdict = "dead_letter"])
  <2>1. Fits(at[w].by, "dead_letter") /\ "dead_letter" \in Terminal \cup {"retrying"}
    BY <1>6 DEF Fits, Terminal
  <2>2. QED
    BY <1>4, <1>6, <2>1
<1>7. CASE /\ at[w].by = "ok"
           /\ Goes(w, [at[w] EXCEPT !.pc = "settle", !.verdict = "succeeded"])
  <2>1. Fits(at[w].by, "succeeded") /\ "succeeded" \in Terminal \cup {"retrying"}
    BY <1>7 DEF Fits, Terminal
  <2>2. QED
    BY <1>4, <1>7, <2>1
<1>8. CASE /\ at[w].by \in Kinds
           /\ Goes(w, [at[w] EXCEPT !.pc = "settle", !.verdict = VerdictOn(at[w].by, at[w].claim)])
  BY <1>4, <1>8, VerdictFits
<1>9. QED
  BY <1>3, <1>5, <1>6, <1>7, <1>8 DEF Decide

LEMMA GraceEndsIsOrderly ==
    ASSUME StoreInv, DInv, NEW w \in Workers, GraceEnds(w)
    PROVE  Orderly(w)
<1>1. Course(w)
  BY WorkersInPlace
<1>2. /\ UNCHANGED <<vars, running, started, decided, hooks, checked, effects, faults>>
      /\ at[w].pc = "grace"
  BY DEF GraceEnds
<1>3. CASE Goes(w, NextJob(w))
  BY <1>2, <1>3, LettingGoIsOrderly
<1>4. CASE /\ at[w].by # "lost"
           /\ Goes(w, [at[w] EXCEPT !.pc = "settle",
                                    !.verdict = VerdictOn("retryable", at[w].claim)])
  <2>1. at[w].by = "timeout"
    BY <1>1, <1>2, <1>4 DEF Course
  <2>2. QED
    BY <1>2, <1>4, <2>1, TimeoutFits, ConcludingIsOrderly
<1>5. QED
  BY <1>3, <1>4 DEF GraceEnds

\* A transition that went through, or seemed to, is reported.
LEMMA MarkReports ==
    ASSUME NEW c, NEW verdict, Mark(c, verdict)
    PROVE  applied' = applied \cup {OutcomeOf(c, verdict)} /\ claims' = claims
BY DEF Mark, MarkSucceeded, MarkRetrying, MarkFailed, Transition, Report

\* An attempt reported as settled, on the way to its log line or its hook.
LEMMA ReportedIsOrderly ==
    ASSUME StoreInv, DInv, NEW w \in Workers, at[w].pc \in {"settle", "log"},
           NEW pc \in {"log", "hook"}, Goes(w, [at[w] EXCEPT !.pc = pc]),
           OutcomeOf(at[w].claim, at[w].verdict) \in applied',
           pc = "hook" => HasHook(w),
           applied' = applied \/ /\ at[w].pc = "settle"
                                 /\ applied' = applied \cup {OutcomeOf(at[w].claim, at[w].verdict)},
           UNCHANGED <<claims, running, started, decided, hooks, checked, effects>>, Tidy'
    PROVE  Orderly(w)
<1>1. at \in [Workers -> Where] /\ at[w] \in Where
  BY WorkersInPlace
<1>2. at' = [at EXCEPT ![w] = [at[w] EXCEPT !.pc = pc]]
  BY DEF Goes
<1>3. /\ at'[w].pc = pc /\ at'[w].verdict = at[w].verdict /\ at'[w].by = at[w].by
      /\ at'[w].claim = at[w].claim /\ at'[w].batch = at[w].batch
  BY <1>1, <1>2 DEF Where
<1>4. Steps(w) /\ Stays(w)
  BY <1>1, <1>2, <1>3 DEF Steps, Stays
<1>5. at' \in [Workers -> Where']
  BY <1>1, <1>2 DEF Where, Places
<1>6. HasHook(w) => HasHook(w)'
  BY <1>3 DEF HasHook
<1>7. OutcomeOf(at'[w].claim, at'[w].verdict) \in applied'
  BY <1>3
<1>8. QED
  BY <1>3, <1>4, <1>5, <1>6, <1>7, ReportedWorks, StepsKeepTypes DEF Orderly

\* ... or gone on from, also when only the worker does not know.
LEMMA MovingOnIsOrderly ==
    ASSUME StoreInv, DInv, NEW w \in Workers, Goes(w, NextJob(w)),
           UNCHANGED <<running, started, decided, hooks, checked, effects>>, Tidy',
           \/ applied' = applied
           \/ /\ at[w].pc = "settle"
              /\ applied' = applied \cup {OutcomeOf(at[w].claim, at[w].verdict)},
           claims' = claims
    PROVE  Orderly(w)
<1>1. at \in [Workers -> Where]
  BY WorkersInPlace
<1>2. Steps(w)
  BY <1>1 DEF Goes, Steps
<1>3. QED
  BY <1>2, NextJobIsOrderly

LEMMA SettleIsOrderly ==
    ASSUME StoreInv, DInv, NEW w \in Workers, Settle(w)
    PROVE  Orderly(w)
<1>1. at[w].pc = "settle" /\ UNCHANGED <<running, started, decided, hooks, checked, effects, faults>>
  BY DEF Settle
<1>2. Tidy'
  BY <1>1, WorkersInPlace DEF Tidy
<1>3. CASE Mark(at[w].claim, at[w].verdict) /\ AfterSettling(w)
  <2>1. /\ applied' = applied \cup {OutcomeOf(at[w].claim, at[w].verdict)}
        /\ claims' = claims
    BY <1>3, MarkReports
  <2>2. CASE Goes(w, [at[w] EXCEPT !.pc = "log"])
    BY <1>1, <1>2, <2>1, <2>2, ReportedIsOrderly
  <2>3. CASE HasHook(w) /\ Goes(w, [at[w] EXCEPT !.pc = "hook"])
    BY <1>1, <1>2, <2>1, <2>3, ReportedIsOrderly
  <2>4. CASE Goes(w, NextJob(w))
    BY <1>1, <1>2, <2>1, <2>4, MovingOnIsOrderly
  <2>5. QED
    BY <1>3, <2>2, <2>3, <2>4 DEF AfterSettling
<1>4. CASE Goes(w, NextJob(w)) /\ UNCHANGED vars
  BY <1>1, <1>4, LettingGoIsOrderly
<1>5. QED
  BY <1>3, <1>4 DEF Settle

LEMMA LogIsOrderly ==
    ASSUME StoreInv, DInv, NEW w \in Workers, Log(w)
    PROVE  Orderly(w)
<1>1. /\ at[w].pc = "log" /\ Course(w) /\ Tidy
      /\ UNCHANGED <<applied, claims, running, started, decided, hooks, checked, effects, faults>>
  BY WorkersInPlace DEF Log, RecordExecution
<1>2. Tidy' /\ OutcomeOf(at[w].claim, at[w].verdict) \in applied'
  BY <1>1 DEF Tidy, Course
<1>3. CASE HasHook(w) /\ Goes(w, [at[w] EXCEPT !.pc = "hook"])
  BY <1>1, <1>2, <1>3, ReportedIsOrderly
<1>4. CASE Goes(w, NextJob(w))
  BY <1>1, <1>2, <1>4, MovingOnIsOrderly
<1>5. QED
  BY <1>3, <1>4 DEF Log

LEMMA HookIsOrderly ==
    ASSUME StoreInv, DInv, NEW w \in Workers, Hook(w)
    PROVE  Orderly(w)
<1>1. at \in [Workers -> Where] /\ Tidy
  BY WorkersInPlace
<1>2. /\ Goes(w, NextJob(w)) /\ at[w].pc = "hook"
      /\ UNCHANGED <<claims, applied, started, decided, running, checked, effects, faults>>
  BY DEF Hook, vars
<1>3. Steps(w)
  BY <1>1, <1>2 DEF Hook, Goes, Steps
<1>4. Tidy'
  BY <1>1, <1>2 DEF Tidy
<1>5. QED
  BY <1>2, <1>3, <1>4, NextJobIsOrderly

LEMMA ThrowsIsOrderly ==
    ASSUME StoreInv, DInv, NEW w \in Workers, Throws(w)
    PROVE  Orderly(w)
<1>1. at \in [Workers -> Where] /\ Tidy
  BY WorkersInPlace
<1>2. UNCHANGED <<running, started, hooks, checked, effects>> /\ Tidy'
  <2>1. faults' \in [crashes: 0..MaxCrashes, errors: 0..MaxErrors]
    <3>1. /\ faults.crashes \in 0..MaxCrashes /\ faults.errors \in 0..MaxErrors
          /\ faults.errors < MaxErrors
      BY <1>1 DEF Throws, Tidy
    <3>2. faults.errors + 1 \in 0..MaxErrors
      BY <3>1, FaultsAssumption
    <3>3. QED
      BY <1>1, <3>1, <3>2 DEF Throws, Tidy
  <2>2. UNCHANGED <<running, started, hooks, checked, effects>>
    BY DEF Throws
  <2>3. QED
    BY <1>1, <2>1, <2>2 DEF Tidy
<1>3. CASE ClaimAbort(w) /\ Goes(w, Idle) /\ UNCHANGED decided
  <2>1. Steps(w)
    BY <1>1, <1>2, <1>3 DEF ClaimAbort, Goes, Steps
  <2>2. QED
    BY <1>2, <1>3, <2>1, IdleRetires, IdleIsPlace, RetiringIsOrderly
<1>4. ASSUME NEW c \in at[w].batch, Goes(w, [at[w] EXCEPT !.batch = @ \ {c}]),
             at[w].pc = "next", UNCHANGED <<vars, decided>>
      PROVE  Orderly(w)
  <2>1. claims' = claims /\ applied' = applied /\ decided' = decided
    BY <1>4 DEF vars
  <2>2. Steps(w)
    BY <1>1, <1>2, <1>4, <2>1 DEF Goes, Steps
  <2>3. QED
    BY <1>2, <1>4, <2>2, DroppingRetires, RetiringIsOrderly
<1>5. CASE Beating(w) /\ Lose(w) /\ UNCHANGED vars
  BY <1>2, <1>5, LosingIsOrderly DEF vars
<1>6. CASE /\ at[w].pc = "settle"
           /\ Mark(at[w].claim, at[w].verdict) \/ UNCHANGED vars
           /\ Goes(w, NextJob(w)) /\ UNCHANGED decided
  <2>1. /\ claims' = claims
        /\ \/ applied' = applied
           \/ applied' = applied \cup {OutcomeOf(at[w].claim, at[w].verdict)}
    BY <1>6, MarkReports DEF vars
  <2>2. QED
    BY <1>2, <1>6, <2>1, MovingOnIsOrderly
<1>7. QED
  BY <1>3, <1>4, <1>5, <1>6 DEF Throws

LEMMA CrashIsOrderly ==
    ASSUME StoreInv, DInv, NEW w \in Workers, Crash(w)
    PROVE  Orderly(w)
<1>1. at \in [Workers -> Where] /\ Tidy
  BY WorkersInPlace
<1>2. /\ Goes(w, Idle)
      /\ UNCHANGED <<claims, applied, started, decided, hooks, effects>>
  BY DEF Crash, ClaimAbort, vars
<1>3. Steps(w)
  BY <1>1, <1>2 DEF Goes, Steps
<1>4. Tidy'
  <2>1. faults' \in [crashes: 0..MaxCrashes, errors: 0..MaxErrors]
    <3>1. /\ faults.crashes \in 0..MaxCrashes /\ faults.errors \in 0..MaxErrors
          /\ faults.crashes < MaxCrashes
      BY <1>1 DEF Crash, Tidy
    <3>2. faults.crashes + 1 \in 0..MaxCrashes
      BY <3>1, FaultsAssumption
    <3>3. QED
      BY <1>1, <3>1, <3>2 DEF Crash, Tidy
  <2>2. running' = {c \in running : c.worker # w} /\ checked' = {c \in checked : c.worker # w}
    BY DEF Crash
  <2>3. QED
    BY <1>1, <1>2, <2>1, <2>2 DEF Tidy
<1>5. QED
  BY <1>2, <1>3, <1>4, IdleRetires, IdleIsPlace, RetiringIsOrderly

-----------------------------------------------------------------------------
(* The dispatcher's theorems                                                  *)

\* What leaves every worker and every record of it as they are.
LEMMA QuietKeepsOrder ==
    ASSUME DInv, UNCHANGED <<claims, applied, at, started, decided, hooks>>, Tidy'
    PROVE  DInv'
<1> USE DEF DInv
<1>1. DTypeOK'
  BY DEF DTypeOK, Tidy
<1>2. \A w \in Workers : Works(w)'
  BY DEF Works, Course, Waits, Decisions, Judged, Open, HasHook, OutcomeOf
<1>3. OutcomesClaimed' /\ RacesMatched' /\ HooksEarned'
  BY DEF OutcomesClaimed, RacesMatched, Fits, HooksEarned
<1>4. QED
  BY <1>1, <1>2, <1>3

LEMMA OrderKept ==
    ASSUME StoreInv, DInv, NEW w \in Workers, Orderly(w)
    PROVE  DInv'
<1>1. \A v \in Workers : Works(v)'
  BY OthersWork DEF Orderly
<1>2. QED
  BY <1>1, OutcomesStayClaimed, RacesStayMatched, HooksStayEarned DEF Orderly, DInv

LEMMA DispatchingIsOrderly ==
    ASSUME StoreInv, DInv, NEW w \in Workers, Dispatching(w), ~ClaimEach(w)
    PROVE  Orderly(w)
BY PollIsOrderly, ClaimedIsOrderly, BatchDoneIsOrderly, RefenceIsOrderly, MalformedIsOrderly,
   RejectIsOrderly, LaunchIsOrderly, TimeoutIsOrderly, DecideIsOrderly, GraceEndsIsOrderly,
   SettleIsOrderly, LogIsOrderly, HookIsOrderly DEF Dispatching, Working

LEMMA DInvInductive ==
    ASSUME StoreInv, DInv, [DNext]_dvars
    PROVE  DInv'
<1>1. Tidy /\ running \subseteq claims
  BY DEF DInv, DTypeOK, Tidy
<1>2. CASE UNCHANGED dvars
  <2>1. UNCHANGED <<claims, applied, at, started, decided, hooks, running, checked, effects, faults>>
    BY <1>2 DEF dvars, vars, dispatch
  <2>2. Tidy'
    BY <1>1, <2>1 DEF Tidy
  <2>3. QED
    BY <2>1, <2>2, QuietKeepsOrder
<1>3. CASE Outside
  <2>1. UNCHANGED <<at, started, decided, hooks, running, checked, effects, faults>>
    BY <1>3 DEF Outside, dispatch
  <2>2. UNCHANGED <<claims, applied>>
    BY <1>3 DEF Outside, Tick, Cancelling, Cancel, CancelLog, CancelApply, Enqueue
  <2>3. Tidy'
    BY <1>1, <2>1 DEF Tidy
  <2>4. QED
    BY <2>1, <2>2, <2>3, QuietKeepsOrder
<1>4. ASSUME NEW w \in Workers, ClaimEach(w) PROVE DInv'
  <2>1. UNCHANGED <<at, started, decided, hooks, running, checked, effects, faults>>
    BY <1>4 DEF ClaimEach, dispatch
  <2>2. UNCHANGED <<claims, applied>>
    BY <1>4 DEF ClaimEach, ClaimProbe, ClaimRow, ClaimMiss
  <2>3. Tidy'
    BY <1>1, <2>1 DEF Tidy
  <2>4. QED
    BY <2>1, <2>2, <2>3, QuietKeepsOrder
<1>5. ASSUME NEW w \in Workers, Dispatching(w) PROVE DInv'
  BY <1>4, <1>5, DispatchingIsOrderly, OrderKept
<1>6. ASSUME NEW w \in Workers, Heartbeat(w) PROVE DInv'
  <2>1. CASE Lose(w)
    BY <1>6, <2>1, HeartbeatIsOrderly, OrderKept
  <2>2. CASE RenewLease(at[w].claim) /\ UNCHANGED <<at, decided>>
    <3>1. UNCHANGED <<claims, applied, started, hooks, running, checked, effects, faults>>
      BY <1>6, <2>2 DEF Heartbeat, RenewLease
    <3>2. Tidy'
      BY <1>1, <3>1 DEF Tidy
    <3>3. QED
      BY <2>2, <3>1, <3>2, QuietKeepsOrder
  <2>3. QED
    BY <1>6, <2>1, <2>2 DEF Heartbeat
<1>7. ASSUME NEW c \in running, Executing(c) PROVE DInv'
  <2>1. CASE Settles(c)
    BY <2>1, SettlingIsOrderly, OrderKept
  <2>2. CASE EffectCheck(c)
    <3>1. UNCHANGED <<claims, applied, at, started, decided, hooks, running, effects, faults>>
      BY <2>2 DEF EffectCheck, RenewLease
    <3>2. checked' = checked \cup {c}
      BY <2>2 DEF EffectCheck
    <3>3. Tidy'
      BY <1>1, <3>1, <3>2 DEF Tidy
    <3>4. QED
      BY <3>1, <3>3, QuietKeepsOrder
  <2>3. CASE EffectRun(c)
    <3>1. UNCHANGED <<claims, applied, at, started, decided, hooks, running, faults>>
      BY <2>3 DEF EffectRun, vars
    <3>2. checked' = checked \ {c} /\ effects' = effects \cup {c}
      BY <2>3 DEF EffectRun
    <3>3. Tidy'
      BY <1>1, <1>7, <3>1, <3>2 DEF Tidy
    <3>4. QED
      BY <3>1, <3>3, QuietKeepsOrder
  <2>4. QED
    BY <1>7, <2>1, <2>2, <2>3 DEF Executing
<1>8. QED
  BY <1>2, <1>3, <1>5, <1>6, <1>7, ThrowsIsOrderly, CrashIsOrderly, OrderKept DEF DNext

LEMMA DispatcherInvariant == DSpec => [](StoreInv /\ DInv)
<1>1. DInit => StoreInv /\ DInv
  BY StoreInvInitially, DInvInitially DEF DInit
<1>2. StoreInv /\ DInv /\ [DNext]_dvars => StoreInv' /\ DInv'
  BY DInvInductive, DispatcherUsesStore, StoreInvInductive
<1>3. QED
  BY <1>1, <1>2, PTL DEF DSpec

\* Whatever dispatchers do, fail to do, or do too late, the table only sees
\* steps of JobStore: its theorems hold of every dispatcher.
LEMMA DispatcherUsesTheStore == DSpec => Spec
<1>1. DInit => Init
  BY DEF DInit
<1>2. StoreInv /\ DInv /\ [DNext]_dvars => [Next]_vars
  BY DispatcherUsesStore
<1>3. QED
  BY <1>1, <1>2, DispatcherInvariant, PTL DEF DSpec, Spec

\* The outcome of an attempt is the one its race of result, timer and lease
\* was decided by, in every mode of the store.
THEOREM OutcomesMatchRaces == DSpec => []OutcomeMatchesRace
<1>1. ASSUME DInv PROVE OutcomeMatchesRace
  BY <1>1 DEF DInv, RacesMatched, Fits, OutcomeMatchesRace, Kinds
<1>2. DInv => OutcomeMatchesRace
  BY <1>1
<1>3. QED
  BY <1>2, DispatcherInvariant, PTL

\* Hooks follow transitions the table made, and no job dies twice.
THEOREM HooksFollow ==
    ASSUME CountsRows \/ ~Required
    PROVE  DSpec => []HooksFollowTransitions
<1>1. ASSUME DInv, SettledOnce PROVE HooksFollowTransitions
  <2>1. HooksEarned /\ hooks \subseteq [job: Jobs, attempt: Nat,
                                       kind: {"onRetry", "onMaxRetriesExceeded"}]
    BY <1>1 DEF DInv, DTypeOK
  <2>2. ASSUME NEW g \in hooks, NEW h \in hooks,
               g.job = h.job, g.kind = h.kind, g.kind = "onMaxRetriesExceeded"
        PROVE  g = h
    <3>1. PICK a \in applied : a.job = g.job /\ a.attempt = g.attempt /\ a.status = "dead_letter"
      BY <2>1, <2>2 DEF HooksEarned
    <3>2. PICK b \in applied : b.job = h.job /\ b.attempt = h.attempt /\ b.status = "dead_letter"
      BY <2>1, <2>2 DEF HooksEarned
    <3>3. a = b
      BY <1>1, <2>2, <3>1, <3>2 DEF SettledOnce, Terminal
    <3>4. g.attempt = h.attempt
      BY <3>1, <3>2, <3>3
    <3>5. /\ g \in [job: Jobs, attempt: Nat, kind: {"onRetry", "onMaxRetriesExceeded"}]
          /\ h \in [job: Jobs, attempt: Nat, kind: {"onRetry", "onMaxRetriesExceeded"}]
      BY <2>1
    <3>6. PICK j, n, k : g = [job |-> j, attempt |-> n, kind |-> k]
      BY <3>5
    <3>7. PICK i, m, l : h = [job |-> i, attempt |-> m, kind |-> l]
      BY <3>5
    <3>8. QED
      BY <2>2, <3>4, <3>6, <3>7
  <2>3. QED
    BY <2>1, <2>2 DEF HooksEarned, HooksFollowTransitions
<1>2. DInv /\ SettledOnce => HooksFollowTransitions
  BY <1>1
<1>3. Spec => []SettledOnce
  BY StoreSettlesOnce
<1>4. QED
  BY <1>2, <1>3, DispatcherInvariant, DispatcherUsesTheStore, PTL

\* A worker's line in the executions table was preceded by the transition it
\* tells of and ends the job as the row did, although the worker may die
\* between the two.
THEOREM HistoryFollows ==
    ASSUME CountsRows \/ ~Required
    PROVE  DSpec => []HistoryFollowsOutcome
<1>1. HistoryTruthful => HistoryFollowsOutcome
  BY DEF HistoryTruthful, HistoryFollowsOutcome, Terminal
<1>2. Spec => []HistoryTruthful
  BY StoreHistoryTruthful
<1>3. QED
  BY <1>1, <1>2, DispatcherUsesTheStore, PTL

\* A worker goes from its batch to a job by renewing the lease ...
LEMMA LaunchesAreRefenced ==
    ASSUME StoreInv, DInv, [DNext]_dvars, NEW v \in Workers,
           at[v].pc = "next", at'[v].pc = "vet"
    PROVE  \E c \in claims : RenewLease(c) /\ at'[v].claim = c
<1>1. at \in [Workers -> Where] /\ at[v] \in Where /\ at[v].batch \subseteq claims
  BY WorkersInPlace
<1>2. at'[v] # at[v]
  OBVIOUS
<1>3. ~UNCHANGED at
  BY <1>2
<1>4. ASSUME NEW w \in Workers, Orderly(w) PROVE w = v
  BY <1>2, <1>4 DEF Orderly, Steps
<1>5. ASSUME NEW c \in at[v].batch, Refence(v, c)
      PROVE  \E d \in claims : RenewLease(d) /\ at'[v].claim = d
  <2>1. CASE RenewLease(c) /\ Goes(v, [at[v] EXCEPT !.pc = "vet", !.batch = @ \ {c}, !.claim = c])
    <3>1. at'[v].claim = c
      BY <1>1, <2>1 DEF Goes, Where
    <3>2. QED
      BY <1>1, <1>5, <2>1, <3>1
  <2>2. CASE Goes(v, [at[v] EXCEPT !.batch = @ \ {c}])
    <3>1. at'[v].pc = at[v].pc
      BY <1>1, <2>2 DEF Goes, Where
    <3>2. QED
      BY <3>1
  <2>3. QED
    BY <1>5, <2>1, <2>2 DEF Refence
<1>6. ASSUME Dispatching(v), ~ClaimEach(v) PROVE \E c \in at[v].batch : Refence(v, c)
  <2>1. ~BatchDone(v)
    BY <1>1 DEF BatchDone, Goes, Idle
  <2>2. ASSUME NEW c PROVE ~Malformed(v, c)
    <3>1. ASSUME Malformed(v, c) PROVE at'[v].pc = "settle"
      BY <1>1, <3>1 DEF Malformed, Goes, Where
    <3>2. QED
      BY <3>1
  <2>3. QED
    BY <1>6, <2>1, <2>2 DEF Dispatching, Working, Poll, Claimed, Reject, Launch, Timeout, Decide, GraceEnds,
                            Settle, Log, Hook
<1>7. ~Outside /\ ~UNCHANGED dvars /\ \A w \in Workers : ~ClaimEach(w)
  BY <1>3 DEF Outside, dispatch, dvars, ClaimEach
<1>8. ASSUME NEW w \in Workers PROVE ~Heartbeat(w)
  BY <1>1, <1>2 DEF Heartbeat, Beating, Lose, Goes
<1>9. ~Throws(v)
  <2>1. ASSUME NEW c PROVE ~Goes(v, [at[v] EXCEPT !.batch = @ \ {c}])
    BY <1>1 DEF Goes, Where
  <2>2. QED
    BY <2>1 DEF Throws, Beating
<1>10. ~Crash(v)
  BY <1>1 DEF Crash, Goes, Idle
<1>11. ASSUME NEW c \in running PROVE ~Executing(c)
  <2>1. c.worker \in Workers
    BY ClaimsAreApart DEF DInv, DTypeOK, ClaimsApart, Claim
  <2>2. ~Settles(c)
    BY <1>1, <1>2, <2>1 DEF Settles, Goes
  <2>3. QED
    BY <1>3, <2>2 DEF Executing, EffectCheck, EffectRun
<1>12. ASSUME NEW w \in Workers, Dispatching(w) PROVE w = v
  <2>1. Orderly(w)
    BY <1>7, <1>12, DispatchingIsOrderly
  <2>2. QED
    BY <1>4, <2>1
<1>13. ASSUME NEW w \in Workers, Throws(w) \/ Crash(w) PROVE w = v
  BY <1>4, <1>13, ThrowsIsOrderly, CrashIsOrderly
<1>14. QED
  BY <1>5, <1>6, <1>7, <1>8, <1>9, <1>10, <1>11, <1>12, <1>13 DEF DNext

\* ... and so does an effect pass its check.
LEMMA ChecksAreRefenced ==
    ASSUME StoreInv, DInv, [DNext]_dvars, NEW c \in checked' \ checked
    PROVE  c \in claims /\ RenewLease(c)
<1>1. checked' # checked
  OBVIOUS
<1>2. PICK d \in running : EffectCheck(d)
  <2>1. ~Outside /\ ~UNCHANGED dvars
    BY <1>1 DEF Outside, dispatch, dvars
  <2>2. ASSUME NEW w \in Workers PROVE ~(Dispatching(w) \/ Heartbeat(w) \/ Throws(w))
    BY <1>1 DEF Dispatching, Working, Poll, ClaimEach, Claimed, BatchDone, Refence, Malformed, Reject, Launch,
                Timeout, Decide, GraceEnds, Settle, Log, Hook, Heartbeat, Throws, dispatch
  <2>3. ASSUME NEW w \in Workers PROVE ~Crash(w)
    BY DEF Crash
  <2>4. ASSUME NEW d PROVE ~(Settles(d) \/ EffectRun(d))
    BY DEF Settles, EffectRun
  <2>5. QED
    BY <2>1, <2>2, <2>3, <2>4 DEF DNext, Executing
<1>3. d = c /\ running \subseteq claims
  BY <1>2 DEF EffectCheck, DInv, DTypeOK
<1>4. QED
  BY <1>2, <1>3 DEF EffectCheck

\* A job that waited in a batch is not taken to execution once it was settled
\* or handed on, and no effect of a handed-on attempt gets past its check.
THEOREM LateWorkIsFenced ==
    ASSUME CountsRows \/ ~Required
    PROVE  DSpec => LateWorkFenced
<1> DEFINE LaunchFenced(w) ==
      at[w].pc = "next" /\ at'[w].pc = "vet" =>
         LET c == at'[w].claim IN
         /\ job[c.job].status = "running" /\ ~HandedOn(c)
         /\ ~\E o \in applied : o.job = c.job /\ o.attempt >= c.attempt
    EffectsFenced == \A c \in checked' \ checked : ~HandedOn(c)
    Late == (\A w \in Workers : LaunchFenced(w)) /\ EffectsFenced
<1>1. ASSUME StoreInv, OutcomesStand, NEW c \in claims, RenewLease(c)
      PROVE  /\ job[c.job].status = "running" /\ ~HandedOn(c)
             /\ ~\E o \in applied : o.job = c.job /\ o.attempt >= c.attempt
  <2>1. c.job \in Jobs /\ c.attempt \in Nat /\ job[c.job].attempts \in Nat
    BY <1>1 DEF StoreInv, TypeOK, Claim, Row
  <2>2. job[c.job].status = "running" /\ job[c.job].attempts = c.attempt
    BY <1>1 DEF RenewLease, Holds, Live, StoreInv, Grants, Given
  <2>3. \A d \in claims : d.job = c.job => d.attempt \in Nat /\ d.attempt <= job[c.job].attempts
    BY <1>1 DEF StoreInv, TypeOK, Claim, Grants, Given
  <2>4. ASSUME NEW o \in applied, o.job = c.job PROVE ~(o.attempt >= c.attempt)
    <3>1. o.attempt \in Nat
      BY <1>1 DEF StoreInv, TypeOK, Outcome
    <3>2. o.attempt <= c.attempt /\ o.attempt # c.attempt
      BY <1>1, <2>2, <2>4 DEF OutcomesStand, OutcomeStands
    <3>3. QED
      BY <2>1, <3>1, <3>2
  <2>5. QED
    BY <2>1, <2>2, <2>3, <2>4 DEF HandedOn
<1>2. ASSUME StoreInv, DInv, OutcomesStand, [DNext]_dvars, NEW v \in Workers PROVE LaunchFenced(v)
  <2>1. SUFFICES ASSUME at[v].pc = "next", at'[v].pc = "vet"
                 PROVE  LaunchFenced(v)
    OBVIOUS
  <2>2. PICK c \in claims : RenewLease(c) /\ at'[v].claim = c
    BY <1>2, <2>1, LaunchesAreRefenced
  <2>3. QED
    BY <1>1, <1>2, <2>2
<1>3. ASSUME StoreInv, DInv, OutcomesStand, [DNext]_dvars PROVE EffectsFenced
  <2>1. ASSUME NEW c \in checked' \ checked PROVE c \in claims /\ RenewLease(c)
    BY <1>3, <2>1, ChecksAreRefenced
  <2>2. QED
    BY <1>1, <1>3, <2>1
<1>4. StoreInv /\ DInv /\ OutcomesStand /\ [DNext]_dvars => [Late]_dvars
  BY <1>2, <1>3
<1>5. DInit => OutcomesStand
  BY DEF DInit, Init, OutcomesStand
<1>6. StoreInv /\ DInv /\ OutcomesStand /\ [DNext]_dvars => OutcomesStand'
  BY DispatcherUsesStore, OutcomesKeepStanding DEF StoreInv
<1>7. QED
  BY <1>4, <1>5, <1>6, DispatcherInvariant, PTL DEF DSpec, LateWorkFenced
=============================================================================

---------------------------- MODULE JobLifecycle ----------------------------
(***************************************************************************)
(* What a job store promises of a job, without tokens, leases, scans or    *)
(* history: a job is held by at most one worker at a time, one job of a    *)
(* partition at a time; each holding is a new attempt, of which there are  *)
(* at most MaxAttempts; only the holder reports an outcome, and a finished *)
(* job is finished for good (a failed one may still be cancelled).         *)
(* JobStore implements this specification.                                 *)
(***************************************************************************)
EXTENDS Integers, TLAPS

CONSTANTS Jobs, Workers, None, PartitionOf, MaxAttempts

VARIABLES
    phase,    \* where each job is
    attempt,  \* how often it was taken up
    holder,   \* who last took it up, None once it is settled
    outcomes  \* what holders reported, and were told to be applied

lifecycle == <<phase, attempt, holder, outcomes>>

Ends == {"succeeded", "failed", "dead_letter", "cancelled"}
Phases == {"absent", "queued", "held", "forfeited"} \cup Ends
Report == [job: Jobs, worker: Workers, attempt: Nat, status: Ends \cup {"retrying"}]

LifecycleTypeOK ==
    /\ phase \in [Jobs -> Phases]
    /\ attempt \in [Jobs -> Nat]
    /\ holder \in [Jobs -> Workers \cup {None}]
    /\ outcomes \subseteq Report

Init ==
    /\ phase = [j \in Jobs |-> "absent"]
    /\ attempt = [j \in Jobs |-> 0]
    /\ holder = [j \in Jobs |-> None]
    /\ outcomes = {}

Apart(j, k) == j = k \/ PartitionOf[j] = None \/ PartitionOf[j] # PartitionOf[k]

Submit(j) ==
    /\ phase[j] = "absent"
    /\ phase' = [phase EXCEPT ![j] = "queued"]
    /\ UNCHANGED <<attempt, holder, outcomes>>

Take(j, w) ==
    /\ phase[j] \in {"queued", "forfeited"}
    /\ attempt[j] < MaxAttempts[j]
    /\ \A k \in Jobs : phase[k] = "held" => Apart(j, k)
    /\ phase' = [phase EXCEPT ![j] = "held"]
    /\ attempt' = [attempt EXCEPT ![j] = @ + 1]
    /\ holder' = [holder EXCEPT ![j] = w]
    /\ UNCHANGED outcomes

\* Holders whose lease runs out lose their jobs, several at one instant.
Forfeit(S) ==
    /\ \A j \in S : phase[j] = "held"
    /\ phase' = [j \in Jobs |-> IF j \in S THEN "forfeited" ELSE phase[j]]
    /\ UNCHANGED <<attempt, holder, outcomes>>

Settle(j, status) ==
    /\ phase[j] = "held"
    /\ status = "retrying" => attempt[j] < MaxAttempts[j]
    /\ phase' = [phase EXCEPT ![j] = IF status = "retrying" THEN "queued" ELSE status]
    /\ holder' = [holder EXCEPT ![j] = None]
    /\ outcomes' = outcomes \cup {[job |-> j, worker |-> holder[j],
                                   attempt |-> attempt[j], status |-> status]}
    /\ UNCHANGED attempt

Cancel(j) ==
    /\ phase[j] \in {"queued", "held", "forfeited", "failed"}
    /\ phase' = [phase EXCEPT ![j] = "cancelled"]
    /\ holder' = [holder EXCEPT ![j] = None]
    /\ UNCHANGED <<attempt, outcomes>>

Next ==
    \/ \E j \in Jobs :
         \/ Submit(j) \/ Cancel(j)
         \/ \E w \in Workers : Take(j, w)
         \/ \E status \in Ends \cup {"retrying"} : Settle(j, status)
    \/ \E S \in SUBSET Jobs : Forfeit(S)

Spec == Init /\ [][Next]_lifecycle

-----------------------------------------------------------------------------
(* Properties *)

\* Held jobs of one partition are never held together.
HeldApart ==
    \A j, k \in Jobs : phase[j] = "held" /\ phase[k] = "held" => Apart(j, k)

\* An attempt is reported on at most once, and a job's end at most once.
ReportedOnce ==
    \A a, b \in outcomes :
        a.job = b.job /\ (a.attempt = b.attempt \/ {a.status, b.status} \subseteq Ends)
            => a = b

-----------------------------------------------------------------------------
(* Proofs, for every set of jobs, workers and partitions and every limit of    *)
(* attempts                                                                    *)

\* What a reported outcome says of its job: the attempt is over, and after an
\* end the job is ended.
Recorded(o) ==
    /\ o.attempt <= attempt[o.job]
    /\ o.attempt = attempt[o.job] => phase[o.job] \notin {"held", "forfeited"}
    /\ o.status \in Ends => phase[o.job] \in Ends

LifecycleInv ==
    /\ LifecycleTypeOK
    /\ \A j \in Jobs : phase[j] \in {"held", "forfeited"} => holder[j] \in Workers
    /\ HeldApart
    /\ \A o \in outcomes : Recorded(o)
    /\ ReportedOnce

LEMMA LifecycleInitially == Init => LifecycleInv
BY DEF Init, LifecycleInv, LifecycleTypeOK, HeldApart, ReportedOnce, Phases

LEMMA SubmitKeeps ==
    ASSUME LifecycleInv, NEW j \in Jobs, Submit(j)
    PROVE  LifecycleInv'
BY DEF LifecycleInv, LifecycleTypeOK, Submit, HeldApart, ReportedOnce, Recorded, Phases, Ends, Report, Apart

LEMMA CancelKeeps ==
    ASSUME LifecycleInv, NEW j \in Jobs, Cancel(j)
    PROVE  LifecycleInv'
BY DEF LifecycleInv, LifecycleTypeOK, Cancel, HeldApart, ReportedOnce, Recorded, Phases, Ends, Report, Apart

LEMMA TakeKeeps ==
    ASSUME LifecycleInv, NEW j \in Jobs, NEW w \in Workers, Take(j, w)
    PROVE  LifecycleInv'
<1> USE DEF LifecycleInv, Take
<1>1. LifecycleTypeOK'
  BY DEF LifecycleTypeOK, Phases
<1>2. \A k \in Jobs : phase'[k] \in {"held", "forfeited"} => holder'[k] \in Workers
  BY DEF LifecycleTypeOK
<1>3. HeldApart'
  BY DEF LifecycleTypeOK, HeldApart, Apart
<1>4. \A o \in outcomes' : Recorded(o)'
  BY DEF LifecycleTypeOK, Recorded, Report, Ends
<1>5. ReportedOnce'
  BY DEF ReportedOnce
<1>6. QED
  BY <1>1, <1>2, <1>3, <1>4, <1>5

LEMMA ForfeitKeeps ==
    ASSUME LifecycleInv, NEW S \in SUBSET Jobs, Forfeit(S)
    PROVE  LifecycleInv'
<1> USE DEF LifecycleInv, Forfeit
<1>1. LifecycleTypeOK'
  BY DEF LifecycleTypeOK, Phases
<1>2. \A k \in Jobs : phase'[k] \in {"held", "forfeited"} => holder'[k] \in Workers
  BY DEF LifecycleTypeOK
<1>3. HeldApart'
  BY DEF LifecycleTypeOK, HeldApart, Apart
<1>4. \A o \in outcomes' : Recorded(o)'
  BY DEF LifecycleTypeOK, Recorded, Report, Ends
<1>5. ReportedOnce'
  BY DEF ReportedOnce
<1>6. QED
  BY <1>1, <1>2, <1>3, <1>4, <1>5

LEMMA SettleKeeps ==
    ASSUME LifecycleInv, NEW j \in Jobs, NEW status \in Ends \cup {"retrying"},
           Settle(j, status)
    PROVE  LifecycleInv'
<1> DEFINE new == [job |-> j, worker |-> holder[j], attempt |-> attempt[j], status |-> status]
<1> USE DEF LifecycleInv, Settle
<1>1. LifecycleTypeOK'
  BY DEF LifecycleTypeOK, Phases, Report, Ends
<1>2. \A k \in Jobs : phase'[k] \in {"held", "forfeited"} => holder'[k] \in Workers
  BY DEF LifecycleTypeOK, Ends
<1>3. HeldApart'
  BY DEF LifecycleTypeOK, HeldApart, Apart, Ends
<1>4. \A o \in outcomes' : Recorded(o)'
  <2> SUFFICES ASSUME NEW o \in outcomes' PROVE Recorded(o)'
    OBVIOUS
  <2>1. CASE o \in outcomes
    BY <2>1 DEF LifecycleTypeOK, Recorded, Report, Ends
  <2>2. CASE o = new
    BY <2>2 DEF LifecycleTypeOK, Recorded, Ends
  <2>3. QED
    BY <2>1, <2>2
<1>5. ReportedOnce'
  \* The job was held, so none of its outcomes is an end or of this attempt.
  <2>1. \A o \in outcomes : o.job = j => o.attempt # attempt[j] /\ o.status \notin Ends
    BY DEF LifecycleTypeOK, Recorded, Report, Ends
  <2>2. QED
    BY <2>1 DEF ReportedOnce
<1>6. QED
  BY <1>1, <1>2, <1>3, <1>4, <1>5

LEMMA LifecycleInductive == LifecycleInv /\ [Next]_lifecycle => LifecycleInv'
<1> SUFFICES ASSUME LifecycleInv, [Next]_lifecycle PROVE LifecycleInv'
  OBVIOUS
<1>1. CASE UNCHANGED lifecycle
  BY <1>1 DEF lifecycle, LifecycleInv, LifecycleTypeOK, HeldApart, ReportedOnce, Recorded
<1>2. CASE Next
  BY <1>2, SubmitKeeps, CancelKeeps, TakeKeeps, SettleKeeps, ForfeitKeeps DEF Next
<1>3. QED
  BY <1>1, <1>2

THEOREM LifecycleInvariant == Spec => []LifecycleInv
BY LifecycleInitially, LifecycleInductive, PTL DEF Spec

\* At most one attempt's worth of reports and one end per job, whatever the
\* workers do: the contract behind "a worker must not complete a job after
\* losing its claim".
THEOREM LifecycleReportsOnce == Spec => []ReportedOnce
<1>1. LifecycleInv => ReportedOnce
  BY DEF LifecycleInv
<1>2. QED
  BY <1>1, LifecycleInvariant, PTL

\* Jobs of one partition are never held together (partitionKey).
THEOREM LifecycleHeldApart == Spec => []HeldApart
<1>1. LifecycleInv => HeldApart
  BY DEF LifecycleInv
<1>2. QED
  BY <1>1, LifecycleInvariant, PTL
=============================================================================

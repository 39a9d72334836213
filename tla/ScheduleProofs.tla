--------------------------- MODULE ScheduleProofs ---------------------------
(***************************************************************************)
(* For every set of schedules, workers and occurrences, every policy and   *)
(* any number of faults and delays: a schedule moves on from an occurrence *)
(* as fired only when it has its job, one that queues all its occurrences  *)
(* passes over none, and one that skips overlaps has one job under way at  *)
(* a time, unless a worker outlives its lease.                             *)
(***************************************************************************)
EXTENDS ScheduleDispatcher, TLAPS, FiniteSetTheorems, WellFoundedInduction


(***************************************************************************)
(* The decisions                                                           *)
(***************************************************************************)

LEMMA NatHasLeast ==
    ASSUME NEW T, T \subseteq Nat, T # {}
    PROVE  \E x \in T : \A y \in T : x <= y
<1>1. \E x \in T : \A y \in T : ~(<<y, x>> \in OpToRel(<, Nat))
  BY NatLessThanWellFounded, WFMin
<1>2. \A x, y \in Nat : x < y => <<x, y>> \in OpToRel(<, Nat)
  BY DEF OpToRel
<1>3. \E x \in T : \A y \in T : ~(y < x)
  BY <1>1, <1>2, Zenon
<1>4. QED
  BY <1>3

LEMMA BoundedHasGreatest ==
    ASSUME NEW T, T \subseteq Nat, T # {}, NEW n \in Nat, \A x \in T : x <= n
    PROVE  \E x \in T : \A y \in T : y <= x
<1> DEFINE D == {n - x : x \in T}
<1>1. D \subseteq Nat /\ D # {}
  <2>1. \A x \in T : n - x \in Nat
    OBVIOUS
  <2>2. QED
    BY <2>1
<1> HIDE DEF D
<1>2. PICK t \in D : \A y \in D : t <= y
  BY <1>1, NatHasLeast
<1>3. PICK x \in T : t = n - x
  BY DEF D
<1>4. \A y \in T : n - x <= n - y
  BY <1>2, <1>3 DEF D
<1>5. QED
  BY <1>4

LEMMA LeastIs ==
    ASSUME NEW T, T \subseteq Nat, T # {}
    PROVE  Least(T) \in T /\ \A y \in T : Least(T) <= y
BY NatHasLeast DEF Least

LEMMA GreatestIs ==
    ASSUME NEW T, T \subseteq Nat, T # {}, NEW n \in Nat, \A x \in T : x <= n
    PROVE  Greatest(T) \in T /\ \A y \in T : y <= Greatest(T)
BY BoundedHasGreatest DEF Greatest

\* The clock assumption leaves every schedule a next run.
LEMMA NextRunIs ==
    ASSUME NEW n \in 0..MaxNow
    PROVE  NextRun(n) \in Slots /\ NextRun(n) \in Nat /\ n < NextRun(n)
           /\ \A o \in Slots : n < o => NextRun(n) <= o
<1> DEFINE T == {o \in Slots : o > n}
<1>1. T \subseteq Nat /\ T # {}
  BY ClockAssumption, SlotsAssumption
<1>2. Least(T) \in T /\ \A y \in T : Least(T) <= y
  BY <1>1, LeastIs
<1>3. QED
  BY <1>2, ClockAssumption, SlotsAssumption DEF NextRun

\* What is due starts with the occurrence of the claim and has no gaps.
LEMMA DueIs ==
    ASSUME NEW p \in Policy, NEW c \in Claim, NEW at \in 0..MaxNow, c.slot <= at
    PROVE  /\ DueOccurrences(p, c, at) \subseteq Slots
           /\ c.slot \in DueOccurrences(p, c, at)
           /\ \A o \in DueOccurrences(p, c, at) : c.slot <= o /\ o <= at
           /\ \A o \in Slots, g \in DueOccurrences(p, c, at) :
                 c.slot <= o /\ o < g => o \in DueOccurrences(p, c, at)
<1>1. c.slot \in Slots /\ Slots \subseteq Nat /\ at \in Nat /\ QueueAllLimit + 1 \in Nat \ {0}
  BY SlotsAssumption, ClockAssumption, LimitAssumption DEF Claim
<1>2. PICK slot \in Slots : slot = c.slot
  BY <1>1
<1>3. slot \in Nat
  BY <1>1
<1> DEFINE D == DueOccurrences(p, c, at)
<1> SUFFICES /\ D \subseteq Slots /\ slot \in D
             /\ \A o \in D : slot <= o /\ o <= at
             /\ \A o \in Slots, g \in D : slot <= o /\ o < g => o \in D
  BY <1>2
<1>4. CASE p.misfire = "fire_now"
  <2>1. D = {slot}
    BY <1>2, <1>4 DEF DueOccurrences
  <2>2. slot <= at
    BY <1>2
  <2> HIDE DEF D
  <2>3. QED
    BY <1>1, <1>3, <2>1, <2>2
<1>5. CASE p.misfire # "fire_now"
  <2> DEFINE X == {o \in Slots : slot <= o /\ o <= at}
             Below(n) == {m \in X : m < n}
             E == {n \in X : Cardinality(Below(n)) < QueueAllLimit + 1}
  <2>1. D = E
    BY <1>2, <1>5 DEF DueOccurrences, ComputeScheduleOccurrences, Earliest
  <2>2. \A n : IsFiniteSet(Below(n)) /\ Cardinality(Below(n)) \in Nat
    <3>1. X \in SUBSET Nat /\ \A m \in X : m <= at
      BY <1>1
    <3>2. IsFiniteSet(X)
      BY <1>1, <3>1, FS_BoundedSetOfNaturals
    <3>3. \A n : Below(n) \in SUBSET X
      OBVIOUS
    <3>4. QED
      BY <3>2, <3>3, FS_Subset, FS_CardinalityType
  <2>3. Cardinality(Below(slot)) = 0
    <3>1. \A m \in X : ~(m < slot)
      BY <1>1, <1>3
    <3>2. Below(slot) = {}
      BY <3>1
    <3>3. QED
      BY <3>2, FS_EmptySet
  <2>4. \A o \in X, g \in X : o < g => Cardinality(Below(o)) <= Cardinality(Below(g))
    <3>1. SUFFICES ASSUME NEW o \in X, NEW g \in X, o < g
                   PROVE  Cardinality(Below(o)) <= Cardinality(Below(g))
      OBVIOUS
    <3>2. \A m \in X : m < o => m < g
      BY <1>1, <3>1
    <3>3. Below(o) \in SUBSET Below(g)
      BY <3>2
    <3>4. QED
      BY <2>2, <3>3, FS_Subset
  <2>5. slot \in X /\ X \subseteq Slots /\ \A o \in X : slot <= o /\ o <= at
    BY <1>1, <1>2, <1>3
  <2>6. \A o \in Slots, g \in X : slot <= o /\ o < g => o \in X
    BY <1>1, <1>3
  <2> HIDE DEF Below, X, D
  <2>7. slot \in E
    BY <1>1, <2>3, <2>5
  <2>8. \A o \in Slots, g \in E : slot <= o /\ o < g => o \in E
    BY <1>1, <2>2, <2>4, <2>6
  <2>9. QED
    BY <1>2, <2>1, <2>5, <2>7, <2>8
<1>6. QED
  BY <1>4, <1>5

(***************************************************************************)
(* The inductive invariant                                                 *)
(***************************************************************************)

Looping == {"fence", "lookup", "refence", "enqueue"}
Firing == Looping \cup {"close", "advance"}
Engaged == Firing \cup {"skip", "fail"}

Exists(s, o) == jobs[s, o].status # "none"
UnderWay(s, o) == jobs[s, o].status \in Active
RunOf(s, o) == jobs[s, o].runAt
Due(w) == DueOccurrences(PolicyOf(w), cur[w], clock[w])

\* What a worker holds is due, and the row is still at the occurrence of the
\* claim.
ClaimAt(w, c) ==
    /\ c.slot <= clock[w]
    /\ Holds(w, c) => schedule[c.schedule].next = c.slot

ClaimsAt(w) ==
    /\ clock[w] <= now
    /\ IsFiniteSet(batch[w])
    /\ pc[w] = "idle" => batch[w] = {}
    /\ \A c \in batch[w] : ClaimAt(w, c)
    /\ pc[w] \in Engaged => cur[w] \in Claim /\ ClaimAt(w, cur[w])
    /\ pc[w] \notin Engaged => chain[w] = "none"

\* A schedule that skips overlaps looks at no occurrence beyond one whose job
\* is under way.
GivesWay(w) ==
    /\ PolicyOf(w).misfire = "queue_all" /\ PolicyOf(w).overlap = "skip"
    /\ chain[w] \in Active

\* What the loop over the occurrences has done so far.
LoopAt(w) ==
    /\ pc[w] = "skip" => PolicyOf(w).misfire = "skip" \/ PolicyOf(w).overlap = "skip"
    /\ pc[w] \in Firing =>
         /\ ShouldFire(PolicyOf(w), cur[w].slot, cur[w].last, clock[w], prior[w]) \in {"fire", "queue"}
         /\ todo[w] \subseteq Due(w)
         /\ cur[w].slot \in todo[w] => chain[w] = "none"
         /\ cur[w].slot \notin todo[w] =>
              chain[w] # "none" /\ Exists(cur[w].schedule, cur[w].slot)
         /\ ~GivesWay(w) => \A o \in Due(w) \ todo[w] : Exists(cur[w].schedule, o)
    /\ pc[w] \in Looping => todo[w] # {}
    /\ pc[w] \in {"close", "advance"} => todo[w] = {}
    /\ pc[w] = "refence" /\ found[w] # "none" => Exists(cur[w].schedule, At(w))
    /\ pc[w] = "refence" /\ found[w] = "ended" => ~UnderWay(cur[w].schedule, At(w))
    /\ pc[w] = "enqueue" => ~GivesWay(w)

SInv ==
    /\ STypeOK
    /\ \A w \in Workers : ClaimsAt(w) /\ LoopAt(w)
    /\ NothingPassedOver

-----------------------------------------------------------------------------
(* Tokens *)

LEMMA ImageFinite ==
    ASSUME NEW S, IsFiniteSet(S), NEW f
    PROVE  IsFiniteSet({f[x] : x \in S})
<1> DEFINE g == [x \in S |-> f[x]]
           T == {f[x] : x \in S}
<1>1. g \in Surjection(S, T)
  BY DEF Surjection
<1>2. QED
  BY <1>1, FS_Surjection

LEMMA TokensFinite ==
    ASSUME STypeOK, \A w \in Workers : IsFiniteSet(batch[w])
    PROVE  IsFiniteSet(Tokens)
<1> DEFINE rows == [s \in Schedules |-> schedule[s].token]
           hands == [w \in Workers |-> batch[w] \cup {cur[w]}]
           Hands == {hands[w] : w \in Workers}
           C == UNION Hands
           tokens == [c \in C |-> c.token]
<1>1. IsFiniteSet({rows[s] : s \in Schedules})
  <2> HIDE DEF rows
  <2>1. QED
    BY FinitenessAssumption, ImageFinite
<1>2. IsFiniteSet(Hands)
  <2> HIDE DEF hands
  <2>1. QED
    BY FinitenessAssumption, ImageFinite
<1>3. \A w \in Workers : IsFiniteSet(hands[w])
  BY FS_AddElement
<1>4. IsFiniteSet(C)
  <2>1. \A H \in Hands : IsFiniteSet(H)
    BY <1>3
  <2> HIDE DEF Hands
  <2>2. QED
    BY <1>2, <2>1, FS_UNION
<1> HIDE DEF C
<1>5. IsFiniteSet({tokens[c] : c \in C})
  BY <1>4, ImageFinite
<1>6. {rows[s] : s \in Schedules} = {schedule[s].token : s \in Schedules}
  OBVIOUS
<1>7. {tokens[c] : c \in C} = {c.token : c \in C}
  OBVIOUS
<1>8. Hands = {batch[w] \cup {cur[w]} : w \in Workers}
  OBVIOUS
<1>9. C = UNION {batch[w] \cup {cur[w]} : w \in Workers}
  BY <1>8 DEF C
<1>10. QED
  BY <1>1, <1>5, <1>6, <1>7, <1>9, FS_Union DEF Tokens

LEMMA FreshTokenIs ==
    ASSUME STypeOK, \A w \in Workers : IsFiniteSet(batch[w])
    PROVE  /\ FreshToken \in Nat
           /\ \A s \in Schedules : schedule[s].token # FreshToken
           /\ \A w \in Workers : \A c \in batch[w] \cup {cur[w]} : c.token # FreshToken
<1> DEFINE n == Cardinality(Tokens)
           T == (1 .. n + 1) \ Tokens
<1>1. IsFiniteSet(Tokens) /\ n \in Nat
  BY TokensFinite, FS_CardinalityType
<1>2. T \subseteq Nat /\ T # {}
  <2>1. IsFiniteSet(1 .. n + 1) /\ Cardinality(1 .. n + 1) = n + 1
    BY <1>1, FS_Interval
  <2>2. ~((1 .. n + 1) \subseteq Tokens)
    BY <1>1, <2>1, FS_Subset
  <2>3. QED
    BY <1>1, <2>2
<1>3. FreshToken \in T
  BY <1>2, LeastIs DEF FreshToken
<1>4. FreshToken \in Nat /\ FreshToken \notin Tokens
  BY <1>2, <1>3
<1>5. QED
  BY <1>4 DEF Tokens

-----------------------------------------------------------------------------
(* Where a schedule moves on to *)

LEMMA RunAfterIs ==
    ASSUME SInv, NEW w \in Workers, pc[w] = "advance"
    PROVE  /\ RunAfter(w) \in Slots /\ cur[w].slot < RunAfter(w)
           /\ PolicyOf(w).misfire = "fire_now" => clock[w] < RunAfter(w)
           /\ PolicyOf(w).misfire # "fire_now" =>
                \A o \in Slots : cur[w].slot <= o /\ o < RunAfter(w) => o \in Due(w)
<1>1. PICK c \in Claim : c = cur[w] /\ c.slot <= clock[w] /\ c.slot \in Nat
  BY SlotsAssumption DEF SInv, ClaimsAt, ClaimAt, Engaged, Firing, Claim
<1>2. PICK at \in 0..MaxNow : at = clock[w]
  BY DEF SInv, STypeOK
<1>3. PolicyOf(w) \in Policy /\ at \in Nat /\ MaxNow \in Nat /\ \A o \in Slots : o \in Nat
  BY <1>1, PoliciesAssumption, SlotsAssumption, ClockAssumption DEF SInv, STypeOK, PolicyOf, Claim
<1> DEFINE D == DueOccurrences(PolicyOf(w), c, at)
<1>4. /\ D \subseteq Slots /\ c.slot \in D
      /\ \A o \in D : c.slot <= o /\ o <= at
      /\ \A o \in Slots, g \in D : c.slot <= o /\ o < g => o \in D
  BY <1>1, <1>2, <1>3, DueIs
<1> HIDE DEF D
<1>5. CASE PolicyOf(w).misfire = "fire_now"
  <2>1. RunAfter(w) = NextRun(at)
    BY <1>2, <1>5 DEF RunAfter
  <2>2. NextRun(at) \in Slots /\ NextRun(at) \in Nat /\ at < NextRun(at)
    BY NextRunIs
  <2> HIDE DEF D
  <2>3. c.slot < NextRun(at)
    BY <1>1, <1>2, <1>3, <2>2
  <2>4. QED
    BY <1>1, <1>2, <1>5, <2>1, <2>2, <2>3
<1>6. CASE PolicyOf(w).misfire # "fire_now"
  <2>1. PICK g : g = Greatest(D)
    OBVIOUS
  <2>2. g \in D /\ \A o \in D : o <= g
    <3>1. D \subseteq Nat /\ D # {} /\ \A o \in D : o <= at
      BY <1>3, <1>4
    <3>2. QED
      BY <1>3, <2>1, <3>1, GreatestIs
  <2>3. g \in Nat /\ g \in 0..MaxNow /\ c.slot <= g
    <3>1. g \in Nat /\ g <= at /\ c.slot <= g
      BY <1>3, <1>4, <2>2
    <3>2. QED
      BY <1>3, <3>1
  <2>4. RunAfter(w) = NextRun(g)
    BY <1>1, <1>2, <1>6, <2>1 DEF RunAfter, D
  <2>5. /\ NextRun(g) \in Slots /\ NextRun(g) \in Nat /\ g < NextRun(g)
        /\ \A o \in Slots : g < o => NextRun(g) <= o
    BY <2>3, NextRunIs
  <2>6. ASSUME NEW o \in Slots, c.slot <= o, o < NextRun(g) PROVE o \in D
    <3>1. o \in Nat /\ ~(g < o)
      BY <1>3, <2>5, <2>6
    <3>2. CASE o = g
      BY <2>2, <3>2
    <3>3. CASE o < g
      BY <1>4, <2>2, <2>6, <3>3
    <3>4. QED
      BY <2>3, <3>1, <3>2, <3>3
  <2>7. Due(w) = D
    BY <1>1, <1>2 DEF Due, D
  <2>8. c.slot < NextRun(g)
    BY <1>1, <2>3, <2>5
  <2>9. QED
    BY <1>1, <1>6, <2>4, <2>5, <2>6, <2>7, <2>8
<1>7. QED
  BY <1>5, <1>6

\* What lets a worker move its schedule on.
LEMMA MoveOnIs ==
    ASSUME SInv, NEW w \in Workers, MoveOn(w)
    PROVE  \E n \in Slots, status \in {"fired", "skipped"} :
              /\ AdvanceSchedule(w, n, status)
              /\ cur[w] \in Claim /\ cur[w].slot < n
              /\ PolicyOf(w).misfire = "fire_now" => clock[w] < n
              /\ status = "fired" => Exists(cur[w].schedule, cur[w].slot)
              /\ PolicyOf(w).misfire = "queue_all" /\ PolicyOf(w).overlap # "skip" =>
                    \A o \in Slots : cur[w].slot <= o /\ o < n => Exists(cur[w].schedule, o)
<1>1. pc[w] \in {"advance", "skip"}
  BY DEF MoveOn
<1>2. cur[w] \in Claim /\ cur[w].slot <= clock[w] /\ cur[w].slot \in Nat
  BY <1>1, SlotsAssumption DEF SInv, ClaimsAt, ClaimAt, Engaged, Firing, Claim
<1>3. clock[w] \in 0..MaxNow /\ clock[w] \in Nat
  BY SlotsAssumption DEF SInv, STypeOK
<1>4. CASE pc[w] = "advance"
  <2>1. AdvanceSchedule(w, RunAfter(w), "fired")
    BY <1>4 DEF MoveOn
  <2>2. todo[w] = {} /\ Exists(cur[w].schedule, cur[w].slot)
    BY <1>4 DEF SInv, LoopAt, Firing
  <2>3. ~GivesWay(w) => \A o \in Due(w) : Exists(cur[w].schedule, o)
    BY <1>4, <2>2 DEF SInv, LoopAt, Firing
  <2>4. QED
    BY <1>2, <1>4, <2>1, <2>2, <2>3, RunAfterIs DEF GivesWay
<1>5. CASE pc[w] = "skip"
  <2>1. AdvanceSchedule(w, NextRun(clock[w]), "skipped")
    BY <1>5 DEF MoveOn
  <2>2. PolicyOf(w).misfire = "skip" \/ PolicyOf(w).overlap = "skip"
    BY <1>5 DEF SInv, LoopAt
  <2>3. /\ NextRun(clock[w]) \in Slots /\ NextRun(clock[w]) \in Nat
        /\ clock[w] < NextRun(clock[w])
    BY <1>3, NextRunIs
  <2>4. cur[w].slot < NextRun(clock[w])
    BY <1>2, <1>3, <2>3
  <2>5. QED
    BY <1>2, <2>1, <2>2, <2>3, <2>4
<1>6. QED
  BY <1>1, <1>4, <1>5
-----------------------------------------------------------------------------
(* Types *)

RowOK == [next: Slots, status: LastStatuses, held: BOOLEAN,
          owner: Workers \cup {None}, token: Nat]
JobOK == [status: Priors, runAt: Nat]

LEMMA AdvanceTyped ==
    ASSUME STypeOK, NEW w \in Workers, NEW n \in Slots, NEW status \in LastStatuses,
           AdvanceSchedule(w, n, status)
    PROVE  schedule' \in [Schedules -> RowOK]
BY DEF STypeOK, AdvanceSchedule, RowOK

LEMMA LeaveTyped ==
    ASSUME STypeOK, NEW w \in Workers, Leave(w)
    PROVE  /\ pc' \in [Workers -> Places]
           /\ cur' \in [Workers -> Claim \cup {NoClaim}]
           /\ todo' \in [Workers -> SUBSET Slots]
           /\ prior' \in [Workers -> Priors] /\ found' \in [Workers -> Priors]
           /\ chain' \in [Workers -> Priors]
           /\ clock' \in [Workers -> 0..MaxNow]
           /\ picked' \in [Workers -> SUBSET [schedule: Schedules, last: LastStatuses]]
           /\ batch' \in [Workers -> SUBSET Claim]
BY DEF STypeOK, Leave, Goto, Places, Priors

\* The last job of a schedule before an occurrence, when there is one.
LEMMA LatestPriorIs ==
    ASSUME STypeOK, NEW s \in Schedules, NEW slot \in Nat
    PROVE  /\ LatestPrior(s, slot) \in Priors
           /\ \A o \in Slots : Exists(s, o) /\ jobs[s, o].runAt < slot =>
                \E last \in Slots :
                   /\ Exists(s, last) /\ jobs[s, o].runAt <= jobs[s, last].runAt
                   /\ jobs[s, last].runAt < slot /\ LatestPrior(s, slot) = jobs[s, last].status
<1> DEFINE E == Earlier(s, slot)
           T == {jobs[s, o].runAt : o \in E}
<1>1. E \subseteq Slots /\ \A o \in Slots : jobs[s, o].runAt \in Nat /\ jobs[s, o].status \in Priors
  BY DEF STypeOK, Occurrence, Earlier
<1>2. \A o \in Slots : o \in E <=> Exists(s, o) /\ jobs[s, o].runAt < slot
  BY DEF Earlier, Exists
<1> HIDE DEF E
<1>3. CASE E = {}
  BY <1>2, <1>3 DEF LatestPrior, Priors, E
<1>4. CASE E # {}
  <2>1. T \subseteq Nat /\ T # {} /\ \A x \in T : x <= slot
    <3>1. \A o \in E : jobs[s, o].runAt \in Nat /\ jobs[s, o].runAt < slot
      BY <1>1, <1>2
    <3>2. \A n \in Nat : n < slot => n <= slot
      OBVIOUS
    <3>3. QED
      BY <1>4, <3>1, <3>2
  <2>2. PICK x \in T : \A y \in T : y <= x
    BY <2>1, BoundedHasGreatest
  <2>3. \E o \in E : \A q \in E : jobs[s, q].runAt <= jobs[s, o].runAt
    BY <2>2
  <2>4. PICK last \in E : /\ \A q \in E : jobs[s, q].runAt <= jobs[s, last].runAt
                          /\ LatestPrior(s, slot) = jobs[s, last].status
    BY <1>4, <2>3 DEF LatestPrior, E
  <2>5. QED
    BY <1>1, <1>2, <2>4
<1>5. QED
  BY <1>3, <1>4

LEMMA STyped == SInv /\ [Next]_svars => STypeOK'
<1> SUFFICES ASSUME SInv, [Next]_svars PROVE STypeOK'
  OBVIOUS
<1>1. STypeOK /\ \A w \in Workers : IsFiniteSet(batch[w])
  BY DEF SInv, ClaimsAt
<1>2. CASE UNCHANGED svars
  BY <1>1, <1>2 DEF svars, progress, STypeOK
<1>3. ASSUME NEW w \in Workers, Poll(w) PROVE STypeOK'
  <2>1. \A s \in Schedules : schedule[s].status \in LastStatuses
    BY <1>1 DEF STypeOK
  <2>2. picked' \in [Workers -> SUBSET [schedule: Schedules, last: LastStatuses]]
    BY <1>1, <1>3, <2>1 DEF Poll, DueSchedules, STypeOK
  <2>3. pc' \in [Workers -> Places] /\ clock' \in [Workers -> 0..MaxNow]
    BY <1>1, <1>3 DEF Poll, Goto, STypeOK, Places
  <2>4. QED
    BY <1>1, <1>3, <2>2, <2>3 DEF Poll, STypeOK
<1>4. ASSUME NEW w \in Workers, NEW p \in picked[w], ClaimSchedule(w, p) PROVE STypeOK'
  <2>1. p \in [schedule: Schedules, last: LastStatuses] /\ FreshToken \in Nat
    BY <1>1, FreshTokenIs DEF STypeOK
  <2>2. schedule' \in [Schedules -> RowOK]
    BY <1>1, <1>4, <2>1 DEF ClaimSchedule, STypeOK, RowOK, LastStatuses
  <2>3. batch' \in [Workers -> SUBSET Claim]
    BY <1>1, <1>4, <2>1 DEF ClaimSchedule, STypeOK, Claim
  <2>4. picked' \in [Workers -> SUBSET [schedule: Schedules, last: LastStatuses]]
    BY <1>1, <1>4 DEF ClaimSchedule, STypeOK
  <2>5. QED
    BY <1>1, <1>4, <2>2, <2>3, <2>4 DEF ClaimSchedule, STypeOK, RowOK
<1>5. ASSUME NEW w \in Workers, NEW p \in picked[w], MissSchedule(w, p) PROVE STypeOK'
  BY <1>1, <1>5 DEF MissSchedule, STypeOK
<1>6. ASSUME NEW w \in Workers, Readback(w) PROVE STypeOK'
  BY <1>1, <1>6 DEF Readback, Goto, Places, STypeOK
<1>7. ASSUME NEW w \in Workers, PolledOut(w) PROVE STypeOK'
  BY <1>1, <1>7, ClockAssumption DEF PolledOut, Goto, Places, STypeOK
<1>8. ASSUME NEW w \in Workers, NEW c \in batch[w], Decide(w, c) PROVE STypeOK'
  <2>0. c \in Claim /\ clock[w] \in 0..MaxNow
    BY <1>1 DEF STypeOK
  <2>1. /\ c \in Claim /\ c.slot \in Nat /\ c.slot <= clock[w] /\ clock[w] \in 0..MaxNow
        /\ policy[c.schedule] \in Policy
    <3>1. c.slot <= clock[w]
      BY DEF SInv, ClaimsAt, ClaimAt
    <3>2. c.slot \in Slots /\ c.schedule \in Schedules
      BY <2>0 DEF Claim
    <3>3. policy[c.schedule] \in Policy
      BY <1>1, <3>2, PoliciesAssumption DEF STypeOK
    <3>4. QED
      BY <2>0, <3>1, <3>2, <3>3, SlotsAssumption
  <2>2. DueOccurrences(policy[c.schedule], c, clock[w]) \subseteq Slots
    BY <2>1, DueIs
  <2>3. LatestPrior(c.schedule, c.slot) \in Priors
    BY <1>1, <2>1, LatestPriorIs DEF Claim
  <2>4. todo' \in [Workers -> SUBSET Slots] /\ pc' \in [Workers -> Places]
    BY <1>1, <1>8, <2>2 DEF Decide, Goto, STypeOK, Places, Fences
  <2>5. QED
    BY <1>1, <1>8, <2>1, <2>3, <2>4 DEF Decide, STypeOK
<1>9. ASSUME NEW w \in Workers, Fence(w) \/ Lookup(w) \/ Close(w) \/ EnqueueConflict(w)
      PROVE  STypeOK'
  <2>1. pc' \in [Workers -> Places] /\ UNCHANGED <<now, policy, schedule, jobs>>
    BY <1>1, <1>9 DEF Fence, Lookup, Close, EnqueueConflict, Goto, STypeOK, Places, Fences
  <2>2. found' \in [Workers -> Priors]
    <3>1. Lookup(w) => jobs[cur[w].schedule, At(w)].status \in Priors
      <4>1. SUFFICES ASSUME Lookup(w) PROVE jobs[cur[w].schedule, At(w)].status \in Priors
        OBVIOUS
      <4>2. cur[w] \in Claim /\ todo[w] # {} /\ todo[w] \subseteq Slots
        BY <4>1 DEF Lookup, SInv, STypeOK, ClaimsAt, LoopAt, Engaged, Firing, Looping
      <4>3. At(w) \in Slots
        BY <4>2, LeastIs, SlotsAssumption DEF At
      <4>4. QED
        BY <1>1, <4>2, <4>3 DEF STypeOK, Occurrence, Claim
    <3>2. QED
      BY <1>1, <1>9, <3>1 DEF Fence, Lookup, Close, EnqueueConflict, STypeOK, progress
  <2>3. UNCHANGED <<clock, picked, batch, cur, prior, todo, chain, faults, late>>
    BY <1>9 DEF Fence, Lookup, Close, EnqueueConflict, progress
  <2>4. QED
    BY <1>1, <2>1, <2>2, <2>3 DEF STypeOK
<1>10. ASSUME NEW w \in Workers, LeaseLost(w) PROVE STypeOK'
  BY <1>1, <1>10, LeaveTyped DEF LeaseLost, STypeOK
<1>11. ASSUME NEW w \in Workers, Refence(w) PROVE STypeOK'
  <2>1. pc' \in [Workers -> Places] /\ todo' \in [Workers -> SUBSET Slots]
    <3>1. NextOccurrence(w) => pc' \in [Workers -> Places] /\ todo' \in [Workers -> SUBSET Slots]
      BY <1>1 DEF NextOccurrence, Goto, STypeOK, Places, Fences
    <3>2. Goto(w, "enqueue") => pc' \in [Workers -> Places]
      BY <1>1 DEF Goto, STypeOK, Places
    <3>3. QED
      BY <1>1, <1>11, <3>1, <3>2 DEF Refence, STypeOK
  <2>2. found' \in [Workers -> Priors] /\ chain' \in [Workers -> Priors]
    BY <1>1, <1>11 DEF Refence, NextOccurrence, STypeOK, Priors
  <2>3. QED
    BY <1>1, <1>11, <2>1, <2>2 DEF Refence, STypeOK
<1>12. ASSUME NEW w \in Workers, pc[w] = "enqueue"
       PROVE  JobsAfterEnqueue(w) \in [Occurrence -> JobOK]
  <2>1. cur[w] \in Claim /\ todo[w] # {} /\ todo[w] \subseteq Slots /\ clock[w] \in Nat
    BY <1>12 DEF SInv, STypeOK, ClaimsAt, LoopAt, Engaged, Firing, Looping
  <2>2. At(w) \in Slots /\ At(w) \in Nat
    BY <2>1, LeastIs, SlotsAssumption DEF At
  <2>3. RunAt(w) \in Nat
    BY <2>1, <2>2 DEF RunAt
  <2>4. QED
    BY <1>1, <2>3 DEF JobsAfterEnqueue, STypeOK, Occurrence, JobOK, Priors
<1>13. ASSUME NEW w \in Workers, Enqueue(w) PROVE STypeOK'
  <2>1. pc' \in [Workers -> Places] /\ todo' \in [Workers -> SUBSET Slots]
    <3>1. NextOccurrence(w) => pc' \in [Workers -> Places] /\ todo' \in [Workers -> SUBSET Slots]
      BY <1>1 DEF NextOccurrence, Goto, STypeOK, Places, Fences
    <3>2. Goto(w, "enqueue") => pc' \in [Workers -> Places]
      BY <1>1 DEF Goto, STypeOK, Places
    <3>3. QED
      BY <1>1, <1>13, <3>1, <3>2 DEF Enqueue, STypeOK
  <2>2. found' \in [Workers -> Priors] /\ chain' \in [Workers -> Priors]
    BY <1>1, <1>13 DEF Enqueue, NextOccurrence, STypeOK, Priors
  <2>3. jobs' \in [Occurrence -> JobOK]
    BY <1>12, <1>13 DEF Enqueue
  <2>4. QED
    BY <1>1, <1>13, <2>1, <2>2, <2>3 DEF Enqueue, STypeOK, JobOK
<1>14. ASSUME NEW w \in Workers, MoveOn(w) PROVE schedule' \in [Schedules -> RowOK]
  BY <1>1, <1>14, MoveOnIs, AdvanceTyped DEF LastStatuses
<1>15. ASSUME NEW w \in Workers, Advance(w) PROVE STypeOK'
  <2>1. schedule' \in [Schedules -> RowOK]
    BY <1>14, <1>15 DEF Advance
  <2>2. QED
    BY <1>1, <1>15, <2>1, LeaveTyped DEF Advance, STypeOK, RowOK
<1>16. ASSUME NEW w \in Workers, Fail(w) PROVE STypeOK'
  <2>1. cur[w].slot \in Slots
    BY <1>16 DEF Fail, SInv, ClaimsAt, Engaged, Claim
  <2>2. schedule' \in [Schedules -> RowOK]
    BY <1>1, <1>16, <2>1, AdvanceTyped DEF Fail, LastStatuses
  <2>3. QED
    BY <1>1, <1>16, <2>2, LeaveTyped DEF Fail, STypeOK, RowOK
<1>17. ASSUME faults' = faults + 1, faults + late < MaxFaults
       PROVE  faults' \in 0..MaxFaults
  BY <1>1, <1>17, LimitAssumption DEF STypeOK
<1>18. ASSUME NEW w \in Workers, CallThrows(w) PROVE STypeOK'
  <2>1. faults' \in 0..MaxFaults
    BY <1>17, <1>18 DEF CallThrows
  <2>2. CASE Leave(w) /\ UNCHANGED <<schedule, jobs>>
    BY <1>1, <1>18, <2>1, <2>2, LeaveTyped DEF CallThrows, STypeOK
  <2>3. CASE Goto(w, "fail") /\ UNCHANGED <<schedule, jobs, progress>>
    BY <1>1, <1>18, <2>1, <2>3 DEF CallThrows, Goto, progress, Places, STypeOK
  <2>4. CASE pc[w] = "enqueue" /\ jobs' = JobsAfterEnqueue(w) /\ Goto(w, "fail")
             /\ UNCHANGED <<schedule, progress>>
    BY <1>1, <1>12, <1>18, <2>1, <2>4 DEF CallThrows, Goto, progress, Places, STypeOK, JobOK
  <2>5. CASE MoveOn(w) /\ Goto(w, "fail") /\ UNCHANGED <<jobs, progress>>
    BY <1>1, <1>14, <1>18, <2>1, <2>5 DEF CallThrows, Goto, progress, Places, STypeOK, RowOK
  <2>6. QED
    BY <1>18, <2>2, <2>3, <2>4, <2>5 DEF CallThrows
<1>19. ASSUME NEW w \in Workers, Crash(w) PROVE STypeOK'
  <2>1. faults' \in 0..MaxFaults
    BY <1>17, <1>19 DEF Crash
  <2>2. QED
    BY <1>1, <1>19, <2>1, ClockAssumption DEF Crash, Goto, Places, Priors, STypeOK
<1>20. ASSUME NEW w \in Workers, NEW c \in batch[w], DecideThrows(w, c) PROVE STypeOK'
  <2>1. faults' \in 0..MaxFaults
    BY <1>17, <1>20 DEF DecideThrows
  <2>2. QED
    BY <1>1, <1>20, <2>1 DEF DecideThrows, Goto, Places, STypeOK
<1>21. ASSUME NEW cond, LateIf(cond) PROVE late' \in 0..MaxLate
  BY <1>1, <1>21, LimitAssumption DEF LateIf, STypeOK
<1>22. CASE Tick
  <2>1. late' \in 0..MaxLate
    BY <1>21, <1>22 DEF Tick
  <2>2. now' \in 0..MaxNow
    BY <1>1, <1>22, ClockAssumption DEF Tick, STypeOK
  <2>3. QED
    BY <1>1, <1>22, <2>1, <2>2 DEF Tick, progress, STypeOK
<1>23. ASSUME NEW s \in Schedules, LeaseRunsOut(s) PROVE STypeOK'
  <2>1. late' \in 0..MaxLate
    BY <1>21, <1>23 DEF LeaseRunsOut
  <2>2. schedule' \in [Schedules -> RowOK]
    <3>1. schedule \in [Schedules -> RowOK]
      BY <1>1 DEF STypeOK, RowOK
    <3>2. [schedule[s] EXCEPT !.held = FALSE] \in RowOK
      BY <3>1 DEF RowOK
    <3>3. QED
      BY <1>23, <3>1, <3>2 DEF LeaseRunsOut
  <2>3. QED
    BY <1>1, <1>23, <2>1, <2>2 DEF LeaseRunsOut, progress, STypeOK, RowOK
<1>24. ASSUME NEW s \in Schedules, NEW o \in Slots, JobSteps(s, o) PROVE STypeOK'
  <2>1. \E status \in Priors : SetJob(s, o, status)
    BY <1>24 DEF JobSteps, JobStarts, JobRetries, JobEnds, Priors
  <2>2. jobs' \in [Occurrence -> JobOK]
    <3>1. PICK status \in Priors, k \in Occurrence : jobs' = [jobs EXCEPT ![k].status = status]
      BY <2>1 DEF SetJob, Occurrence
    <3>2. jobs \in [Occurrence -> JobOK]
      BY <1>1 DEF STypeOK, JobOK
    <3>3. QED
      BY <3>1, <3>2 DEF JobOK
  <2>3. QED
    BY <1>1, <2>1, <2>2 DEF SetJob, progress, STypeOK, JobOK
<1>25. QED
  BY <1>2, <1>3, <1>4, <1>5, <1>6, <1>7, <1>8, <1>9, <1>10, <1>11, <1>13, <1>15, <1>16, <1>18,
     <1>19, <1>20, <1>22, <1>23, <1>24 DEF Next, Step

-----------------------------------------------------------------------------
(* What a step may do to the rows, to the jobs and to a worker *)

Moves(w) ==
    Step(w) \/ CallThrows(w) \/ Crash(w) \/ \E c \in batch[w] : DecideThrows(w, c)

Local(w) ==
    <<pc[w], clock[w], picked[w], batch[w], cur[w], prior[w], todo[w], found[w], chain[w]>>

Nows == UNCHANGED now \/ (now \in Nat /\ now' = now + 1)

RowChange ==
    \/ UNCHANGED schedule
    \/ \E s \in Schedules : schedule' = [schedule EXCEPT ![s].held = FALSE]
    \/ \E w \in Workers : \E p \in picked[w] : ClaimSchedule(w, p)
    \/ \E w \in Workers : Fail(w) \/ MoveOn(w)

JobChange ==
    \/ UNCHANGED jobs
    \/ \E w \in Workers : pc[w] = "enqueue" /\ jobs' = JobsAfterEnqueue(w)
    \/ \E s \in Schedules : \E o \in Slots : JobSteps(s, o)

LEMMA MovesLocally ==
    ASSUME STypeOK, NEW w \in Workers, NEW v \in Workers, v # w, Moves(w)
    PROVE  UNCHANGED Local(v)
<1>1. CASE Step(w)
  <2>1. CASE \/ Poll(w) \/ Readback(w) \/ PolledOut(w)
             \/ \E p \in picked[w] : ClaimSchedule(w, p) \/ MissSchedule(w, p)
    BY <2>1 DEF Poll, Readback, PolledOut, ClaimSchedule, MissSchedule, Goto, Local, STypeOK
  <2>2. CASE \E c \in batch[w] : Decide(w, c)
    <3>1. PICK c \in batch[w] : Decide(w, c)
      BY <2>2
    <3>2. pc'[v] = pc[v] /\ todo'[v] = todo[v]
      BY <3>1 DEF Decide, Goto, STypeOK
    <3>3. QED
      BY <3>1, <3>2 DEF Decide, Local, STypeOK
  <2>3. CASE Fence(w) \/ Lookup(w) \/ Refence(w) \/ Enqueue(w) \/ EnqueueConflict(w) \/ Close(w)
    <3>1. pc'[v] = pc[v] /\ todo'[v] = todo[v] /\ found'[v] = found[v] /\ chain'[v] = chain[v]
      BY <2>3 DEF Fence, Lookup, Refence, Enqueue, EnqueueConflict, Close, NextOccurrence, Goto,
         progress, STypeOK
    <3>2. UNCHANGED <<clock, picked, batch, cur, prior>>
      BY <2>3 DEF Fence, Lookup, Refence, Enqueue, EnqueueConflict, Close, progress
    <3>3. QED
      BY <3>1, <3>2 DEF Local
  <2>4. CASE LeaseLost(w) \/ Advance(w) \/ Fail(w)
    BY <2>4 DEF LeaseLost, Advance, Fail, Leave, Goto, Local, STypeOK
  <2>5. QED
    BY <1>1, <2>1, <2>2, <2>3, <2>4 DEF Step
<1>2. CASE CallThrows(w)
  <2>1. Leave(w) \/ (Goto(w, "fail") /\ UNCHANGED progress)
    BY <1>2 DEF CallThrows
  <2>2. QED
    BY <2>1 DEF Leave, Goto, progress, Local, STypeOK
<1>3. CASE Crash(w)
  BY <1>3 DEF Crash, Goto, Local, STypeOK
<1>4. CASE \E c \in batch[w] : DecideThrows(w, c)
  BY <1>4 DEF DecideThrows, Goto, Local, STypeOK
<1>5. QED
  BY <1>1, <1>2, <1>3, <1>4 DEF Moves

LEMMA StepsAre ==
    ASSUME STypeOK, [Next]_svars
    PROVE  /\ UNCHANGED policy /\ Nows /\ RowChange /\ JobChange
           /\ \A v \in Workers : UNCHANGED Local(v) \/ Moves(v)
<1>1. CASE UNCHANGED svars
  BY <1>1 DEF svars, progress, Local, Nows, RowChange, JobChange
<1>2. ASSUME NEW w \in Workers, Moves(w)
      PROVE  UNCHANGED <<policy, now>> /\ RowChange /\ JobChange
  <2>1. CASE \/ Poll(w) \/ Readback(w) \/ PolledOut(w)
             \/ \E p \in picked[w] : ClaimSchedule(w, p) \/ MissSchedule(w, p)
    BY <2>1 DEF Poll, Readback, PolledOut, ClaimSchedule, MissSchedule, RowChange, JobChange
  <2>2. CASE \E c \in batch[w] : Decide(w, c) \/ DecideThrows(w, c)
    BY <2>2 DEF Decide, DecideThrows, RowChange, JobChange
  <2>3. CASE Fence(w) \/ Lookup(w) \/ Refence(w) \/ Enqueue(w) \/ EnqueueConflict(w) \/ Close(w)
    BY <2>3 DEF Fence, Lookup, Refence, Enqueue, EnqueueConflict, Close, RowChange, JobChange
  <2>4. CASE LeaseLost(w) \/ Advance(w) \/ Fail(w) \/ Crash(w) \/ CallThrows(w)
    BY <2>4 DEF LeaseLost, Advance, Fail, Crash, CallThrows, RowChange, JobChange
  <2>5. QED
    BY <1>2, <2>1, <2>2, <2>3, <2>4 DEF Moves, Step
<1>3. ASSUME NEW w \in Workers, Moves(w), NEW v \in Workers
      PROVE  UNCHANGED Local(v) \/ Moves(v)
  BY <1>3, MovesLocally
<1>4. CASE Tick
  BY <1>4 DEF Tick, progress, Local, Nows, RowChange, JobChange, STypeOK
<1>5. ASSUME NEW s \in Schedules, LeaseRunsOut(s) PROVE RowChange
  BY <1>5 DEF LeaseRunsOut, RowChange
<1>6. ASSUME NEW s \in Schedules, LeaseRunsOut(s) \/ \E o \in Slots : JobSteps(s, o)
      PROVE  /\ UNCHANGED <<policy, now, pc, progress>>
             /\ UNCHANGED jobs \/ \E o \in Slots : JobSteps(s, o)
             /\ UNCHANGED schedule \/ LeaseRunsOut(s)
  BY <1>6 DEF LeaseRunsOut, JobSteps, JobStarts, JobRetries, JobEnds, SetJob
<1>7. ASSUME NEW s \in Schedules, LeaseRunsOut(s) \/ \E o \in Slots : JobSteps(s, o)
      PROVE  /\ UNCHANGED policy /\ Nows /\ RowChange /\ JobChange
             /\ \A v \in Workers : UNCHANGED Local(v) \/ Moves(v)
  BY <1>5, <1>6, <1>7 DEF progress, Local, Nows, RowChange, JobChange
<1>8. QED
  BY <1>1, <1>2, <1>3, <1>4, <1>7 DEF Next, Moves, Nows

\* A job is there for good, and one that has ended does not start again.
JobsKeep ==
    \A s \in Schedules, o \in Slots : Exists(s, o) =>
        /\ Exists(s, o)'
        /\ UnderWay(s, o)' => UnderWay(s, o)
        /\ jobs'[s, o].runAt = jobs[s, o].runAt

LEMMA JobsKept == SInv /\ JobChange => JobsKeep
<1> SUFFICES ASSUME SInv, JobChange PROVE JobsKeep
  OBVIOUS
<1>1. jobs \in [Occurrence -> JobOK]
  BY DEF SInv, STypeOK, JobOK
<1>2. CASE UNCHANGED jobs
  BY <1>2 DEF JobsKeep, Exists, UnderWay
<1>3. ASSUME NEW w \in Workers, jobs' = JobsAfterEnqueue(w) PROVE JobsKeep
  BY <1>1, <1>3 DEF JobsAfterEnqueue, JobsKeep, Exists, UnderWay, Occurrence
<1>4. ASSUME NEW s \in Schedules, NEW o \in Slots, JobSteps(s, o) PROVE JobsKeep
  <2>1. PICK k \in Occurrence : k = <<s, o>>
    BY DEF Occurrence
  <2>2. PICK status \in {"queued", "running", "ended"} :
            /\ jobs' = [jobs EXCEPT ![k].status = status] /\ jobs[k].status \in Active
    BY <1>4, <2>1 DEF JobSteps, JobStarts, JobRetries, JobEnds, SetJob, Active
  <2>3. \A i \in Occurrence :
            /\ i # k => jobs'[i] = jobs[i]
            /\ i = k => jobs'[i].status = status /\ jobs'[i].runAt = jobs[i].runAt
    BY <1>1, <2>2 DEF JobOK
  <2>4. \A t \in Schedules, q \in Slots : <<t, q>> \in Occurrence
    BY DEF Occurrence
  <2>5. QED
    BY <2>2, <2>3, <2>4 DEF JobsKeep, Exists, UnderWay
<1>5. QED
  BY <1>2, <1>3, <1>4 DEF JobChange

\* A claim that was lost does not come back, and while it holds the row stays
\* where it is.
RowsKeep ==
    \A v \in Workers : \A c \in Claim :
        (c \in batch[v] \/ c = cur[v]) /\ Holds(v, c)' =>
            Holds(v, c) /\ schedule'[c.schedule].next = schedule[c.schedule].next

LEMMA AdvanceRow ==
    ASSUME STypeOK, NEW w \in Workers, NEW n, NEW status, AdvanceSchedule(w, n, status),
           NEW s \in Schedules
    PROVE  \/ schedule'[s] = schedule[s]
           \/ /\ Holds(w, cur[w]) /\ s = cur[w].schedule
              /\ schedule'[s].next = n /\ schedule'[s].status = status
              /\ schedule'[s].held = FALSE
BY DEF STypeOK, AdvanceSchedule

LEMMA RowsKept == SInv /\ RowChange => RowsKeep
<1> SUFFICES ASSUME SInv, RowChange, NEW v \in Workers, NEW c \in Claim,
                    c \in batch[v] \/ c = cur[v], Holds(v, c)'
             PROVE  Holds(v, c) /\ schedule'[c.schedule].next = schedule[c.schedule].next
  BY DEF RowsKeep
<1>1. STypeOK /\ \A w \in Workers : IsFiniteSet(batch[w])
  BY DEF SInv, ClaimsAt
<1>2. c.schedule \in Schedules
  BY DEF Claim
<1>3. SUFFICES schedule'[c.schedule] = schedule[c.schedule]
  BY <1>3 DEF Holds
<1>4. CASE UNCHANGED schedule
  BY <1>4
<1>5. ASSUME NEW s \in Schedules, schedule' = [schedule EXCEPT ![s].held = FALSE]
      PROVE  schedule'[c.schedule] = schedule[c.schedule]
  BY <1>1, <1>2, <1>5 DEF Holds, STypeOK
<1>6. ASSUME NEW w \in Workers, NEW p \in picked[w], ClaimSchedule(w, p)
      PROVE  schedule'[c.schedule] = schedule[c.schedule]
  <2>1. c.token # FreshToken
    BY <1>1, FreshTokenIs
  <2>2. p.schedule \in Schedules
    BY <1>1 DEF STypeOK
  <2>3. QED
    BY <1>1, <1>2, <1>6, <2>1, <2>2 DEF ClaimSchedule, Holds, STypeOK
<1>7. ASSUME NEW w \in Workers, NEW n, NEW status, AdvanceSchedule(w, n, status)
      PROVE  schedule'[c.schedule] = schedule[c.schedule]
  BY <1>1, <1>2, <1>7, AdvanceRow DEF Holds
<1>8. QED
  BY <1>4, <1>5, <1>6, <1>7 DEF RowChange, Fail, MoveOn

-----------------------------------------------------------------------------
(* The claims a worker has *)

LEMMA ClaimsStay ==
    ASSUME SInv, RowsKeep, Nows, NEW w \in Workers,
           clock'[w] = clock[w], batch'[w] \subseteq batch[w],
           pc'[w] # "idle",
           pc'[w] \in Engaged => /\ cur'[w] \in Claim
                                 /\ \/ pc[w] \in Engaged /\ cur'[w] = cur[w]
                                    \/ cur'[w] \in batch[w],
           pc'[w] \notin Engaged => chain'[w] = "none"
    PROVE  ClaimsAt(w)'
<1>1. ClaimsAt(w) /\ now \in Nat /\ clock[w] \in Nat /\ batch[w] \subseteq Claim
  BY DEF SInv, STypeOK
<1>2. clock'[w] <= now'
  BY <1>1 DEF ClaimsAt, Nows
<1>3. IsFiniteSet(batch'[w])
  BY <1>1, FS_Subset DEF ClaimsAt
<1>4. ASSUME NEW c \in Claim, c \in batch[w] \/ (pc[w] \in Engaged /\ c = cur[w])
      PROVE  ClaimAt(w, c)'
  <2>1. ClaimAt(w, c)
    BY <1>1, <1>4 DEF ClaimsAt
  <2>2. Holds(w, c)' => Holds(w, c) /\ schedule'[c.schedule].next = schedule[c.schedule].next
    BY <1>4 DEF RowsKeep
  <2>3. QED
    BY <2>1, <2>2 DEF ClaimAt
<1>5. \A c \in batch'[w] : ClaimAt(w, c)'
  BY <1>1, <1>4
<1>6. pc'[w] \in Engaged => cur'[w] \in Claim /\ ClaimAt(w, cur[w])'
  <2>1. SUFFICES ASSUME pc'[w] \in Engaged PROVE ClaimAt(w, cur[w])'
    OBVIOUS
  <2>2. PICK c \in Claim : c = cur'[w] /\ (c \in batch[w] \/ (pc[w] \in Engaged /\ c = cur[w]))
    BY <2>1
  <2>3. ClaimAt(w, c)'
    BY <1>4, <2>2
  <2>4. QED
    BY <2>2, <2>3 DEF ClaimAt, Holds
<1>7. QED
  BY <1>2, <1>3, <1>5, <1>6 DEF ClaimsAt

\* Nothing is claimed before its time.
LEMMA ClaimHeld ==
    ASSUME SInv, RowsKeep, Nows, NEW w \in Workers, NEW p \in picked[w], ClaimSchedule(w, p)
    PROVE  ClaimsAt(w)'
<1>1. /\ ClaimsAt(w) /\ now \in Nat /\ clock[w] \in Nat /\ batch[w] \subseteq Claim
      /\ p.schedule \in Schedules /\ STypeOK
  BY DEF SInv, STypeOK
<1> DEFINE new == [schedule |-> p.schedule, token |-> FreshToken,
                   slot |-> schedule[p.schedule].next, last |-> p.last]
<1>2. PICK c : c = new
  OBVIOUS
<1>3. /\ c.schedule = p.schedule /\ c.slot = schedule[p.schedule].next
      /\ c.slot <= clock[w]
  BY <1>2 DEF ClaimSchedule, Claimable
<1>4. batch'[w] = batch[w] \cup {c} /\ pc'[w] = "claiming" /\ pc[w] = "claiming"
      /\ clock'[w] = clock[w] /\ chain'[w] = chain[w]
  BY <1>1, <1>2 DEF ClaimSchedule, STypeOK
<1>5. schedule'[p.schedule].next = c.slot
  BY <1>1, <1>3 DEF ClaimSchedule, STypeOK
<1>6. ClaimAt(w, c)'
  BY <1>3, <1>4, <1>5 DEF ClaimAt
<1>7. \A d \in batch[w] : ClaimAt(w, d)'
  <2>1. SUFFICES ASSUME NEW d \in batch[w] PROVE ClaimAt(w, d)'
    OBVIOUS
  <2>2. ClaimAt(w, d)
    BY <1>1 DEF ClaimsAt
  <2>3. Holds(w, d)' => Holds(w, d) /\ schedule'[d.schedule].next = schedule[d.schedule].next
    BY <1>1 DEF RowsKeep
  <2>4. QED
    BY <1>4, <2>2, <2>3 DEF ClaimAt
<1>8. IsFiniteSet(batch'[w]) /\ clock'[w] <= now'
  <2>1. IsFiniteSet(batch[w]) /\ clock[w] <= now
    BY <1>1 DEF ClaimsAt
  <2>2. IsFiniteSet(batch[w] \cup {c})
    BY <2>1, FS_AddElement
  <2>3. clock[w] <= now'
    BY <1>1, <2>1 DEF Nows
  <2>4. QED
    BY <1>4, <2>2, <2>3
<1>9. chain[w] = "none" /\ pc'[w] \notin Engaged
  BY <1>1, <1>4 DEF ClaimsAt, Engaged, Firing, Looping
<1>10. QED
  BY <1>4, <1>6, <1>7, <1>8, <1>9 DEF ClaimsAt

LEMMA LeaveIs ==
    ASSUME STypeOK, NEW w \in Workers, Leave(w)
    PROVE  /\ pc'[w] = "next" /\ chain'[w] = "none" /\ cur'[w] = NoClaim
           /\ UNCHANGED <<clock, picked, batch>>
BY DEF Leave, Goto, STypeOK

LEMMA ClaimsKept ==
    ASSUME SInv, RowsKeep, Nows, NEW w \in Workers, UNCHANGED Local(w) \/ Moves(w)
    PROVE  ClaimsAt(w)'
<1> USE DEF Engaged, Firing, Looping
<1>1. STypeOK /\ ClaimsAt(w)
  BY DEF SInv
<1>2. CASE UNCHANGED Local(w)
  <2>1. CASE pc[w] = "idle"
    <3>1. batch'[w] = {} /\ clock'[w] <= now' /\ pc'[w] = "idle" /\ chain'[w] = "none"
      BY <1>1, <1>2, <2>1 DEF Local, ClaimsAt, Nows, STypeOK
    <3>2. QED
      BY <3>1, FS_EmptySet DEF ClaimsAt
  <2>2. CASE pc[w] # "idle"
    <3>1. UNCHANGED <<pc[w], clock[w], batch[w], cur[w], chain[w]>>
      BY <1>2 DEF Local
    <3>2. QED
      BY <1>1, <2>2, <3>1, ClaimsStay DEF ClaimsAt
  <2>3. QED
    BY <2>1, <2>2
<1>3. CASE Poll(w)
  <2>1. /\ batch'[w] = {} /\ pc'[w] = "claiming" /\ clock'[w] = now /\ now' = now
        /\ chain'[w] = "none" /\ now \in Nat
    BY <1>1, <1>3 DEF Poll, Goto, ClaimsAt, STypeOK
  <2>2. QED
    BY <2>1, FS_EmptySet DEF ClaimsAt
<1>4. CASE PolledOut(w) \/ Crash(w)
  <2>1. /\ batch'[w] = {} /\ pc'[w] = "idle" /\ clock'[w] = 0 /\ now' = now
        /\ chain'[w] = "none" /\ now \in Nat
    BY <1>1, <1>4 DEF PolledOut, Crash, Goto, ClaimsAt, STypeOK
  <2>2. QED
    BY <2>1, FS_EmptySet DEF ClaimsAt
<1>5. CASE Readback(w) \/ \E p \in picked[w] : MissSchedule(w, p)
  <2>1. /\ batch'[w] \subseteq batch[w] /\ pc'[w] \in {"claiming", "next"} /\ clock'[w] = clock[w]
        /\ chain'[w] = "none"
    BY <1>1, <1>5 DEF Readback, MissSchedule, Goto, ClaimsAt, STypeOK
  <2>2. QED
    BY <2>1, ClaimsStay
<1>6. ASSUME NEW c \in batch[w], Decide(w, c) \/ DecideThrows(w, c) PROVE ClaimsAt(w)'
  <2>1. cur'[w] = c /\ clock'[w] = clock[w] /\ batch'[w] \subseteq batch[w]
    BY <1>1, <1>6 DEF Decide, DecideThrows, STypeOK
  <2>2. pc'[w] \in {"skip", "fail", "fence"} /\ c \in Claim
    BY <1>1, <1>6 DEF Decide, DecideThrows, Goto, STypeOK
  <2>3. QED
    BY <2>1, <2>2, ClaimsStay
<1>7. CASE Fence(w) \/ Lookup(w) \/ Refence(w) \/ Enqueue(w) \/ EnqueueConflict(w) \/ Close(w)
           \/ (CallThrows(w) /\ ~Leave(w))
  <2>1. UNCHANGED <<clock, batch, cur>>
    BY <1>7 DEF Fence, Lookup, Refence, Enqueue, EnqueueConflict, Close, CallThrows, progress
  <2>2. pc[w] \in Engaged
    BY <1>7 DEF Fence, Lookup, Refence, Enqueue, EnqueueConflict, Close, CallThrows, MoveOn
  <2>3. pc'[w] \in Engaged
    BY <1>1, <1>7 DEF Fence, Lookup, Refence, Enqueue, EnqueueConflict, Close, CallThrows,
       NextOccurrence, Goto, STypeOK
  <2>4. QED
    BY <1>1, <2>1, <2>2, <2>3, ClaimsStay DEF ClaimsAt
<1>8. CASE LeaseLost(w) \/ Advance(w) \/ Fail(w) \/ (CallThrows(w) /\ Leave(w))
  <2>1. Leave(w)
    BY <1>8 DEF LeaseLost, Advance, Fail
  <2>2. QED
    BY <1>1, <2>1, LeaveIs, ClaimsStay
<1>9. QED
  BY <1>2, <1>3, <1>4, <1>5, <1>6, <1>7, <1>8, ClaimHeld DEF Moves, Step

-----------------------------------------------------------------------------
(* The loop over the occurrences of a claim *)

LEMMA LoopStays ==
    ASSUME SInv, JobsKeep, UNCHANGED policy, NEW w \in Workers,
           UNCHANGED <<pc[w], clock[w], cur[w], prior[w], todo[w], found[w], chain[w]>>
    PROVE  LoopAt(w)'
<1>1. LoopAt(w) /\ ClaimsAt(w) /\ STypeOK
  BY DEF SInv
<1>2. /\ Due(w)' = Due(w) /\ PolicyOf(w)' = PolicyOf(w) /\ At(w)' = At(w)
      /\ GivesWay(w)' = GivesWay(w)
  BY DEF Due, PolicyOf, At, GivesWay
<1>3. CASE pc[w] \in Firing
  <2>1. PICK s \in Schedules, slot \in Slots : s = cur[w].schedule /\ slot = cur[w].slot
    BY <1>1, <1>3 DEF ClaimsAt, Engaged, Claim
  <2>2. Due(w) \subseteq Slots
    <3>1. cur[w] \in Claim /\ cur[w].slot <= clock[w] /\ clock[w] \in 0..MaxNow
      BY <1>1, <1>3 DEF ClaimsAt, ClaimAt, Engaged, STypeOK
    <3>2. PolicyOf(w) \in Policy
      BY <1>1, <2>1, PoliciesAssumption DEF STypeOK, PolicyOf
    <3>3. QED
      BY <3>1, <3>2, DueIs DEF Due
  <2>3. todo[w] # {} => At(w) \in Slots
    BY <1>1, LeastIs, SlotsAssumption DEF At, STypeOK
  <2>4. \A o \in Slots : Exists(s, o) => Exists(s, o)' /\ (UnderWay(s, o)' => UnderWay(s, o))
    BY DEF JobsKeep
  <2>5. PICK at : at = At(w)
    OBVIOUS
  <2>6. pc[w] = "refence" => /\ found[w] # "none" => Exists(s, at)'
                             /\ found[w] = "ended" => ~UnderWay(s, at)'
    BY <1>1, <2>1, <2>3, <2>4, <2>5 DEF LoopAt, Looping
  <2>7. QED
    BY <1>1, <1>2, <1>3, <2>1, <2>2, <2>4, <2>5, <2>6 DEF LoopAt, Exists, UnderWay
<1>4. CASE pc[w] \notin Firing
  BY <1>1, <1>2, <1>4 DEF LoopAt, Firing, Looping
<1>5. QED
  BY <1>3, <1>4

LEMMA DueOf ==
    ASSUME SInv, NEW w \in Workers, pc[w] \in Firing
    PROVE  /\ cur[w] \in Claim /\ PolicyOf(w) \in Policy
           /\ Due(w) \subseteq Slots /\ cur[w].slot \in Due(w)
           /\ \A o \in Due(w) : cur[w].slot <= o /\ o <= clock[w]
           /\ \A o \in Slots, g \in Due(w) : cur[w].slot <= o /\ o < g => o \in Due(w)
           /\ PolicyOf(w).misfire = "fire_now" => Due(w) = {cur[w].slot}
<1>1. cur[w] \in Claim /\ cur[w].slot <= clock[w] /\ clock[w] \in 0..MaxNow
  BY DEF SInv, ClaimsAt, ClaimAt, Engaged, STypeOK
<1>2. PolicyOf(w) \in Policy
  BY <1>1, PoliciesAssumption DEF SInv, STypeOK, PolicyOf, Claim
<1>3. PolicyOf(w).misfire = "fire_now" => Due(w) = {cur[w].slot}
  BY DEF Due, DueOccurrences
<1>4. QED
  BY <1>1, <1>2, <1>3, DueIs DEF Due

\* The loop takes the occurrences in their order, the claim's first.
LEMMA AtIs ==
    ASSUME SInv, NEW w \in Workers, pc[w] \in Looping
    PROVE  /\ At(w) \in todo[w] /\ At(w) \in Slots /\ At(w) \in Due(w)
           /\ \A o \in todo[w] : At(w) <= o
           /\ cur[w].slot \in todo[w] => At(w) = cur[w].slot
<1>1. todo[w] # {} /\ todo[w] \subseteq Slots /\ todo[w] \subseteq Due(w)
  BY DEF SInv, LoopAt, STypeOK, Firing
<1>2. At(w) \in todo[w] /\ \A o \in todo[w] : At(w) <= o
  BY <1>1, LeastIs, SlotsAssumption DEF At
<1>3. cur[w].slot \in todo[w] => At(w) = cur[w].slot
  <2>1. SUFFICES ASSUME cur[w].slot \in todo[w] PROVE At(w) = cur[w].slot
    OBVIOUS
  <2>2. cur[w].slot <= At(w) /\ At(w) <= cur[w].slot
    BY <1>1, <1>2, <2>1, DueOf DEF Firing
  <2>3. At(w) \in Nat /\ cur[w].slot \in Nat
    BY <1>1, <1>2, <2>1, SlotsAssumption
  <2>4. QED
    BY <2>2, <2>3
<1>4. QED
  BY <1>1, <1>2, <1>3

\* What is looked at again is not the occurrence the decision was about, but
\* one after a job that is under way.
LEMMA OverlapsChainIs ==
    ASSUME SInv, NEW w \in Workers, pc[w] \in Looping, OverlapsChain(w)
    PROVE  chain[w] # "none" /\ GivesWay(w)
<1>1. /\ ShouldFire(PolicyOf(w), cur[w].slot, cur[w].last, clock[w], prior[w]) \in {"fire", "queue"}
      /\ PolicyOf(w).misfire = "queue_all"
      /\ ShouldFire(PolicyOf(w), cur[w].slot, cur[w].last, clock[w],
                    IF chain[w] = "none" THEN prior[w] ELSE chain[w]) = "skip"
  BY DEF SInv, LoopAt, Firing, OverlapsChain
<1>2. chain[w] # "none"
  BY <1>1
<1>3. ShouldFire(PolicyOf(w), cur[w].slot, cur[w].last, clock[w], chain[w]) = "skip"
  BY <1>1, <1>2
<1>4. QED
  BY <1>1, <1>2, <1>3 DEF ShouldFire, GivesWay

LEMMA NotOverlapsChainIs ==
    ASSUME SInv, NEW w \in Workers, pc[w] \in Looping, ~OverlapsChain(w)
    PROVE  ~GivesWay(w)
<1>1. SUFFICES ASSUME GivesWay(w) PROVE OverlapsChain(w)
  OBVIOUS
<1>2. chain[w] # "none" /\ chain[w] \in Active
  BY <1>1 DEF GivesWay, Active
<1>3. cur[w].slot <= clock[w] /\ cur[w].slot \in Nat /\ clock[w] \in Nat
  <2>1. cur[w] \in Claim /\ clock[w] \in 0..MaxNow /\ cur[w].slot <= clock[w]
    BY DEF SInv, ClaimsAt, ClaimAt, Engaged, Firing, STypeOK
  <2>2. cur[w].slot \in Nat
    BY <2>1, SlotsAssumption DEF Claim
  <2>3. QED
    BY <2>1, <2>2
<1>4. ShouldFire(PolicyOf(w), cur[w].slot, cur[w].last, clock[w], chain[w]) = "skip"
  BY <1>1, <1>2, <1>3 DEF ShouldFire, GivesWay
<1>5. QED
  BY <1>1, <1>2, <1>4 DEF OverlapsChain, GivesWay

\* An occurrence is left behind with its job, or given way to the one before.
LEMMA LoopSteps ==
    ASSUME SInv, JobsKeep, UNCHANGED policy, NEW w \in Workers, pc[w] \in Looping,
           NextOccurrence(w),
           UNCHANGED <<clock[w], cur[w], prior[w]>>,
           \/ /\ chain'[w] \in Priors \ {"none"}
              /\ ~GivesWay(w) /\ jobs'[cur[w].schedule, At(w)].status # "none"
           \/ chain'[w] = chain[w] /\ OverlapsChain(w)
    PROVE  LoopAt(w)'
<1>1. LoopAt(w) /\ STypeOK
  BY DEF SInv
<1>2. PICK at \in Slots : /\ at = At(w) /\ at \in todo[w] /\ at \in Due(w)
                          /\ cur[w].slot \in todo[w] => at = cur[w].slot
  BY AtIs
<1>3. PICK c \in Claim : c = cur[w] /\ c = cur'[w]
  BY DueOf DEF Firing
<1>4. c.schedule \in Schedules /\ c.slot \in Slots
  BY DEF Claim
<1>5. /\ todo'[w] = todo[w] \ {at}
      /\ pc'[w] = IF todo[w] = {at} THEN "close" ELSE "fence"
  BY <1>1, <1>2 DEF NextOccurrence, Goto, STypeOK
<1>6. Due(w)' = Due(w) /\ PolicyOf(w)' = PolicyOf(w)
  BY DEF Due, PolicyOf
<1>7. c.slot \notin todo'[w]
  BY <1>2, <1>3, <1>5
<1>8. Due(w) \subseteq Slots
  BY DueOf DEF Firing
<1>9. chain'[w] # "none"
  BY OverlapsChainIs
<1>10. Exists(c.schedule, at)' \/ (OverlapsChain(w) /\ chain'[w] = chain[w])
  BY <1>2, <1>3 DEF Exists
<1>11. Exists(c.schedule, c.slot)'
  <2>1. CASE c.slot \notin todo[w]
    BY <1>1, <1>3, <1>4, <2>1 DEF LoopAt, Firing, JobsKeep
  <2>2. CASE c.slot \in todo[w]
    <3>1. at = c.slot /\ chain[w] = "none"
      BY <1>1, <1>2, <1>3, <2>2 DEF LoopAt, Firing
    <3>2. QED
      BY <1>10, <3>1, OverlapsChainIs
  <2>3. QED
    BY <2>1, <2>2
<1>12. ASSUME ~GivesWay(w)', NEW o \in Due(w) \ todo'[w] PROVE Exists(c.schedule, o)'
  <2>1. ~GivesWay(w) /\ ~(OverlapsChain(w) /\ chain'[w] = chain[w])
    BY <1>6, <1>12, OverlapsChainIs DEF GivesWay
  <2>2. CASE o = at
    BY <1>10, <2>1, <2>2
  <2>3. CASE o \in Due(w) \ todo[w]
    BY <1>1, <1>3, <1>4, <1>8, <2>1, <2>3 DEF LoopAt, Firing, JobsKeep
  <2>4. QED
    BY <1>5, <2>2, <2>3
<1>13. ShouldFire(PolicyOf(w), cur[w].slot, cur[w].last, clock[w], prior[w])' \in {"fire", "queue"}
  BY <1>1, <1>6 DEF LoopAt, Firing, ShouldFire
<1>14. todo'[w] \subseteq Due(w) /\ (pc'[w] = "fence" => todo'[w] # {})
       /\ (pc'[w] = "close" => todo'[w] = {}) /\ pc'[w] \in {"fence", "close"}
  BY <1>1, <1>5 DEF LoopAt, Firing
<1>15. QED
  BY <1>3, <1>6, <1>7, <1>9, <1>11, <1>12, <1>13, <1>14 DEF LoopAt, Looping, Exists

LEMMA DecideLoops ==
    ASSUME SInv, UNCHANGED policy, NEW w \in Workers, NEW c \in batch[w], Decide(w, c)
    PROVE  LoopAt(w)'
<1>1. STypeOK /\ ClaimsAt(w) /\ pc[w] = "next" /\ chain[w] = "none"
  BY DEF SInv, ClaimsAt, Decide, Engaged, Firing, Looping
<1>2. /\ c \in Claim /\ clock[w] \in 0..MaxNow /\ clock[w] \in Nat /\ c.slot <= clock[w]
      /\ c.slot \in Nat /\ c.schedule \in Schedules
  <2>1. c \in Claim /\ clock[w] \in 0..MaxNow /\ clock[w] \in Nat /\ c.slot <= clock[w]
    BY <1>1 DEF ClaimsAt, ClaimAt, STypeOK
  <2>2. QED
    BY <2>1, SlotsAssumption DEF Claim
<1>3. PICK p \in Policy : p = policy[c.schedule]
  BY <1>1, <1>2, PoliciesAssumption DEF STypeOK
<1> DEFINE D == DueOccurrences(p, c, clock[w])
           Fires == ShouldFire(p, c.slot, c.last, clock[w], prior'[w])
<1>4. D \subseteq Slots /\ c.slot \in D
  BY <1>2, DueIs
<1>5. cur'[w] = c /\ UNCHANGED <<clock, chain, policy>>
  BY <1>1 DEF Decide, STypeOK
<1>6. \/ Fires \in {"ignore", "skip"} /\ pc'[w] = "skip"
      \/ Fires \in {"fire", "queue"} /\ pc'[w] \in {"fail", "fence"}
         /\ (pc'[w] = "fence" => todo'[w] = D)
  BY <1>1, <1>3 DEF Decide, Goto, STypeOK
<1>7. PolicyOf(w)' = p /\ Due(w)' = D
  BY <1>3, <1>5 DEF PolicyOf, Due
<1>8. CASE pc'[w] = "skip"
  <2>1. Fires \in {"ignore", "skip"}
    BY <1>6, <1>8
  <2>2. p.misfire = "skip" \/ p.overlap = "skip"
    BY <1>2, <2>1 DEF ShouldFire
  <2>3. QED
    BY <1>7, <1>8, <2>2 DEF LoopAt, Firing, Looping
<1>9. CASE pc'[w] = "fence"
  <2>1. Fires \in {"fire", "queue"} /\ todo'[w] = D
    BY <1>6, <1>9
  <2>2. ShouldFire(PolicyOf(w), cur[w].slot, cur[w].last, clock[w], prior[w])' \in {"fire", "queue"}
    BY <1>5, <1>7, <2>1 DEF ShouldFire
  <2>3. c.slot \in todo'[w] /\ todo'[w] # {} /\ chain'[w] = "none" /\ Due(w)' \ todo'[w] = {}
    BY <1>1, <1>4, <1>5, <1>7, <2>1
  <2> HIDE DEF D, Fires
  <2>4. QED
    BY <1>5, <1>7, <1>9, <2>1, <2>2, <2>3 DEF LoopAt, Firing, Looping
<1>10. CASE pc'[w] = "fail"
  BY <1>10 DEF LoopAt, Firing, Looping
<1>11. QED
  BY <1>6, <1>8, <1>9, <1>10

LEMMA LoopKept ==
    ASSUME SInv, JobsKeep, UNCHANGED policy, NEW w \in Workers, UNCHANGED Local(w) \/ Moves(w)
    PROVE  LoopAt(w)'
<1>1. STypeOK /\ LoopAt(w)
  BY DEF SInv
<1>2. CASE UNCHANGED Local(w)
  BY <1>2, LoopStays DEF Local
<1>3. ASSUME pc'[w] \notin Firing \cup {"skip"} PROVE LoopAt(w)'
  BY <1>3 DEF LoopAt, Firing, Looping
<1>4. CASE \/ Poll(w) \/ Readback(w) \/ PolledOut(w) \/ Crash(w) \/ EnqueueConflict(w)
           \/ \E p \in picked[w] : ClaimSchedule(w, p) \/ MissSchedule(w, p)
           \/ \E c \in batch[w] : DecideThrows(w, c)
  <2>1. pc'[w] \in {"claiming", "next", "idle", "fail"}
    BY <1>1, <1>4 DEF Poll, Readback, PolledOut, Crash, EnqueueConflict, ClaimSchedule,
       MissSchedule, DecideThrows, Goto, STypeOK
  <2>2. QED
    BY <1>3, <2>1 DEF Firing, Looping
<1>5. CASE LeaseLost(w) \/ Advance(w) \/ Fail(w) \/ CallThrows(w)
  <2>1. pc'[w] \in {"next", "fail"}
    BY <1>1, <1>5 DEF LeaseLost, Advance, Fail, CallThrows, Leave, Goto, STypeOK
  <2>2. QED
    BY <1>3, <2>1 DEF Firing, Looping
<1>6. CASE Fence(w) \/ Close(w)
  <2>1. UNCHANGED <<policy, jobs, clock, cur, prior, todo, found, chain>>
    BY <1>6 DEF Fence, Close, progress
  <2>2. (pc[w] = "fence" /\ pc'[w] = "lookup") \/ (pc[w] = "close" /\ pc'[w] = "advance")
    BY <1>1, <1>6 DEF Fence, Close, Goto, STypeOK
  <2>3. Due(w)' = Due(w) /\ PolicyOf(w)' = PolicyOf(w) /\ GivesWay(w)' = GivesWay(w)
    BY <2>1 DEF Due, PolicyOf, GivesWay
  <2>4. ShouldFire(PolicyOf(w), cur[w].slot, cur[w].last, clock[w], prior[w])'
          = ShouldFire(PolicyOf(w), cur[w].slot, cur[w].last, clock[w], prior[w])
    BY <2>1, <2>3 DEF ShouldFire
  <2>5. QED
    BY <1>1, <2>1, <2>2, <2>3, <2>4 DEF LoopAt, Firing, Looping, Exists
<1>7. CASE Lookup(w)
  <2>1. UNCHANGED <<policy, jobs, clock, cur, prior, todo, chain>>
    BY <1>7 DEF Lookup
  <2>2. pc[w] = "lookup" /\ pc'[w] = "refence" /\ found'[w] = jobs[cur[w].schedule, At(w)].status
    BY <1>1, <1>7 DEF Lookup, Goto, STypeOK
  <2>3. Due(w)' = Due(w) /\ PolicyOf(w)' = PolicyOf(w) /\ GivesWay(w)' = GivesWay(w)
        /\ At(w)' = At(w)
    BY <2>1 DEF Due, PolicyOf, GivesWay, At
  <2>4. ShouldFire(PolicyOf(w), cur[w].slot, cur[w].last, clock[w], prior[w])'
          = ShouldFire(PolicyOf(w), cur[w].slot, cur[w].last, clock[w], prior[w])
    BY <2>1, <2>3 DEF ShouldFire
  <2>5. PICK s, at : s = cur[w].schedule /\ s = cur'[w].schedule /\ at = At(w)
    BY <2>1
  <2>6. /\ found'[w] # "none" => Exists(s, at)'
        /\ found'[w] = "ended" => ~UnderWay(s, at)'
    BY <2>1, <2>2, <2>5 DEF Exists, UnderWay, Active
  <2>7. \A q, o : Exists(q, o)' <=> Exists(q, o)
    BY <2>1 DEF Exists
  <2>8. /\ found'[w] # "none" => Exists(cur[w].schedule, At(w))'
        /\ found'[w] = "ended" => ~UnderWay(cur[w].schedule, At(w))'
    BY <2>3, <2>5, <2>6 DEF Exists, UnderWay
  <2>9. /\ pc'[w] \notin {"skip", "enqueue", "close", "advance"} /\ pc[w] \in Firing \cap Looping
        /\ cur'[w].slot = cur[w].slot /\ cur'[w].schedule = cur[w].schedule
        /\ todo'[w] = todo[w] /\ chain'[w] = chain[w]
    BY <2>1, <2>2 DEF Firing, Looping
  <2>10. QED
    BY <1>1, <2>2, <2>3, <2>4, <2>7, <2>8, <2>9 DEF LoopAt
<1>8. CASE Refence(w)
  <2>1. pc[w] = "refence" /\ pc[w] \in Looping /\ UNCHANGED <<policy, jobs, clock, cur, prior>>
    BY <1>8 DEF Refence, Looping
  <2>2. CASE OverlapsChain(w) /\ NextOccurrence(w) /\ UNCHANGED chain
    BY <2>1, <2>2, LoopSteps
  <2>3. CASE /\ ~OverlapsChain(w) /\ found[w] # "none"
             /\ chain' = [chain EXCEPT ![w] = found[w]] /\ NextOccurrence(w)
    <3>1. PICK s, at : s = cur[w].schedule /\ at = At(w) /\ s = cur'[w].schedule
      BY <2>1
    <3>2. Exists(s, at)'
      BY <1>1, <2>1, <2>3, <3>1 DEF LoopAt, Exists
    <3>3. chain'[w] \in Priors \ {"none"}
      BY <1>1, <2>3 DEF STypeOK
    <3>4. (jobs'[s, at].status # "none") /\ ~GivesWay(w)
      BY <2>1, <2>3, <3>2, NotOverlapsChainIs DEF Exists
    <3>5. QED
      BY <2>1, <2>3, <3>1, <3>3, <3>4, LoopSteps
  <2>4. CASE ~OverlapsChain(w) /\ Goto(w, "enqueue") /\ UNCHANGED <<todo, found, chain>>
    <3>1. pc'[w] = "enqueue" /\ ~GivesWay(w)
      BY <1>1, <2>1, <2>4, NotOverlapsChainIs DEF Goto, STypeOK
    <3>2. Due(w)' = Due(w) /\ PolicyOf(w)' = PolicyOf(w) /\ GivesWay(w)' = GivesWay(w)
      BY <2>1, <2>4 DEF Due, PolicyOf, GivesWay
    <3>3. ShouldFire(PolicyOf(w), cur[w].slot, cur[w].last, clock[w], prior[w])'
            = ShouldFire(PolicyOf(w), cur[w].slot, cur[w].last, clock[w], prior[w])
      BY <2>1, <3>2 DEF ShouldFire
    <3>4. QED
      BY <1>1, <2>1, <2>4, <3>1, <3>2, <3>3 DEF LoopAt, Firing, Looping, Exists
  <2>5. QED
    BY <1>8, <2>2, <2>3, <2>4 DEF Refence
<1>9. CASE Enqueue(w)
  <2>1. pc[w] = "enqueue" /\ pc[w] \in Looping /\ UNCHANGED <<policy, clock, cur, prior>>
        /\ NextOccurrence(w) /\ chain'[w] = "queued" /\ jobs' = JobsAfterEnqueue(w)
    BY <1>1, <1>9 DEF Enqueue, Looping, STypeOK
  <2>2. ~GivesWay(w)
    BY <1>1, <2>1 DEF LoopAt
  <2>3. PICK s \in Schedules, at \in Slots : s = cur[w].schedule /\ at = At(w)
    BY <2>1, AtIs, DueOf DEF Claim, Firing
  <2>4. jobs'[s, at].status # "none"
    BY <1>1, <2>1, <2>3 DEF JobsAfterEnqueue, STypeOK, Occurrence
  <2>5. QED
    BY <2>1, <2>2, <2>3, <2>4, LoopSteps DEF Priors
<1>10. QED
  BY <1>2, <1>4, <1>5, <1>6, <1>7, <1>8, <1>9, DecideLoops DEF Moves, Step

-----------------------------------------------------------------------------
(* The invariant, and what follows from it *)

LEMMA SInitially == Init => SInv
<1> SUFFICES ASSUME Init PROVE SInv
  OBVIOUS
<1>1. Least(Slots) \in Slots /\ \A o \in Slots : Least(Slots) <= o /\ o \in Nat
  <2>1. 0 \in 0..MaxNow
    BY ClockAssumption
  <2>2. Slots # {}
    BY <2>1, ClockAssumption
  <2>3. QED
    BY <2>2, LeastIs, SlotsAssumption
<1>2. STypeOK
  <2>1. schedule \in [Schedules -> RowOK]
    BY <1>1 DEF Init, RowOK, LastStatuses
  <2>2. jobs \in [Occurrence -> JobOK]
    BY DEF Init, NoJob, JobOK, Priors
  <2>3. now \in 0..MaxNow /\ faults \in 0..MaxFaults /\ late \in 0..MaxLate
        /\ clock \in [Workers -> 0..MaxNow]
    BY ClockAssumption, LimitAssumption DEF Init
  <2>4. /\ pc \in [Workers -> Places] /\ cur \in [Workers -> Claim \cup {NoClaim}]
        /\ prior \in [Workers -> Priors] /\ found \in [Workers -> Priors]
        /\ chain \in [Workers -> Priors]
    BY DEF Init, Places, Priors
  <2>5. QED
    BY <2>1, <2>2, <2>3, <2>4 DEF Init, STypeOK, RowOK, JobOK
<1>3. \A w \in Workers : ClaimsAt(w)
  BY FS_EmptySet DEF Init, ClaimsAt, Engaged, Firing, Looping
<1>4. \A w \in Workers : LoopAt(w)
  BY DEF Init, LoopAt, Firing, Looping
<1>5. NothingPassedOver
  <2>1. \A s \in Schedules : schedule[s].next = Least(Slots)
    BY DEF Init
  <2>2. \A o \in Slots : ~(o < Least(Slots))
    BY <1>1
  <2>3. QED
    BY <2>1, <2>2 DEF NothingPassedOver
<1>6. QED
  BY <1>2, <1>3, <1>4, <1>5 DEF SInv

\* Where a row goes in one step, and what has been enqueued when it does.
LEMMA RowGoes ==
    ASSUME SInv, RowChange, NEW s \in Schedules
    PROVE  \/ schedule'[s].next = schedule[s].next
           \/ /\ schedule[s].next < schedule'[s].next
              /\ schedule'[s].status = "fired" => Exists(s, schedule[s].next)
              /\ policy[s].misfire = "queue_all" /\ policy[s].overlap # "skip" =>
                   \A o \in Slots :
                      schedule[s].next <= o /\ o < schedule'[s].next => Exists(s, o)
<1>1. STypeOK
  BY DEF SInv
<1>2. CASE UNCHANGED schedule
  BY <1>2
<1>3. ASSUME NEW t \in Schedules, schedule' = [schedule EXCEPT ![t].held = FALSE]
      PROVE  schedule'[s].next = schedule[s].next
  BY <1>1, <1>3 DEF STypeOK
<1>4. ASSUME NEW w \in Workers, NEW p \in picked[w], ClaimSchedule(w, p)
      PROVE  schedule'[s].next = schedule[s].next
  BY <1>1, <1>4 DEF ClaimSchedule, STypeOK
<1>5. ASSUME NEW w \in Workers, Holds(w, cur[w]), pc[w] \in Engaged
      PROVE  schedule[cur[w].schedule].next = cur[w].slot
  BY <1>5 DEF SInv, ClaimsAt, ClaimAt
<1>6. ASSUME NEW w \in Workers, Fail(w) PROVE schedule'[s].next = schedule[s].next
  <2>1. pc[w] \in Engaged /\ AdvanceSchedule(w, cur[w].slot, "failed")
    BY <1>6 DEF Fail, Engaged
  <2>2. \/ schedule'[s] = schedule[s]
        \/ Holds(w, cur[w]) /\ s = cur[w].schedule /\ schedule'[s].next = cur[w].slot
    BY <1>1, <2>1 DEF AdvanceSchedule, STypeOK
  <2>3. QED
    BY <1>5, <2>1, <2>2
<1>7. ASSUME NEW w \in Workers, MoveOn(w), schedule'[s].next # schedule[s].next
      PROVE  /\ schedule[s].next < schedule'[s].next
             /\ schedule'[s].status = "fired" => Exists(s, schedule[s].next)
             /\ policy[s].misfire = "queue_all" /\ policy[s].overlap # "skip" =>
                  \A o \in Slots :
                     schedule[s].next <= o /\ o < schedule'[s].next => Exists(s, o)
  <2>1. PICK n \in Slots, status \in {"fired", "skipped"} :
              /\ AdvanceSchedule(w, n, status)
              /\ cur[w] \in Claim /\ cur[w].slot < n
              /\ PolicyOf(w).misfire = "fire_now" => clock[w] < n
              /\ status = "fired" => Exists(cur[w].schedule, cur[w].slot)
              /\ PolicyOf(w).misfire = "queue_all" /\ PolicyOf(w).overlap # "skip" =>
                    \A o \in Slots : cur[w].slot <= o /\ o < n => Exists(cur[w].schedule, o)
    BY <1>7, MoveOnIs, Zenon
  <2>2. /\ Holds(w, cur[w]) /\ s = cur[w].schedule
        /\ schedule'[s].next = n /\ schedule'[s].status = status
    BY <1>1, <1>7, <2>1 DEF AdvanceSchedule, STypeOK
  <2>3. schedule[s].next = cur[w].slot
    BY <1>5, <1>7, <2>2 DEF MoveOn, Engaged, Firing
  <2>4. QED
    BY <2>1, <2>2, <2>3 DEF PolicyOf
<1>8. QED
  BY <1>2, <1>3, <1>4, <1>6, <1>7 DEF RowChange

LEMMA PassesNothing ==
    ASSUME SInv, UNCHANGED policy, RowChange, JobsKeep
    PROVE  NothingPassedOver'
<1> SUFFICES ASSUME NEW s \in Schedules, policy[s].misfire = "queue_all", policy[s].overlap # "skip",
                    NEW o \in Slots, o < schedule'[s].next
             PROVE  Exists(s, o)'
  BY DEF NothingPassedOver, Exists
<1>1. o \in Nat /\ schedule[s].next \in Nat
  BY SlotsAssumption DEF SInv, STypeOK
<1>2. o < schedule[s].next => Exists(s, o)
  BY DEF SInv, NothingPassedOver, Exists
<1>3. Exists(s, o)
  BY <1>1, <1>2, RowGoes
<1>4. QED
  BY <1>3 DEF JobsKeep

LEMMA SInductive == SInv /\ [Next]_svars => SInv'
<1> SUFFICES ASSUME SInv, [Next]_svars PROVE SInv'
  OBVIOUS
<1>1. STypeOK'
  BY STyped
<1>2. /\ UNCHANGED policy /\ Nows /\ RowChange /\ JobChange
      /\ \A w \in Workers : UNCHANGED Local(w) \/ Moves(w)
  BY StepsAre DEF SInv
<1>3. JobsKeep /\ RowsKeep
  BY <1>2, JobsKept, RowsKept
<1>4. \A w \in Workers : ClaimsAt(w)' /\ LoopAt(w)'
  BY <1>2, <1>3, ClaimsKept, LoopKept
<1>5. NothingPassedOver'
  BY <1>2, <1>3, PassesNothing
<1>6. QED
  BY <1>1, <1>4, <1>5 DEF SInv

\* Every worker's claims are due and its rows where it found them, and its loop
\* leaves no occurrence without a job but those it gives way with.
THEOREM SchedulesInvariant == SSpec => []SInv
BY SInitially, SInductive, PTL DEF SSpec

\* A schedule that queues all its occurrences has a job for every one it moved
\* past, whatever failed, was retried or was taken over.
THEOREM NoOccurrenceIsPassedOver == SSpec => []NothingPassedOver
<1>1. SInv => NothingPassedOver
  BY DEF SInv
<1>2. QED
  BY <1>1, SchedulesInvariant, PTL

\* No schedule moves back, and none moves on as fired from an occurrence that
\* has no job.
THEOREM FiringIsEnqueuedFirst == SSpec => FiredIsEnqueued
<1> DEFINE A == \A s \in Schedules :
                  /\ schedule'[s].next >= schedule[s].next
                  /\ schedule'[s].next > schedule[s].next /\ schedule'[s].status = "fired"
                        => jobs[s, schedule[s].next].status # "none"
<1>1. ASSUME SInv, [Next]_svars PROVE A
  <2>1. RowChange
    BY <1>1, StepsAre DEF SInv
  <2>2. SUFFICES ASSUME NEW s \in Schedules
                 PROVE  /\ schedule'[s].next >= schedule[s].next
                        /\ schedule'[s].next > schedule[s].next /\ schedule'[s].status = "fired"
                              => jobs[s, schedule[s].next].status # "none"
    OBVIOUS
  <2>3. schedule[s].next \in Nat /\ schedule'[s].next \in Nat
    BY <1>1, STyped, SlotsAssumption DEF SInv, STypeOK
  <2>4. /\ schedule'[s].next >= schedule[s].next
        /\ schedule'[s].next > schedule[s].next => schedule'[s].next # schedule[s].next
    BY <1>1, <2>1, <2>3, RowGoes
  <2>5. schedule'[s].next # schedule[s].next /\ schedule'[s].status = "fired"
          => jobs[s, schedule[s].next].status # "none"
    BY <1>1, <2>1, RowGoes DEF Exists
  <2>6. QED
    BY <2>4, <2>5, Zenon
<1>2. SInv /\ [Next]_svars => [A]_svars
  BY <1>1
<1> HIDE DEF A
<1>3. SSpec => [][A]_svars
  BY <1>2, SchedulesInvariant, PTL DEF SSpec
<1>4. QED
  BY <1>3 DEF FiredIsEnqueued, A

-----------------------------------------------------------------------------
(* Without delays a claim is good until it is let go *)

ExclusiveAt(w) ==
    /\ pc[w] = "claiming" => clock[w] = now
    /\ \A c \in batch[w] : Holds(w, c)
    /\ pc[w] \in Engaged \ {"fail"} => Holds(w, cur[w])
    /\ \A c, d \in batch[w] : c.schedule = d.schedule => c = d
    /\ pc[w] \in Engaged => \A c \in batch[w] : c.schedule # cur[w].schedule

Exclusive == late = 0 => \A w \in Workers : ExclusiveAt(w)

GivingWay(s) == policy[s].overlap = "skip" /\ policy[s].misfire # "skip"

\* The job under way is the last one; the occurrences of a row that have jobs
\* are the first ones from its next on.
HistoryAt(s) ==
    /\ \A o, q \in Slots : UnderWay(s, o) /\ Exists(s, q) /\ q # o
                              => RunOf(s, q) < RunOf(s, o)
    /\ \A o \in Slots : Exists(s, o) =>
         /\ o <= RunOf(s, o) /\ RunOf(s, o) <= now
         /\ o < schedule[s].next => RunOf(s, o) < schedule[s].next
         /\ policy[s].misfire = "queue_all" => RunOf(s, o) = o
    /\ \A o, q \in Slots : schedule[s].next <= q /\ q < o /\ Exists(s, o) => Exists(s, q)

ClaimSees(w, c) ==
    Holds(w, c) =>
        \A o \in Slots : Exists(c.schedule, o) => RunOf(c.schedule, o) <= clock[w]

SeesAt(w) ==
    /\ \A c \in batch[w] : GivingWay(c.schedule) => ClaimSees(w, c)
    /\ pc[w] \in Engaged /\ GivingWay(cur[w].schedule) => ClaimSees(w, cur[w])

\* Unless the loop is to give way, no job is under way that it went past.
LeavesEnded(w) ==
    pc[w] \in Firing /\ GivingWay(cur[w].schedule) /\ chain[w] \notin Active =>
        \A o \in Slots, t \in todo[w] :
            UnderWay(cur[w].schedule, o) /\ o < t => o \in todo[w]

OverlapAt(w) == SeesAt(w) /\ LeavesEnded(w)

Apart ==
    late = 0 =>
        /\ \A s \in Schedules : GivingWay(s) => HistoryAt(s)
        /\ \A w \in Workers : OverlapAt(w)

OInv == SInv /\ Exclusive /\ Apart

-----------------------------------------------------------------------------
(* A claim is lost without a delay only by letting go of it *)

InTime ==
    /\ late = 0
    /\ UNCHANGED schedule \/ UNCHANGED jobs
    /\ now' = now \/ \A w \in Workers : pc[w] # "claiming"
    /\ \/ UNCHANGED schedule
       \/ \E s \in Schedules : ~InHand(s) /\ schedule' = [schedule EXCEPT ![s].held = FALSE]
       \/ \E w \in Workers : \E p \in picked[w] : ClaimSchedule(w, p)
       \/ \E w \in Workers : (Fail(w) \/ MoveOn(w)) /\ pc'[w] \in {"next", "fail"}

LEMMA InTimeIs ==
    ASSUME STypeOK, [Next]_svars, late' = 0
    PROVE  InTime
<1>1. late \in Nat /\ now \in Nat
  BY DEF STypeOK
<1>2. CASE UNCHANGED svars
  BY <1>2 DEF svars, InTime
<1>3. ASSUME NEW w \in Workers, Moves(w) PROVE InTime
  <2>1. CASE \/ Poll(w) \/ Readback(w) \/ PolledOut(w) \/ Crash(w)
             \/ \E p \in picked[w] : ClaimSchedule(w, p) \/ MissSchedule(w, p)
    BY <2>1 DEF Poll, Readback, PolledOut, Crash, ClaimSchedule, MissSchedule, InTime
  <2>2. CASE \E c \in batch[w] : Decide(w, c) \/ DecideThrows(w, c)
    BY <2>2 DEF Decide, DecideThrows, InTime
  <2>3. CASE Fence(w) \/ Lookup(w) \/ Refence(w) \/ Enqueue(w) \/ EnqueueConflict(w) \/ Close(w)
             \/ LeaseLost(w)
    BY <2>3 DEF Fence, Lookup, Refence, Enqueue, EnqueueConflict, Close, LeaseLost, InTime
  <2>4. CASE Advance(w) \/ Fail(w)
    <3>1. pc'[w] = "next" /\ UNCHANGED <<now, jobs, late>>
      BY <2>4, LeaveIs DEF Advance, Fail
    <3>2. QED
      BY <2>4, <3>1 DEF Advance, InTime
  <2>5. CASE CallThrows(w)
    <3>1. UNCHANGED <<now, late>> /\ (UNCHANGED schedule \/ UNCHANGED jobs)
      BY <2>5 DEF CallThrows
    <3>2. UNCHANGED schedule \/ (MoveOn(w) /\ pc'[w] \in {"next", "fail"})
      BY <2>5 DEF CallThrows, Goto, STypeOK
    <3>3. QED
      BY <3>1, <3>2 DEF InTime
  <2>6. QED
    BY <1>3, <2>1, <2>2, <2>3, <2>4, <2>5 DEF Moves, Step
<1>4. ASSUME NEW cond, LateIf(cond) PROVE late = 0 /\ ~cond
  BY <1>1, <1>4 DEF LateIf
<1>5. CASE Tick
  <2>1. late = 0 /\ Claiming = {} /\ UNCHANGED <<schedule, jobs>>
    BY <1>4, <1>5 DEF Tick
  <2>2. QED
    BY <2>1 DEF Claiming, InTime
<1>6. ASSUME NEW s \in Schedules, LeaseRunsOut(s) PROVE InTime
  <2>1. late = 0 /\ ~InHand(s)
    BY <1>4, <1>6 DEF LeaseRunsOut
  <2>2. QED
    BY <1>6, <2>1 DEF LeaseRunsOut, InTime
<1>7. ASSUME NEW s \in Schedules, NEW o \in Slots, JobSteps(s, o) PROVE InTime
  BY <1>7 DEF JobSteps, JobStarts, JobRetries, JobEnds, SetJob, InTime
<1>8. QED
  BY <1>2, <1>3, <1>5, <1>6, <1>7 DEF Next, Moves

LEMMA HoldsStays ==
    ASSUME SInv, InTime, NEW v \in Workers, ExclusiveAt(v), NEW c \in Claim,
           c \in batch[v] \/ (c = cur[v] /\ pc'[v] \notin {"next", "fail"}),
           Holds(v, c)
    PROVE  Holds(v, c)'
<1>1. STypeOK /\ c.schedule \in Schedules
  BY DEF SInv, Claim
<1>2. SUFFICES schedule'[c.schedule] = schedule[c.schedule]
  BY <1>2 DEF Holds
<1>3. CASE UNCHANGED schedule
  BY <1>3
<1>4. ASSUME NEW s \in Schedules, ~InHand(s), schedule' = [schedule EXCEPT ![s].held = FALSE]
      PROVE  schedule'[c.schedule] = schedule[c.schedule]
  <2>1. c.schedule # s
    BY <1>4 DEF InHand
  <2>2. QED
    BY <1>1, <1>4, <2>1 DEF STypeOK
<1>5. ASSUME NEW w \in Workers, NEW p \in picked[w], ClaimSchedule(w, p)
      PROVE  schedule'[c.schedule] = schedule[c.schedule]
  <2>1. c.schedule # p.schedule
    BY <1>5 DEF ClaimSchedule, Claimable, Holds
  <2>2. QED
    BY <1>1, <1>5, <2>1 DEF ClaimSchedule, STypeOK
<1>6. ASSUME NEW w \in Workers, Fail(w) \/ MoveOn(w), pc'[w] \in {"next", "fail"}
      PROVE  schedule'[c.schedule] = schedule[c.schedule]
  <2>1. SUFFICES ASSUME Holds(w, cur[w]), c.schedule = cur[w].schedule PROVE FALSE
    BY <1>1, <1>6 DEF Fail, MoveOn, AdvanceSchedule, STypeOK
  <2>2. w = v
    BY <2>1 DEF Holds
  <2>3. c \in batch[v]
    BY <1>6, <2>2
  <2>4. pc[v] \in Engaged
    BY <1>6, <2>2 DEF Fail, MoveOn, Engaged, Firing
  <2>5. QED
    BY <2>1, <2>2, <2>3, <2>4 DEF ExclusiveAt
<1>7. QED
  BY <1>3, <1>4, <1>5, <1>6 DEF InTime

LEMMA ExclusiveStays ==
    ASSUME SInv, InTime, NEW w \in Workers, ExclusiveAt(w),
           batch'[w] \subseteq batch[w],
           pc'[w] = "claiming" => clock'[w] = now',
           pc'[w] \in Engaged =>
             \/ pc[w] \in Engaged /\ cur'[w] = cur[w] /\ (pc[w] = "fail" => pc'[w] = "fail")
             \/ cur'[w] \in batch[w] /\ batch'[w] = batch[w] \ {cur'[w]}
    PROVE  ExclusiveAt(w)'
<1>1. batch[w] \subseteq Claim /\ (pc[w] \in Engaged => cur[w] \in Claim)
  BY DEF SInv, STypeOK, ClaimsAt
<1>2. \A c \in batch'[w] : Holds(w, c)'
  BY <1>1, HoldsStays DEF ExclusiveAt
<1>3. ASSUME pc'[w] \in Engaged \ {"fail"} PROVE Holds(w, cur[w])'
  <2>1. PICK c \in Claim : /\ c = cur'[w]
                           /\ c \in batch[w] \/ (pc[w] \in Engaged \ {"fail"} /\ c = cur[w])
    BY <1>1, <1>3
  <2>2. Holds(w, c) /\ pc'[w] \notin {"next", "fail"}
    BY <1>3, <2>1 DEF ExclusiveAt, Engaged, Firing, Looping
  <2>3. Holds(w, c)'
    BY <2>1, <2>2, HoldsStays
  <2>4. QED
    BY <2>1, <2>3 DEF Holds
<1>4. \A c, d \in batch'[w] : c.schedule = d.schedule => c = d
  BY DEF ExclusiveAt
<1>5. pc'[w] \in Engaged => \A c \in batch'[w] : c.schedule # cur'[w].schedule
  BY DEF ExclusiveAt
<1>6. QED
  BY <1>2, <1>3, <1>4, <1>5 DEF ExclusiveAt

LEMMA ExclusiveClaim ==
    ASSUME SInv, InTime, NEW w \in Workers, ExclusiveAt(w),
           NEW p \in picked[w], ClaimSchedule(w, p)
    PROVE  ExclusiveAt(w)'
<1>1. STypeOK /\ p.schedule \in Schedules /\ batch[w] \subseteq Claim
  BY DEF SInv, STypeOK
<1> DEFINE new == [schedule |-> p.schedule, token |-> FreshToken,
                   slot |-> schedule[p.schedule].next, last |-> p.last]
<1>2. PICK c : c = new
  OBVIOUS
<1>3. c.schedule = p.schedule /\ c.token = FreshToken
  BY <1>2
<1>4. batch'[w] = batch[w] \cup {c} /\ pc'[w] = "claiming" /\ pc[w] = "claiming"
      /\ clock'[w] = clock[w]
  BY <1>1, <1>2 DEF ClaimSchedule, STypeOK
<1>5. Holds(w, c)'
  BY <1>1, <1>3 DEF ClaimSchedule, Holds, STypeOK
<1>6. \A d \in batch[w] : Holds(w, d)' /\ d.schedule # p.schedule
  <2>1. SUFFICES ASSUME NEW d \in batch[w] PROVE Holds(w, d)' /\ d.schedule # p.schedule
    OBVIOUS
  <2>2. Holds(w, d)
    BY DEF ExclusiveAt
  <2>3. Holds(w, d)'
    BY <1>1, <2>2, HoldsStays
  <2>4. QED
    BY <2>2, <2>3 DEF ClaimSchedule, Claimable, Holds
<1>7. clock'[w] = now'
  BY <1>4 DEF ExclusiveAt, ClaimSchedule
<1>8. pc'[w] \notin Engaged
  BY <1>4 DEF Engaged, Firing, Looping
<1>9. QED
  BY <1>3, <1>4, <1>5, <1>6, <1>7, <1>8 DEF ExclusiveAt

LEMMA ExclusiveKept ==
    ASSUME SInv, InTime, NEW w \in Workers, ExclusiveAt(w), UNCHANGED Local(w) \/ Moves(w)
    PROVE  ExclusiveAt(w)'
<1> USE DEF Engaged, Firing, Looping
<1>1. STypeOK /\ ClaimsAt(w)
  BY DEF SInv
<1>2. CASE UNCHANGED Local(w)
  BY <1>2, ExclusiveStays DEF Local, InTime, ExclusiveAt
<1>3. CASE Poll(w)
  <2>1. batch'[w] = batch[w] /\ pc'[w] = "claiming" /\ clock'[w] = now'
    BY <1>1, <1>3 DEF Poll, Goto, STypeOK
  <2>2. QED
    BY <2>1, ExclusiveStays
<1>4. CASE PolledOut(w) \/ Crash(w) \/ Readback(w)
  <2>1. batch'[w] \subseteq batch[w] /\ pc'[w] \in {"idle", "next"}
    BY <1>1, <1>4 DEF PolledOut, Crash, Readback, Goto, STypeOK
  <2>2. QED
    BY <2>1, ExclusiveStays
<1>5. CASE \E p \in picked[w] : MissSchedule(w, p)
  <2>1. batch' = batch /\ pc'[w] = "claiming" /\ clock'[w] = now'
    BY <1>5 DEF MissSchedule, ExclusiveAt
  <2>2. QED
    BY <2>1, ExclusiveStays
<1>6. ASSUME NEW c \in batch[w], Decide(w, c) \/ DecideThrows(w, c) PROVE ExclusiveAt(w)'
  <2>1. cur'[w] = c /\ batch'[w] = batch[w] \ {c}
    BY <1>1, <1>6 DEF Decide, DecideThrows, STypeOK
  <2>2. pc'[w] \in {"skip", "fail", "fence"}
    BY <1>1, <1>6 DEF Decide, DecideThrows, Goto, STypeOK
  <2>3. QED
    BY <2>1, <2>2, ExclusiveStays
<1>7. CASE Fence(w) \/ Lookup(w) \/ Refence(w) \/ Enqueue(w) \/ EnqueueConflict(w) \/ Close(w)
           \/ (CallThrows(w) /\ ~Leave(w))
  <2>1. UNCHANGED <<batch, cur>>
    BY <1>7 DEF Fence, Lookup, Refence, Enqueue, EnqueueConflict, Close, CallThrows, progress
  <2>2. pc[w] \in Engaged \ {"fail"}
    BY <1>7 DEF Fence, Lookup, Refence, Enqueue, EnqueueConflict, Close, CallThrows, MoveOn
  <2>3. pc'[w] \in Engaged
    BY <1>1, <1>7 DEF Fence, Lookup, Refence, Enqueue, EnqueueConflict, Close, CallThrows,
       NextOccurrence, Goto, STypeOK
  <2>4. QED
    BY <2>1, <2>2, <2>3, ExclusiveStays
<1>8. CASE LeaseLost(w) \/ Advance(w) \/ Fail(w) \/ (CallThrows(w) /\ Leave(w))
  <2>1. Leave(w)
    BY <1>8 DEF LeaseLost, Advance, Fail
  <2>2. QED
    BY <1>1, <2>1, LeaveIs, ExclusiveStays
<1>9. QED
  BY <1>2, <1>3, <1>4, <1>5, <1>6, <1>7, <1>8, ExclusiveClaim DEF Moves, Step

-----------------------------------------------------------------------------
(* The history of a schedule that skips overlaps *)

LEMMA Naturals ==
    ASSUME STypeOK
    PROVE  /\ now \in Nat /\ \A o \in Slots : o \in Nat
           /\ \A w \in Workers : clock[w] \in Nat
           /\ \A s \in Schedules : schedule[s].next \in Slots /\ schedule[s].next \in Nat
           /\ \A s \in Schedules, o \in Slots : RunOf(s, o) \in Nat
<1>1. \A s \in Schedules, o \in Slots : RunOf(s, o) \in Nat
  BY DEF STypeOK, Occurrence, RunOf
<1>2. now \in Nat /\ \A w \in Workers : clock[w] \in Nat
  BY DEF STypeOK
<1>3. \A s \in Schedules : schedule[s].next \in Slots
  BY DEF STypeOK
<1>4. QED
  BY <1>1, <1>2, <1>3, SlotsAssumption

\* Such a schedule fires the occurrence that is due, or queues them all.
LEMMA GivingWayIs ==
    ASSUME STypeOK, NEW s \in Schedules, GivingWay(s)
    PROVE  policy[s].misfire = "fire_now" \/ policy[s].misfire = "queue_all"
BY PoliciesAssumption DEF STypeOK, GivingWay, Policy, Misfires

\* A schedule moves on past the runAt of what it leaves behind.
LEMMA HistoryMoves ==
    ASSUME SInv, UNCHANGED <<policy, jobs>>, Nows, RowChange, NEW s \in Schedules,
           GivingWay(s), HistoryAt(s), \A w \in Workers : OverlapAt(w),
           schedule'[s].next \in Slots
    PROVE  HistoryAt(s)'
<1>1. STypeOK /\ now' \in Nat /\ now <= now'
  BY DEF SInv, STypeOK, Nows
<1>2. PICK next, after \in Nat : next = schedule[s].next /\ after = schedule'[s].next
  BY <1>1, Naturals
<1>3. /\ next <= after
      /\ \A o \in Slots : Exists(s, o) /\ o < after => RunOf(s, o) < after
  <2>1. CASE next = after
    BY <1>2, <2>1 DEF HistoryAt
  <2>2. ASSUME NEW w \in Workers, MoveOn(w), next # after
        PROVE  /\ next <= after
               /\ \A o \in Slots : Exists(s, o) /\ o < after => RunOf(s, o) < after
    <3>1. PICK n \in Slots, status \in {"fired", "skipped"} :
              /\ AdvanceSchedule(w, n, status)
              /\ cur[w] \in Claim /\ cur[w].slot < n
              /\ PolicyOf(w).misfire = "fire_now" => clock[w] < n
              /\ status = "fired" => Exists(cur[w].schedule, cur[w].slot)
              /\ PolicyOf(w).misfire = "queue_all" /\ PolicyOf(w).overlap # "skip" =>
                    \A o \in Slots : cur[w].slot <= o /\ o < n => Exists(cur[w].schedule, o)
      BY <2>2, MoveOnIs, Zenon
    <3>2. Holds(w, cur[w]) /\ s = cur[w].schedule /\ n = after
      BY <1>1, <1>2, <2>2, <3>1 DEF AdvanceSchedule, STypeOK
    <3>3. pc[w] \in Engaged
      BY <2>2 DEF MoveOn, Engaged, Firing
    <3>4. next = cur[w].slot
      BY <1>2, <3>2, <3>3 DEF SInv, ClaimsAt, ClaimAt
    <3>5. \A o \in Slots : Exists(s, o) => RunOf(s, o) <= clock[w]
      BY <3>2, <3>3 DEF OverlapAt, SeesAt, ClaimSees
    <3>6. clock[w] \in Nat /\ \A o \in Slots : RunOf(s, o) \in Nat
      BY <1>1, Naturals
    <3>7. CASE policy[s].misfire = "fire_now"
      <4>1. clock[w] < after
        BY <3>1, <3>2, <3>7 DEF PolicyOf
      <4>2. next < after
        BY <3>1, <3>2, <3>4
      <4>3. QED
        BY <1>2, <3>5, <3>6, <4>1, <4>2
    <3>8. CASE policy[s].misfire = "queue_all"
      <4>1. \A o \in Slots : Exists(s, o) => RunOf(s, o) = o
        BY <3>8 DEF HistoryAt
      <4>2. next < after
        BY <3>1, <3>2, <3>4
      <4>3. QED
        BY <1>2, <4>1, <4>2
    <3>9. QED
      BY <1>1, <3>7, <3>8, GivingWayIs
  <2>3. ASSUME NEW w \in Workers, Fail(w) PROVE next = after
    <3>1. pc[w] \in Engaged /\ AdvanceSchedule(w, cur[w].slot, "failed")
      BY <2>3 DEF Fail, Engaged
    <3>2. \/ schedule'[s] = schedule[s]
          \/ Holds(w, cur[w]) /\ s = cur[w].schedule /\ schedule'[s].next = cur[w].slot
      BY <1>1, <3>1 DEF AdvanceSchedule, STypeOK
    <3>3. QED
      BY <1>2, <3>1, <3>2 DEF SInv, ClaimsAt, ClaimAt
  <2>4. ASSUME NEW t \in Schedules, schedule' = [schedule EXCEPT ![t].held = FALSE]
        PROVE  next = after
    BY <1>1, <1>2, <2>4 DEF STypeOK
  <2>5. ASSUME NEW w \in Workers, NEW p \in picked[w], ClaimSchedule(w, p)
        PROVE  next = after
    BY <1>1, <1>2, <2>5 DEF ClaimSchedule, STypeOK
  <2>6. QED
    BY <1>2, <2>1, <2>2, <2>3, <2>4, <2>5 DEF RowChange
<1>4. \A o, q \in Slots : UnderWay(s, o) /\ Exists(s, q) /\ q # o
                             => RunOf(s, q) < RunOf(s, o)
  BY DEF HistoryAt
<1>5. \A o \in Slots : Exists(s, o) =>
         /\ o <= RunOf(s, o) /\ RunOf(s, o) <= now'
         /\ policy[s].misfire = "queue_all" => RunOf(s, o) = o
  BY <1>1, Naturals DEF HistoryAt
<1>6. \A o, q \in Slots : after <= q /\ q < o /\ Exists(s, o) => Exists(s, q)
  BY <1>1, <1>2, <1>3, Naturals DEF HistoryAt
<1>7. \A o \in Slots : /\ Exists(s, o)' <=> Exists(s, o)
                       /\ UnderWay(s, o)' <=> UnderWay(s, o)
                       /\ RunOf(s, o)' = RunOf(s, o)
  BY DEF Exists, UnderWay, RunOf
<1>8. QED
  BY <1>2, <1>3, <1>4, <1>5, <1>6, <1>7 DEF HistoryAt

\* A job that is started, retried or ended stays where it was in the history.
LEMMA HistoryRuns ==
    ASSUME SInv, UNCHANGED <<policy, schedule>>, Nows, JobsKeep, NEW s \in Schedules,
           HistoryAt(s), \A o \in Slots : Exists(s, o)' => Exists(s, o)
    PROVE  HistoryAt(s)'
<1>1. STypeOK /\ now' \in Nat /\ now <= now'
  BY DEF SInv, STypeOK, Nows
<1>2. \A o \in Slots : /\ Exists(s, o)' <=> Exists(s, o)
                       /\ UnderWay(s, o)' => UnderWay(s, o) /\ Exists(s, o)
                       /\ Exists(s, o) => RunOf(s, o)' = RunOf(s, o)
  <2>1. \A o \in Slots : UnderWay(s, o)' => Exists(s, o)'
    BY DEF UnderWay, Exists, Active
  <2>2. QED
    BY <2>1 DEF JobsKeep, RunOf
<1>3. \A o, q \in Slots : UnderWay(s, o)' /\ Exists(s, q)' /\ q # o
                             => RunOf(s, q)' < RunOf(s, o)'
  BY <1>2 DEF HistoryAt
<1>4. \A o \in Slots : Exists(s, o)' =>
         /\ o <= RunOf(s, o)' /\ RunOf(s, o)' <= now'
         /\ o < schedule[s].next => RunOf(s, o)' < schedule[s].next
         /\ policy[s].misfire = "queue_all" => RunOf(s, o)' = o
  BY <1>1, <1>2, Naturals DEF HistoryAt
<1>5. \A o, q \in Slots : schedule[s].next <= q /\ q < o /\ Exists(s, o)' => Exists(s, q)'
  BY <1>2 DEF HistoryAt
<1>6. QED
  BY <1>3, <1>4, <1>5 DEF HistoryAt

-----------------------------------------------------------------------------
(* An enqueue adds the last job to the history, and the only one under way *)

\* What a worker is about to enqueue comes after all the schedule has.
LEMMA LastOfHistory ==
    ASSUME SInv, NEW w \in Workers, pc[w] \in Looping, ~GivesWay(w),
           GivingWay(cur[w].schedule)
    PROVE  chain[w] \notin Active
<1>1. STypeOK /\ LoopAt(w) /\ cur[w] \in Claim
  BY DueOf DEF SInv, Firing
<1>2. cur[w].schedule \in Schedules
  BY <1>1 DEF Claim
<1>3. CASE PolicyOf(w).misfire = "queue_all"
  BY <1>3 DEF GivesWay, GivingWay, PolicyOf
<1>4. CASE PolicyOf(w).misfire = "fire_now"
  <2>1. cur[w].slot \in todo[w]
    BY <1>1, <1>4, DueOf DEF LoopAt, Firing
  <2>2. chain[w] = "none"
    BY <1>1, <2>1 DEF LoopAt, Firing
  <2>3. QED
    BY <2>2 DEF Active
<1>5. QED
  BY <1>1, <1>2, <1>3, <1>4, GivingWayIs DEF PolicyOf

LEMMA EnqueuesLast ==
    ASSUME SInv, NEW w \in Workers, pc[w] = "enqueue", Holds(w, cur[w]), OverlapAt(w),
           NEW s \in Schedules, s = cur[w].schedule, GivingWay(s), HistoryAt(s),
           NEW at \in Slots, at = At(w), ~Exists(s, at)
    PROVE  /\ \A o \in Slots : ~UnderWay(s, o)
           /\ \A o \in Slots : Exists(s, o) => RunOf(s, o) < RunAt(w)
           /\ \A o \in Slots : schedule[s].next <= o /\ o < at => Exists(s, o)
           /\ schedule[s].next <= at /\ at <= RunAt(w) /\ RunAt(w) <= now /\ RunAt(w) \in Nat
           /\ policy[s].misfire = "queue_all" => RunAt(w) = at
<1>1. STypeOK /\ LoopAt(w) /\ ClaimsAt(w) /\ pc[w] \in Looping /\ pc[w] \in Firing
      /\ pc[w] \in Engaged
  BY DEF SInv, Looping, Firing, Engaged
<1>2. PICK slot \in Slots, n \in Nat : slot = cur[w].slot /\ n = clock[w]
  BY <1>1, Naturals, DueOf DEF Claim
<1>3. /\ at \in todo[w] /\ at \in Due(w) /\ \A o \in todo[w] : at <= o
      /\ slot \in todo[w] => at = slot
      /\ slot <= at /\ at <= n
      /\ \A o \in Slots : slot <= o /\ o < at => o \in Due(w)
  BY <1>1, <1>2, AtIs, DueOf
<1>4. schedule[s].next = slot
  BY <1>1, <1>2 DEF ClaimsAt, ClaimAt
<1>5. at \in Nat /\ slot \in Nat /\ now \in Nat /\ n <= now /\ \A o \in Slots : o \in Nat
  BY <1>1, <1>2, Naturals DEF ClaimsAt
<1>6. ~GivesWay(w) /\ chain[w] \notin Active
  BY <1>1, LastOfHistory DEF LoopAt
<1>7. \A o \in Slots : Exists(s, o) => o < at
  <2>1. SUFFICES ASSUME NEW o \in Slots, Exists(s, o), at < o PROVE FALSE
    BY <1>5
  <2>2. QED
    BY <1>3, <1>4, <2>1 DEF HistoryAt
<1>8. \A o \in Slots : ~UnderWay(s, o)
  <2>1. SUFFICES ASSUME NEW o \in Slots, UnderWay(s, o) PROVE FALSE
    OBVIOUS
  <2>2. Exists(s, o)
    BY <2>1 DEF UnderWay, Exists, Active
  <2>3. o < at /\ ~(at <= o)
    BY <1>5, <1>7, <2>2
  <2>4. o \in todo[w]
    BY <1>1, <1>3, <1>6, <2>1, <2>3 DEF OverlapAt, LeavesEnded
  <2>5. QED
    BY <1>3, <2>3, <2>4
<1>9. RunAt(w) = IF policy[s].misfire = "fire_now" THEN n ELSE at
  BY <1>2 DEF RunAt, PolicyOf
<1>10. policy[s].misfire = "fire_now" => at = slot
  <2>1. SUFFICES ASSUME policy[s].misfire = "fire_now" PROVE at = slot
    OBVIOUS
  <2>2. Due(w) = {slot}
    BY <1>1, <1>2, <2>1, DueOf DEF PolicyOf
  <2>3. QED
    BY <1>3, <2>2
<1>11. \A o \in Slots : Exists(s, o) => RunOf(s, o) < RunAt(w)
  <2>1. SUFFICES ASSUME NEW o \in Slots, Exists(s, o) PROVE RunOf(s, o) < RunAt(w)
    OBVIOUS
  <2>2. o < at /\ RunOf(s, o) \in Nat
    BY <1>1, <1>7, <2>1, Naturals
  <2>3. CASE policy[s].misfire = "queue_all"
    <3>1. RunOf(s, o) = o /\ RunAt(w) = at
      BY <1>9, <2>1, <2>3 DEF HistoryAt
    <3>2. QED
      BY <2>2, <3>1
  <2>4. CASE policy[s].misfire = "fire_now"
    <3>1. RunAt(w) = n /\ at = slot
      BY <1>9, <1>10, <2>4
    <3>2. RunOf(s, o) < slot
      BY <1>4, <2>1, <2>2, <3>1 DEF HistoryAt
    <3>3. QED
      BY <1>3, <1>5, <2>2, <3>1, <3>2
  <2>5. QED
    BY <1>1, <2>3, <2>4, GivingWayIs
<1>12. \A o \in Slots : schedule[s].next <= o /\ o < at => Exists(s, o)
  <2>1. SUFFICES ASSUME NEW o \in Slots, slot <= o, o < at PROVE Exists(s, o)
    BY <1>4
  <2>2. o \in Due(w) \ todo[w]
    BY <1>3, <1>5, <2>1
  <2>3. QED
    BY <1>1, <1>6, <2>2 DEF LoopAt
<1>13. at <= RunAt(w) /\ RunAt(w) <= now /\ RunAt(w) \in Nat
  <2>1. CASE RunAt(w) = n
    BY <1>3, <1>5, <2>1
  <2>2. CASE RunAt(w) = at
    BY <1>3, <1>5, <2>2
  <2>3. QED
    BY <1>9, <2>1, <2>2
<1>14. QED
  BY <1>3, <1>4, <1>8, <1>9, <1>11, <1>12, <1>13

\* The jobs of the other occurrences, and of the other schedules, stay.
LEMMA EnqueuesOne ==
    ASSUME STypeOK, NEW w \in Workers, jobs' = JobsAfterEnqueue(w),
           NEW s \in Schedules, NEW o \in Slots
    PROVE  \/ jobs'[s, o] = jobs[s, o]
           \/ /\ s = cur[w].schedule /\ o = At(w) /\ ~Exists(s, o)
              /\ jobs'[s, o].runAt = RunAt(w)
BY DEF JobsAfterEnqueue, STypeOK, Occurrence, Exists

LEMMA HistoryGrows ==
    ASSUME SInv, UNCHANGED <<policy, schedule>>, Nows, NEW w \in Workers, pc[w] = "enqueue",
           jobs' = JobsAfterEnqueue(w), Holds(w, cur[w]), OverlapAt(w),
           NEW s \in Schedules, GivingWay(s), HistoryAt(s)
    PROVE  HistoryAt(s)'
<1>1. STypeOK /\ now' \in Nat /\ now <= now'
  BY DEF SInv, STypeOK, Nows
<1>2. JobsKeep
  BY JobsKept DEF JobChange
<1>3. CASE \A o \in Slots : Exists(s, o)' => Exists(s, o)
  BY <1>2, <1>3, HistoryRuns
<1>4. ASSUME NEW at \in Slots, ~Exists(s, at), Exists(s, at)' PROVE HistoryAt(s)'
  <2>1. PICK run : run = RunAt(w)
    OBVIOUS
  <2>2. s = cur[w].schedule /\ at = At(w) /\ RunOf(s, at)' = run
    <3>1. jobs'[s, at] # jobs[s, at]
      BY <1>4 DEF Exists
    <3>2. /\ s = cur[w].schedule /\ at = At(w)
          /\ jobs'[s, at].runAt = RunAt(w)
      BY <1>1, <3>1, EnqueuesOne
    <3>3. RunOf(s, at)' = RunAt(w)
      BY <3>2, Zenon DEF RunOf
    <3>4. QED
      BY <2>1, <3>2, <3>3, Zenon
  <2>3. \A o \in Slots : o # at => /\ Exists(s, o)' <=> Exists(s, o)
                                   /\ UnderWay(s, o)' <=> UnderWay(s, o)
                                   /\ RunOf(s, o)' = RunOf(s, o)
    BY <1>1, <2>2, EnqueuesOne DEF Exists, UnderWay, RunOf
  <2>4. /\ \A o \in Slots : ~UnderWay(s, o)
        /\ \A o \in Slots : Exists(s, o) => RunOf(s, o) < run
        /\ \A o \in Slots : schedule[s].next <= o /\ o < at => Exists(s, o)
        /\ schedule[s].next <= at /\ at <= run /\ run <= now /\ run \in Nat
        /\ policy[s].misfire = "queue_all" => run = at
    <3>1. /\ \A o \in Slots : ~UnderWay(s, o)
          /\ \A o \in Slots : Exists(s, o) => RunOf(s, o) < RunAt(w)
          /\ \A o \in Slots : schedule[s].next <= o /\ o < at => Exists(s, o)
          /\ schedule[s].next <= at /\ at <= RunAt(w) /\ RunAt(w) <= now /\ RunAt(w) \in Nat
          /\ policy[s].misfire = "queue_all" => RunAt(w) = at
      BY <1>4, <2>2, EnqueuesLast, Zenon
    <3>2. QED
      BY <2>1, <3>1, Zenon
  <2>5. now \in Nat /\ schedule[s].next \in Nat /\ at \in Nat
        /\ \A o \in Slots : o \in Nat /\ RunOf(s, o) \in Nat
    BY <1>1, Naturals
  <2>6. \A o, q \in Slots : UnderWay(s, o)' /\ Exists(s, q)' /\ q # o
                               => RunOf(s, q)' < RunOf(s, o)'
    BY <2>2, <2>3, <2>4
  <2>7. \A o \in Slots : Exists(s, o)' =>
           /\ o <= RunOf(s, o)' /\ RunOf(s, o)' <= now'
           /\ o < schedule[s].next => RunOf(s, o)' < schedule[s].next
           /\ policy[s].misfire = "queue_all" => RunOf(s, o)' = o
    <3>1. SUFFICES ASSUME NEW o \in Slots, Exists(s, o)'
                   PROVE  /\ o <= RunOf(s, o)' /\ RunOf(s, o)' <= now'
                          /\ o < schedule[s].next => RunOf(s, o)' < schedule[s].next
                          /\ policy[s].misfire = "queue_all" => RunOf(s, o)' = o
      OBVIOUS
    <3>2. CASE o = at
      BY <1>1, <2>2, <2>4, <2>5, <3>2
    <3>3. CASE o # at
      BY <1>1, <2>3, <2>5, <3>1, <3>3 DEF HistoryAt
    <3>4. QED
      BY <3>2, <3>3
  <2>8. \A o, q \in Slots : schedule[s].next <= q /\ q < o /\ Exists(s, o)' => Exists(s, q)'
    <3>1. SUFFICES ASSUME NEW o \in Slots, NEW q \in Slots, schedule[s].next <= q, q < o,
                          Exists(s, o)'
                   PROVE  Exists(s, q)'
      OBVIOUS
    <3>2. CASE o = at
      BY <2>3, <2>4, <2>5, <3>1, <3>2
    <3>3. CASE o # at
      <4>1. Exists(s, q)
        BY <2>3, <3>1, <3>3 DEF HistoryAt
      <4>2. QED
        BY <1>2, <4>1 DEF JobsKeep
    <3>4. QED
      BY <3>2, <3>3
  <2>9. QED
    BY <2>6, <2>7, <2>8 DEF HistoryAt
<1>5. QED
  BY <1>3, <1>4

-----------------------------------------------------------------------------
(* What a worker knows of the history of its claims *)

LEMMA RunAtIs ==
    ASSUME SInv, NEW w \in Workers, pc[w] \in Looping
    PROVE  RunAt(w) <= clock[w]
<1>1. At(w) \in Due(w) /\ clock[w] \in Nat
  BY AtIs, Naturals DEF SInv
<1>2. At(w) <= clock[w]
  BY <1>1, DueOf DEF Firing
<1>3. QED
  BY <1>1, <1>2 DEF RunAt

\* A job that was not there comes from the worker that enqueues it.
LEMMA JobsAppear ==
    ASSUME STypeOK, JobChange, NEW s \in Schedules, NEW o \in Slots,
           ~Exists(s, o), Exists(s, o)'
    PROVE  \E w \in Workers : /\ pc[w] = "enqueue"
                              /\ s = cur[w].schedule /\ o = At(w)
                              /\ RunOf(s, o)' = RunAt(w)
<1>1. jobs'[s, o] # jobs[s, o]
  BY DEF Exists
<1>2. ASSUME NEW t \in Schedules, NEW q \in Slots, JobSteps(t, q) PROVE FALSE
  <2>1. jobs[t, q].status \in Active
    BY <1>2 DEF JobSteps, JobStarts, JobRetries, JobEnds, Active
  <2>2. <<t, q>> # <<s, o>>
    BY <2>1 DEF Exists, Active
  <2>3. jobs'[s, o] = jobs[s, o]
    BY <1>2, <2>2 DEF JobSteps, JobStarts, JobRetries, JobEnds, SetJob, STypeOK, Occurrence
  <2>4. QED
    BY <1>1, <2>3
<1>3. PICK w \in Workers : pc[w] = "enqueue" /\ jobs' = JobsAfterEnqueue(w)
  BY <1>1, <1>2 DEF JobChange
<1>4. s = cur[w].schedule /\ o = At(w) /\ jobs'[s, o].runAt = RunAt(w)
  BY <1>1, <1>3, EnqueuesOne
<1>5. RunOf(s, o)' = RunAt(w)
  BY <1>4, Zenon DEF RunOf
<1>6. QED
  BY <1>3, <1>4, <1>5, Zenon

\* While one worker holds a schedule, no other enqueues for it.
LEMMA AppearsToHolder ==
    ASSUME STypeOK, JobChange, \A u \in Workers : ExclusiveAt(u),
           NEW v \in Workers, NEW c \in Claim, Holds(v, c), NEW o \in Slots,
           ~Exists(c.schedule, o), Exists(c.schedule, o)'
    PROVE  /\ pc[v] = "enqueue" /\ c.schedule = cur[v].schedule /\ o = At(v)
           /\ RunOf(c.schedule, o)' = RunAt(v)
<1>1. PICK s \in Schedules : s = c.schedule
  BY DEF Claim
<1>2. PICK w \in Workers : /\ pc[w] = "enqueue"
                           /\ s = cur[w].schedule /\ o = At(w)
                           /\ RunOf(s, o)' = RunAt(w)
  BY <1>1, JobsAppear
<1>3. Holds(w, cur[w])
  BY <1>2 DEF ExclusiveAt, Engaged, Firing, Looping
<1>4. w = v
  BY <1>1, <1>2, <1>3 DEF Holds
<1>5. QED
  BY <1>1, <1>2, <1>4

LEMMA SeesStays ==
    ASSUME SInv, JobChange, RowsKeep, \A u \in Workers : ExclusiveAt(u),
           NEW v \in Workers, NEW c \in Claim, c \in batch[v] \/ c = cur[v],
           ClaimSees(v, c), clock'[v] = clock[v]
    PROVE  ClaimSees(v, c)'
<1>1. STypeOK /\ JobsKeep
  BY JobsKept DEF SInv
<1>2. PICK s \in Schedules : s = c.schedule
  BY DEF Claim
<1>3. SUFFICES ASSUME Holds(v, c)', NEW o \in Slots, Exists(s, o)'
               PROVE  RunOf(s, o)' <= clock[v]
  BY <1>2 DEF ClaimSees
<1>4. Holds(v, c)
  BY <1>3 DEF RowsKeep
<1>5. CASE Exists(s, o)
  <2>1. RunOf(s, o) <= clock[v]
    BY <1>2, <1>4, <1>5 DEF ClaimSees
  <2>2. RunOf(s, o)' = RunOf(s, o)
    BY <1>1, <1>5 DEF JobsKeep, RunOf
  <2>3. QED
    BY <2>1, <2>2
<1>6. CASE ~Exists(s, o)
  <2>1. pc[v] \in Looping /\ RunOf(s, o)' = RunAt(v)
    BY <1>1, <1>2, <1>3, <1>4, <1>6, AppearsToHolder DEF Looping
  <2>2. RunAt(v) <= clock[v]
    BY <2>1, RunAtIs
  <2>3. QED
    BY <2>1, <2>2
<1>7. QED
  BY <1>5, <1>6

LEMMA SeesStay ==
    ASSUME SInv, JobChange, RowsKeep, UNCHANGED policy, \A u \in Workers : ExclusiveAt(u),
           NEW w \in Workers, SeesAt(w),
           batch'[w] \subseteq batch[w],
           batch'[w] # {} \/ pc'[w] \in Engaged => clock'[w] = clock[w],
           pc'[w] \in Engaged => (pc[w] \in Engaged /\ cur'[w] = cur[w]) \/ cur'[w] \in batch[w]
    PROVE  SeesAt(w)'
<1>1. batch[w] \subseteq Claim /\ (pc[w] \in Engaged => cur[w] \in Claim)
  BY DEF SInv, STypeOK, ClaimsAt
<1>2. ASSUME NEW c \in batch'[w], GivingWay(c.schedule)' PROVE ClaimSees(w, c)'
  <2>1. ClaimSees(w, c)
    BY <1>2 DEF SeesAt, GivingWay
  <2>2. QED
    BY <1>1, <1>2, <2>1, SeesStays
<1>3. ASSUME pc'[w] \in Engaged, GivingWay(cur[w].schedule)' PROVE ClaimSees(w, cur[w])'
  <2>1. PICK c \in Claim : c = cur'[w] /\ (c \in batch[w] \/ (pc[w] \in Engaged /\ c = cur[w]))
    BY <1>1, <1>3
  <2>2. ClaimSees(w, c)
    BY <1>3, <2>1 DEF SeesAt, GivingWay
  <2>3. ClaimSees(w, c)'
    BY <1>3, <2>1, <2>2, SeesStays
  <2>4. QED
    BY <2>1, <2>3 DEF ClaimSees, Holds, Exists, RunOf
<1>4. QED
  BY <1>2, <1>3 DEF SeesAt

\* A claim is made at the clock, after all the schedule has.
LEMMA SeesClaim ==
    ASSUME SInv, JobChange, RowsKeep, UNCHANGED policy, \A u \in Workers : ExclusiveAt(u),
           \A s \in Schedules : GivingWay(s) => HistoryAt(s),
           NEW w \in Workers, SeesAt(w), NEW p \in picked[w], ClaimSchedule(w, p)
    PROVE  SeesAt(w)'
<1>1. STypeOK /\ p.schedule \in Schedules /\ batch[w] \subseteq Claim
  BY DEF SInv, STypeOK
<1> DEFINE new == [schedule |-> p.schedule, token |-> FreshToken,
                   slot |-> schedule[p.schedule].next, last |-> p.last]
<1>2. PICK c : c = new
  OBVIOUS
<1>3. PICK s \in Schedules : s = c.schedule
  BY <1>1, <1>2
<1>4. /\ batch'[w] = batch[w] \cup {c} /\ pc'[w] = "claiming" /\ clock'[w] = clock[w]
      /\ clock[w] = now /\ jobs' = jobs
  BY <1>1, <1>2 DEF ClaimSchedule, STypeOK, ExclusiveAt
<1>5. GivingWay(s) => ClaimSees(w, c)'
  <2>1. SUFFICES ASSUME GivingWay(s), NEW o \in Slots, Exists(s, o)'
                 PROVE  RunOf(s, o)' <= clock'[w]
    BY <1>3 DEF ClaimSees
  <2>2. Exists(s, o) /\ RunOf(s, o)' = RunOf(s, o)
    BY <1>4, <2>1 DEF Exists, RunOf
  <2>3. RunOf(s, o) <= now
    BY <2>1, <2>2 DEF HistoryAt
  <2>4. QED
    BY <1>4, <2>2, <2>3
<1>6. \A d \in batch[w] : GivingWay(d.schedule) => ClaimSees(w, d)'
  <2>1. SUFFICES ASSUME NEW d \in batch[w], GivingWay(d.schedule) PROVE ClaimSees(w, d)'
    OBVIOUS
  <2>2. d \in Claim /\ ClaimSees(w, d)
    BY <1>1, <2>1 DEF SeesAt
  <2>3. QED
    BY <1>4, <2>2, SeesStays
<1>7. pc'[w] \notin Engaged
  BY <1>4 DEF Engaged, Firing, Looping
<1>8. \A d : GivingWay(d.schedule)' <=> GivingWay(d.schedule)
  BY DEF GivingWay
<1> HIDE DEF new
<1>9. QED
  BY <1>3, <1>4, <1>5, <1>6, <1>7, <1>8 DEF SeesAt

LEMMA SeesKept ==
    ASSUME SInv, JobChange, RowsKeep, UNCHANGED policy, \A u \in Workers : ExclusiveAt(u),
           \A s \in Schedules : GivingWay(s) => HistoryAt(s),
           NEW w \in Workers, SeesAt(w), UNCHANGED Local(w) \/ Moves(w)
    PROVE  SeesAt(w)'
<1> USE DEF Engaged, Firing, Looping
<1>1. STypeOK /\ ClaimsAt(w)
  BY DEF SInv
<1>2. CASE UNCHANGED Local(w)
  BY <1>2, SeesStay DEF Local
<1>3. CASE Poll(w) \/ PolledOut(w) \/ Crash(w)
  <2>1. batch'[w] = {} /\ pc'[w] \in {"claiming", "idle"}
    BY <1>1, <1>3 DEF Poll, PolledOut, Crash, Goto, ClaimsAt, STypeOK
  <2>2. QED
    BY <2>1, SeesStay
<1>4. CASE Readback(w) \/ \E p \in picked[w] : MissSchedule(w, p)
  <2>1. batch'[w] \subseteq batch[w] /\ pc'[w] \in {"claiming", "next"} /\ clock'[w] = clock[w]
    BY <1>1, <1>4 DEF Readback, MissSchedule, Goto, STypeOK
  <2>2. QED
    BY <2>1, SeesStay
<1>5. ASSUME NEW c \in batch[w], Decide(w, c) \/ DecideThrows(w, c) PROVE SeesAt(w)'
  <2>1. cur'[w] = c /\ clock'[w] = clock[w] /\ batch'[w] \subseteq batch[w]
    BY <1>1, <1>5 DEF Decide, DecideThrows, STypeOK
  <2>2. QED
    BY <2>1, SeesStay
<1>6. CASE Fence(w) \/ Lookup(w) \/ Refence(w) \/ Enqueue(w) \/ EnqueueConflict(w) \/ Close(w)
           \/ (CallThrows(w) /\ ~Leave(w))
  <2>1. UNCHANGED <<clock, batch, cur>>
    BY <1>6 DEF Fence, Lookup, Refence, Enqueue, EnqueueConflict, Close, CallThrows, progress
  <2>2. pc[w] \in Engaged
    BY <1>6 DEF Fence, Lookup, Refence, Enqueue, EnqueueConflict, Close, CallThrows, MoveOn
  <2>3. QED
    BY <2>1, <2>2, SeesStay
<1>7. CASE LeaseLost(w) \/ Advance(w) \/ Fail(w) \/ (CallThrows(w) /\ Leave(w))
  <2>1. Leave(w)
    BY <1>7 DEF LeaseLost, Advance, Fail
  <2>2. QED
    BY <1>1, <2>1, LeaveIs, SeesStay
<1>8. QED
  BY <1>2, <1>3, <1>4, <1>5, <1>6, <1>7, SeesClaim DEF Moves, Step

\* A job that comes under way is one the loop is still at.
LEMMA EndedStay ==
    ASSUME SInv, JobChange, UNCHANGED policy, \A u \in Workers : ExclusiveAt(u),
           NEW w \in Workers, LeavesEnded(w), pc[w] \in Firing,
           UNCHANGED <<cur[w], todo[w], chain[w]>>
    PROVE  LeavesEnded(w)'
<1>1. STypeOK /\ JobsKeep
  BY JobsKept DEF SInv
<1>2. PICK c \in Claim : c = cur[w] /\ c = cur'[w]
  BY DueOf
<1>3. PICK s \in Schedules : s = c.schedule
  BY DEF Claim
<1>4. SUFFICES ASSUME GivingWay(s), chain[w] \notin Active,
                      NEW o \in Slots, NEW t \in todo[w], UnderWay(s, o)', o < t
               PROVE  o \in todo[w]
  BY <1>2, <1>3 DEF LeavesEnded, GivingWay
<1>5. Holds(w, c)
  BY <1>2 DEF ExclusiveAt, Engaged, Firing, Looping
<1>6. CASE UnderWay(s, o)
  BY <1>2, <1>3, <1>4, <1>6 DEF LeavesEnded
<1>7. CASE ~UnderWay(s, o)
  <2>1. ~Exists(s, o) /\ Exists(s, o)'
    <3>1. ~Exists(s, o)
      BY <1>1, <1>4, <1>7 DEF JobsKeep
    <3>2. QED
      BY <1>4, <3>1 DEF UnderWay, Exists, Active
  <2>2. pc[w] = "enqueue" /\ o = At(w)
    BY <1>1, <1>3, <1>5, <2>1, AppearsToHolder
  <2>3. QED
    BY <2>2, AtIs DEF Looping
<1>8. QED
  BY <1>6, <1>7

\* What a decision to fire rests on: no earlier job is under way.
LEMMA EndedDecided ==
    ASSUME SInv, UNCHANGED policy, \A u \in Workers : ExclusiveAt(u),
           \A s \in Schedules : GivingWay(s) => HistoryAt(s),
           NEW w \in Workers, NEW c \in batch[w], Decide(w, c)
    PROVE  LeavesEnded(w)'
<1>1. STypeOK /\ ClaimsAt(w) /\ c \in Claim /\ Holds(w, c)
  BY DEF SInv, STypeOK, ExclusiveAt
<1>2. PICK s \in Schedules, slot \in Slots : s = c.schedule /\ slot = c.slot
  BY <1>1 DEF Claim
<1>3. PICK p \in Policy : p = policy[s]
  BY <1>1, PoliciesAssumption DEF STypeOK
<1>4. /\ schedule[s].next = slot /\ slot <= clock[w] /\ clock[w] \in 0..MaxNow
      /\ slot \in Nat /\ clock[w] \in Nat
  BY <1>1, <1>2, Naturals DEF ClaimsAt, ClaimAt, STypeOK
<1> DEFINE D == DueOccurrences(p, c, clock[w])
           before == LatestPrior(s, slot)
<1>5. /\ D \subseteq Slots
      /\ \A o \in Slots, g \in D : slot <= o /\ o < g => o \in D
  BY <1>1, <1>2, <1>4, DueIs
<1>6. cur'[w] = c /\ jobs' = jobs /\ prior'[w] = before
  BY <1>1, <1>2 DEF Decide, STypeOK
<1>7. pc'[w] \in Firing =>
        /\ ShouldFire(p, slot, c.last, clock[w], before) \in {"fire", "queue"}
        /\ todo'[w] = D
  <2>1. \/ pc'[w] \in {"skip", "fail"}
        \/ /\ ShouldFire(p, slot, c.last, clock[w], prior'[w]) \in {"fire", "queue"}
           /\ todo'[w] = D
    BY <1>1, <1>2, <1>3 DEF Decide, Goto, STypeOK
  <2>2. QED
    BY <1>6, <2>1 DEF Firing, Looping
<1> HIDE DEF D
<1>8. SUFFICES ASSUME pc'[w] \in Firing, GivingWay(s),
                      NEW o \in Slots, NEW t \in D, UnderWay(s, o), o < t
               PROVE  o \in D
  <2>1. \A o \in Slots : UnderWay(s, o)' <=> UnderWay(s, o)
    BY <1>6 DEF UnderWay
  <2>2. GivingWay(s)' <=> GivingWay(s)
    BY DEF GivingWay
  <2>3. cur'[w].schedule = s
    BY <1>2, <1>6
  <2>4. QED
    BY <1>7, <1>8, <2>1, <2>2, <2>3 DEF LeavesEnded
<1>9. o \in Nat /\ (o < slot \/ slot <= o)
  BY <1>1, <1>4, Naturals
<1>10. CASE slot <= o
  BY <1>5, <1>8, <1>10
<1>11. CASE o < slot
  <2>1. p.overlap = "skip" /\ p.misfire # "skip"
    BY <1>3, <1>8 DEF GivingWay
  <2>2. before \notin Active
    <3>1. ~(clock[w] < slot)
      BY <1>4
    <3>2. QED
      BY <1>7, <1>8, <2>1, <3>1 DEF ShouldFire
  <2>3. Exists(s, o) /\ RunOf(s, o) < slot
    <3>1. Exists(s, o)
      BY <1>8 DEF UnderWay, Exists, Active
    <3>2. QED
      BY <1>4, <1>8, <1>11, <3>1 DEF HistoryAt
  <2>4. PICK last \in Slots : /\ Exists(s, last) /\ RunOf(s, o) <= RunOf(s, last)
                              /\ before = jobs[s, last].status
    <3>1. jobs[s, o].runAt < slot
      BY <2>3 DEF RunOf
    <3>2. \E last \in Slots :
             /\ Exists(s, last) /\ jobs[s, o].runAt <= jobs[s, last].runAt
             /\ jobs[s, last].runAt < slot /\ LatestPrior(s, slot) = jobs[s, last].status
      BY <1>1, <1>4, <2>3, <3>1, LatestPriorIs, Zenon
    <3>3. QED
      BY <3>2 DEF RunOf
  <2>5. CASE last = o
    BY <1>8, <2>2, <2>4, <2>5 DEF UnderWay
  <2>6. CASE last # o
    <3>1. RunOf(s, last) < RunOf(s, o)
      BY <1>8, <2>4, <2>6 DEF HistoryAt
    <3>2. RunOf(s, last) \in Nat /\ RunOf(s, o) \in Nat
      BY <1>1, Naturals
    <3>3. RunOf(s, o) <= RunOf(s, last)
      BY <2>4, Zenon
    <3>4. QED
      BY <3>1, <3>2, <3>3
  <2>7. QED
    BY <2>5, <2>6
<1>12. QED
  BY <1>9, <1>10, <1>11

LEMMA EndedKept ==
    ASSUME SInv, JobChange, UNCHANGED policy, \A u \in Workers : ExclusiveAt(u),
           \A s \in Schedules : GivingWay(s) => HistoryAt(s),
           NEW w \in Workers, LeavesEnded(w), UNCHANGED Local(w) \/ Moves(w)
    PROVE  LeavesEnded(w)'
<1>1. STypeOK /\ LoopAt(w) /\ Looping \subseteq Firing
  BY DEF SInv, Firing
<1>2. ASSUME pc'[w] \notin Firing PROVE LeavesEnded(w)'
  BY <1>2 DEF LeavesEnded
<1>3. CASE UNCHANGED Local(w)
  <2>1. UNCHANGED <<pc[w], cur[w], todo[w], chain[w]>>
    BY <1>3 DEF Local
  <2>2. QED
    BY <1>2, <2>1, EndedStay
<1>4. CASE \/ Poll(w) \/ Readback(w) \/ PolledOut(w) \/ Crash(w) \/ EnqueueConflict(w)
           \/ \E p \in picked[w] : ClaimSchedule(w, p) \/ MissSchedule(w, p)
           \/ \E c \in batch[w] : DecideThrows(w, c)
  <2>1. pc'[w] \in {"claiming", "next", "idle", "fail"}
    BY <1>1, <1>4 DEF Poll, Readback, PolledOut, Crash, EnqueueConflict, ClaimSchedule,
       MissSchedule, DecideThrows, Goto, STypeOK
  <2>2. QED
    BY <1>2, <2>1 DEF Firing, Looping
<1>5. CASE LeaseLost(w) \/ Advance(w) \/ Fail(w) \/ CallThrows(w)
  <2>1. pc'[w] \in {"next", "fail"}
    BY <1>1, <1>5 DEF LeaseLost, Advance, Fail, CallThrows, Leave, Goto, STypeOK
  <2>2. QED
    BY <1>2, <2>1 DEF Firing, Looping
<1>6. CASE Fence(w) \/ Lookup(w) \/ Close(w)
  <2>1. UNCHANGED <<cur, todo, chain>> /\ pc[w] \in Firing
    BY <1>6 DEF Fence, Lookup, Close, progress, Firing, Looping
  <2>2. QED
    BY <2>1, EndedStay
<1>7. CASE Refence(w)
  <2>1. pc[w] \in Looping /\ pc[w] = "refence" /\ UNCHANGED <<jobs, cur>>
    BY <1>7 DEF Refence, Looping
  <2>2. CASE OverlapsChain(w) /\ UNCHANGED chain
    BY <2>1, <2>2, OverlapsChainIs DEF LeavesEnded, GivesWay
  <2>3. CASE ~OverlapsChain(w) /\ UNCHANGED <<todo, chain>>
    BY <1>1, <2>1, <2>3, EndedStay
  <2>4. CASE /\ ~OverlapsChain(w) /\ found[w] # "none"
             /\ chain' = [chain EXCEPT ![w] = found[w]] /\ NextOccurrence(w)
    <3>1. PICK c \in Claim, at \in Slots : c = cur[w] /\ c = cur'[w] /\ at = At(w)
      BY <1>1, <2>1, DueOf, AtIs
    <3>2. PICK s \in Schedules : s = c.schedule
      BY DEF Claim
    <3>3. todo'[w] = todo[w] \ {at} /\ chain'[w] = found[w] /\ found[w] \in Priors
      BY <1>1, <2>4, <3>1 DEF NextOccurrence, STypeOK
    <3>4. SUFFICES ASSUME GivingWay(s), found[w] \notin Active,
                          NEW o \in Slots, NEW t \in todo[w], UnderWay(s, o), o < t
                   PROVE  o \in todo[w] \ {at}
      <4>1. \A o \in Slots : UnderWay(s, o)' <=> UnderWay(s, o)
        BY <2>1 DEF UnderWay
      <4>2. GivingWay(s)' <=> GivingWay(s)
        BY DEF GivingWay
      <4>3. QED
        BY <3>1, <3>2, <3>3, <3>4, <4>1, <4>2 DEF LeavesEnded
    <3>5. found[w] = "ended"
      BY <2>4, <3>3, <3>4 DEF Priors, Active
    <3>6. o # at
      BY <1>1, <2>1, <3>1, <3>2, <3>4, <3>5 DEF LoopAt
    <3>7. chain[w] \notin Active
      BY <2>1, <2>4, <3>1, <3>2, <3>4, NotOverlapsChainIs, LastOfHistory
    <3>8. QED
      BY <1>1, <2>1, <3>1, <3>2, <3>4, <3>6, <3>7 DEF LeavesEnded
  <2>5. QED
    BY <1>7, <2>2, <2>3, <2>4 DEF Refence
<1>8. CASE Enqueue(w)
  <2>1. chain'[w] \in Active
    BY <1>1, <1>8 DEF Enqueue, STypeOK, Active
  <2>2. QED
    BY <2>1 DEF LeavesEnded
<1>9. QED
  BY <1>3, <1>4, <1>5, <1>6, <1>7, <1>8, EndedDecided DEF Moves, Step

-----------------------------------------------------------------------------
(* One job at a time *)

LEMMA HistoryKept ==
    ASSUME SInv, InTime, Nows, RowChange, JobChange, UNCHANGED policy, STypeOK',
           \A u \in Workers : ExclusiveAt(u) /\ OverlapAt(u),
           NEW s \in Schedules, GivingWay(s), HistoryAt(s)
    PROVE  HistoryAt(s)'
<1>1. schedule'[s].next \in Slots
  BY DEF STypeOK
<1>2. CASE UNCHANGED jobs
  BY <1>1, <1>2, HistoryMoves
<1>3. CASE UNCHANGED schedule
  <2>1. CASE \A o \in Slots : Exists(s, o)' => Exists(s, o)
    BY <1>3, <2>1, JobsKept, HistoryRuns
  <2>2. ASSUME NEW o \in Slots, ~Exists(s, o), Exists(s, o)' PROVE HistoryAt(s)'
    <3>1. ~UNCHANGED jobs /\ ~\E t \in Schedules : \E q \in Slots : JobSteps(t, q)
      <4>1. jobs'[s, o] # jobs[s, o]
        BY <2>2 DEF Exists
      <4>2. ASSUME NEW t \in Schedules, NEW q \in Slots, JobSteps(t, q) PROVE FALSE
        BY <2>2, <4>1, <4>2 DEF JobSteps, JobStarts, JobRetries, JobEnds, SetJob, Active, SInv,
           STypeOK, Occurrence, Exists
      <4>3. QED
        BY <4>1, <4>2
    <3>2. PICK w \in Workers : pc[w] = "enqueue" /\ jobs' = JobsAfterEnqueue(w)
      BY <3>1 DEF JobChange
    <3>3. Holds(w, cur[w])
      BY <3>2 DEF ExclusiveAt, Engaged, Firing, Looping
    <3>4. QED
      BY <1>3, <3>2, <3>3, HistoryGrows
  <2>3. QED
    BY <2>1, <2>2
<1>4. QED
  BY <1>2, <1>3 DEF InTime

LEMMA OInitially == Init => OInv
<1> SUFFICES ASSUME Init PROVE OInv
  OBVIOUS
<1>1. \A w \in Workers : pc[w] = "idle" /\ batch[w] = {}
  BY DEF Init
<1>2. \A w \in Workers : ExclusiveAt(w) /\ OverlapAt(w)
  BY <1>1 DEF ExclusiveAt, OverlapAt, SeesAt, LeavesEnded, Engaged, Firing, Looping
<1>3. \A s \in Schedules, o \in Slots : ~Exists(s, o) /\ ~UnderWay(s, o)
  BY DEF Init, Exists, UnderWay, Occurrence, NoJob, Active
<1>4. \A s \in Schedules : HistoryAt(s)
  BY <1>3 DEF HistoryAt
<1>5. QED
  BY <1>2, <1>4, SInitially DEF OInv, Exclusive, Apart

LEMMA OInductive == OInv /\ [Next]_svars => OInv'
<1> SUFFICES ASSUME OInv, [Next]_svars PROVE OInv'
  OBVIOUS
<1>1. SInv /\ STypeOK /\ SInv' /\ STypeOK'
  BY SInductive DEF OInv, SInv
<1>2. CASE late' # 0
  BY <1>1, <1>2 DEF OInv, Exclusive, Apart
<1>3. CASE late' = 0
  <2>1. InTime
    BY <1>1, <1>3, InTimeIs
  <2>2. /\ UNCHANGED policy /\ Nows /\ RowChange /\ JobChange
        /\ \A w \in Workers : UNCHANGED Local(w) \/ Moves(w)
    BY <1>1, StepsAre
  <2>3. RowsKeep
    BY <1>1, <2>2, RowsKept
  <2>4. /\ \A s \in Schedules : GivingWay(s) => HistoryAt(s)
        /\ \A w \in Workers : ExclusiveAt(w) /\ OverlapAt(w)
    BY <2>1 DEF OInv, Exclusive, Apart, InTime
  <2>5. \A w \in Workers : ExclusiveAt(w)'
    BY <1>1, <2>1, <2>2, <2>4, ExclusiveKept
  <2>6. \A w \in Workers : OverlapAt(w)'
    BY <1>1, <2>2, <2>3, <2>4, SeesKept, EndedKept DEF OverlapAt
  <2>7. \A s \in Schedules : GivingWay(s)' => HistoryAt(s)'
    BY <1>1, <2>1, <2>2, <2>4, HistoryKept DEF GivingWay
  <2>8. QED
    BY <1>1, <2>5, <2>6, <2>7 DEF OInv, Exclusive, Apart
<1>4. QED
  BY <1>2, <1>3

LEMMA OneUnderWay ==
    ASSUME OInv, late = 0, NEW s \in Schedules, GivingWay(s)
    PROVE  Cardinality(ActiveOccurrences(s)) <= 1
<1>1. STypeOK /\ HistoryAt(s)
  BY DEF OInv, SInv, Apart
<1>2. \A o, q \in ActiveOccurrences(s) : o = q
  <2>1. SUFFICES ASSUME NEW o \in Slots, NEW q \in Slots, UnderWay(s, o), UnderWay(s, q), o # q
                 PROVE  FALSE
    BY DEF ActiveOccurrences, UnderWay
  <2>2. Exists(s, o) /\ Exists(s, q)
    BY <2>1 DEF UnderWay, Exists, Active
  <2>3. RunOf(s, o) < RunOf(s, q) /\ RunOf(s, q) < RunOf(s, o)
    BY <1>1, <2>1, <2>2 DEF HistoryAt
  <2>4. RunOf(s, o) \in Nat /\ RunOf(s, q) \in Nat
    BY <1>1, Naturals
  <2>5. QED
    BY <2>3, <2>4
<1>3. CASE ActiveOccurrences(s) = {}
  BY <1>3, FS_EmptySet
<1>4. ASSUME NEW o \in ActiveOccurrences(s) PROVE Cardinality(ActiveOccurrences(s)) <= 1
  <2>1. ActiveOccurrences(s) = {o}
    BY <1>2, <1>4
  <2>2. QED
    BY <2>1, FS_Singleton
<1>5. QED
  BY <1>3, <1>4

\* A schedule that skips overlaps has one job under way at a time, in every
\* behaviour in which no worker outlives its lease and no claim is late.
THEOREM OverlapIsRespected == SSpec => []OverlapRespected
<1>1. OInv => OverlapRespected
  BY OneUnderWay DEF OverlapRespected, GivingWay
<1>2. QED
  BY <1>1, OInitially, OInductive, PTL DEF SSpec
=============================================================================

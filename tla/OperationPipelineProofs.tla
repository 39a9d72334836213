----------------------- MODULE OperationPipelineProofs -----------------------
(***************************************************************************)
(* Proofs about OperationPipeline.  The inductive invariant says, for each *)
(* place a run can be at, what its transaction or batch and its collector  *)
(* hold there; what that has to do with the tables; and which locks keep   *)
(* two runs' uncommitted writes apart.                                     *)
(***************************************************************************)
EXTENDS OperationPipeline, TLAPS

(***************************************************************************)
(* The inductive invariant.                                                *)
(***************************************************************************)
Writing == {"after", "effects", "audit", "append", "marker", "commit", "fence", "batch"}
Collecting == {"execute", "after", "effects", "audit", "append", "marker", "commit"}

\* Which pipeline a run is in.
OPath(o) ==
    /\ pc[o] \notin {"idle"} \cup Ended => Accepts(def[o], env)
    /\ pc[o] \in {"open", "commit"} => InTransaction(o)
    /\ pc[o] \in InCallback => ~InBatch(o)
    /\ pc[o] \in {"prepare", "fence", "batch", "verify"} => InBatch(o)
    /\ pc[o] # "done" => answer[o] = "none"

\* What its transaction or batch holds.
OHeld(o) ==
    /\ ~Mutates(o) => ~effects[o] /\ records[o] = {} /\ written[o] = {} /\ appended[o] = {}
    /\ Mutates(o) => ("row" \in written[o] <=> pc[o] \in Writing)
    /\ pc[o] \notin Writing => written[o] = {}
    /\ pc[o] \notin {"marker", "commit", "fence", "batch"} => appended[o] = {}
    /\ pc[o] \in {"append", "marker", "commit"} /\ DeliversAudit(o, "transactional")
          => "audit" \in written[o]
    /\ pc[o] \in {"fence", "batch"} /\ Audited(o) => "audit" \in written[o]
    /\ pc[o] \in {"commit", "fence", "batch"} /\ def[o].marker => "receipt" \in written[o]
    /\ appended[o] \subseteq accepted[o]
    /\ pc[o] = "fence" => appended[o] = accepted[o]

\* What its collector holds for the commit.
OCollected(o) ==
    /\ pc[o] \in {"idle", "open", "before", "prepare"}
          => /\ ~effects[o] /\ records[o] = {}
             /\ queue[o] = <<>> /\ budget[o] = 0 /\ taken[o] = <<>>
    /\ pc[o] \in {"idle", "before", "prepare"} => accepted[o] = {} /\ promised[o] = {}
    /\ pc[o] \in Collecting => records[o] = accepted[o]
    /\ pc[o] \in Collecting \ {"execute", "after"} /\ DeliversAudit(o, "outbox")
          => AuditEvent(o) \in accepted[o]

\* A transactional effect has been executed only if the attempt holds one.
OCalled(o) ==
    /\ calls[o] <= 1
    /\ pc[o] \in {"idle", "open", "before", "execute", "after", "effects"} => calls[o] = 0
    /\ pc[o] \in {"audit", "append", "marker", "commit"} /\ calls[o] # 0 => effects[o]

Apart(s, t) == \A i \in 1..Len(s), j \in 1..Len(t) : s[i] # t[j]

\* The best-effort effects accepted are those run, queued or taken, each once.
ODeferrals(o) ==
    /\ NoRepetition(ran[o]) /\ NoRepetition(queue[o]) /\ NoRepetition(taken[o])
    /\ Apart(ran[o], queue[o]) /\ Apart(ran[o], taken[o]) /\ Apart(queue[o], taken[o])
    /\ Elements(ran[o]) \subseteq promised[o]
    /\ pc[o] \notin {"open"} \cup Ended =>
         /\ promised[o] = Elements(ran[o]) \cup Elements(queue[o]) \cup Elements(taken[o])
         /\ \A x \in promised[o] : x.n <= budget[o]
    /\ pc[o] \notin {"deferred"} \cup Ended => ran[o] = <<>>
    /\ pc[o] \in {"commit", "hooks", "deferred"} \cup InCallback => taken[o] = <<>>
    /\ pc[o] = "business" /\ ~InBatch(o) => taken[o] = <<>>
    /\ answer[o] = "result" => promised[o] \subseteq Elements(ran[o])

\* How far the deferred budget is used when the effects are registered again.
ORoom(o) ==
    /\ pc[o] \in {"execute", "after"} => budget[o] <= MaxRegistered
    /\ pc[o] \in Collecting => budget[o] <= MaxRegistered + 1 /\ Len(queue[o]) <= budget[o]
    /\ pc[o] \in {"fence", "batch", "verify"}
          => budget[o] <= MaxRegistered /\ Len(taken[o]) <= MaxRegistered
    /\ pc[o] = "business" /\ InBatch(o)
          => budget[o] <= MaxRegistered + 1 /\ Len(taken[o]) <= MaxRegistered
    /\ pc[o] = "readd" => budget[o] + Len(taken[o]) <= 2 * (MaxRegistered + 1)

\* The update is in the table from the commit on, and what the outbox will
\* hold after the commit is what the collector accepted.
OCommitted(o) ==
    /\ Updated(o) => Mutates(o) /\ pc[o] \in PostCommit \cup Ended
    /\ Mutates(o) /\ pc[o] \in PostCommit => Updated(o)
    /\ Mutates(o) /\ ran[o] # <<>> => Updated(o)
    /\ pc[o] \in {"marker", "commit", "batch"} =>
         /\ accepted[o] \subseteq outbox \cup appended[o]
         /\ \A r, q \in appended[o] : ~Clash(r, q)

\* In a transaction a row that is updated, and a key that is inserted, is
\* locked until the commit.
OLocks ==
    SupportsTransactions(env) =>
        /\ \A o \in Ops : "row" \in written[o] => base[o] = Len(row)
        /\ \A o, p \in Ops : "row" \in written[o] /\ "row" \in written[p] => o = p
        /\ \A o \in Ops : \A r \in appended[o], q \in outbox : r.key # q.key
        /\ \A o, p \in Ops : \A r \in appended[o], q \in appended[p] : r.key = q.key => o = p

OLocal(o) ==
    OPath(o) /\ OHeld(o) /\ OCollected(o) /\ OCalled(o) /\ ODeferrals(o) /\ ORoom(o)

OInv ==
    /\ OTypeOK
    /\ \A o \in Ops : OLocal(o)
    /\ \A o \in Ops : OCommitted(o)
    /\ OLocks
    /\ AllOrNothing

(***************************************************************************)
(* Lemmas about the definitions and about sequences of effects.            *)
(***************************************************************************)
\* An accepted mutation has a transaction or a batch, of which the database
\* supports one, and only mutations have commit markers.
LEMMA Pipelines ==
    ASSUME NEW o \in Ops, OTypeOK
    PROVE  /\ Accepts(def[o], env) /\ Mutates(o) => InTransaction(o) \/ InBatch(o)
           /\ Accepts(def[o], env) /\ InBatch(o) => Mutates(o)
           /\ InBatch(o) => ~InTransaction(o) /\ ~SupportsTransactions(env)
           /\ InTransaction(o) => SupportsTransactions(env)
           /\ def[o].marker => Mutates(o)
           /\ ~(InBatch(o) /\ DeliversAudit(o, "outbox"))
<1>1. /\ def[o] \in DefinitionRecord /\ (def[o].marker => def[o].kind = "mutation")
      /\ env \in EnvironmentRecord
    BY DefinitionsAssumption, EnvironmentsAssumption DEF OTypeOK
<1> QED
    BY <1>1 DEF DefinitionRecord, EnvironmentRecord, Accepts, Valid, HasRequiredAtomicity,
        Mutates, InTransaction, InBatch, UsesTransaction, UsesBatch, UsesNeither,
        SupportsTransactions, SupportsAtomicBatch, DeliversAudit, AuditDelivery

\* The effects a collector accepts at a count of k are n, all different, and
\* counted beyond k.
LEMMA FreshEffects ==
    ASSUME OTypeOK, NEW o \in Ops, NEW k \in Nat, NEW n \in Nat
    PROVE  /\ Fresh(o, k, n) \in Seq(Deferred) /\ Len(Fresh(o, k, n)) = n
           /\ NoRepetition(Fresh(o, k, n))
           /\ \A x \in Elements(Fresh(o, k, n)) : x.n > k /\ x.n <= k + n
           /\ Elements(Fresh(o, k, n)) \subseteq Deferred
           /\ n = 0 => Fresh(o, k, n) = <<>>
<1> DEFINE s == Fresh(o, k, n)
<1>1. \A i \in 1..n : [attempt |-> attempt[o], n |-> k + i] \in Deferred
    BY DEF Deferred, OTypeOK
<1>2. s \in Seq(Deferred) /\ Len(s) = n
    BY <1>1 DEF Fresh
<1>3. \A i \in 1..n : s[i].n = k + i
    BY DEF Fresh
<1>4. NoRepetition(s)
    BY <1>2, <1>3 DEF NoRepetition
<1>5. \A x \in Elements(s) : x.n > k /\ x.n <= k + n
    BY <1>2, <1>3 DEF Elements
<1>6. n = 0 => s = <<>>
    BY <1>2
<1>7. Elements(s) \subseteq Deferred
    BY <1>2 DEF Elements
<1> QED
    BY <1>2, <1>4, <1>5, <1>6, <1>7

LEMMA Shift == \A i, j, m \in Nat : i - m = j - m => i = j
OBVIOUS

\* "st" is "s" followed by "t".
Follows(s, t, st) ==
    /\ \A i \in 1..Len(s) : i \in 1..Len(st) /\ st[i] = s[i]
    /\ \A i \in 1..Len(t) : Len(s) + i \in 1..Len(st) /\ st[Len(s) + i] = t[i]
    /\ \A i \in 1..Len(st) : i \notin 1..Len(s) => i - Len(s) \in 1..Len(t) /\ st[i] = t[i - Len(s)]

\* Two sequences of different effects that share none make one, and the first
\* of a sequence leaves the rest.
LEMMA JoinedAt ==
    ASSUME NEW s, NEW t, NEW st, Follows(s, t, st), Len(s) \in Nat, Len(st) \in Nat
    PROVE  /\ Elements(st) = Elements(s) \cup Elements(t)
           /\ NoRepetition(s) /\ NoRepetition(t) /\ Apart(s, t) => NoRepetition(st)
           /\ \A u : Apart(u, s) /\ Apart(u, t) => Apart(u, st)
           /\ \A u : Apart(s, u) /\ Apart(t, u) => Apart(st, u)
<1>3. Elements(st) = Elements(s) \cup Elements(t)
    <2>1. \A x \in Elements(st) : x \in Elements(s) \cup Elements(t)
        BY DEF Elements, Follows
    <2>2. \A x \in Elements(s) : x \in Elements(st)
        BY DEF Elements, Follows
    <2>3. \A x \in Elements(t) : x \in Elements(st)
        BY DEF Elements, Follows
    <2> QED
        BY <2>1, <2>2, <2>3
<1>4. NoRepetition(s) /\ NoRepetition(t) /\ Apart(s, t) => NoRepetition(st)
    <2>1. SUFFICES ASSUME NoRepetition(s), NoRepetition(t), Apart(s, t),
                          NEW i \in 1..Len(st), NEW j \in 1..Len(st), st[i] = st[j]
                   PROVE  i = j
        BY DEF NoRepetition
    <2>2. i \in 1..Len(s) /\ j \in 1..Len(s) => i = j
        <3>1. i \in 1..Len(s) /\ j \in 1..Len(s) => s[i] = s[j]
            BY <2>1 DEF Follows
        <3> QED
            BY <2>1, <3>1 DEF NoRepetition
    <2>3. i \in 1..Len(s) => j \in 1..Len(s)
        <3>1. ASSUME i \in 1..Len(s), j \notin 1..Len(s)
              PROVE  j - Len(s) \in 1..Len(t) /\ s[i] = t[j - Len(s)]
            BY <2>1, <3>1 DEF Follows
        <3> QED
            BY <2>1, <3>1 DEF Apart
    <2>4. j \in 1..Len(s) => i \in 1..Len(s)
        <3>1. ASSUME j \in 1..Len(s), i \notin 1..Len(s)
              PROVE  i - Len(s) \in 1..Len(t) /\ s[j] = t[i - Len(s)]
            BY <2>1, <3>1 DEF Follows
        <3> QED
            BY <2>1, <3>1 DEF Apart
    <2>5. CASE i \notin 1..Len(s) /\ j \notin 1..Len(s)
        <3>1. i - Len(s) = j - Len(s)
            BY <2>1, <2>5 DEF NoRepetition, Follows
        <3> QED
            BY <3>1, Shift
    <2> QED
        BY <2>2, <2>3, <2>4, <2>5
<1>5. \A u : Apart(u, s) /\ Apart(u, t) => Apart(u, st)
    <2>1. SUFFICES ASSUME NEW u, Apart(u, s), Apart(u, t),
                          NEW i \in 1..Len(u), NEW j \in 1..Len(st), u[i] = st[j]
                   PROVE  FALSE
        BY DEF Apart
    <2>2. j \in 1..Len(s) => st[j] = s[j]
        BY DEF Follows
    <2>3. j \notin 1..Len(s) => j - Len(s) \in 1..Len(t) /\ st[j] = t[j - Len(s)]
        BY DEF Follows
    <2> QED
        BY <2>1, <2>2, <2>3 DEF Apart
<1>6. \A u : Apart(s, u) /\ Apart(t, u) => Apart(st, u)
    <2>1. SUFFICES ASSUME NEW u, Apart(s, u), Apart(t, u),
                          NEW i \in 1..Len(st), NEW j \in 1..Len(u), st[i] = u[j]
                   PROVE  FALSE
        BY DEF Apart
    <2>2. i \in 1..Len(s) => st[i] = s[i]
        BY DEF Follows
    <2>3. i \notin 1..Len(s) => i - Len(s) \in 1..Len(t) /\ st[i] = t[i - Len(s)]
        BY DEF Follows
    <2> QED
        BY <2>1, <2>2, <2>3 DEF Apart
<1> QED
    BY <1>3, <1>4, <1>5, <1>6

LEMMA Joined ==
    ASSUME NEW S, NEW s \in Seq(S), NEW t \in Seq(S)
    PROVE  /\ s \o t \in Seq(S) /\ Len(s \o t) = Len(s) + Len(t)
           /\ Elements(s \o t) = Elements(s) \cup Elements(t)
           /\ NoRepetition(s) /\ NoRepetition(t) /\ Apart(s, t) => NoRepetition(s \o t)
           /\ \A u : Apart(u, s) /\ Apart(u, t) => Apart(u, s \o t)
           /\ \A u : Apart(s, u) /\ Apart(t, u) => Apart(s \o t, u)
<1>1. /\ s \o t \in Seq(S) /\ Len(s \o t) = Len(s) + Len(t) /\ Len(s) \in Nat /\ Len(t) \in Nat
      /\ \A i \in 1..Len(s) + Len(t) :
            (s \o t)[i] = IF i <= Len(s) THEN s[i] ELSE t[i - Len(s)]
    OBVIOUS
<1>2. Follows(s, t, s \o t) /\ Len(s \o t) \in Nat
    BY <1>1 DEF Follows
<1> QED
    BY <1>1, <1>2, JoinedAt

LEMMA Popped ==
    ASSUME NEW S, NEW s \in Seq(S), s # <<>>, NoRepetition(s)
    PROVE  /\ Head(s) \in S /\ Tail(s) \in Seq(S) /\ NoRepetition(Tail(s))
           /\ Elements(s) = {Head(s)} \cup Elements(Tail(s))
           /\ Apart(<<Head(s)>>, Tail(s))
           /\ \A u : Apart(u, s) => Apart(u, Tail(s)) /\ Apart(u, <<Head(s)>>)
           /\ \A u : Apart(s, u) => Apart(Tail(s), u) /\ Apart(<<Head(s)>>, u)
<1>1. /\ Head(s) = s[1] /\ Head(s) \in S /\ Tail(s) \in Seq(S)
      /\ Len(s) \in Nat /\ Len(s) > 0 /\ Len(Tail(s)) = Len(s) - 1
      /\ \A i \in 1..Len(s) - 1 : Tail(s)[i] = s[i + 1]
    OBVIOUS
<1> DEFINE h == <<Head(s)>>
<1> DEFINE r == Tail(s)
<1>2. /\ Len(h) = 1 /\ h[1] = s[1] /\ 1 \in 1..Len(s)
      /\ \A i \in 1..Len(r) : i + 1 \in 1..Len(s) /\ i + 1 # 1 /\ r[i] = s[i + 1]
      /\ \A i \in 1..Len(s) : i # 1 => i - 1 \in 1..Len(r) /\ r[i - 1] = s[i]
    BY <1>1
<1>3. Head(s) = h[1]
    BY <1>1
<1> HIDE DEF h, r
<1>4. NoRepetition(r)
    <2>1. \A i, j \in 1..Len(r) : r[i] = r[j] => i + 1 = j + 1
        BY <1>2 DEF NoRepetition
    <2> QED
        BY <2>1 DEF NoRepetition
<1>5. Elements(s) = {h[1]} \cup Elements(r)
    <2>1. \A x \in Elements(s) : x \in {h[1]} \cup Elements(r)
        BY <1>2 DEF Elements
    <2>2. \A x \in {h[1]} \cup Elements(r) : x \in Elements(s)
        BY <1>2 DEF Elements
    <2> QED
        BY <2>1, <2>2
<1>6. Apart(h, r)
    BY <1>2 DEF Apart, NoRepetition
<1>7. \A u : Apart(u, s) => Apart(u, r) /\ Apart(u, h)
    BY <1>2 DEF Apart
<1>8. \A u : Apart(s, u) => Apart(r, u) /\ Apart(h, u)
    BY <1>2 DEF Apart
<1> QED
    BY <1>1, <1>3, <1>4, <1>5, <1>6, <1>7, <1>8 DEF h, r

\* Effects counted beyond k are apart from those counted up to k.
LEMMA CountedApart ==
    ASSUME NEW s, NEW t, NEW k \in Nat, Elements(s) \cup Elements(t) \subseteq Deferred,
           \A x \in Elements(s) : x.n <= k,
           \A x \in Elements(t) : x.n > k
    PROVE  Apart(s, t)
<1>1. SUFFICES ASSUME NEW i \in 1..Len(s), NEW j \in 1..Len(t), s[i] = t[j]
               PROVE  FALSE
    BY DEF Apart
<1>2. s[i] \in Elements(s) /\ t[j] \in Elements(t)
    BY DEF Elements
<1>3. s[i].n \in Nat
    BY <1>2 DEF Deferred
<1> QED
    BY <1>1, <1>2, <1>3

LEMMA ApartBothWays == \A s, t : Apart(s, t) => Apart(t, s)
BY DEF Apart

LEMMA NothingToRun ==
    /\ NoRepetition(<<>>) /\ Elements(<<>>) = {} /\ Len(<<>>) = 0
    /\ \A s : Apart(<<>>, s) /\ Apart(s, <<>>)
BY DEF NoRepetition, Elements, Apart

LEMMA OneToRun ==
    ASSUME NEW x
    PROVE  NoRepetition(<<x>>) /\ Elements(<<x>>) = {x}
BY DEF NoRepetition, Elements

(***************************************************************************)
(* A step of a run changes nothing of another one but through the tables.  *)
(***************************************************************************)
Acts(o) == Proceeds(o) \/ Crash(o)

Others(o) ==
    \A p \in Ops \ {o} :
        /\ pc'[p] = pc[p] /\ base'[p] = base[p] /\ attempt'[p] = attempt[p]
        /\ effects'[p] = effects[p] /\ records'[p] = records[p] /\ queue'[p] = queue[p]
        /\ budget'[p] = budget[p] /\ taken'[p] = taken[p]
        /\ written'[p] = written[p] /\ appended'[p] = appended[p]
        /\ failed'[p] = failed[p] /\ answer'[p] = answer[p]
        /\ accepted'[p] = accepted[p] /\ promised'[p] = promised[p]
        /\ calls'[p] = calls[p] /\ ran'[p] = ran[p]

LEMMA OthersStay ==
    ASSUME NEW o \in Ops, OTypeOK, Acts(o)
    PROVE  Others(o) /\ env' = env /\ def' = def
<1> USE DEF OTypeOK, Others, Goto, Ends, Dispose, Discard, Defer, Take, Callback, Publish,
        tables, collector, session, histories
<1>1. CASE Start(o)
    BY <1>1 DEF Start
<1>2. CASE Refuse(o)
    BY <1>2 DEF Refuse
<1>3. CASE Open(o)
    BY <1>3 DEF Open
<1>4. CASE Before(o)
    BY <1>4 DEF Before
<1>5. CASE Execute(o)
    BY <1>5 DEF Execute
<1>6. CASE After(o)
    BY <1>6 DEF After
<1>7. CASE RunEffect(o)
    BY <1>7 DEF RunEffect
<1>8. CASE WriteAudit(o)
    BY <1>8 DEF WriteAudit
<1>9. CASE AppendOutbox(o)
    BY <1>9 DEF AppendOutbox
<1>10. CASE CommitMarker(o)
    BY <1>10 DEF CommitMarker
<1>11. CASE Commit(o)
    BY <1>11 DEF Commit
<1>12. CASE CommitThrows(o)
    BY <1>12 DEF CommitThrows
<1>13. CASE CallbackThrows(o)
    BY <1>13 DEF CallbackThrows
<1>14. CASE Prepare(o)
    BY <1>14 DEF Prepare
<1>15. CASE Precheck(o)
    BY <1>15 DEF Precheck
<1>16. CASE PrepareThrows(o)
    BY <1>16 DEF PrepareThrows
<1>17. CASE ExecuteBatch(o)
    BY <1>17 DEF ExecuteBatch
<1>18. CASE BatchAborts(o)
    BY <1>18 DEF BatchAborts
<1>19. CASE BatchUnknown(o)
    BY <1>19 DEF BatchUnknown
<1>20. CASE Verify(o)
    BY <1>20 DEF Verify
<1>21. CASE VerifyThrows(o)
    BY <1>21 DEF VerifyThrows
<1>22. CASE Readd(o)
    BY <1>22 DEF Readd
<1>23. CASE OnBusinessResult(o)
    BY <1>23 DEF OnBusinessResult
<1>24. CASE AfterCommitHooks(o)
    BY <1>24 DEF AfterCommitHooks
<1>25. CASE RunDeferred(o)
    BY <1>25 DEF RunDeferred
<1>26. CASE Return(o)
    BY <1>26 DEF Return
<1>27. CASE Crash(o)
    BY <1>27 DEF Crash
<1> QED
    BY <1>1, <1>2, <1>3, <1>4, <1>5, <1>6, <1>7, <1>8, <1>9, <1>10, <1>11, <1>12, <1>13,
       <1>14, <1>15, <1>16, <1>17, <1>18, <1>19, <1>20, <1>21, <1>22, <1>23, <1>24, <1>25,
       <1>26, <1>27 DEF Acts, Proceeds, Transacts, Batches, Finishes

(***************************************************************************)
(* Types.                                                                  *)
(***************************************************************************)
LEMMA DeferTyped ==
    ASSUME NEW o \in Ops, OTypeOK, NEW n \in Nat, Defer(o, n)
    PROVE  /\ queue' \in [Ops -> Seq(Deferred)] /\ budget' \in [Ops -> Nat]
           /\ promised' \in [Ops -> SUBSET Deferred]
<1> DEFINE s == Fresh(o, budget[o], n)
<1>1. s \in Seq(Deferred)
    BY FreshEffects DEF OTypeOK
<1>2. Elements(s) \subseteq Deferred
    BY <1>1 DEF Elements
<1>3. queue[o] \in Seq(Deferred) /\ queue[o] \o s \in Seq(Deferred)
    BY <1>1, Joined DEF OTypeOK
<1> HIDE DEF s
<1>4. /\ queue' = [queue EXCEPT ![o] = queue[o] \o s]
      /\ promised' = [promised EXCEPT ![o] = promised[o] \cup Elements(s)]
      /\ budget' = [budget EXCEPT ![o] = budget[o] + n]
    BY DEF Defer, s
<1>5. queue' \in [Ops -> Seq(Deferred)]
    BY <1>3, <1>4 DEF OTypeOK
<1>6. promised' \in [Ops -> SUBSET Deferred]
    BY <1>2, <1>4 DEF OTypeOK
<1>7. budget' \in [Ops -> Nat]
    BY <1>4 DEF OTypeOK
<1> QED
    BY <1>5, <1>6, <1>7

LEMMA PublishTyped ==
    ASSUME NEW o \in Ops, OTypeOK, Publish(o)
    PROVE  /\ row' \in Seq(Ops) /\ audits' \subseteq Ops /\ receipts' \subseteq Ops
           /\ outbox' \subseteq OutboxRecords
BY DEF OTypeOK, Publish

LEMMA Registered ==
    ASSUME NEW o \in Ops, NEW R \in Registrations(o)
    PROVE  R \subseteq OutboxRecords
BY DEF Registrations, OutboxRecords

LEMMA AuditIsRecord == \A o \in Ops : AuditEvent(o) \in OutboxRecords
<1>1. \A o \in Ops : AuditEvent(o) \in {AuditEvent(p) : p \in Ops}
    OBVIOUS
<1> QED
    BY <1>1 DEF OutboxRecords

LEMMA LateIsFew ==
    ASSUME NEW o \in Ops, NEW n \in Late(o)
    PROVE  n \in Nat /\ n <= 1
BY DEF Late

TablesTyped ==
    /\ row \in Seq(Ops) /\ audits \subseteq Ops /\ receipts \subseteq Ops
    /\ outbox \subseteq OutboxRecords

EffectsTyped ==
    /\ effects \in [Ops -> BOOLEAN] /\ records \in [Ops -> SUBSET OutboxRecords]
    /\ queue \in [Ops -> Seq(Deferred)] /\ budget \in [Ops -> Nat]
    /\ taken \in [Ops -> Seq(Deferred)]
    /\ accepted \in [Ops -> SUBSET OutboxRecords] /\ promised \in [Ops -> SUBSET Deferred]
    /\ calls \in [Ops -> Nat] /\ ran \in [Ops -> Seq(Deferred)]

PlacesTyped ==
    /\ env \in Environments
    /\ def \in [Ops -> DefinitionRecord] /\ \A o \in Ops : def[o] \in Definitions[o]
    /\ pc \in [Ops -> Places]
    /\ base \in [Ops -> Nat] /\ attempt \in [Ops -> Nat]
    /\ written \in [Ops -> SUBSET Parts] /\ appended \in [Ops -> SUBSET OutboxRecords]
    /\ failed \in [Ops -> BOOLEAN] /\ answer \in [Ops -> Answers]

LEMMA OTypeKept ==
    ASSUME NEW o \in Ops, OTypeOK, Acts(o)
    PROVE  OTypeOK'
<1> USE DEF Goto, Ends, Dispose, Discard, tables, collector, session, histories, Places,
        PreCommit, InCallback, Committing, PostCommit, Ended, Answers, Parts
<1>0. OTypeOK
    OBVIOUS
<1>1. CASE Start(o)
    BY <1>1, <1>0 DEF Start, OTypeOK
<1>2. CASE Refuse(o)
    BY <1>2, <1>0 DEF Refuse, OTypeOK
<1>3. CASE Open(o)
    BY <1>3, <1>0 DEF Open, OTypeOK
<1>4. CASE Before(o)
    <2>1. PICK effect \in BOOLEAN, R \in Registrations(o), n \in 0..MaxRegistered :
            /\ effects' = [effects EXCEPT ![o] = effect]
            /\ records' = [records EXCEPT ![o] = R]
            /\ accepted' = [accepted EXCEPT ![o] = R]
            /\ Defer(o, n)
        BY <1>4 DEF Before
    <2>2. n \in Nat /\ R \subseteq OutboxRecords
        BY Registered, BoundsAssumption
    <2>3. EffectsTyped'
        BY <1>4, <1>0, <2>1, <2>2, DeferTyped DEF Before, OTypeOK, EffectsTyped
    <2>4. TablesTyped' /\ PlacesTyped'
        BY <1>4, <1>0 DEF Before, OTypeOK, TablesTyped, PlacesTyped
    <2> QED
        BY <2>3, <2>4 DEF OTypeOK, TablesTyped, EffectsTyped, PlacesTyped
<1>5. CASE Execute(o)
    BY <1>5, <1>0 DEF Execute, OTypeOK
<1>6. CASE After(o)
    <2>1. PICK n \in {0, 1} : Defer(o, n)
        BY <1>6 DEF After
    <2>2. AuditEvent(o) \in OutboxRecords
        BY AuditIsRecord
    <2>3. EffectsTyped'
        BY <1>6, <1>0, <2>1, <2>2, DeferTyped DEF After, OTypeOK, EffectsTyped
    <2>4. TablesTyped' /\ PlacesTyped'
        BY <1>6, <1>0 DEF After, OTypeOK, TablesTyped, PlacesTyped
    <2> QED
        BY <2>3, <2>4 DEF OTypeOK, TablesTyped, EffectsTyped, PlacesTyped
<1>7. CASE RunEffect(o)
    <2>1. PICK R \in Registrations(o) :
            /\ records' = [records EXCEPT ![o] = records[o] \cup R]
            /\ accepted' = [accepted EXCEPT ![o] = accepted[o] \cup R]
        BY <1>7 DEF RunEffect
    <2>2. R \subseteq OutboxRecords
        BY Registered
    <2>3. records' \in [Ops -> SUBSET OutboxRecords] /\ accepted' \in [Ops -> SUBSET OutboxRecords]
        BY <1>0, <2>1, <2>2 DEF OTypeOK
    <2>4. calls' \in [Ops -> Nat]
        BY <1>7, <1>0 DEF RunEffect, OTypeOK
    <2>5. EffectsTyped'
        BY <1>7, <1>0, <2>3, <2>4 DEF RunEffect, OTypeOK, EffectsTyped
    <2>6. TablesTyped' /\ PlacesTyped'
        BY <1>7, <1>0 DEF RunEffect, OTypeOK, TablesTyped, PlacesTyped
    <2> QED
        BY <2>5, <2>6 DEF OTypeOK, TablesTyped, EffectsTyped, PlacesTyped
<1>8. CASE WriteAudit(o)
    BY <1>8, <1>0 DEF WriteAudit, OTypeOK
<1>9. CASE AppendOutbox(o)
    BY <1>9, <1>0 DEF AppendOutbox, OTypeOK
<1>10. CASE CommitMarker(o)
    <2>1. TablesTyped' /\ PlacesTyped'
        BY <1>10, <1>0 DEF CommitMarker, OTypeOK, TablesTyped, PlacesTyped
    <2>2. CASE Take(o)
        <3>1. EffectsTyped'
            BY <1>10, <2>2, <1>0 DEF CommitMarker, Take, OTypeOK, EffectsTyped
        <3> QED
            BY <2>1, <3>1 DEF OTypeOK, TablesTyped, EffectsTyped, PlacesTyped
    <2>3. CASE UNCHANGED <<effects, records, queue, taken>>
        <3>1. EffectsTyped'
            BY <1>10, <2>3, <1>0 DEF CommitMarker, OTypeOK, EffectsTyped
        <3> QED
            BY <2>1, <3>1 DEF OTypeOK, TablesTyped, EffectsTyped, PlacesTyped
    <2> QED
        BY <1>10, <2>2, <2>3 DEF CommitMarker
<1>11. CASE Commit(o)
    <2>1. TablesTyped'
        BY <1>11, <1>0, PublishTyped DEF Commit, OTypeOK, TablesTyped
    <2>2. EffectsTyped'
        BY <1>11, <1>0 DEF Commit, OTypeOK, EffectsTyped, Take
    <2>3. PlacesTyped'
        BY <1>11, <1>0 DEF Commit, OTypeOK, PlacesTyped
    <2> QED
        BY <2>1, <2>2, <2>3 DEF OTypeOK, TablesTyped, EffectsTyped, PlacesTyped
<1>12. CASE CommitThrows(o)
    <2>1. TablesTyped'
        BY <1>12, <1>0, PublishTyped DEF CommitThrows, OTypeOK, TablesTyped
    <2>2. EffectsTyped'
        BY <1>12, <1>0 DEF CommitThrows, OTypeOK, EffectsTyped
    <2>3. PlacesTyped'
        BY <1>12, <1>0 DEF CommitThrows, OTypeOK, PlacesTyped
    <2> QED
        BY <2>1, <2>2, <2>3 DEF OTypeOK, TablesTyped, EffectsTyped, PlacesTyped
<1>13. CASE CallbackThrows(o)
    <2>1. TablesTyped'
        BY <1>13, <1>0 DEF CallbackThrows, OTypeOK, TablesTyped
    <2>2. CASE Goto(o, "open") /\ Dispose(o) /\ UNCHANGED answer
        <3>1. EffectsTyped' /\ PlacesTyped'
            BY <1>13, <2>2, <1>0 DEF CallbackThrows, OTypeOK, EffectsTyped, PlacesTyped
        <3> QED
            BY <2>1, <3>1 DEF OTypeOK, TablesTyped, EffectsTyped, PlacesTyped
    <2>3. CASE Ends(o, "failed")
        <3>1. EffectsTyped' /\ PlacesTyped'
            BY <1>13, <2>3, <1>0 DEF CallbackThrows, OTypeOK, EffectsTyped, PlacesTyped
        <3> QED
            BY <2>1, <3>1 DEF OTypeOK, TablesTyped, EffectsTyped, PlacesTyped
    <2> QED
        BY <1>13, <2>2, <2>3 DEF CallbackThrows
<1>14. CASE Prepare(o)
    <2>1. PICK R \in Registrations(o), n \in 0..MaxRegistered :
            /\ appended' = [appended EXCEPT ![o] = R]
            /\ accepted' = [accepted EXCEPT ![o] = R]
            /\ taken' = [taken EXCEPT ![o] = Fresh(o, 0, n)]
            /\ promised' = [promised EXCEPT ![o] = Elements(Fresh(o, 0, n))]
            /\ budget' = [budget EXCEPT ![o] = n]
        BY <1>14 DEF Prepare
    <2>2. n \in Nat /\ R \subseteq OutboxRecords
        BY Registered, BoundsAssumption
    <2>3. Fresh(o, 0, n) \in Seq(Deferred) /\ Elements(Fresh(o, 0, n)) \subseteq Deferred
        BY <1>0, <2>2, FreshEffects
    <2>4. EffectsTyped'
        BY <1>14, <1>0, <2>1, <2>2, <2>3 DEF Prepare, OTypeOK, EffectsTyped
    <2>5. TablesTyped' /\ PlacesTyped'
        BY <1>14, <1>0, <2>1, <2>2 DEF Prepare, OTypeOK, TablesTyped, PlacesTyped
    <2> QED
        BY <2>4, <2>5 DEF OTypeOK, TablesTyped, EffectsTyped, PlacesTyped
<1>15. CASE Precheck(o)
    BY <1>15, <1>0 DEF Precheck, OTypeOK
<1>16. CASE PrepareThrows(o)
    BY <1>16, <1>0 DEF PrepareThrows, OTypeOK
<1>17. CASE ExecuteBatch(o)
    <2>1. TablesTyped'
        BY <1>17, <1>0, PublishTyped DEF ExecuteBatch, OTypeOK, TablesTyped
    <2>2. EffectsTyped'
        BY <1>17, <1>0 DEF ExecuteBatch, OTypeOK, EffectsTyped
    <2>3. PlacesTyped'
        BY <1>17, <1>0 DEF ExecuteBatch, OTypeOK, PlacesTyped
    <2> QED
        BY <2>1, <2>2, <2>3 DEF OTypeOK, TablesTyped, EffectsTyped, PlacesTyped
<1>18. CASE BatchAborts(o)
    BY <1>18, <1>0 DEF BatchAborts, OTypeOK
<1>19. CASE BatchUnknown(o)
    <2>1. TablesTyped'
        BY <1>19, <1>0, PublishTyped DEF BatchUnknown, OTypeOK, TablesTyped
    <2>2. EffectsTyped'
        BY <1>19, <1>0 DEF BatchUnknown, OTypeOK, EffectsTyped
    <2>3. PlacesTyped'
        BY <1>19, <1>0 DEF BatchUnknown, OTypeOK, PlacesTyped
    <2> QED
        BY <2>1, <2>2, <2>3 DEF OTypeOK, TablesTyped, EffectsTyped, PlacesTyped
<1>20. CASE Verify(o)
    <2>1. PICK n \in Late(o) : Defer(o, n)
        BY <1>20 DEF Verify
    <2>2. EffectsTyped'
        BY <1>20, <1>0, <2>1, LateIsFew, DeferTyped DEF Verify, OTypeOK, EffectsTyped
    <2>3. TablesTyped' /\ PlacesTyped'
        BY <1>20, <1>0 DEF Verify, OTypeOK, TablesTyped, PlacesTyped
    <2> QED
        BY <2>2, <2>3 DEF OTypeOK, TablesTyped, EffectsTyped, PlacesTyped
<1>21. CASE VerifyThrows(o)
    BY <1>21, <1>0 DEF VerifyThrows, OTypeOK
<1>22. CASE Readd(o)
    <2>1. UNCHANGED <<env, def, row, audits, outbox, receipts, base, attempt, written, appended,
                      failed, accepted, promised, calls, ran>>
        BY <1>22 DEF Readd
    <2>2. TablesTyped'
        BY <1>0, <2>1 DEF OTypeOK, TablesTyped
    <2>3. CASE budget[o] + Len(taken[o]) <= MaxDeferred
        <3> DEFINE s == queue[o] \o taken[o]
        <3>1. queue[o] \in Seq(Deferred) /\ taken[o] \in Seq(Deferred)
            BY <1>0 DEF OTypeOK
        <3>2. s \in Seq(Deferred) /\ Len(taken[o]) \in Nat
            BY <3>1, Joined
        <3> DEFINE l == Len(taken[o])
        <3> DEFINE place == IF InBatch(o) THEN "hooks" ELSE "business"
        <3>3. /\ queue' = [queue EXCEPT ![o] = s] /\ budget' = [budget EXCEPT ![o] = budget[o] + l]
              /\ taken' = [taken EXCEPT ![o] = <<>>] /\ pc' = [pc EXCEPT ![o] = place]
              /\ UNCHANGED <<effects, records, answer>>
            BY <1>22, <2>3 DEF Readd
        <3>4. place \in {"hooks", "business"}
            OBVIOUS
        <3>5. l \in Nat
            BY <3>1
        <3> HIDE DEF s, l, place
        <3>a. queue' \in [Ops -> Seq(Deferred)]
            BY <1>0, <3>2, <3>3 DEF OTypeOK
        <3>b. budget' \in [Ops -> Nat]
            BY <1>0, <3>3, <3>5 DEF OTypeOK
        <3>c. taken' \in [Ops -> Seq(Deferred)]
            BY <1>0, <3>3 DEF OTypeOK
        <3>6. EffectsTyped'
            BY <1>0, <2>1, <3>3, <3>a, <3>b, <3>c DEF OTypeOK, EffectsTyped
        <3>7. PlacesTyped'
            BY <1>0, <2>1, <3>3, <3>4 DEF OTypeOK, PlacesTyped
        <3> QED
            BY <2>2, <3>6, <3>7 DEF OTypeOK, TablesTyped, EffectsTyped, PlacesTyped
    <2>4. CASE Ends(o, "failed")
        <3>1. EffectsTyped' /\ PlacesTyped'
            BY <1>0, <2>1, <2>4 DEF OTypeOK, EffectsTyped, PlacesTyped
        <3> QED
            BY <2>2, <3>1 DEF OTypeOK, TablesTyped, EffectsTyped, PlacesTyped
    <2> QED
        BY <1>22, <2>3, <2>4 DEF Readd
<1>23. CASE OnBusinessResult(o)
    <2>1. PICK n \in Late(o) : Defer(o, n)
        BY <1>23 DEF OnBusinessResult, Callback
    <2>2. EffectsTyped'
        BY <1>23, <1>0, <2>1, LateIsFew, DeferTyped DEF OnBusinessResult, Callback, OTypeOK,
           EffectsTyped
    <2>3. TablesTyped' /\ PlacesTyped'
        BY <1>23, <1>0 DEF OnBusinessResult, Callback, OTypeOK, TablesTyped, PlacesTyped
    <2> QED
        BY <2>2, <2>3 DEF OTypeOK, TablesTyped, EffectsTyped, PlacesTyped
<1>24. CASE AfterCommitHooks(o)
    <2>1. PICK n \in Late(o) : Defer(o, n)
        BY <1>24 DEF AfterCommitHooks, Callback
    <2>2. EffectsTyped'
        BY <1>24, <1>0, <2>1, LateIsFew, DeferTyped DEF AfterCommitHooks, Callback, OTypeOK,
           EffectsTyped
    <2>3. TablesTyped' /\ PlacesTyped'
        BY <1>24, <1>0 DEF AfterCommitHooks, Callback, OTypeOK, TablesTyped, PlacesTyped
    <2> QED
        BY <2>2, <2>3 DEF OTypeOK, TablesTyped, EffectsTyped, PlacesTyped
<1>25. CASE RunDeferred(o)
    <2>1. PICK n \in Late(o) :
            /\ queue' = [queue EXCEPT ![o] = Tail(queue[o]) \o Fresh(o, budget[o], n)]
            /\ budget' = [budget EXCEPT ![o] = budget[o] + n]
            /\ promised' = [promised EXCEPT ![o] = promised[o] \cup Elements(Fresh(o, budget[o], n))]
        BY <1>25 DEF RunDeferred
    <2>2. /\ n \in Nat /\ budget[o] \in Nat
          /\ Fresh(o, budget[o], n) \in Seq(Deferred)
          /\ Elements(Fresh(o, budget[o], n)) \subseteq Deferred
        BY <1>0, LateIsFew, FreshEffects DEF OTypeOK
    <2>3. queue[o] \in Seq(Deferred) /\ queue[o] # <<>> /\ ran[o] \in Seq(Deferred)
        BY <1>25, <1>0 DEF RunDeferred, OTypeOK
    <2>4. Head(queue[o]) \in Deferred /\ Tail(queue[o]) \in Seq(Deferred)
        BY <2>3
    <2>5. /\ Append(ran[o], Head(queue[o])) \in Seq(Deferred)
          /\ Tail(queue[o]) \o Fresh(o, budget[o], n) \in Seq(Deferred)
        BY <2>2, <2>3, <2>4, Joined
    <2>6. EffectsTyped'
        <3>1. /\ ran' = [ran EXCEPT ![o] = Append(ran[o], Head(queue[o]))]
              /\ UNCHANGED <<effects, records, taken, accepted, calls>>
            BY <1>25 DEF RunDeferred
        <3>2. EffectsTyped
            BY <1>0 DEF OTypeOK, EffectsTyped
        <3>3. queue' \in [Ops -> Seq(Deferred)] /\ ran' \in [Ops -> Seq(Deferred)]
            BY <2>1, <2>5, <3>1, <3>2 DEF EffectsTyped
        <3>4. budget' \in [Ops -> Nat]
            BY <2>1, <2>2, <3>2 DEF EffectsTyped
        <3>5. promised' \in [Ops -> SUBSET Deferred]
            <4>1. promised[o] \cup Elements(Fresh(o, budget[o], n)) \in SUBSET Deferred
                BY <2>2, <3>2 DEF EffectsTyped
            <4> QED
                BY <2>1, <3>2, <4>1 DEF EffectsTyped
        <3> QED
            BY <3>1, <3>2, <3>3, <3>4, <3>5 DEF EffectsTyped
    <2>7. TablesTyped' /\ PlacesTyped'
        BY <1>25, <1>0 DEF RunDeferred, OTypeOK, TablesTyped, PlacesTyped
    <2> QED
        BY <2>6, <2>7 DEF OTypeOK, TablesTyped, EffectsTyped, PlacesTyped
<1>26. CASE Return(o)
    BY <1>26, <1>0 DEF Return, OTypeOK
<1>27. CASE Crash(o)
    BY <1>27, <1>0 DEF Crash, OTypeOK
<1> QED
    BY <1>1, <1>2, <1>3, <1>4, <1>5, <1>6, <1>7, <1>8, <1>9, <1>10, <1>11, <1>12, <1>13,
       <1>14, <1>15, <1>16, <1>17, <1>18, <1>19, <1>20, <1>21, <1>22, <1>23, <1>24, <1>25,
       <1>26, <1>27 DEF Acts, Proceeds, Transacts, Batches, Finishes

(***************************************************************************)
(* What a run holds at each of its places.                                 *)
(***************************************************************************)
\* Neither the environment nor a definition changes, nor what follows from them.
LEMMA DefinitionsStay ==
    ASSUME env' = env, def' = def, NEW o \in Ops
    PROVE  /\ Mutates(o)' <=> Mutates(o)
           /\ InTransaction(o)' <=> InTransaction(o)
           /\ InBatch(o)' <=> InBatch(o)
           /\ Audited(o)' <=> Audited(o)
           /\ DeliversAudit(o, "outbox")' <=> DeliversAudit(o, "outbox")
           /\ DeliversAudit(o, "transactional")' <=> DeliversAudit(o, "transactional")
           /\ AuditEvent(o)' = AuditEvent(o)
BY DEF Mutates, InTransaction, InBatch, Audited, DeliversAudit, AuditEvent

LEMMA PathKept ==
    ASSUME NEW o \in Ops, OTypeOK, OPath(o), Acts(o)
    PROVE  OPath(o)'
<1>0. /\ pc \in [Ops -> Places] /\ answer \in [Ops -> Answers]
      /\ env' = env /\ def' = def /\ OPath(o)
      /\ (InTransaction(o)' <=> InTransaction(o)) /\ (InBatch(o)' <=> InBatch(o))
      /\ Accepts(def[o], env) => (Mutates(o) => InTransaction(o) \/ InBatch(o))
      /\ InBatch(o) => ~InTransaction(o)
    BY OthersStay, DefinitionsStay, Pipelines DEF OTypeOK
<1> USE <1>0 DEF OPath, Goto, Ends, InCallback, Ended
<1>1. CASE Start(o)
    BY <1>1 DEF Start
<1>2. CASE Refuse(o)
    BY <1>2 DEF Refuse
<1>3. CASE Open(o)
    BY <1>3 DEF Open
<1>4. CASE Before(o)
    BY <1>4 DEF Before
<1>5. CASE Execute(o)
    BY <1>5 DEF Execute
<1>6. CASE After(o)
    BY <1>6 DEF After
<1>7. CASE RunEffect(o)
    BY <1>7 DEF RunEffect
<1>8. CASE WriteAudit(o)
    BY <1>8 DEF WriteAudit
<1>9. CASE AppendOutbox(o)
    BY <1>9 DEF AppendOutbox
<1>10. CASE CommitMarker(o)
    BY <1>10 DEF CommitMarker
<1>11. CASE Commit(o)
    BY <1>11 DEF Commit
<1>12. CASE CommitThrows(o)
    BY <1>12 DEF CommitThrows
<1>13. CASE CallbackThrows(o)
    BY <1>13 DEF CallbackThrows
<1>14. CASE Prepare(o)
    BY <1>14 DEF Prepare
<1>15. CASE Precheck(o)
    BY <1>15 DEF Precheck
<1>16. CASE PrepareThrows(o)
    BY <1>16 DEF PrepareThrows
<1>17. CASE ExecuteBatch(o)
    BY <1>17 DEF ExecuteBatch
<1>18. CASE BatchAborts(o)
    BY <1>18 DEF BatchAborts
<1>19. CASE BatchUnknown(o)
    BY <1>19 DEF BatchUnknown
<1>20. CASE Verify(o)
    BY <1>20 DEF Verify
<1>21. CASE VerifyThrows(o)
    BY <1>21 DEF VerifyThrows
<1>22. CASE Readd(o)
    BY <1>22 DEF Readd
<1>23. CASE OnBusinessResult(o)
    BY <1>23 DEF OnBusinessResult, Callback
<1>24. CASE AfterCommitHooks(o)
    BY <1>24 DEF AfterCommitHooks, Callback
<1>25. CASE RunDeferred(o)
    BY <1>25 DEF RunDeferred
<1>26. CASE Return(o)
    BY <1>26 DEF Return
<1>27. CASE Crash(o)
    BY <1>27 DEF Crash
<1> QED
    BY <1>1, <1>2, <1>3, <1>4, <1>5, <1>6, <1>7, <1>8, <1>9, <1>10, <1>11, <1>12, <1>13,
       <1>14, <1>15, <1>16, <1>17, <1>18, <1>19, <1>20, <1>21, <1>22, <1>23, <1>24, <1>25,
       <1>26, <1>27 DEF Acts, Proceeds, Transacts, Batches, Finishes

\* A step seen from its run: what it leaves alone and what it empties.
SameSession(o) == written'[o] = written[o] /\ appended'[o] = appended[o]

SameCollector(o) ==
    /\ effects'[o] = effects[o] /\ records'[o] = records[o]
    /\ queue'[o] = queue[o] /\ budget'[o] = budget[o] /\ taken'[o] = taken[o]

SameHistories(o) ==
    /\ accepted'[o] = accepted[o] /\ promised'[o] = promised[o]
    /\ calls'[o] = calls[o] /\ ran'[o] = ran[o]

Discarded(o) == written'[o] = {} /\ appended'[o] = {}

Disposed(o) ==
    /\ ~effects'[o] /\ records'[o] = {}
    /\ queue'[o] = <<>> /\ budget'[o] = 0 /\ taken'[o] = <<>>

Defers(o, n) ==
    /\ n > 0 => Mutates(o)
    /\ queue'[o] = queue[o] \o Fresh(o, budget[o], n)
    /\ budget'[o] = budget[o] + n
    /\ promised'[o] = promised[o] \cup Elements(Fresh(o, budget[o], n))

\* The effects are taken at the commit.
Taken(o) ==
    /\ ~effects'[o] /\ records'[o] = {} /\ budget'[o] = budget[o]
    /\ taken'[o] = queue[o] /\ queue'[o] = <<>>

Moves(o, from, to) == pc[o] = from /\ pc'[o] = to /\ answer'[o] = answer[o]
EndsAt(o, from, told) == pc[o] = from /\ pc'[o] = "done" /\ answer'[o] = told /\ Disposed(o)

LEMMA DefersStep ==
    ASSUME NEW o \in Ops, OTypeOK, NEW n, Defer(o, n)
    PROVE  Defers(o, n)
BY DEF OTypeOK, Defer, Defers

LEMMA LateDefers ==
    ASSUME NEW o \in Ops, OTypeOK, \E n \in Late(o) : Defer(o, n)
    PROVE  \E n \in 0..1 : Defers(o, n)
<1>1. PICK n \in Late(o) : Defer(o, n)
    OBVIOUS
<1>2. n \in 0..1
    BY LateIsFew
<1> QED
    BY <1>1, <1>2, DefersStep

LEMMA StartStep ==
    ASSUME NEW o \in Ops, OTypeOK, Start(o)
    PROVE  /\ pc[o] = "idle" /\ pc'[o] \in {"open", "prepare", "before"} /\ answer'[o] = answer[o]
           /\ SameSession(o) /\ SameCollector(o) /\ SameHistories(o)
BY DEF Start, OTypeOK, Goto, collector, session, histories, SameSession, SameCollector,
    SameHistories

LEMMA RefuseStep ==
    ASSUME NEW o \in Ops, OTypeOK, Refuse(o)
    PROVE  /\ EndsAt(o, "idle", "failed") /\ SameSession(o) /\ SameHistories(o)
BY DEF Refuse, OTypeOK, Ends, session, histories, Goto, Dispose, SameSession, SameHistories,
    EndsAt, Disposed

LEMMA OpenStep ==
    ASSUME NEW o \in Ops, OTypeOK, Open(o)
    PROVE  /\ Moves(o, "open", "before") /\ SameSession(o) /\ SameCollector(o)
           /\ accepted'[o] = {} /\ promised'[o] = {} /\ calls'[o] = calls[o] /\ ran'[o] = ran[o]
BY DEF Open, OTypeOK, Goto, collector, session, SameSession, SameCollector, Moves

LEMMA BeforeStep ==
    ASSUME NEW o \in Ops, OTypeOK, Before(o)
    PROVE  /\ Moves(o, "before", "execute") /\ SameSession(o)
           /\ records'[o] = accepted'[o] /\ (effects'[o] \/ records'[o] # {} => Mutates(o))
           /\ \E n \in 0..MaxRegistered : Defers(o, n)
           /\ taken'[o] = taken[o] /\ calls'[o] = calls[o] /\ ran'[o] = ran[o]
<1>1. PICK effect \in BOOLEAN, R \in Registrations(o), n \in 0..MaxRegistered :
        /\ effect \/ R # {} => Mutates(o)
        /\ effects' = [effects EXCEPT ![o] = effect] /\ records' = [records EXCEPT ![o] = R]
        /\ accepted' = [accepted EXCEPT ![o] = R] /\ Defer(o, n)
    BY DEF Before
<1>2. effects'[o] = effect /\ records'[o] = R /\ accepted'[o] = R
    BY <1>1 DEF OTypeOK
<1>3. Moves(o, "before", "execute")
    BY DEF Before, OTypeOK, Goto, Moves
<1>4. SameSession(o) /\ taken'[o] = taken[o] /\ calls'[o] = calls[o] /\ ran'[o] = ran[o]
    BY DEF Before, session, SameSession
<1> QED
    BY <1>1, <1>2, <1>3, <1>4, DefersStep

LEMMA ExecuteStep ==
    ASSUME NEW o \in Ops, OTypeOK, Execute(o)
    PROVE  /\ Moves(o, "execute", "after") /\ SameCollector(o) /\ SameHistories(o)
           /\ written'[o] = (IF Mutates(o) THEN {"row"} ELSE {}) /\ appended'[o] = appended[o]
BY DEF Execute, OTypeOK, Goto, collector, histories, SameCollector, SameHistories, Moves

LEMMA AfterStep ==
    ASSUME NEW o \in Ops, OTypeOK, After(o)
    PROVE  /\ Moves(o, "after", "effects") /\ SameSession(o) /\ effects'[o] = effects[o]
           /\ DeliversAudit(o, "outbox") => Mutates(o)
           /\ records'[o] = records[o] \cup (IF DeliversAudit(o, "outbox") THEN {AuditEvent(o)} ELSE {})
           /\ accepted'[o] = accepted[o] \cup (IF DeliversAudit(o, "outbox") THEN {AuditEvent(o)} ELSE {})
           /\ \E n \in 0..1 : Defers(o, n)
           /\ taken'[o] = taken[o] /\ calls'[o] = calls[o] /\ ran'[o] = ran[o]
<1>1. \E n \in 0..1 : Defer(o, n)
    BY DEF After
<1>2. \E n \in 0..1 : Defers(o, n)
    BY <1>1, DefersStep
<1> QED
    BY <1>2 DEF After, OTypeOK, Goto, session, SameSession, Moves

LEMMA RunEffectStep ==
    ASSUME NEW o \in Ops, OTypeOK, RunEffect(o)
    PROVE  /\ Moves(o, "effects", "audit") /\ SameSession(o)
           /\ \E R : /\ R # {} => effects[o]
              /\ records'[o] = records[o] \cup R /\ accepted'[o] = accepted[o] \cup R
           /\ effects'[o] = effects[o] /\ queue'[o] = queue[o] /\ budget'[o] = budget[o]
           /\ taken'[o] = taken[o]
           /\ calls'[o] = (IF effects[o] THEN calls[o] + 1 ELSE calls[o])
           /\ promised'[o] = promised[o] /\ ran'[o] = ran[o]
BY DEF RunEffect, OTypeOK, Goto, session, SameSession, Moves

LEMMA WriteAuditStep ==
    ASSUME NEW o \in Ops, OTypeOK, WriteAudit(o)
    PROVE  /\ Moves(o, "audit", "append") /\ SameCollector(o) /\ SameHistories(o)
           /\ DeliversAudit(o, "transactional") => Mutates(o)
           /\ written'[o] = written[o] \cup (IF DeliversAudit(o, "transactional") THEN {"audit"} ELSE {})
           /\ appended'[o] = appended[o]
BY DEF WriteAudit, OTypeOK, Goto, collector, histories, SameCollector, SameHistories, Moves

LEMMA AppendOutboxStep ==
    ASSUME NEW o \in Ops, OTypeOK, AppendOutbox(o)
    PROVE  /\ Moves(o, "append", "marker") /\ SameCollector(o) /\ SameHistories(o)
           /\ appended'[o] = records[o] \ outbox /\ written'[o] = written[o]
BY DEF AppendOutbox, OTypeOK, Goto, collector, histories, SameCollector, SameHistories,
    Moves

LEMMA CommitMarkerStep ==
    ASSUME NEW o \in Ops, OTypeOK, CommitMarker(o)
    PROVE  /\ pc[o] = "marker" /\ answer'[o] = answer[o] /\ SameHistories(o)
           /\ written'[o] = written[o] \cup (IF def[o].marker THEN {"receipt"} ELSE {})
           /\ appended'[o] = appended[o]
           /\ budget'[o] = budget[o]
           /\ \/ InTransaction(o) /\ pc'[o] = "commit" /\ SameCollector(o)
              \/ ~InTransaction(o) /\ pc'[o] = "readd" /\ Taken(o)
BY DEF CommitMarker, OTypeOK, Goto, Take, histories, SameCollector, SameHistories, Taken

LEMMA CommitStep ==
    ASSUME NEW o \in Ops, OTypeOK, Commit(o)
    PROVE  /\ Moves(o, "commit", "readd") /\ Discarded(o) /\ Taken(o) /\ SameHistories(o)
BY DEF Commit, OTypeOK, Goto, Discard, Take, histories, SameHistories, Discarded, Taken,
    Moves

LEMMA CommitThrowsStep ==
    ASSUME NEW o \in Ops, OTypeOK, CommitThrows(o)
    PROVE  /\ EndsAt(o, "commit", "unknown") /\ Discarded(o) /\ SameHistories(o)
BY DEF CommitThrows, OTypeOK, Ends, Discard, histories, Goto, Dispose, SameHistories,
    Discarded, EndsAt, Disposed

LEMMA CallbackThrowsStep ==
    ASSUME NEW o \in Ops, OTypeOK, CallbackThrows(o)
    PROVE  /\ pc[o] \in InCallback /\ Discarded(o) /\ Disposed(o) /\ SameHistories(o)
           /\ \/ /\ pc'[o] = "open" /\ answer'[o] = answer[o] /\ InTransaction(o)
                 /\ ~effects[o]
              \/ pc'[o] = "done" /\ answer'[o] = "failed"
<1>1. pc[o] \in InCallback /\ Discarded(o) /\ SameHistories(o)
    BY DEF CallbackThrows, OTypeOK, Discard, Discarded, histories, SameHistories
<1>2. \/ Goto(o, "open") /\ Dispose(o) /\ UNCHANGED answer /\ InTransaction(o) /\ ~effects[o]
      \/ Ends(o, "failed")
    BY DEF CallbackThrows, HadSideEffects
<1>3. Dispose(o) => Disposed(o)
    BY DEF OTypeOK, Dispose, Disposed
<1> QED
    BY <1>1, <1>2, <1>3 DEF OTypeOK, Goto, Ends

LEMMA PrepareStep ==
    ASSUME NEW o \in Ops, OTypeOK, Prepare(o)
    PROVE  /\ Moves(o, "prepare", "fence")
           /\ appended'[o] = accepted'[o]
           /\ written'[o] = {"row"} \cup (IF Audited(o) THEN {"audit"} ELSE {}) \cup (IF def[o].marker THEN {"receipt"} ELSE {})
           /\ \E n \in 0..MaxRegistered :
              /\ taken'[o] = Fresh(o, 0, n) /\ promised'[o] = Elements(Fresh(o, 0, n))
              /\ budget'[o] = n
           /\ effects'[o] = effects[o] /\ records'[o] = records[o] /\ queue'[o] = queue[o]
           /\ calls'[o] = calls[o] /\ ran'[o] = ran[o]
BY DEF Prepare, OTypeOK, Goto, Moves

LEMMA PrecheckStep ==
    ASSUME NEW o \in Ops, OTypeOK, Precheck(o)
    PROVE  /\ Moves(o, "fence", "batch") /\ SameCollector(o) /\ SameHistories(o)
           /\ appended'[o] = appended[o] \ outbox /\ written'[o] = written[o]
BY DEF Precheck, OTypeOK, Goto, collector, histories, SameCollector, SameHistories, Moves

LEMMA PrepareThrowsStep ==
    ASSUME NEW o \in Ops, OTypeOK, PrepareThrows(o)
    PROVE  /\ \E from \in {"prepare", "fence"} : EndsAt(o, from, "failed")
           /\ Discarded(o) /\ SameHistories(o)
BY DEF PrepareThrows, OTypeOK, Ends, Discard, histories, Goto, Dispose, SameHistories,
    Discarded, EndsAt, Disposed

LEMMA ExecuteBatchStep ==
    ASSUME NEW o \in Ops, OTypeOK, ExecuteBatch(o)
    PROVE  /\ Moves(o, "batch", "verify") /\ Discarded(o) /\ SameCollector(o) /\ SameHistories(o)
BY DEF ExecuteBatch, OTypeOK, Goto, Discard, collector, histories, SameCollector,
    SameHistories, Discarded, Moves

LEMMA BatchAbortsStep ==
    ASSUME NEW o \in Ops, OTypeOK, BatchAborts(o)
    PROVE  /\ EndsAt(o, "batch", "failed") /\ Discarded(o) /\ SameHistories(o)
BY DEF BatchAborts, OTypeOK, Ends, Discard, histories, Goto, Dispose, SameHistories,
    Discarded, EndsAt, Disposed

LEMMA BatchUnknownStep ==
    ASSUME NEW o \in Ops, OTypeOK, BatchUnknown(o)
    PROVE  /\ EndsAt(o, "batch", "unknown") /\ Discarded(o) /\ SameHistories(o)
BY DEF BatchUnknown, OTypeOK, Ends, Discard, histories, Goto, Dispose, SameHistories,
    Discarded, EndsAt, Disposed

LEMMA VerifyStep ==
    ASSUME NEW o \in Ops, OTypeOK, Verify(o)
    PROVE  /\ Moves(o, "verify", "business") /\ SameSession(o)
           /\ \E n \in 0..1 : Defers(o, n)
           /\ effects'[o] = effects[o] /\ records'[o] = records[o] /\ taken'[o] = taken[o]
           /\ accepted'[o] = accepted[o] /\ calls'[o] = calls[o] /\ ran'[o] = ran[o]
<1>1. \E n \in 0..1 : Defers(o, n)
    BY LateDefers DEF Verify
<1> QED
    BY <1>1 DEF Verify, OTypeOK, Goto, session, SameSession, Moves

LEMMA VerifyThrowsStep ==
    ASSUME NEW o \in Ops, OTypeOK, VerifyThrows(o)
    PROVE  /\ EndsAt(o, "verify", "committed") /\ SameSession(o) /\ SameHistories(o)
BY DEF VerifyThrows, OTypeOK, Ends, session, histories, Goto, Dispose, SameSession,
    SameHistories, EndsAt, Disposed

LEMMA ReaddStep ==
    ASSUME NEW o \in Ops, OTypeOK, Readd(o)
    PROVE  /\ pc[o] = "readd" /\ SameSession(o) /\ SameHistories(o)
           /\ \/ /\ budget[o] + Len(taken[o]) <= MaxDeferred
                 /\ pc'[o] = (IF InBatch(o) THEN "hooks" ELSE "business") /\ answer'[o] = answer[o]
                 /\ effects'[o] = effects[o] /\ records'[o] = records[o]
                 /\ queue'[o] = queue[o] \o taken[o] /\ taken'[o] = <<>>
                 /\ budget'[o] = budget[o] + Len(taken[o])
              \/ ~(budget[o] + Len(taken[o]) <= MaxDeferred) /\ EndsAt(o, "readd", "failed")
BY DEF Readd, OTypeOK, Goto, Ends, session, histories, Dispose, SameSession, SameHistories,
    EndsAt, Disposed

LEMMA OnBusinessResultStep ==
    ASSUME NEW o \in Ops, OTypeOK, OnBusinessResult(o)
    PROVE  /\ Moves(o, "business", IF InBatch(o) THEN "readd" ELSE "hooks") /\ SameSession(o)
           /\ \E n \in 0..1 : Defers(o, n)
           /\ effects'[o] = effects[o] /\ records'[o] = records[o] /\ taken'[o] = taken[o]
           /\ accepted'[o] = accepted[o] /\ calls'[o] = calls[o] /\ ran'[o] = ran[o]
<1>1. \E n \in 0..1 : Defers(o, n)
    BY LateDefers DEF OnBusinessResult, Callback
<1> QED
    BY <1>1 DEF OnBusinessResult, Callback, OTypeOK, Goto, session, SameSession, Moves

LEMMA AfterCommitHooksStep ==
    ASSUME NEW o \in Ops, OTypeOK, AfterCommitHooks(o)
    PROVE  /\ Moves(o, "hooks", "deferred") /\ SameSession(o)
           /\ \E n \in 0..1 : Defers(o, n)
           /\ effects'[o] = effects[o] /\ records'[o] = records[o] /\ taken'[o] = taken[o]
           /\ accepted'[o] = accepted[o] /\ calls'[o] = calls[o] /\ ran'[o] = ran[o]
<1>1. \E n \in 0..1 : Defers(o, n)
    BY LateDefers DEF AfterCommitHooks, Callback
<1> QED
    BY <1>1 DEF AfterCommitHooks, Callback, OTypeOK, Goto, session, SameSession, Moves

LEMMA RunDeferredStep ==
    ASSUME NEW o \in Ops, OTypeOK, RunDeferred(o)
    PROVE  /\ Moves(o, "deferred", "deferred") /\ SameSession(o) /\ queue[o] # <<>>
           /\ ran'[o] = Append(ran[o], Head(queue[o]))
           /\ \E n \in 0..1 :
              /\ queue'[o] = Tail(queue[o]) \o Fresh(o, budget[o], n) /\ budget'[o] = budget[o] + n
              /\ promised'[o] = promised[o] \cup Elements(Fresh(o, budget[o], n))
           /\ effects'[o] = effects[o] /\ records'[o] = records[o] /\ taken'[o] = taken[o]
           /\ accepted'[o] = accepted[o] /\ calls'[o] = calls[o]
<1>1. /\ queue[o] # <<>> /\ pc[o] = "deferred"
      /\ ran' = [ran EXCEPT ![o] = Append(ran[o], Head(queue[o]))]
      /\ UNCHANGED <<pc, answer, session, effects, records, taken, accepted, calls>>
    BY DEF RunDeferred
<1>2. PICK n \in Late(o) :
        /\ queue' = [queue EXCEPT ![o] = Tail(queue[o]) \o Fresh(o, budget[o], n)]
        /\ budget' = [budget EXCEPT ![o] = budget[o] + n]
        /\ promised' = [promised EXCEPT ![o] = promised[o] \cup Elements(Fresh(o, budget[o], n))]
    BY DEF RunDeferred
<1>3. n \in 0..1
    BY LateIsFew
<1>4. /\ queue'[o] = Tail(queue[o]) \o Fresh(o, budget[o], n) /\ budget'[o] = budget[o] + n
      /\ promised'[o] = promised[o] \cup Elements(Fresh(o, budget[o], n))
    BY <1>2 DEF OTypeOK
<1>5. ran'[o] = Append(ran[o], Head(queue[o]))
    BY <1>1 DEF OTypeOK
<1> QED
    BY <1>1, <1>3, <1>4, <1>5 DEF session, SameSession, Moves

LEMMA ReturnStep ==
    ASSUME NEW o \in Ops, OTypeOK, Return(o)
    PROVE  /\ EndsAt(o, "deferred", IF failed[o] THEN "committed" ELSE "result")
           /\ queue[o] = <<>> /\ SameSession(o) /\ SameHistories(o)
BY DEF Return, OTypeOK, Ends, session, histories, Goto, Dispose, SameSession, SameHistories,
    EndsAt, Disposed

LEMMA CrashStep ==
    ASSUME NEW o \in Ops, OTypeOK, Crash(o)
    PROVE  /\ pc[o] \notin {"idle"} \cup Ended /\ pc'[o] = "dead" /\ answer'[o] = answer[o]
           /\ Discarded(o) /\ Disposed(o) /\ SameHistories(o)
BY DEF Crash, OTypeOK, Goto, Dispose, Discard, histories, SameHistories, Discarded, Disposed

LEMMA HeldKept ==
    ASSUME NEW o \in Ops, OTypeOK, OPath(o), OHeld(o), OCollected(o), Acts(o)
    PROVE  OHeld(o)'
<1>0. /\ def' = def /\ (Mutates(o)' <=> Mutates(o)) /\ (Audited(o)' <=> Audited(o))
      /\ DeliversAudit(o, "transactional")' <=> DeliversAudit(o, "transactional")
      /\ def[o].marker => Mutates(o)
      /\ pc[o] \in {"prepare", "fence", "batch", "verify"} => Mutates(o)
      /\ pc[o] \in InCallback /\ ~InTransaction(o) => ~Mutates(o)
      /\ pc[o] \in {"open", "commit"} => InTransaction(o)
      /\ OHeld(o) /\ (pc[o] \in Collecting => records[o] = accepted[o])
      /\ pc[o] \in {"idle", "open", "before", "prepare"} => ~effects[o] /\ records[o] = {}
      /\ pc[o] = "before" => accepted[o] = {}
    BY OthersStay, DefinitionsStay, Pipelines DEF OPath, OCollected, InCallback, Ended
<1> USE <1>0 DEF OHeld, Writing, Collecting, InCallback, Ended
<1>1. CASE Start(o)
    BY <1>1, StartStep DEF SameSession, SameCollector, SameHistories
<1>2. CASE Refuse(o)
    BY <1>2, RefuseStep DEF SameSession, SameHistories, EndsAt, Disposed
<1>3. CASE Open(o)
    BY <1>3, OpenStep DEF SameSession, SameCollector, Moves
<1>4. CASE Before(o)
    BY <1>4, BeforeStep DEF SameSession, Defers, Moves
<1>5. CASE Execute(o)
    BY <1>5, ExecuteStep DEF SameCollector, SameHistories, Moves
<1>6. CASE After(o)
    BY <1>6, AfterStep DEF SameSession, Defers, Moves
<1>7. CASE RunEffect(o)
    BY <1>7, RunEffectStep DEF SameSession, Moves
<1>8. CASE WriteAudit(o)
    BY <1>8, WriteAuditStep DEF SameCollector, SameHistories, Moves
<1>9. CASE AppendOutbox(o)
    BY <1>9, AppendOutboxStep DEF SameCollector, SameHistories, Moves
<1>10. CASE CommitMarker(o)
    BY <1>10, CommitMarkerStep DEF SameCollector, SameHistories, Taken
<1>11. CASE Commit(o)
    BY <1>11, CommitStep DEF SameHistories, Discarded, Taken, Moves
<1>12. CASE CommitThrows(o)
    BY <1>12, CommitThrowsStep DEF SameHistories, Discarded, EndsAt, Disposed
<1>13. CASE CallbackThrows(o)
    BY <1>13, CallbackThrowsStep DEF SameHistories, Discarded, Disposed
<1>14. CASE Prepare(o)
    BY <1>14, PrepareStep DEF Moves
<1>15. CASE Precheck(o)
    BY <1>15, PrecheckStep DEF SameCollector, SameHistories, Moves
<1>16. CASE PrepareThrows(o)
    BY <1>16, PrepareThrowsStep DEF SameHistories, Discarded, EndsAt, Disposed
<1>17. CASE ExecuteBatch(o)
    BY <1>17, ExecuteBatchStep DEF SameCollector, SameHistories, Discarded, Moves
<1>18. CASE BatchAborts(o)
    BY <1>18, BatchAbortsStep DEF SameHistories, Discarded, EndsAt, Disposed
<1>19. CASE BatchUnknown(o)
    BY <1>19, BatchUnknownStep DEF SameHistories, Discarded, EndsAt, Disposed
<1>20. CASE Verify(o)
    BY <1>20, VerifyStep DEF SameSession, Defers, Moves
<1>21. CASE VerifyThrows(o)
    BY <1>21, VerifyThrowsStep DEF SameSession, SameHistories, EndsAt, Disposed
<1>22. CASE Readd(o)
    BY <1>22, ReaddStep DEF SameSession, SameHistories, EndsAt, Disposed
<1>23. CASE OnBusinessResult(o)
    BY <1>23, OnBusinessResultStep DEF SameSession, Defers, Moves
<1>24. CASE AfterCommitHooks(o)
    BY <1>24, AfterCommitHooksStep DEF SameSession, Defers, Moves
<1>25. CASE RunDeferred(o)
    BY <1>25, RunDeferredStep DEF SameSession, Moves
<1>26. CASE Return(o)
    BY <1>26, ReturnStep DEF SameSession, SameHistories, EndsAt, Disposed
<1>27. CASE Crash(o)
    BY <1>27, CrashStep DEF SameHistories, Discarded, Disposed
<1> QED
    BY <1>1, <1>2, <1>3, <1>4, <1>5, <1>6, <1>7, <1>8, <1>9, <1>10, <1>11, <1>12, <1>13,
       <1>14, <1>15, <1>16, <1>17, <1>18, <1>19, <1>20, <1>21, <1>22, <1>23, <1>24, <1>25,
       <1>26, <1>27 DEF Acts, Proceeds, Transacts, Batches, Finishes

LEMMA CollectedKept ==
    ASSUME NEW o \in Ops, OTypeOK, OCollected(o), Acts(o)
    PROVE  OCollected(o)'
<1>0. /\ DeliversAudit(o, "outbox")' <=> DeliversAudit(o, "outbox")
      /\ AuditEvent(o)' = AuditEvent(o) /\ OCollected(o)
    BY OthersStay, DefinitionsStay
<1> USE <1>0 DEF OCollected, Collecting, InCallback, Ended
<1>1. CASE Start(o)
    BY <1>1, StartStep DEF SameSession, SameCollector, SameHistories
<1>2. CASE Refuse(o)
    BY <1>2, RefuseStep DEF SameSession, SameHistories, EndsAt, Disposed
<1>3. CASE Open(o)
    BY <1>3, OpenStep DEF SameSession, SameCollector, Moves
<1>4. CASE Before(o)
    BY <1>4, BeforeStep DEF SameSession, Defers, Moves
<1>5. CASE Execute(o)
    BY <1>5, ExecuteStep DEF SameCollector, SameHistories, Moves
<1>6. CASE After(o)
    BY <1>6, AfterStep DEF SameSession, Defers, Moves
<1>7. CASE RunEffect(o)
    BY <1>7, RunEffectStep DEF SameSession, Moves
<1>8. CASE WriteAudit(o)
    BY <1>8, WriteAuditStep DEF SameCollector, SameHistories, Moves
<1>9. CASE AppendOutbox(o)
    BY <1>9, AppendOutboxStep DEF SameCollector, SameHistories, Moves
<1>10. CASE CommitMarker(o)
    BY <1>10, CommitMarkerStep DEF SameCollector, SameHistories, Taken
<1>11. CASE Commit(o)
    BY <1>11, CommitStep DEF SameHistories, Discarded, Taken, Moves
<1>12. CASE CommitThrows(o)
    BY <1>12, CommitThrowsStep DEF SameHistories, Discarded, EndsAt, Disposed
<1>13. CASE CallbackThrows(o)
    BY <1>13, CallbackThrowsStep DEF SameHistories, Discarded, Disposed
<1>14. CASE Prepare(o)
    BY <1>14, PrepareStep DEF Moves
<1>15. CASE Precheck(o)
    BY <1>15, PrecheckStep DEF SameCollector, SameHistories, Moves
<1>16. CASE PrepareThrows(o)
    BY <1>16, PrepareThrowsStep DEF SameHistories, Discarded, EndsAt, Disposed
<1>17. CASE ExecuteBatch(o)
    BY <1>17, ExecuteBatchStep DEF SameCollector, SameHistories, Discarded, Moves
<1>18. CASE BatchAborts(o)
    BY <1>18, BatchAbortsStep DEF SameHistories, Discarded, EndsAt, Disposed
<1>19. CASE BatchUnknown(o)
    BY <1>19, BatchUnknownStep DEF SameHistories, Discarded, EndsAt, Disposed
<1>20. CASE Verify(o)
    BY <1>20, VerifyStep DEF SameSession, Defers, Moves
<1>21. CASE VerifyThrows(o)
    BY <1>21, VerifyThrowsStep DEF SameSession, SameHistories, EndsAt, Disposed
<1>22. CASE Readd(o)
    BY <1>22, ReaddStep DEF SameSession, SameHistories, EndsAt, Disposed
<1>23. CASE OnBusinessResult(o)
    BY <1>23, OnBusinessResultStep DEF SameSession, Defers, Moves
<1>24. CASE AfterCommitHooks(o)
    BY <1>24, AfterCommitHooksStep DEF SameSession, Defers, Moves
<1>25. CASE RunDeferred(o)
    BY <1>25, RunDeferredStep DEF SameSession, Moves
<1>26. CASE Return(o)
    BY <1>26, ReturnStep DEF SameSession, SameHistories, EndsAt, Disposed
<1>27. CASE Crash(o)
    BY <1>27, CrashStep DEF SameHistories, Discarded, Disposed
<1> QED
    BY <1>1, <1>2, <1>3, <1>4, <1>5, <1>6, <1>7, <1>8, <1>9, <1>10, <1>11, <1>12, <1>13,
       <1>14, <1>15, <1>16, <1>17, <1>18, <1>19, <1>20, <1>21, <1>22, <1>23, <1>24, <1>25,
       <1>26, <1>27 DEF Acts, Proceeds, Transacts, Batches, Finishes

LEMMA CalledKept ==
    ASSUME NEW o \in Ops, OTypeOK, OCalled(o), Acts(o)
    PROVE  OCalled(o)'
<1>0. OCalled(o) /\ calls[o] \in Nat
    BY DEF OTypeOK
<1> USE <1>0 DEF OCalled, InCallback, Ended
<1>1. CASE Start(o)
    BY <1>1, StartStep DEF SameSession, SameCollector, SameHistories
<1>2. CASE Refuse(o)
    BY <1>2, RefuseStep DEF SameSession, SameHistories, EndsAt, Disposed
<1>3. CASE Open(o)
    BY <1>3, OpenStep DEF SameSession, SameCollector, Moves
<1>4. CASE Before(o)
    BY <1>4, BeforeStep DEF SameSession, Defers, Moves
<1>5. CASE Execute(o)
    BY <1>5, ExecuteStep DEF SameCollector, SameHistories, Moves
<1>6. CASE After(o)
    BY <1>6, AfterStep DEF SameSession, Defers, Moves
<1>7. CASE RunEffect(o)
    BY <1>7, RunEffectStep DEF SameSession, Moves
<1>8. CASE WriteAudit(o)
    BY <1>8, WriteAuditStep DEF SameCollector, SameHistories, Moves
<1>9. CASE AppendOutbox(o)
    BY <1>9, AppendOutboxStep DEF SameCollector, SameHistories, Moves
<1>10. CASE CommitMarker(o)
    BY <1>10, CommitMarkerStep DEF SameCollector, SameHistories, Taken
<1>11. CASE Commit(o)
    BY <1>11, CommitStep DEF SameHistories, Discarded, Taken, Moves
<1>12. CASE CommitThrows(o)
    BY <1>12, CommitThrowsStep DEF SameHistories, Discarded, EndsAt, Disposed
<1>13. CASE CallbackThrows(o)
    BY <1>13, CallbackThrowsStep DEF SameHistories, Discarded, Disposed
<1>14. CASE Prepare(o)
    BY <1>14, PrepareStep DEF Moves
<1>15. CASE Precheck(o)
    BY <1>15, PrecheckStep DEF SameCollector, SameHistories, Moves
<1>16. CASE PrepareThrows(o)
    BY <1>16, PrepareThrowsStep DEF SameHistories, Discarded, EndsAt, Disposed
<1>17. CASE ExecuteBatch(o)
    BY <1>17, ExecuteBatchStep DEF SameCollector, SameHistories, Discarded, Moves
<1>18. CASE BatchAborts(o)
    BY <1>18, BatchAbortsStep DEF SameHistories, Discarded, EndsAt, Disposed
<1>19. CASE BatchUnknown(o)
    BY <1>19, BatchUnknownStep DEF SameHistories, Discarded, EndsAt, Disposed
<1>20. CASE Verify(o)
    BY <1>20, VerifyStep DEF SameSession, Defers, Moves
<1>21. CASE VerifyThrows(o)
    BY <1>21, VerifyThrowsStep DEF SameSession, SameHistories, EndsAt, Disposed
<1>22. CASE Readd(o)
    BY <1>22, ReaddStep DEF SameSession, SameHistories, EndsAt, Disposed
<1>23. CASE OnBusinessResult(o)
    BY <1>23, OnBusinessResultStep DEF SameSession, Defers, Moves
<1>24. CASE AfterCommitHooks(o)
    BY <1>24, AfterCommitHooksStep DEF SameSession, Defers, Moves
<1>25. CASE RunDeferred(o)
    BY <1>25, RunDeferredStep DEF SameSession, Moves
<1>26. CASE Return(o)
    BY <1>26, ReturnStep DEF SameSession, SameHistories, EndsAt, Disposed
<1>27. CASE Crash(o)
    BY <1>27, CrashStep DEF SameHistories, Discarded, Disposed
<1> QED
    BY <1>1, <1>2, <1>3, <1>4, <1>5, <1>6, <1>7, <1>8, <1>9, <1>10, <1>11, <1>12, <1>13,
       <1>14, <1>15, <1>16, <1>17, <1>18, <1>19, <1>20, <1>21, <1>22, <1>23, <1>24, <1>25,
       <1>26, <1>27 DEF Acts, Proceeds, Transacts, Batches, Finishes

\* Effects registered are queued, and none of them was accepted before.
LEMMA DefersMore ==
    ASSUME NEW o \in Ops, OTypeOK, ODeferrals(o), pc[o] \notin {"open"} \cup Ended,
           NEW n \in Nat, Defers(o, n), ran'[o] = ran[o], taken'[o] = taken[o]
    PROVE  /\ Len(queue'[o]) = Len(queue[o]) + n
           /\ NoRepetition(queue'[o]) /\ Apart(ran'[o], queue'[o]) /\ Apart(queue'[o], taken'[o])
           /\ Elements(ran'[o]) \subseteq promised'[o]
           /\ promised'[o] = Elements(ran'[o]) \cup Elements(queue'[o]) \cup Elements(taken'[o])
           /\ \A x \in promised'[o] : x.n <= budget'[o]
<1> DEFINE t == Fresh(o, budget[o], n)
<1> DEFINE q == queue[o]
<1> DEFINE b == budget[o]
<1>1. /\ q \in Seq(Deferred) /\ ran[o] \in Seq(Deferred) /\ taken[o] \in Seq(Deferred)
      /\ b \in Nat /\ promised[o] \subseteq Deferred
    BY DEF OTypeOK
<1>2. /\ t \in Seq(Deferred) /\ Len(t) = n /\ NoRepetition(t)
      /\ \A x \in Elements(t) : x.n > b /\ x.n <= b + n
      /\ Elements(t) \subseteq Deferred
    BY <1>1, FreshEffects
<1>3. /\ queue'[o] = q \o t /\ budget'[o] = b + n /\ promised'[o] = promised[o] \cup Elements(t)
    BY DEF Defers
<1> HIDE DEF t, q, b
<1>4. /\ promised[o] = Elements(ran[o]) \cup Elements(q) \cup Elements(taken[o])
      /\ \A x \in promised[o] : x.n <= b
      /\ NoRepetition(q) /\ Apart(ran[o], q) /\ Apart(q, taken[o])
    BY DEF ODeferrals, q, b
<1>5. Apart(q, t) /\ Apart(ran[o], t) /\ Apart(taken[o], t)
    BY <1>1, <1>2, <1>4, CountedApart
<1>6. Apart(t, taken[o])
    BY <1>5, ApartBothWays
<1>7. /\ Elements(q \o t) = Elements(q) \cup Elements(t) /\ NoRepetition(q \o t)
      /\ Apart(ran[o], q \o t) /\ Apart(q \o t, taken[o])
    BY <1>1, <1>2, <1>4, <1>5, <1>6, Joined
<1>8. Len(q \o t) = Len(q) + n
    BY <1>1, <1>2, Joined
<1>9. \A x \in promised'[o] : x.n <= budget'[o]
    <2>1. SUFFICES ASSUME NEW x \in promised'[o]
                   PROVE  x.n <= budget'[o]
        OBVIOUS
    <2>2. CASE x \in promised[o]
        <3>1. x.n \in Nat /\ x.n <= b
            BY <2>2, <1>1, <1>4 DEF Deferred
        <3> QED
            BY <3>1, <1>1, <1>3
    <2>3. CASE x \in Elements(t)
        BY <2>3, <1>2, <1>3
    <2> QED
        BY <2>1, <2>2, <2>3, <1>3
<1>10. promised'[o] = Elements(ran[o]) \cup Elements(queue'[o]) \cup Elements(taken[o])
    BY <1>3, <1>4, <1>7
<1>11. /\ Len(queue'[o]) = Len(q) + n /\ NoRepetition(queue'[o])
       /\ Apart(ran[o], queue'[o]) /\ Apart(queue'[o], taken[o])
    BY <1>3, <1>7, <1>8
<1> QED
    BY <1>9, <1>10, <1>11 DEF q

LEMMA RoomKept ==
    ASSUME NEW o \in Ops, OTypeOK, OPath(o), OCollected(o), ODeferrals(o), ORoom(o), Acts(o)
    PROVE  ORoom(o)'
<1>c. OTypeOK /\ ODeferrals(o)
    OBVIOUS
<1>a. /\ Len(queue[o]) \in Nat /\ Len(taken[o]) \in Nat /\ budget[o] \in Nat
      /\ Len(<<>>) = 0 /\ MaxRegistered \in Nat
    BY BoundsAssumption DEF OTypeOK
<1>b. /\ ORoom(o) /\ (InBatch(o)' <=> InBatch(o))
      /\ pc[o] \in {"prepare", "fence", "batch", "verify"} => InBatch(o)
      /\ pc[o] \in {"open", "commit"} \cup InCallback => ~InBatch(o)
      /\ pc[o] = "before" => queue[o] = <<>> /\ budget[o] = 0
    BY OthersStay, DefinitionsStay, Pipelines DEF OPath, OCollected
<1>d. InBatch(o)' <=> InBatch(o)
    BY OthersStay, DefinitionsStay
<1> USE DEF ORoom, Collecting, InCallback, Ended
<1>1. CASE Start(o)
    BY <1>1, StartStep, <1>a, <1>b DEF SameSession, SameCollector, SameHistories
<1>2. CASE Refuse(o)
    BY <1>2, RefuseStep, <1>a, <1>b DEF SameSession, SameHistories, EndsAt, Disposed
<1>3. CASE Open(o)
    BY <1>3, OpenStep, <1>a, <1>b DEF SameSession, SameCollector, Moves
<1>4. CASE Before(o)
    <2>1. PICK n \in 0..MaxRegistered : Defers(o, n)
        BY <1>4, BeforeStep
    <2>2. n \in Nat /\ n <= MaxRegistered
        BY <2>1, <1>a
    <2>3. pc[o] \notin {"open"} \cup Ended /\ ran'[o] = ran[o] /\ taken'[o] = taken[o]
        BY <1>4, BeforeStep DEF Moves
    <2>4. Len(queue'[o]) = Len(queue[o]) + n
        BY <2>1, <2>2, <2>3, <1>c, DefersMore
    <2>5. budget'[o] = budget[o] + n
        BY <2>1 DEF Defers
    <2>6. Moves(o, pc[o], pc'[o]) /\ pc[o] = "before"
          /\ pc'[o] = "execute"
        BY <1>4, BeforeStep DEF Moves
    <2>7. Len(queue[o]) = 0 /\ budget[o] = 0
        <3>1. queue[o] = <<>> /\ budget[o] = 0
            BY <2>6 DEF OCollected
        <3> QED
            BY <3>1, NothingToRun
    <2>8. budget'[o] <= MaxRegistered /\ Len(queue'[o]) <= budget'[o]
        BY <2>2, <2>4, <2>5, <2>7, <1>a
    <2> QED
        BY <2>6, <2>8, <2>2, <2>5, <2>7, <1>a
<1>5. CASE Execute(o)
    BY <1>5, ExecuteStep, <1>a, <1>b DEF SameCollector, SameHistories, Moves
<1>6. CASE After(o)
    <2>1. PICK n \in 0..1 : Defers(o, n)
        BY <1>6, AfterStep
    <2>2. n \in Nat /\ n <= 1
        BY <2>1, <1>a
    <2>3. pc[o] \notin {"open"} \cup Ended /\ ran'[o] = ran[o] /\ taken'[o] = taken[o]
        BY <1>6, AfterStep DEF Moves
    <2>4. Len(queue'[o]) = Len(queue[o]) + n
        BY <2>1, <2>2, <2>3, <1>c, DefersMore
    <2>5. budget'[o] = budget[o] + n
        BY <2>1 DEF Defers
    <2>6. Moves(o, pc[o], pc'[o]) /\ pc[o] = "after"
          /\ pc'[o] = "effects"
        BY <1>6, AfterStep DEF Moves
    <2> QED
        BY <2>2, <2>3, <2>4, <2>5, <2>6, <1>a, <1>b
<1>7. CASE RunEffect(o)
    BY <1>7, RunEffectStep, <1>a, <1>b DEF SameSession, Moves
<1>8. CASE WriteAudit(o)
    BY <1>8, WriteAuditStep, <1>a, <1>b DEF SameCollector, SameHistories, Moves
<1>9. CASE AppendOutbox(o)
    BY <1>9, AppendOutboxStep, <1>a, <1>b DEF SameCollector, SameHistories, Moves
<1>10. CASE CommitMarker(o)
    BY <1>10, CommitMarkerStep, <1>a, <1>b DEF SameCollector, SameHistories, Taken
<1>11. CASE Commit(o)
    BY <1>11, CommitStep, <1>a, <1>b DEF SameHistories, Discarded, Taken, Moves
<1>12. CASE CommitThrows(o)
    BY <1>12, CommitThrowsStep, <1>a, <1>b DEF SameHistories, Discarded, EndsAt, Disposed
<1>13. CASE CallbackThrows(o)
    BY <1>13, CallbackThrowsStep, <1>a, <1>b DEF SameHistories, Discarded, Disposed
<1>14. CASE Prepare(o)
    <2>1. PICK n \in 0..MaxRegistered : taken'[o] = Fresh(o, 0, n) /\ budget'[o] = n
        BY <1>14, PrepareStep
    <2>2. Len(taken'[o]) = n /\ n \in Nat /\ n <= MaxRegistered
        <3>1. n \in Nat /\ n <= MaxRegistered
            BY <2>1, <1>a
        <3>2. Len(Fresh(o, 0, n)) = n
            BY <3>1, <1>c, FreshEffects
        <3> QED
            BY <2>1, <3>1, <3>2
    <2> QED
        BY <1>14, <2>1, <2>2, <1>a, <1>b, PrepareStep DEF Moves
<1>15. CASE Precheck(o)
    BY <1>15, PrecheckStep, <1>a, <1>b DEF SameCollector, SameHistories, Moves
<1>16. CASE PrepareThrows(o)
    BY <1>16, PrepareThrowsStep, <1>a, <1>b DEF SameHistories, Discarded, EndsAt, Disposed
<1>17. CASE ExecuteBatch(o)
    BY <1>17, ExecuteBatchStep, <1>a, <1>b DEF SameCollector, SameHistories, Discarded, Moves
<1>18. CASE BatchAborts(o)
    BY <1>18, BatchAbortsStep, <1>a, <1>b DEF SameHistories, Discarded, EndsAt, Disposed
<1>19. CASE BatchUnknown(o)
    BY <1>19, BatchUnknownStep, <1>a, <1>b DEF SameHistories, Discarded, EndsAt, Disposed
<1>20. CASE Verify(o)
    <2>1. PICK n \in 0..1 : Defers(o, n)
        BY <1>20, VerifyStep
    <2>2. n \in Nat /\ n <= 1
        BY <2>1, <1>a
    <2>3. pc[o] \notin {"open"} \cup Ended /\ ran'[o] = ran[o] /\ taken'[o] = taken[o]
        BY <1>20, VerifyStep DEF Moves
    <2>4. Len(queue'[o]) = Len(queue[o]) + n
        BY <2>1, <2>2, <2>3, <1>c, DefersMore
    <2>5. budget'[o] = budget[o] + n
        BY <2>1 DEF Defers
    <2>6. Moves(o, pc[o], pc'[o]) /\ pc[o] = "verify"
          /\ pc'[o] = "business"
        BY <1>20, VerifyStep DEF Moves
    <2> QED
        BY <2>2, <2>3, <2>4, <2>5, <2>6, <1>a, <1>b
<1>21. CASE VerifyThrows(o)
    BY <1>21, VerifyThrowsStep, <1>a, <1>b DEF SameSession, SameHistories, EndsAt, Disposed
<1>22. CASE Readd(o)
    <2>1. pc'[o] \in {"hooks", "business", "done"} /\ (pc'[o] = "business" => ~InBatch(o))
        BY <1>22, ReaddStep DEF EndsAt
    <2> QED
        BY <2>1, <1>d
<1>23. CASE OnBusinessResult(o)
    <2>1. PICK n \in 0..1 : Defers(o, n)
        BY <1>23, OnBusinessResultStep
    <2>2. n \in Nat /\ n <= 1
        BY <2>1, <1>a
    <2>3. pc[o] \notin {"open"} \cup Ended /\ ran'[o] = ran[o] /\ taken'[o] = taken[o]
        BY <1>23, OnBusinessResultStep DEF Moves
    <2>4. Len(queue'[o]) = Len(queue[o]) + n
        BY <2>1, <2>2, <2>3, <1>c, DefersMore
    <2>5. budget'[o] = budget[o] + n
        BY <2>1 DEF Defers
    <2>6. Moves(o, pc[o], pc'[o]) /\ pc[o] = "business"
          /\ pc'[o] = IF InBatch(o) THEN "readd" ELSE "hooks"
        BY <1>23, OnBusinessResultStep DEF Moves
    <2>7. CASE InBatch(o)
        BY <2>2, <2>3, <2>5, <2>6, <2>7, <1>a, <1>b
    <2>8. CASE ~InBatch(o)
        BY <2>6, <2>8, <1>b
    <2> QED
        BY <2>2, <2>3, <2>4, <2>5, <2>6, <1>a, <1>b
<1>24. CASE AfterCommitHooks(o)
    <2>1. PICK n \in 0..1 : Defers(o, n)
        BY <1>24, AfterCommitHooksStep
    <2>2. n \in Nat /\ n <= 1
        BY <2>1, <1>a
    <2>3. pc[o] \notin {"open"} \cup Ended /\ ran'[o] = ran[o] /\ taken'[o] = taken[o]
        BY <1>24, AfterCommitHooksStep DEF Moves
    <2>4. Len(queue'[o]) = Len(queue[o]) + n
        BY <2>1, <2>2, <2>3, <1>c, DefersMore
    <2>5. budget'[o] = budget[o] + n
        BY <2>1 DEF Defers
    <2>6. Moves(o, pc[o], pc'[o]) /\ pc[o] = "hooks"
          /\ pc'[o] = "deferred"
        BY <1>24, AfterCommitHooksStep DEF Moves
    <2> QED
        BY <2>2, <2>3, <2>4, <2>5, <2>6, <1>a, <1>b
<1>25. CASE RunDeferred(o)
    BY <1>25, RunDeferredStep, <1>a, <1>b DEF SameSession, Moves
<1>26. CASE Return(o)
    BY <1>26, ReturnStep, <1>a, <1>b DEF SameSession, SameHistories, EndsAt, Disposed
<1>27. CASE Crash(o)
    BY <1>27, CrashStep, <1>a, <1>b DEF SameHistories, Discarded, Disposed
<1> QED
    BY <1>1, <1>2, <1>3, <1>4, <1>5, <1>6, <1>7, <1>8, <1>9, <1>10, <1>11, <1>12, <1>13,
       <1>14, <1>15, <1>16, <1>17, <1>18, <1>19, <1>20, <1>21, <1>22, <1>23, <1>24, <1>25,
       <1>26, <1>27 DEF Acts, Proceeds, Transacts, Batches, Finishes

\* When a run ends, what it has run stays what it accepted.
LEMMA DisposedOf ==
    ASSUME NEW o \in Ops, ODeferrals(o), Disposed(o), SameHistories(o),
           pc'[o] \in {"open"} \cup Ended, pc'[o] = "open" => ran[o] = <<>>,
           answer'[o] = "result" => promised[o] \subseteq Elements(ran[o])
    PROVE  ODeferrals(o)'
<1>1. /\ queue'[o] = <<>> /\ taken'[o] = <<>> /\ ran'[o] = ran[o] /\ promised'[o] = promised[o]
      /\ NoRepetition(ran[o]) /\ Elements(ran[o]) \subseteq promised[o]
      /\ pc'[o] \notin {"commit", "hooks", "deferred"} \cup InCallback
      /\ pc'[o] \notin {"open"} \cup Ended => FALSE
    BY DEF ODeferrals, Disposed, SameHistories, Ended, InCallback
<1> QED
    BY <1>1, NothingToRun DEF ODeferrals

LEMMA DeferralsKept ==
    ASSUME NEW o \in Ops, OTypeOK, OPath(o), OCollected(o), ODeferrals(o), Acts(o)
    PROVE  ODeferrals(o)'
<1>a. /\ ODeferrals(o) /\ (pc[o] # "done" => answer[o] = "none")
      /\ pc[o] \in {"idle", "open", "before", "prepare"} => queue[o] = <<>> /\ taken[o] = <<>>
    BY DEF OPath, OCollected
<1>c. OTypeOK /\ ODeferrals(o)
    OBVIOUS
<1>d. (InBatch(o)' <=> InBatch(o)) /\ (pc[o] = "verify" => InBatch(o))
    BY OthersStay, DefinitionsStay DEF OPath
<1> USE DEF ODeferrals, InCallback, Ended
<1>1. CASE Start(o)
    BY <1>1, StartStep, <1>a DEF SameSession, SameCollector, SameHistories
<1>2. CASE Refuse(o)
    <2>1. /\ pc'[o] \in Ended /\ answer'[o] # "result"
          /\ Disposed(o) /\ SameHistories(o)
        BY <1>2, RefuseStep, <1>a DEF EndsAt, Disposed
    <2> QED
        BY <2>1, <1>c, DisposedOf
<1>3. CASE Open(o)
    <2>1. /\ queue[o] = <<>> /\ taken[o] = <<>> /\ ran[o] = <<>> /\ pc'[o] = "before"
          /\ queue'[o] = queue[o] /\ taken'[o] = taken[o] /\ ran'[o] = ran[o] /\ promised'[o] = {}
          /\ answer'[o] = answer[o]
        BY <1>3, OpenStep, <1>a DEF SameCollector, Moves
    <2> QED
        BY <2>1, <1>a, NothingToRun
<1>4. CASE Before(o)
    <2>1. PICK n \in 0..MaxRegistered : Defers(o, n)
        BY <1>4, BeforeStep
    <2>2. n \in Nat
        BY <2>1, BoundsAssumption
    <2>3. /\ pc[o] \notin {"open"} \cup Ended /\ ran'[o] = ran[o] /\ taken'[o] = taken[o]
          /\ answer'[o] = answer[o] /\ pc[o] # "done"
        BY <1>4, BeforeStep DEF Moves
    <2>4. /\ NoRepetition(queue'[o]) /\ Apart(ran'[o], queue'[o]) /\ Apart(queue'[o], taken'[o])
          /\ Elements(ran'[o]) \subseteq promised'[o]
          /\ promised'[o] = Elements(ran'[o]) \cup Elements(queue'[o]) \cup Elements(taken'[o])
          /\ \A x \in promised'[o] : x.n <= budget'[o]
        BY <2>1, <2>2, <2>3, <1>c, DefersMore
    <2>5. pc[o] = "before" /\ pc'[o] = "execute"
        BY <1>4, BeforeStep DEF Moves
    <2> QED
        BY <2>3, <2>4, <2>5, <1>a
<1>5. CASE Execute(o)
    BY <1>5, ExecuteStep, <1>a DEF SameCollector, SameHistories, Moves
<1>6. CASE After(o)
    <2>1. PICK n \in 0..1 : Defers(o, n)
        BY <1>6, AfterStep
    <2>2. n \in Nat
        BY <2>1, BoundsAssumption
    <2>3. /\ pc[o] \notin {"open"} \cup Ended /\ ran'[o] = ran[o] /\ taken'[o] = taken[o]
          /\ answer'[o] = answer[o] /\ pc[o] # "done"
        BY <1>6, AfterStep DEF Moves
    <2>4. /\ NoRepetition(queue'[o]) /\ Apart(ran'[o], queue'[o]) /\ Apart(queue'[o], taken'[o])
          /\ Elements(ran'[o]) \subseteq promised'[o]
          /\ promised'[o] = Elements(ran'[o]) \cup Elements(queue'[o]) \cup Elements(taken'[o])
          /\ \A x \in promised'[o] : x.n <= budget'[o]
        BY <2>1, <2>2, <2>3, <1>c, DefersMore
    <2>5. pc[o] = "after" /\ pc'[o] = "effects"
        BY <1>6, AfterStep DEF Moves
    <2> QED
        BY <2>3, <2>4, <2>5, <1>a
<1>7. CASE RunEffect(o)
    BY <1>7, RunEffectStep, <1>a DEF SameSession, Moves
<1>8. CASE WriteAudit(o)
    BY <1>8, WriteAuditStep, <1>a DEF SameCollector, SameHistories, Moves
<1>9. CASE AppendOutbox(o)
    BY <1>9, AppendOutboxStep, <1>a DEF SameCollector, SameHistories, Moves
<1>10. CASE CommitMarker(o)
    <2>1. CASE SameCollector(o) /\ pc'[o] = "commit"
        BY <1>10, <2>1, CommitMarkerStep, <1>a DEF SameCollector, SameHistories
    <2>2. CASE Taken(o) /\ pc'[o] = "readd"
        <3>1. /\ ran'[o] = <<>> /\ ran[o] = <<>> /\ queue'[o] = <<>> /\ taken[o] = <<>>
              /\ taken'[o] = queue[o]
              /\ promised'[o] = promised[o] /\ budget'[o] = budget[o] /\ answer'[o] = "none"
              /\ pc[o] = "marker"
            BY <1>10, <2>2, CommitMarkerStep, <1>a DEF SameHistories, Taken
        <3> QED
            BY <2>2, <3>1, <1>a, NothingToRun
    <2> QED
        BY <1>10, <2>1, <2>2, CommitMarkerStep
<1>11. CASE Commit(o)
    <2>1. /\ ran'[o] = <<>> /\ ran[o] = <<>> /\ queue'[o] = <<>> /\ taken[o] = <<>>
          /\ taken'[o] = queue[o]
          /\ promised'[o] = promised[o] /\ budget'[o] = budget[o] /\ answer'[o] = "none"
          /\ pc[o] = "commit" /\ pc'[o] = "readd"
        BY <1>11, CommitStep, <1>a DEF SameHistories, Taken, Moves
    <2> QED
        BY <2>1, <1>a, NothingToRun
<1>12. CASE CommitThrows(o)
    <2>1. /\ pc'[o] \in Ended /\ answer'[o] # "result"
          /\ Disposed(o) /\ SameHistories(o)
        BY <1>12, CommitThrowsStep, <1>a DEF EndsAt, Disposed
    <2> QED
        BY <2>1, <1>c, DisposedOf
<1>13. CASE CallbackThrows(o)
    <2>1. pc'[o] \in {"open", "done"} /\ answer'[o] # "result" /\ Disposed(o) /\ SameHistories(o)
        BY <1>13, CallbackThrowsStep, <1>a
    <2>2. ran[o] = <<>>
        BY <1>13, CallbackThrowsStep, <1>a
    <2> QED
        BY <2>1, <2>2, <1>c, DisposedOf DEF Ended
<1>14. CASE Prepare(o)
    <2>1. PICK n \in 0..MaxRegistered :
            taken'[o] = Fresh(o, 0, n) /\ promised'[o] = Elements(Fresh(o, 0, n)) /\ budget'[o] = n
        BY <1>14, PrepareStep
    <2>2. /\ pc[o] = "prepare" /\ pc'[o] = "fence" /\ answer'[o] = answer[o]
          /\ queue'[o] = queue[o] /\ ran'[o] = ran[o]
        BY <1>14, PrepareStep DEF Moves
    <2>3. queue[o] = <<>> /\ ran[o] = <<>> /\ answer[o] = "none"
        BY <2>2, <1>a
    <2>4. n \in Nat
        BY <2>1, BoundsAssumption
    <2>5. NoRepetition(taken'[o]) /\ \A x \in Elements(taken'[o]) : x.n <= n
        BY <2>1, <2>4, <1>c, FreshEffects
    <2> QED
        BY <2>1, <2>2, <2>3, <2>5, NothingToRun
<1>15. CASE Precheck(o)
    BY <1>15, PrecheckStep, <1>a DEF SameCollector, SameHistories, Moves
<1>16. CASE PrepareThrows(o)
    <2>1. /\ pc'[o] \in Ended /\ answer'[o] # "result"
          /\ Disposed(o) /\ SameHistories(o)
        BY <1>16, PrepareThrowsStep, <1>a DEF EndsAt, Disposed
    <2> QED
        BY <2>1, <1>c, DisposedOf
<1>17. CASE ExecuteBatch(o)
    BY <1>17, ExecuteBatchStep, <1>a DEF SameCollector, SameHistories, Discarded, Moves
<1>18. CASE BatchAborts(o)
    <2>1. /\ pc'[o] \in Ended /\ answer'[o] # "result"
          /\ Disposed(o) /\ SameHistories(o)
        BY <1>18, BatchAbortsStep, <1>a DEF EndsAt, Disposed
    <2> QED
        BY <2>1, <1>c, DisposedOf
<1>19. CASE BatchUnknown(o)
    <2>1. /\ pc'[o] \in Ended /\ answer'[o] # "result"
          /\ Disposed(o) /\ SameHistories(o)
        BY <1>19, BatchUnknownStep, <1>a DEF EndsAt, Disposed
    <2> QED
        BY <2>1, <1>c, DisposedOf
<1>20. CASE Verify(o)
    <2>1. PICK n \in 0..1 : Defers(o, n)
        BY <1>20, VerifyStep
    <2>2. n \in Nat
        BY <2>1, BoundsAssumption
    <2>3. /\ pc[o] \notin {"open"} \cup Ended /\ ran'[o] = ran[o] /\ taken'[o] = taken[o]
          /\ answer'[o] = answer[o] /\ pc[o] # "done"
        BY <1>20, VerifyStep DEF Moves
    <2>4. /\ NoRepetition(queue'[o]) /\ Apart(ran'[o], queue'[o]) /\ Apart(queue'[o], taken'[o])
          /\ Elements(ran'[o]) \subseteq promised'[o]
          /\ promised'[o] = Elements(ran'[o]) \cup Elements(queue'[o]) \cup Elements(taken'[o])
          /\ \A x \in promised'[o] : x.n <= budget'[o]
        BY <2>1, <2>2, <2>3, <1>c, DefersMore
    <2>5. pc[o] = "verify" /\ pc'[o] = "business"
        BY <1>20, VerifyStep DEF Moves
    <2> QED
        BY <2>3, <2>4, <2>5, <1>a, <1>d
<1>21. CASE VerifyThrows(o)
    <2>1. /\ pc'[o] \in Ended /\ answer'[o] # "result"
          /\ Disposed(o) /\ SameHistories(o)
        BY <1>21, VerifyThrowsStep, <1>a DEF EndsAt, Disposed
    <2> QED
        BY <2>1, <1>c, DisposedOf
<1>22. CASE Readd(o)
    <2> DEFINE q == queue[o]
    <2> DEFINE t == taken[o]
    <2>1. pc[o] = "readd" /\ SameHistories(o)
        BY <1>22, ReaddStep
    <2>2. CASE /\ pc'[o] = (IF InBatch(o) THEN "hooks" ELSE "business") /\ answer'[o] = answer[o]
               /\ queue'[o] = q \o t /\ taken'[o] = <<>> /\ budget'[o] = budget[o] + Len(t)
        <3>1. q \in Seq(Deferred) /\ t \in Seq(Deferred) /\ budget[o] \in Nat /\ Len(t) \in Nat
            BY <1>c DEF OTypeOK
        <3>2. /\ NoRepetition(q) /\ NoRepetition(t) /\ Apart(q, t)
              /\ ran[o] = <<>> /\ answer[o] = "none"
              /\ promised[o] = Elements(q) \cup Elements(t)
              /\ \A x \in promised[o] : x.n <= budget[o]
            BY <2>1, <1>a, NothingToRun
        <3>3. NoRepetition(q \o t) /\ Elements(q \o t) = Elements(q) \cup Elements(t)
            BY <3>1, <3>2, Joined
        <3>4. \A x \in promised[o] : x.n <= budget[o] + Len(t)
            <4>1. \A x \in promised[o] : x.n \in Nat
                BY <1>c DEF OTypeOK, Deferred
            <4> QED
                BY <3>1, <3>2, <4>1
        <3>5. ran'[o] = <<>> /\ promised'[o] = promised[o]
            BY <2>1, <3>2 DEF SameHistories
        <3>6. pc'[o] \in {"hooks", "business"} /\ queue'[o] = q \o t /\ taken'[o] = <<>> /\ answer'[o] = "none"
            BY <2>2, <3>2
        <3>7. \A x \in promised'[o] : x.n <= budget'[o]
            BY <2>2, <3>4, <3>5
        <3>8. NoRepetition(queue'[o]) /\ promised'[o] = Elements(queue'[o])
            BY <3>2, <3>3, <3>5, <3>6
        <3> HIDE DEF q, t
        <3> QED
            BY <3>5, <3>6, <3>7, <3>8, NothingToRun
    <2>3. CASE EndsAt(o, "readd", "failed")
        BY <2>1, <2>3, <1>c, DisposedOf DEF EndsAt, Ended
    <2> QED
        BY <1>22, <2>2, <2>3, ReaddStep
<1>23. CASE OnBusinessResult(o)
    <2>1. PICK n \in 0..1 : Defers(o, n)
        BY <1>23, OnBusinessResultStep
    <2>2. n \in Nat
        BY <2>1, BoundsAssumption
    <2>3. /\ pc[o] \notin {"open"} \cup Ended /\ ran'[o] = ran[o] /\ taken'[o] = taken[o]
          /\ answer'[o] = answer[o] /\ pc[o] # "done"
        BY <1>23, OnBusinessResultStep DEF Moves
    <2>4. /\ NoRepetition(queue'[o]) /\ Apart(ran'[o], queue'[o]) /\ Apart(queue'[o], taken'[o])
          /\ Elements(ran'[o]) \subseteq promised'[o]
          /\ promised'[o] = Elements(ran'[o]) \cup Elements(queue'[o]) \cup Elements(taken'[o])
          /\ \A x \in promised'[o] : x.n <= budget'[o]
        BY <2>1, <2>2, <2>3, <1>c, DefersMore
    <2>5. pc[o] = "business" /\ pc'[o] = (IF InBatch(o) THEN "readd" ELSE "hooks")
        BY <1>23, OnBusinessResultStep DEF Moves
    <2>6. pc'[o] \in {"readd", "hooks"} /\ (pc'[o] = "hooks" => taken'[o] = <<>>)
        BY <2>3, <2>5, <1>a
    <2>7. /\ NoRepetition(ran'[o]) /\ NoRepetition(taken'[o]) /\ Apart(ran'[o], taken'[o])
          /\ ran'[o] = <<>> /\ answer'[o] = "none"
        BY <2>3, <2>5, <1>a
    <2> QED
        BY <2>4, <2>6, <2>7
<1>24. CASE AfterCommitHooks(o)
    <2>1. PICK n \in 0..1 : Defers(o, n)
        BY <1>24, AfterCommitHooksStep
    <2>2. n \in Nat
        BY <2>1, BoundsAssumption
    <2>3. /\ pc[o] \notin {"open"} \cup Ended /\ ran'[o] = ran[o] /\ taken'[o] = taken[o]
          /\ answer'[o] = answer[o] /\ pc[o] # "done"
        BY <1>24, AfterCommitHooksStep DEF Moves
    <2>4. /\ NoRepetition(queue'[o]) /\ Apart(ran'[o], queue'[o]) /\ Apart(queue'[o], taken'[o])
          /\ Elements(ran'[o]) \subseteq promised'[o]
          /\ promised'[o] = Elements(ran'[o]) \cup Elements(queue'[o]) \cup Elements(taken'[o])
          /\ \A x \in promised'[o] : x.n <= budget'[o]
        BY <2>1, <2>2, <2>3, <1>c, DefersMore
    <2>5. pc[o] = "hooks" /\ pc'[o] = "deferred"
        BY <1>24, AfterCommitHooksStep DEF Moves
    <2> QED
        BY <2>3, <2>4, <2>5, <1>a
<1>25. CASE RunDeferred(o)
    <2> DEFINE q == queue[o]
    <2> DEFINE r == Tail(queue[o])
    <2> DEFINE h == <<Head(queue[o])>>
    <2> DEFINE b == budget[o]
    <2>1. /\ pc[o] = "deferred" /\ pc'[o] = "deferred" /\ answer'[o] = answer[o] /\ q # <<>>
          /\ ran'[o] = Append(ran[o], Head(q)) /\ taken'[o] = taken[o]
        BY <1>25, RunDeferredStep DEF Moves
    <2>2. PICK n \in 0..1 :
            /\ queue'[o] = r \o Fresh(o, b, n) /\ budget'[o] = b + n
            /\ promised'[o] = promised[o] \cup Elements(Fresh(o, b, n))
        BY <1>25, RunDeferredStep
    <2> DEFINE t == Fresh(o, b, n)
    <2>3. /\ q \in Seq(Deferred) /\ b \in Nat /\ n \in Nat /\ ran[o] \in Seq(Deferred)
          /\ promised[o] \subseteq Deferred
        BY <1>c DEF OTypeOK
    <2>4. /\ t \in Seq(Deferred) /\ NoRepetition(t)
          /\ \A x \in Elements(t) : x.n > b /\ x.n <= b + n
          /\ Elements(t) \subseteq Deferred
        BY <2>3, <1>c, FreshEffects
    <2>5. /\ NoRepetition(ran[o]) /\ NoRepetition(q) /\ Apart(ran[o], q) /\ taken[o] = <<>>
          /\ promised[o] = Elements(ran[o]) \cup Elements(q)
          /\ (\A x \in promised[o] : x.n <= b) /\ answer[o] = "none"
        BY <2>1, <1>a, NothingToRun
    <2>6. /\ Head(q) \in Deferred /\ r \in Seq(Deferred) /\ NoRepetition(r)
          /\ Elements(q) = {Head(q)} \cup Elements(r) /\ Apart(h, r)
          /\ Apart(ran[o], r) /\ Apart(ran[o], h)
        BY <2>1, <2>3, <2>5, Popped
    <2>7. h \in Seq(Deferred) /\ NoRepetition(h) /\ Elements(h) = {Head(q)}
        BY <2>6, OneToRun
    <2>8. Append(ran[o], Head(q)) = ran[o] \o h
        BY <2>3, <2>6
    <2> HIDE DEF q, r, h, t, b
    <2>9. ran'[o] = ran[o] \o h /\ queue'[o] = r \o t
        BY <2>1, <2>2, <2>8 DEF t
    <2>10. NoRepetition(ran'[o]) /\ Elements(ran'[o]) = Elements(ran[o]) \cup Elements(h)
        BY <2>3, <2>5, <2>6, <2>7, <2>9, Joined
    <2>11. Apart(r, t) /\ Apart(ran[o], t) /\ Apart(h, t)
        BY <2>3, <2>4, <2>5, <2>6, <2>7, CountedApart
    <2>12. NoRepetition(queue'[o]) /\ Elements(queue'[o]) = Elements(r) \cup Elements(t)
        BY <2>4, <2>6, <2>9, <2>11, Joined
    <2>13. Apart(ran[o], r \o t) /\ Apart(h, r \o t)
        BY <2>4, <2>6, <2>11, Joined
    <2>14. Apart(ran'[o], queue'[o])
        BY <2>3, <2>7, <2>9, <2>13, Joined
    <2>15. promised'[o] = Elements(ran'[o]) \cup Elements(queue'[o])
        BY <2>2, <2>5, <2>6, <2>7, <2>10, <2>12 DEF t
    <2>16. \A x \in promised'[o] : x.n <= budget'[o]
        <3>1. \A x \in promised[o] : x.n \in Nat /\ x.n <= b
            BY <2>3, <2>5 DEF Deferred
        <3>2. \A x \in promised[o] : x.n <= b + n
            BY <2>3, <3>1
        <3> QED
            BY <2>2, <2>4, <3>2 DEF t
    <2>17. taken'[o] = <<>> /\ answer'[o] = "none" /\ pc'[o] = "deferred"
        BY <2>1, <2>5
    <2> QED
        BY <2>10, <2>12, <2>14, <2>15, <2>16, <2>17, NothingToRun
<1>26. CASE Return(o)
    <2>1. /\ pc[o] = "deferred" /\ pc'[o] = "done" /\ queue[o] = <<>>
          /\ Disposed(o) /\ SameHistories(o)
        BY <1>26, ReturnStep, <1>a DEF EndsAt, Disposed
    <2>2. promised[o] = Elements(ran[o])
        BY <2>1, <1>a, NothingToRun
    <2> QED
        BY <2>1, <2>2, <1>c, DisposedOf DEF Ended
<1>27. CASE Crash(o)
    <2>1. /\ pc'[o] \in Ended /\ answer'[o] # "result"
          /\ Disposed(o) /\ SameHistories(o)
        BY <1>27, CrashStep, <1>a DEF Disposed
    <2> QED
        BY <2>1, <1>c, DisposedOf
<1> QED
    BY <1>1, <1>2, <1>3, <1>4, <1>5, <1>6, <1>7, <1>8, <1>9, <1>10, <1>11, <1>12, <1>13,
       <1>14, <1>15, <1>16, <1>17, <1>18, <1>19, <1>20, <1>21, <1>22, <1>23, <1>24, <1>25,
       <1>26, <1>27 DEF Acts, Proceeds, Transacts, Batches, Finishes

(***************************************************************************)
(* The tables.                                                             *)
(***************************************************************************)
\* What a step does to the tables: nothing, or it commits.
Quiet(o) ==
    /\ UNCHANGED <<row, audits, outbox, receipts>>
    /\ pc[o] # "idle" => base'[o] = base[o]
    /\ pc[o] \in PostCommit \cup Ended
          => pc'[o] \in PostCommit \cup Ended /\ accepted'[o] = accepted[o]
    /\ Mutates(o) /\ pc'[o] \in PostCommit => pc[o] \in PostCommit
    /\ pc[o] # "deferred" => ran'[o] = ran[o]

Commits(o) ==
    /\ pc[o] \in Committing /\ Publish(o) /\ (pc[o] = "batch" => BatchHolds(o))
    /\ base'[o] = base[o] /\ Discarded(o) /\ SameHistories(o)
    /\ pc'[o] \in PostCommit \cup {"done"}

LEMMA QuietOrCommits ==
    ASSUME NEW o \in Ops, OTypeOK, OPath(o), Acts(o)
    PROVE  Quiet(o) \/ Commits(o)
<1>a. pc[o] \in InCallback /\ ~InTransaction(o) => ~Mutates(o)
    BY Pipelines DEF OPath, InCallback, Ended
<1>b. base \in [Ops -> Nat]
    BY DEF OTypeOK
<1> USE DEF Quiet, Commits, tables, histories, Committing, PostCommit, Ended, InCallback
<1>1. CASE Start(o)
    BY <1>1, <1>a, <1>b, StartStep DEF Start, SameSession, SameCollector, SameHistories
<1>2. CASE Refuse(o)
    BY <1>2, <1>a, <1>b, RefuseStep DEF Refuse, SameSession, SameHistories, EndsAt, Disposed
<1>3. CASE Open(o)
    BY <1>3, <1>a, <1>b, OpenStep DEF Open, SameSession, SameCollector, Moves
<1>4. CASE Before(o)
    BY <1>4, <1>a, <1>b, BeforeStep DEF Before, SameSession, Defers, Moves
<1>5. CASE Execute(o)
    BY <1>5, <1>a, <1>b, ExecuteStep DEF Execute, SameCollector, SameHistories, Moves
<1>6. CASE After(o)
    BY <1>6, <1>a, <1>b, AfterStep DEF After, SameSession, Defers, Moves
<1>7. CASE RunEffect(o)
    BY <1>7, <1>a, <1>b, RunEffectStep DEF RunEffect, SameSession, Moves
<1>8. CASE WriteAudit(o)
    BY <1>8, <1>a, <1>b, WriteAuditStep DEF WriteAudit, SameCollector, SameHistories, Moves
<1>9. CASE AppendOutbox(o)
    BY <1>9, <1>a, <1>b, AppendOutboxStep DEF AppendOutbox, SameCollector, SameHistories, Moves
<1>10. CASE CommitMarker(o)
    BY <1>10, <1>a, <1>b, CommitMarkerStep DEF CommitMarker, SameCollector, SameHistories, Taken
<1>11. CASE Commit(o)
    BY <1>11, <1>a, <1>b, CommitStep DEF Commit, SameHistories, Discarded, Taken, Moves
<1>12. CASE CommitThrows(o)
    BY <1>12, <1>a, <1>b, CommitThrowsStep DEF CommitThrows, SameHistories, Discarded,
       EndsAt, Disposed
<1>13. CASE CallbackThrows(o)
    BY <1>13, <1>a, <1>b, CallbackThrowsStep DEF CallbackThrows, SameHistories, Discarded, Disposed
<1>14. CASE Prepare(o)
    BY <1>14, <1>a, <1>b, PrepareStep DEF Prepare, Moves
<1>15. CASE Precheck(o)
    BY <1>15, <1>a, <1>b, PrecheckStep DEF Precheck, SameCollector, SameHistories, Moves
<1>16. CASE PrepareThrows(o)
    BY <1>16, <1>a, <1>b, PrepareThrowsStep DEF PrepareThrows, SameHistories, Discarded,
       EndsAt, Disposed
<1>17. CASE ExecuteBatch(o)
    BY <1>17, <1>a, <1>b, ExecuteBatchStep DEF ExecuteBatch, SameCollector, SameHistories,
       Discarded, Moves
<1>18. CASE BatchAborts(o)
    BY <1>18, <1>a, <1>b, BatchAbortsStep DEF BatchAborts, SameHistories, Discarded, EndsAt,
       Disposed
<1>19. CASE BatchUnknown(o)
    BY <1>19, <1>a, <1>b, BatchUnknownStep DEF BatchUnknown, SameHistories, Discarded,
       EndsAt, Disposed
<1>20. CASE Verify(o)
    BY <1>20, <1>a, <1>b, VerifyStep DEF Verify, SameSession, Defers, Moves
<1>21. CASE VerifyThrows(o)
    BY <1>21, <1>a, <1>b, VerifyThrowsStep DEF VerifyThrows, SameSession, SameHistories,
       EndsAt, Disposed
<1>22. CASE Readd(o)
    BY <1>22, <1>a, <1>b, ReaddStep DEF Readd, SameSession, SameHistories, EndsAt, Disposed
<1>23. CASE OnBusinessResult(o)
    BY <1>23, <1>a, <1>b, OnBusinessResultStep DEF OnBusinessResult, Callback, SameSession,
       Defers, Moves
<1>24. CASE AfterCommitHooks(o)
    BY <1>24, <1>a, <1>b, AfterCommitHooksStep DEF AfterCommitHooks, Callback, SameSession,
       Defers, Moves
<1>25. CASE RunDeferred(o)
    BY <1>25, <1>a, <1>b, RunDeferredStep DEF RunDeferred, SameSession, Moves
<1>26. CASE Return(o)
    BY <1>26, <1>a, <1>b, ReturnStep DEF Return, SameSession, SameHistories, EndsAt, Disposed
<1>27. CASE Crash(o)
    BY <1>27, <1>a, <1>b, CrashStep DEF Crash, SameHistories, Discarded, Disposed
<1> QED
    BY <1>1, <1>2, <1>3, <1>4, <1>5, <1>6, <1>7, <1>8, <1>9, <1>10, <1>11, <1>12, <1>13,
       <1>14, <1>15, <1>16, <1>17, <1>18, <1>19, <1>20, <1>21, <1>22, <1>23, <1>24, <1>25,
       <1>26, <1>27 DEF Acts, Proceeds, Transacts, Batches, Finishes

LEMMA CommitUpdates ==
    ASSUME NEW o \in Ops, row \in Seq(Ops), Publish(o), NEW p \in Ops
    PROVE  Updated(p)' <=> (Updated(p) \/ (p = o /\ "row" \in written[o]))
<1>1. CASE "row" \in written[o]
    <2>1. row' = Append(row, o)
        BY <1>1 DEF Publish
    <2>2. /\ Len(row') = Len(row) + 1 /\ Len(row) \in Nat /\ row'[Len(row) + 1] = o
          /\ \A i \in 1..Len(row) : row'[i] = row[i]
        BY <2>1
    <2> QED
        BY <1>1, <2>2 DEF Updated
<1>2. CASE "row" \notin written[o]
    BY <1>2 DEF Publish, Updated
<1> QED
    BY <1>1, <1>2

\* The only ways to the places at which a transaction or batch is complete.
LEMMA OnlyAppend ==
    ASSUME NEW o \in Ops, OTypeOK, Acts(o)
    PROVE  /\ pc'[o] = "marker" => AppendOutbox(o)
           /\ pc'[o] = "commit" => CommitMarker(o)
           /\ pc'[o] = "batch" => Precheck(o)
<1>1. CASE Start(o)
    BY <1>1, StartStep
<1>2. CASE Refuse(o)
    BY <1>2, RefuseStep DEF EndsAt
<1>3. CASE Open(o)
    BY <1>3, OpenStep DEF Moves
<1>4. CASE Before(o)
    BY <1>4, BeforeStep DEF Moves
<1>5. CASE Execute(o)
    BY <1>5, ExecuteStep DEF Moves
<1>6. CASE After(o)
    BY <1>6, AfterStep DEF Moves
<1>7. CASE RunEffect(o)
    BY <1>7, RunEffectStep DEF Moves
<1>8. CASE WriteAudit(o)
    BY <1>8, WriteAuditStep DEF Moves
<1>9. CASE AppendOutbox(o)
    BY <1>9, AppendOutboxStep DEF Moves
<1>10. CASE CommitMarker(o)
    BY <1>10, CommitMarkerStep
<1>11. CASE Commit(o)
    BY <1>11, CommitStep DEF Moves
<1>12. CASE CommitThrows(o)
    BY <1>12, CommitThrowsStep DEF EndsAt
<1>13. CASE CallbackThrows(o)
    BY <1>13, CallbackThrowsStep
<1>14. CASE Prepare(o)
    BY <1>14, PrepareStep DEF Moves
<1>15. CASE Precheck(o)
    BY <1>15, PrecheckStep DEF Moves
<1>16. CASE PrepareThrows(o)
    BY <1>16, PrepareThrowsStep DEF EndsAt
<1>17. CASE ExecuteBatch(o)
    BY <1>17, ExecuteBatchStep DEF Moves
<1>18. CASE BatchAborts(o)
    BY <1>18, BatchAbortsStep DEF EndsAt
<1>19. CASE BatchUnknown(o)
    BY <1>19, BatchUnknownStep DEF EndsAt
<1>20. CASE Verify(o)
    BY <1>20, VerifyStep DEF Moves
<1>21. CASE VerifyThrows(o)
    BY <1>21, VerifyThrowsStep DEF EndsAt
<1>22. CASE Readd(o)
    BY <1>22, ReaddStep DEF EndsAt
<1>23. CASE OnBusinessResult(o)
    BY <1>23, OnBusinessResultStep DEF Moves
<1>24. CASE AfterCommitHooks(o)
    BY <1>24, AfterCommitHooksStep DEF Moves
<1>25. CASE RunDeferred(o)
    BY <1>25, RunDeferredStep DEF Moves
<1>26. CASE Return(o)
    BY <1>26, ReturnStep DEF EndsAt
<1>27. CASE Crash(o)
    BY <1>27, CrashStep
<1> QED
    BY <1>1, <1>2, <1>3, <1>4, <1>5, <1>6, <1>7, <1>8, <1>9, <1>10, <1>11, <1>12, <1>13,
       <1>14, <1>15, <1>16, <1>17, <1>18, <1>19, <1>20, <1>21, <1>22, <1>23, <1>24, <1>25,
       <1>26, <1>27 DEF Acts, Proceeds, Transacts, Batches, Finishes

LEMMA CommittedKept ==
    ASSUME NEW o \in Ops, OTypeOK, OLocal(o), OCommitted(o), Acts(o)
    PROVE  OCommitted(o)'
<1>a. /\ OPath(o) /\ OHeld(o) /\ row \in Seq(Ops)
      /\ pc[o] \in {"prepare", "fence", "batch"} => Mutates(o)
      /\ pc[o] \in InCallback /\ ~InTransaction(o) => ~Mutates(o)
    BY Pipelines DEF OTypeOK, OLocal, OPath, InCallback, Ended
<1>b. Mutates(o)' <=> Mutates(o)
    BY OthersStay, DefinitionsStay
<1>1. CASE Quiet(o)
    <2>1. Updated(o)' <=> Updated(o)
        BY <1>1 DEF Quiet, Updated
    <2>2. (Updated(o) => Mutates(o) /\ pc'[o] \in PostCommit \cup Ended)
        BY <1>1 DEF Quiet, OCommitted
    <2>3. Mutates(o) /\ pc'[o] \in PostCommit => Updated(o)
        BY <1>1 DEF Quiet, OCommitted
    <2>4. Mutates(o) /\ ran'[o] # <<>> => Updated(o)
        BY <1>1 DEF Quiet, OCommitted, PostCommit
    <2>5. pc'[o] \in {"marker", "commit", "batch"} =>
             /\ accepted'[o] \subseteq outbox' \cup appended'[o]
             /\ \A r, q \in appended'[o] : ~Clash(r, q)
        <3>1. CASE pc'[o] = "marker"
            <4>1. AppendOutbox(o)
                BY <3>1, OnlyAppend
            <4>2. /\ appended'[o] = records[o] \ outbox /\ accepted'[o] = accepted[o]
                  /\ records[o] = accepted[o] /\ \A r, q \in records[o] : ~Clash(r, q)
                BY <4>1, AppendOutboxStep DEF AppendOutbox, Moves, SameHistories, OLocal,
                   OCollected,
                    Collecting
            <4> QED
                BY <4>2, <1>1, <3>1 DEF Quiet
        <3>2. CASE pc'[o] = "commit"
            <4>1. CommitMarker(o)
                BY <3>2, OnlyAppend
            <4>2. /\ appended'[o] = appended[o] /\ accepted'[o] = accepted[o] /\ pc[o] = "marker"
                BY <4>1, CommitMarkerStep DEF SameHistories
            <4> QED
                BY <4>2, <1>1 DEF Quiet, OCommitted
        <3>3. CASE pc'[o] = "batch"
            <4>1. Precheck(o)
                BY <3>3, OnlyAppend
            <4>2. /\ appended'[o] = appended[o] \ outbox /\ accepted'[o] = accepted[o]
                  /\ appended[o] = accepted[o] /\ \A r, q \in appended[o] : ~Clash(r, q)
                BY <4>1, <1>a, PrecheckStep DEF Precheck, Moves, SameHistories, OHeld
            <4> QED
                BY <4>2, <1>1 DEF Quiet
        <3> QED
            BY <3>1, <3>2, <3>3
    <2> QED
        BY <2>1, <2>2, <2>3, <2>4, <2>5, <1>b DEF OCommitted
<1>2. CASE Commits(o)
    <2>1. Updated(o)' <=> (Updated(o) \/ "row" \in written[o])
        BY <1>2, <1>a, CommitUpdates DEF Commits
    <2>2. /\ pc[o] \in {"commit", "batch"} /\ ran[o] = <<>> /\ ran'[o] = ran[o]
          /\ ~Updated(o) /\ ("row" \in written[o] <=> Mutates(o))
        BY <1>2, <1>a DEF Commits, SameHistories, Committing, OLocal, ODeferrals, OCommitted,
            OHeld, Writing, PostCommit, Ended
    <2>3. pc'[o] \in PostCommit \cup Ended /\ pc'[o] \notin {"marker", "commit", "batch"}
        BY <1>2 DEF Commits, PostCommit, Ended
    <2> QED
        BY <2>1, <2>2, <2>3, <1>b DEF OCommitted
<1> QED
    BY <1>1, <1>2, <1>a, QuietOrCommits

\* Who adds to a transaction or a batch what a lock protects.
LEMMA WhatIsWritten ==
    ASSUME NEW o \in Ops, OTypeOK, Acts(o)
    PROVE  /\ "row" \in written'[o] => "row" \in written[o] \/ Execute(o) \/ Prepare(o)
           /\ appended'[o] \subseteq appended[o] \/ AppendOutbox(o) \/ Prepare(o)
<1>1. CASE Start(o)
    BY <1>1, StartStep DEF SameSession
<1>2. CASE Refuse(o)
    BY <1>2, RefuseStep DEF SameSession
<1>3. CASE Open(o)
    BY <1>3, OpenStep DEF SameSession
<1>4. CASE Before(o)
    BY <1>4, BeforeStep DEF SameSession
<1>5. CASE Execute(o)
    BY <1>5, ExecuteStep
<1>6. CASE After(o)
    BY <1>6, AfterStep DEF SameSession
<1>7. CASE RunEffect(o)
    BY <1>7, RunEffectStep DEF SameSession
<1>8. CASE WriteAudit(o)
    BY <1>8, WriteAuditStep
<1>9. CASE AppendOutbox(o)
    BY <1>9, AppendOutboxStep
<1>10. CASE CommitMarker(o)
    BY <1>10, CommitMarkerStep
<1>11. CASE Commit(o)
    BY <1>11, CommitStep DEF Discarded
<1>12. CASE CommitThrows(o)
    BY <1>12, CommitThrowsStep DEF Discarded
<1>13. CASE CallbackThrows(o)
    BY <1>13, CallbackThrowsStep DEF Discarded
<1>14. CASE Prepare(o)
    BY <1>14, PrepareStep
<1>15. CASE Precheck(o)
    BY <1>15, PrecheckStep
<1>16. CASE PrepareThrows(o)
    BY <1>16, PrepareThrowsStep DEF Discarded
<1>17. CASE ExecuteBatch(o)
    BY <1>17, ExecuteBatchStep DEF Discarded
<1>18. CASE BatchAborts(o)
    BY <1>18, BatchAbortsStep DEF Discarded
<1>19. CASE BatchUnknown(o)
    BY <1>19, BatchUnknownStep DEF Discarded
<1>20. CASE Verify(o)
    BY <1>20, VerifyStep DEF SameSession
<1>21. CASE VerifyThrows(o)
    BY <1>21, VerifyThrowsStep DEF SameSession
<1>22. CASE Readd(o)
    BY <1>22, ReaddStep DEF SameSession
<1>23. CASE OnBusinessResult(o)
    BY <1>23, OnBusinessResultStep DEF SameSession
<1>24. CASE AfterCommitHooks(o)
    BY <1>24, AfterCommitHooksStep DEF SameSession
<1>25. CASE RunDeferred(o)
    BY <1>25, RunDeferredStep DEF SameSession
<1>26. CASE Return(o)
    BY <1>26, ReturnStep DEF SameSession
<1>27. CASE Crash(o)
    BY <1>27, CrashStep DEF Discarded
<1> QED
    BY <1>1, <1>2, <1>3, <1>4, <1>5, <1>6, <1>7, <1>8, <1>9, <1>10, <1>11, <1>12, <1>13,
       <1>14, <1>15, <1>16, <1>17, <1>18, <1>19, <1>20, <1>21, <1>22, <1>23, <1>24, <1>25,
       <1>26, <1>27 DEF Acts, Proceeds, Transacts, Batches, Finishes

LEMMA LocksKept ==
    ASSUME NEW o \in Ops, OTypeOK, \A p \in Ops : OLocal(p), \A p \in Ops : OCommitted(p),
           OLocks, Acts(o)
    PROVE  OLocks'
<1>1. SUFFICES ASSUME SupportsTransactions(env)
               PROVE  OLocks'
    <2>1. env' = env
        BY OthersStay
    <2> QED
        BY <2>1 DEF OLocks
<1>2. /\ Others(o) /\ OLocal(o)
      /\ \A p \in Ops : "row" \in written[p] => base[p] = Len(row)
      /\ \A p, q \in Ops : "row" \in written[p] /\ "row" \in written[q] => p = q
      /\ \A p \in Ops : \A r \in appended[p], q \in outbox : r.key # q.key
      /\ \A p, q \in Ops : \A r \in appended[p], e \in appended[q] : r.key = e.key => p = q
    BY <1>1, OthersStay DEF OLocks
<1>3. ~Prepare(o) /\ ~Precheck(o)
    BY <1>1, <1>2, Pipelines DEF Prepare, Precheck, OLocal, OPath
<1>4. CASE Quiet(o)
    <2>1. \A p \in Ops : "row" \in written'[p] =>
             /\ base'[p] = Len(row)
             /\ \A q \in Ops : "row" \in written'[q] => p = q
        <3>1. CASE Execute(o)
            <4>1. Moves(o, "execute", "after") /\ SameHistories(o)
                  /\ ("row" \in written'[o] => Mutates(o))
                BY <3>1, ExecuteStep
            <4>2. Mutates(o) => ~RowLocked(o) /\ base[o] = Len(row)
                BY <3>1 DEF Execute
            <4>3. base'[o] = base[o]
                BY <1>4, <4>1 DEF Quiet, Moves
            <4> QED
                BY <1>2, <4>1, <4>2, <4>3 DEF Others, RowLocked
        <3>2. CASE ~Execute(o)
            <4>1. "row" \in written'[o] => "row" \in written[o]
                BY <3>2, <1>3, WhatIsWritten
            <4>2. "row" \in written[o] => base'[o] = base[o]
                BY <1>2, <1>4 DEF Quiet, OLocal, OHeld, Writing
            <4> QED
                BY <1>2, <4>1, <4>2 DEF Others
        <3> QED
            BY <3>1, <3>2
    <2>2. /\ \A p \in Ops : \A r \in appended'[p], q \in outbox : r.key # q.key
          /\ \A p, q \in Ops : \A r \in appended'[p], e \in appended'[q] : r.key = e.key => p = q
        <3>1. CASE AppendOutbox(o)
            <4>1. /\ appended'[o] = records[o] \ outbox
                  /\ \A r \in records[o], q \in records[o] \cup outbox : ~Clash(r, q)
                  /\ ~KeyLocked(o)
                BY <3>1, AppendOutboxStep DEF AppendOutbox
            <4>2. \A r \in appended'[o], q \in outbox : r.key # q.key
                BY <4>1 DEF Clash
            <4>3. \A p \in Ops \ {o} : \A r \in appended'[o], q \in appended[p] : r.key # q.key
                BY <4>1 DEF KeyLocked
            <4> QED
                BY <1>2, <4>2, <4>3 DEF Others
        <3>2. CASE ~AppendOutbox(o)
            <4>1. appended'[o] \subseteq appended[o]
                BY <3>2, <1>3, WhatIsWritten
            <4> QED
                BY <1>2, <4>1 DEF Others
        <3> QED
            BY <3>1, <3>2
    <2>3. row' = row /\ outbox' = outbox
        BY <1>4 DEF Quiet
    <2> QED
        BY <2>1, <2>2, <2>3 DEF OLocks
<1>5. CASE Commits(o)
    <2>1. /\ written'[o] = {} /\ appended'[o] = {} /\ outbox' = outbox \cup appended[o]
          /\ "row" \notin written[o] => row' = row
        BY <1>5 DEF Commits, Discarded, Publish
    <2>2. \A p \in Ops : "row" \in written'[p] =>
             /\ base'[p] = Len(row')
             /\ \A q \in Ops : "row" \in written'[q] => p = q
        BY <1>2, <2>1 DEF Others
    <2>3. \A p \in Ops : \A r \in appended'[p], q \in outbox' : r.key # q.key
        BY <1>2, <2>1 DEF Others
    <2>4. \A p, q \in Ops : \A r \in appended'[p], e \in appended'[q] : r.key = e.key => p = q
        BY <1>2, <2>1 DEF Others
    <2> QED
        BY <2>2, <2>3, <2>4 DEF OLocks
<1> QED
    BY <1>2, <1>4, <1>5, QuietOrCommits DEF OLocal

LEMMA CommittedOthers ==
    ASSUME NEW o \in Ops, OTypeOK, OPath(o), Acts(o), NEW p \in Ops \ {o}, OCommitted(p)
    PROVE  OCommitted(p)'
<1>1. /\ pc'[p] = pc[p] /\ ran'[p] = ran[p] /\ accepted'[p] = accepted[p]
      /\ appended'[p] = appended[p] /\ (Mutates(p)' <=> Mutates(p))
    BY OthersStay, DefinitionsStay DEF Others
<1>2. /\ Updated(p)' <=> Updated(p)
      /\ outbox \subseteq outbox'
    <2>1. CASE Quiet(o)
        BY <2>1 DEF Quiet, Updated
    <2>2. CASE Commits(o)
        <3>1. Publish(o) /\ row \in Seq(Ops)
            BY <2>2 DEF Commits, OTypeOK
        <3>2. Updated(p)' <=> Updated(p)
            BY <3>1, CommitUpdates
        <3> QED
            BY <3>1, <3>2 DEF Publish
    <2> QED
        BY <2>1, <2>2, QuietOrCommits
<1> QED
    BY <1>1, <1>2 DEF OCommitted

LEMMA LocalOthers ==
    ASSUME NEW o \in Ops, OTypeOK, Acts(o), NEW p \in Ops \ {o}, OLocal(p)
    PROVE  OLocal(p)'
<1>1. Others(o) /\ env' = env /\ def' = def
    BY OthersStay
<1>2. /\ pc'[p] = pc[p] /\ effects'[p] = effects[p] /\ records'[p] = records[p]
      /\ queue'[p] = queue[p] /\ budget'[p] = budget[p] /\ taken'[p] = taken[p]
      /\ written'[p] = written[p] /\ appended'[p] = appended[p] /\ answer'[p] = answer[p]
      /\ accepted'[p] = accepted[p] /\ promised'[p] = promised[p]
      /\ calls'[p] = calls[p] /\ ran'[p] = ran[p]
    BY <1>1 DEF Others
<1>3. /\ Mutates(p)' <=> Mutates(p)
      /\ InTransaction(p)' <=> InTransaction(p)
      /\ InBatch(p)' <=> InBatch(p)
      /\ Audited(p)' <=> Audited(p)
      /\ DeliversAudit(p, "outbox")' <=> DeliversAudit(p, "outbox")
      /\ DeliversAudit(p, "transactional")' <=> DeliversAudit(p, "transactional")
      /\ AuditEvent(p)' = AuditEvent(p)
    BY <1>1, DefinitionsStay
<1>4. OPath(p)'
    BY <1>1, <1>2, <1>3 DEF OLocal, OPath
<1>5. OHeld(p)'
    BY <1>1, <1>2, <1>3 DEF OLocal, OHeld
<1>6. OCollected(p)'
    BY <1>1, <1>2, <1>3 DEF OLocal, OCollected
<1>7. OCalled(p)'
    BY <1>1, <1>2, <1>3 DEF OLocal, OCalled
<1>8. ODeferrals(p)'
    BY <1>1, <1>2, <1>3 DEF OLocal, ODeferrals
<1>9. ORoom(p)'
    BY <1>1, <1>2, <1>3 DEF OLocal, ORoom
<1> QED
    BY <1>4, <1>5, <1>6, <1>7, <1>8, <1>9 DEF OLocal

LEMMA TogetherKept ==
    ASSUME NEW o \in Ops, OTypeOK, \A p \in Ops : OLocal(p), \A p \in Ops : OCommitted(p),
           OLocks, AllOrNothing, Acts(o)
    PROVE  AllOrNothing'
<1>1. /\ Others(o) /\ def' = def /\ env' = env /\ OPath(o) /\ OHeld(o) /\ OCollected(o)
      /\ OCommitted(o)
      /\ row \in Seq(Ops)
    BY OthersStay DEF OLocal, OTypeOK
<1>2. \A p \in Ops :
         /\ Mutates(p)' <=> Mutates(p)
         /\ InBatch(p)' <=> InBatch(p)
         /\ Audited(p)' <=> Audited(p)
         /\ DeliversAudit(p, "outbox")' <=> DeliversAudit(p, "outbox")
         /\ DeliversAudit(p, "transactional")' <=> DeliversAudit(p, "transactional")
         /\ AuditEvent(p)' = AuditEvent(p)
    BY <1>1, DefinitionsStay
<1>3. CASE Quiet(o)
    <2>1. \A p \in Ops : Updated(p)' <=> Updated(p)
        BY <1>3 DEF Quiet, Updated
    <2>2. \A p \in Ops : Updated(p) => accepted'[p] = accepted[p]
        BY <1>1, <1>3 DEF Quiet, Others, OCommitted
    <2>3. row' = row /\ audits' = audits /\ outbox' = outbox /\ receipts' = receipts
        BY <1>3 DEF Quiet
    <2>4. ASSUME NEW p \in Ops, Updated(p)
          PROVE  /\ accepted'[p] \subseteq outbox'
                 /\ def'[p].marker => p \in receipts'
                 /\ Audited(p) /\ (InBatch(p) \/ DeliversAudit(p, "transactional")) => p \in audits'
                 /\ DeliversAudit(p, "outbox") => AuditEvent(p) \in outbox'
        BY <1>1, <2>2, <2>3, <2>4 DEF AllOrNothing
    <2>5. \A p \in audits' \cup receipts' : Updated(p)'
        BY <2>1, <2>3 DEF AllOrNothing, OTypeOK
    <2>6. \A r \in outbox' : \E p \in Ops : Updated(p)' /\ r \in accepted'[p]
        BY <2>1, <2>2, <2>3 DEF AllOrNothing
    <2>7. \A r, q \in outbox' : ~Clash(r, q)
        BY <2>3 DEF AllOrNothing
    <2> QED
        BY <1>2, <2>1, <2>4, <2>5, <2>6, <2>7 DEF AllOrNothing
<1>4. CASE Commits(o)
    <2>1. /\ audits' = (IF "audit" \in written[o] THEN audits \cup {o} ELSE audits)
          /\ receipts' = (IF "receipt" \in written[o] THEN receipts \cup {o} ELSE receipts)
          /\ outbox' = outbox \cup appended[o]
        BY <1>4 DEF Commits, Publish
    <2>2. \A p \in Ops : Updated(p)' <=> (Updated(p) \/ (p = o /\ "row" \in written[o]))
        BY <1>1, <1>4, CommitUpdates DEF Commits
    <2>3. \A p \in Ops : accepted'[p] = accepted[p]
        BY <1>1, <1>4 DEF Commits, SameHistories, Others
    <2>4. /\ pc[o] \in {"commit", "batch"} /\ ~Updated(o)
          /\ "row" \in written[o] <=> Mutates(o)
          /\ ~Mutates(o) => written[o] = {} /\ appended[o] = {}
          /\ appended[o] \subseteq accepted[o] /\ accepted[o] \subseteq outbox \cup appended[o]
          /\ \A r, q \in appended[o] : ~Clash(r, q)
        BY <1>1, <1>4 DEF Commits, Committing, OHeld, OCommitted, Writing, PostCommit, Ended
    <2>5. /\ pc[o] = "commit" => ~InBatch(o)
          /\ InBatch(o) => ~DeliversAudit(o, "outbox")
          /\ pc[o] = "commit" => SupportsTransactions(env)
          /\ pc[o] = "batch" => InBatch(o)
          /\ DeliversAudit(o, "transactional") => Audited(o)
        BY <1>1, <2>4, Pipelines DEF OPath, DeliversAudit
    <2>6. /\ accepted[o] \subseteq outbox'
          /\ def[o].marker => o \in receipts'
          /\ Audited(o) /\ (InBatch(o) \/ DeliversAudit(o, "transactional")) => o \in audits'
          /\ DeliversAudit(o, "outbox") => AuditEvent(o) \in outbox'
        BY <1>1, <2>1, <2>4, <2>5 DEF OHeld, OCollected, Collecting
    <2>7. \A p \in Ops : Updated(p)' =>
             /\ accepted'[p] \subseteq outbox'
             /\ def'[p].marker => p \in receipts'
             /\ Audited(p) /\ (InBatch(p) \/ DeliversAudit(p, "transactional")) => p \in audits'
             /\ DeliversAudit(p, "outbox") => AuditEvent(p) \in outbox'
        <3>1. SUFFICES ASSUME NEW p \in Ops, Updated(p)'
                       PROVE  /\ accepted[p] \subseteq outbox'
                              /\ def[p].marker => p \in receipts'
                              /\ Audited(p) /\ (InBatch(p) \/ DeliversAudit(p, "transactional"))
                                    => p \in audits'
                              /\ DeliversAudit(p, "outbox") => AuditEvent(p) \in outbox'
            BY <1>1, <2>3
        <3>2. CASE p = o
            BY <2>6, <3>2
        <3>3. CASE p # o
            BY <2>1, <2>2, <3>1, <3>3 DEF AllOrNothing
        <3> QED
            BY <3>2, <3>3
    <2>8. \A p \in audits' \cup receipts' : Updated(p)'
        BY <2>1, <2>2, <2>4 DEF AllOrNothing, OTypeOK
    <2>9. \A r \in outbox' : \E p \in Ops : Updated(p)' /\ r \in accepted'[p]
        <3>1. SUFFICES ASSUME NEW r \in outbox'
                       PROVE  \E p \in Ops : Updated(p)' /\ r \in accepted[p]
            BY <2>3
        <3>2. CASE r \in outbox
            BY <2>2, <3>2 DEF AllOrNothing
        <3>3. CASE r \in appended[o]
            BY <2>2, <2>4, <3>3
        <3> QED
            BY <2>1, <3>2, <3>3
    <2>10. \A r, q \in outbox' : ~Clash(r, q)
        <3>1. \A r \in appended[o], q \in outbox : r.key # q.key
            BY <1>1, <1>4, <2>4, <2>5 DEF OLocks, Commits, BatchHolds
        <3>2. \A r, q \in outbox : ~Clash(r, q)
            BY DEF AllOrNothing
        <3> QED
            BY <2>1, <2>4, <3>1, <3>2 DEF Clash
    <2> QED
        BY <1>2, <2>7, <2>8, <2>9, <2>10 DEF AllOrNothing
<1> QED
    BY <1>1, <1>3, <1>4, QuietOrCommits

(***************************************************************************)
(* The theorems.                                                           *)
(***************************************************************************)
LEMMA OInvInit == OInit => OInv
<1> SUFFICES ASSUME OInit
             PROVE  OInv
    OBVIOUS
<1>1. OTypeOK
    BY EnvironmentsAssumption, DefinitionsAssumption
    DEF OInit, OTypeOK, Places, PreCommit, InCallback, Answers
<1>2. ASSUME NEW o \in Ops
      PROVE  OLocal(o) /\ OCommitted(o)
    <2>1. /\ pc[o] = "idle" /\ ~effects[o] /\ records[o] = {} /\ queue[o] = <<>> /\ budget[o] = 0
          /\ taken[o] = <<>> /\ written[o] = {} /\ appended[o] = {} /\ answer[o] = "none"
          /\ accepted[o] = {} /\ promised[o] = {} /\ calls[o] = 0 /\ ran[o] = <<>>
        BY DEF OInit
    <2>2. ~Updated(o)
        BY DEF OInit, Updated
    <2>3. OPath(o)
        BY <2>1 DEF OPath, InCallback, Ended
    <2>4. OHeld(o) /\ OCollected(o) /\ OCalled(o) /\ ORoom(o)
        BY <2>1 DEF OHeld, OCollected, OCalled, ORoom, Writing, Collecting
    <2>5. ODeferrals(o)
        BY <2>1, NothingToRun DEF ODeferrals, InCallback, Ended
    <2>6. OCommitted(o)
        BY <2>1, <2>2 DEF OCommitted, PostCommit
    <2> QED
        BY <2>3, <2>4, <2>5, <2>6 DEF OLocal
<1>3. OLocks
    BY DEF OInit, OLocks
<1>4. AllOrNothing
    BY DEF OInit, AllOrNothing, Updated
<1> QED
    BY <1>1, <1>2, <1>3, <1>4 DEF OInv

LEMMA OStutter == OInv /\ UNCHANGED vars => OInv'
<1> SUFFICES ASSUME OInv, UNCHANGED vars
             PROVE  OInv'
    OBVIOUS
<1>1. /\ UNCHANGED <<env, def, row, audits, outbox, receipts, pc, base, attempt, effects, records>>
      /\ UNCHANGED <<queue, budget, taken, written, appended, failed, answer>>
      /\ UNCHANGED <<accepted, promised, calls, ran>>
    BY DEF vars, tables, collector, session, histories
<1>2. OTypeOK'
    BY <1>1 DEF OInv, OTypeOK
<1>3. \A o \in Ops : Updated(o)' <=> Updated(o)
    BY <1>1 DEF Updated
<1>4. ASSUME NEW o \in Ops
      PROVE  OLocal(o)' /\ OCommitted(o)'
    <2>1. /\ Mutates(o)' <=> Mutates(o)
          /\ InTransaction(o)' <=> InTransaction(o)
          /\ InBatch(o)' <=> InBatch(o)
          /\ Audited(o)' <=> Audited(o)
          /\ DeliversAudit(o, "outbox")' <=> DeliversAudit(o, "outbox")
          /\ DeliversAudit(o, "transactional")' <=> DeliversAudit(o, "transactional")
          /\ AuditEvent(o)' = AuditEvent(o)
        BY <1>1, DefinitionsStay
    <2>2. OPath(o)'
        BY <1>1, <2>1 DEF OInv, OLocal, OPath
    <2>3. OHeld(o)'
        BY <1>1, <2>1 DEF OInv, OLocal, OHeld
    <2>4. OCollected(o)' /\ OCalled(o)'
        BY <1>1, <2>1 DEF OInv, OLocal, OCollected, OCalled
    <2>5. ODeferrals(o)'
        BY <1>1, <2>1 DEF OInv, OLocal, ODeferrals
    <2>6. ORoom(o)'
        BY <1>1, <2>1 DEF OInv, OLocal, ORoom
    <2>7. OCommitted(o)'
        BY <1>1, <1>3, <2>1 DEF OInv, OCommitted
    <2> QED
        BY <2>2, <2>3, <2>4, <2>5, <2>6, <2>7 DEF OLocal
<1>5. OLocks'
    BY <1>1 DEF OInv, OLocks
<1>6. AllOrNothing'
    BY <1>1 DEF OInv, AllOrNothing, Updated, Mutates, Audited, InBatch, DeliversAudit, AuditEvent
<1> QED
    BY <1>2, <1>4, <1>5, <1>6 DEF OInv

LEMMA OInvKept == OInv /\ [ONext]_vars => OInv'
<1> SUFFICES ASSUME OInv, [ONext]_vars
             PROVE  OInv'
    OBVIOUS
<1>1. CASE UNCHANGED vars
    BY <1>1, OStutter
<1>2. ASSUME NEW o \in Ops, Acts(o)
      PROVE  OInv'
    <2>1. OTypeOK /\ (\A p \in Ops : OLocal(p)) /\ (\A p \in Ops : OCommitted(p)) /\ OLocks /\ AllOrNothing
        BY DEF OInv
    <2>2. OPath(o) /\ OHeld(o) /\ OCollected(o) /\ OCalled(o) /\ ODeferrals(o) /\ ORoom(o)
        BY <2>1 DEF OLocal
    <2>3. OTypeOK'
        BY <1>2, <2>1, OTypeKept
    <2>4. OLocal(o)'
        <3>1. OPath(o)'
            BY <1>2, <2>1, <2>2, PathKept
        <3>2. OHeld(o)'
            BY <1>2, <2>1, <2>2, HeldKept
        <3>3. OCollected(o)'
            BY <1>2, <2>1, <2>2, CollectedKept
        <3>4. OCalled(o)'
            BY <1>2, <2>1, <2>2, CalledKept
        <3>5. ODeferrals(o)'
            BY <1>2, <2>1, <2>2, DeferralsKept
        <3>6. ORoom(o)'
            BY <1>2, <2>1, <2>2, RoomKept
        <3> QED
            BY <3>1, <3>2, <3>3, <3>4, <3>5, <3>6 DEF OLocal
    <2>5. \A p \in Ops \ {o} : OLocal(p)'
        BY <1>2, <2>1, LocalOthers
    <2>6. OCommitted(o)'
        BY <1>2, <2>1, CommittedKept
    <2>7. \A p \in Ops \ {o} : OCommitted(p)'
        BY <1>2, <2>1, <2>2, CommittedOthers
    <2>8. OLocks' /\ AllOrNothing'
        BY <1>2, <2>1, LocksKept, TogetherKept
    <2> QED
        BY <2>3, <2>4, <2>5, <2>6, <2>7, <2>8 DEF OInv
<1> QED
    BY <1>1, <1>2 DEF ONext, AllEnded, Acts

\* The places, collectors, transactions and tables of a run are at every time
\* what OInv says of them.
THEOREM PipelineInvariant == OSpec => []OInv
<1> QED
    BY OInvInit, OInvKept, PTL DEF OSpec

\* An update is in the database together with everything its run registered
\* for the commit, and nothing of a run whose update is not there is
\* (runOperation's standard and atomic-batch pipelines), for any number of
\* runs, definitions and outbox records.
THEOREM CommitsAllOrNothing == OSpec => []AllOrNothing
<1>1. OInv => AllOrNothing
    BY DEF OInv
<1> QED
    BY <1>1, PipelineInvariant, PTL

\* Transactional effects run once at most, best-effort effects once at most and
\* after the commit, and all that were accepted before the caller has its result.
THEOREM EffectsRunOnce == OSpec => []EffectsOnce
<1>1. OInv => EffectsOnce
    <2> SUFFICES ASSUME OInv, NEW o \in Ops
                 PROVE  /\ calls[o] <= 1 /\ NoRepetition(ran[o])
                        /\ Mutates(o) /\ ran[o] # <<>> => Updated(o)
                        /\ Elements(ran[o]) \subseteq promised[o]
                        /\ answer[o] = "result" => Elements(ran[o]) = promised[o]
        BY DEF EffectsOnce
    <2> QED
        BY DEF OInv, OLocal, OCalled, ODeferrals, OCommitted
<1> QED
    BY <1>1, PipelineInvariant, PTL

(***************************************************************************)
(* The pipeline implements OperationOutcome, as long as no run registers   *)
(* more best-effort effects before its commit than half of what a collector *)
(* takes: beyond that, registering them again after the commit throws, and *)
(* the run fails although its update is there.                             *)
(***************************************************************************)
HalfTheBudget == 2 * (MaxRegistered + 1) <= MaxDeferred

\* What a step tells the caller, and from where.
Tells(o, told) ==
    /\ answer' = [answer EXCEPT ![o] = told] /\ pc[o] \notin Ended
    /\ Mutates(o) /\ told \in {"result", "committed"} => pc[o] \in PostCommit
    /\ Mutates(o) /\ told = "failed" => pc[o] \notin PostCommit /\ UNCHANGED row
    /\ pc[o] \in Committing => told = "unknown" \/ UNCHANGED row

LEMMA Telling ==
    ASSUME HalfTheBudget, NEW o \in Ops, OTypeOK, OPath(o), ORoom(o), Acts(o)
    PROVE  /\ \/ UNCHANGED answer
              \/ \E told \in {"result", "committed", "failed", "unknown"} : Tells(o, told)
           /\ UNCHANGED base \/ (Start(o) /\ UNCHANGED <<row, answer>>)
<1> USE DEF Tells, Ends, Committing, PostCommit, Ended, InCallback, tables
<1>1. CASE Start(o)
    BY <1>1 DEF Start
<1>2. CASE Refuse(o)
    BY <1>2 DEF Refuse
<1>3. CASE Open(o)
    BY <1>3 DEF Open
<1>4. CASE Before(o)
    BY <1>4 DEF Before
<1>5. CASE Execute(o)
    BY <1>5 DEF Execute
<1>6. CASE After(o)
    BY <1>6 DEF After
<1>7. CASE RunEffect(o)
    BY <1>7 DEF RunEffect
<1>8. CASE WriteAudit(o)
    BY <1>8 DEF WriteAudit
<1>9. CASE AppendOutbox(o)
    BY <1>9 DEF AppendOutbox
<1>10. CASE CommitMarker(o)
    BY <1>10 DEF CommitMarker
<1>11. CASE Commit(o)
    BY <1>11 DEF Commit
<1>12. CASE CommitThrows(o)
    BY <1>12 DEF CommitThrows
<1>13. CASE CallbackThrows(o)
    <2>1. pc[o] \in InCallback /\ UNCHANGED <<row, base>>
        BY <1>13 DEF CallbackThrows
    <2>2. UNCHANGED answer \/ answer' = [answer EXCEPT ![o] = "failed"]
        BY <1>13 DEF CallbackThrows
    <2> QED
        BY <2>1, <2>2
<1>14. CASE Prepare(o)
    BY <1>14 DEF Prepare
<1>15. CASE Precheck(o)
    BY <1>15 DEF Precheck
<1>16. CASE PrepareThrows(o)
    BY <1>16 DEF PrepareThrows
<1>17. CASE ExecuteBatch(o)
    BY <1>17 DEF ExecuteBatch
<1>18. CASE BatchAborts(o)
    BY <1>18 DEF BatchAborts
<1>19. CASE BatchUnknown(o)
    BY <1>19 DEF BatchUnknown
<1>20. CASE Verify(o)
    BY <1>20 DEF Verify
<1>21. CASE VerifyThrows(o)
    BY <1>21 DEF VerifyThrows
<1>22. CASE Readd(o)
    <2>1. pc[o] = "readd" /\ UNCHANGED base
        BY <1>22 DEF Readd
    <2>2. budget[o] + Len(taken[o]) <= MaxDeferred
        <3>1. budget[o] + Len(taken[o]) <= 2 * (MaxRegistered + 1)
            BY <2>1 DEF ORoom
        <3>2. budget[o] \in Nat /\ Len(taken[o]) \in Nat
            BY DEF OTypeOK
        <3> QED
            BY <3>1, <3>2, BoundsAssumption DEF HalfTheBudget
    <2>3. UNCHANGED answer
        BY <1>22, <2>2 DEF Readd
    <2> QED
        BY <2>1, <2>3
<1>23. CASE OnBusinessResult(o)
    BY <1>23 DEF OnBusinessResult, Callback
<1>24. CASE AfterCommitHooks(o)
    BY <1>24 DEF AfterCommitHooks, Callback
<1>25. CASE RunDeferred(o)
    BY <1>25 DEF RunDeferred
<1>26. CASE Return(o)
    <2>1. pc[o] = "deferred" /\ UNCHANGED <<row, base>>
        BY <1>26 DEF Return
    <2>2. \E told \in {"result", "committed"} : answer' = [answer EXCEPT ![o] = told]
        BY <1>26 DEF Return
    <2> QED
        BY <2>1, <2>2
<1>27. CASE Crash(o)
    BY <1>27 DEF Crash
<1> QED
    BY <1>1, <1>2, <1>3, <1>4, <1>5, <1>6, <1>7, <1>8, <1>9, <1>10, <1>11, <1>12, <1>13,
       <1>14, <1>15, <1>16, <1>17, <1>18, <1>19, <1>20, <1>21, <1>22, <1>23, <1>24, <1>25,
       <1>26, <1>27 DEF Acts, Proceeds, Transacts, Batches, Finishes

LEMMA TookIsUpdated == \A o \in Ops : Outcome!Took(o) <=> Updated(o)
BY DEF Outcome!Took, Updated

LEMMA OutcomeStep ==
    ASSUME HalfTheBudget, OInv, NEW o \in Ops, Acts(o)
    PROVE  Outcome!Next \/ UNCHANGED Outcome!ovars
<1> DEFINE M == {p \in Ops : Mutates(p)}
<1>1. /\ OTypeOK /\ OPath(o) /\ OHeld(o) /\ OCommitted(o) /\ ORoom(o)
      /\ pc[o] # "done" => answer[o] = "none"
    BY DEF OInv, OLocal, OPath
<1>2. M' = M
    BY <1>1, OthersStay DEF Mutates
<1>3. o \in M <=> Mutates(o)
    OBVIOUS
<1> HIDE DEF M
<1>4. CASE Start(o)
    <2>1. /\ base' = [base EXCEPT ![o] = Len(row)] /\ UNCHANGED <<row, answer>> /\ pc[o] = "idle"
        BY <1>4 DEF Start, tables
    <2>2. ~Updated(o) /\ answer[o] = "none"
        BY <1>1, <2>1 DEF OCommitted, PostCommit, Ended
    <2>3. Outcome!See(o)
        BY <1>2, <2>1, <2>2, TookIsUpdated DEF Outcome!See, M
    <2> QED
        BY <2>3 DEF Outcome!Next
<1>5. CASE ~Start(o) /\ Quiet(o)
    <2>1. UNCHANGED <<row, base>>
        BY <1>1, <1>5, Telling DEF Quiet
    <2>2. CASE UNCHANGED answer
        BY <1>2, <2>1, <2>2 DEF Outcome!ovars, M
    <2>3. ASSUME NEW told \in {"result", "committed", "failed", "unknown"}, Tells(o, told)
          PROVE  Outcome!Tell(o, told)
        <3>1. answer' = [answer EXCEPT ![o] = told] /\ answer[o] = "none"
            BY <1>1, <2>3 DEF Tells, Ended
        <3>2. Mutates(o) /\ told \in {"result", "committed"} => Updated(o)
            BY <1>1, <2>3 DEF Tells, OCommitted
        <3>3. Mutates(o) /\ told = "failed" => ~Updated(o)
            BY <1>1, <2>3 DEF Tells, OCommitted
        <3> QED
            BY <1>2, <1>3, <2>1, <3>1, <3>2, <3>3, TookIsUpdated DEF Outcome!Tell, M
    <2> QED
        BY <1>1, <2>2, <2>3, Telling DEF Outcome!Next
<1>6. CASE ~Start(o) /\ Commits(o)
    <2>1. UNCHANGED base /\ pc[o] \in Committing /\ Publish(o)
        BY <1>1, <1>6, Telling DEF Commits
    <2>2. ~Updated(o) /\ answer[o] = "none"
        BY <1>1, <2>1 DEF OCommitted, Committing, PostCommit, Ended
    <2>3. CASE Mutates(o)
        <3>1. "row" \in written[o] /\ row' = Append(row, o)
            BY <1>1, <2>1, <2>3 DEF OHeld, Publish, Committing, Writing
        <3>2. base[o] = Len(row)
            <4>1. CASE pc[o] = "commit"
                <5>1. SupportsTransactions(env)
                    BY <1>1, <4>1, Pipelines DEF OPath
                <5> QED
                    BY <3>1, <5>1 DEF OInv, OLocks
            <4>2. CASE pc[o] = "batch"
                BY <1>6, <4>2 DEF Commits, BatchHolds
            <4> QED
                BY <2>1, <4>1, <4>2 DEF Committing
        <3>3. row' # row
            <4>1. row \in Seq(Ops)
                BY <1>1 DEF OTypeOK
            <4>2. Len(row') = Len(row) + 1 /\ Len(row) \in Nat
                BY <3>1, <4>1
            <4> QED
                BY <4>2
        <3>4. answer' = answer \/ answer' = [answer EXCEPT ![o] = "unknown"]
            BY <1>1, <2>1, <3>3, Telling DEF Tells
        <3>5. Outcome!Take(o)
            BY <1>2, <1>3, <2>1, <2>2, <2>3, <3>1, <3>2, <3>4, TookIsUpdated
            DEF Outcome!Take, Outcome!Update, M
        <3> QED
            BY <3>5 DEF Outcome!Next
    <2>4. CASE ~Mutates(o)
        <3>1. row' = row
            BY <1>1, <2>1, <2>4 DEF OHeld, Publish
        <3>2. CASE UNCHANGED answer
            BY <1>2, <2>1, <3>1, <3>2 DEF Outcome!ovars, M
        <3>3. ASSUME NEW told \in {"result", "committed", "failed", "unknown"}, Tells(o, told)
              PROVE  Outcome!Tell(o, told)
            <4>1. answer' = [answer EXCEPT ![o] = told]
                BY <3>3 DEF Tells
            <4> QED
                BY <1>2, <1>3, <2>1, <2>2, <2>4, <3>1, <4>1 DEF Outcome!Tell, M
        <3> QED
            BY <1>1, <3>2, <3>3, Telling DEF Outcome!Next
    <2> QED
        BY <2>3, <2>4
<1> QED
    BY <1>1, <1>4, <1>5, <1>6, QuietOrCommits

\* Seen from outside, an operation updates the row once or not at all, from the
\* version its caller saw, and tells the caller so: runOperation refines
\* OperationOutcome.
THEOREM PipelineKeepsItsWord ==
    ASSUME HalfTheBudget
    PROVE  OSpec => ImplementsOutcome
<1>1. OInit => Outcome!Init
    BY DEF OInit, Outcome!Init
<1>2. OInv /\ [ONext]_vars => [Outcome!Next]_(Outcome!ovars)
    <2> SUFFICES ASSUME OInv, [ONext]_vars
                 PROVE  Outcome!Next \/ UNCHANGED Outcome!ovars
        OBVIOUS
    <2>1. CASE UNCHANGED vars
        BY <2>1 DEF vars, tables, Outcome!ovars, Mutates
    <2>2. ASSUME NEW o \in Ops, Acts(o)
          PROVE  Outcome!Next \/ UNCHANGED Outcome!ovars
        BY <2>2, OutcomeStep
    <2> QED
        BY <2>1, <2>2 DEF ONext, AllEnded, Acts
<1> QED
    BY <1>1, <1>2, PipelineInvariant, PTL DEF OSpec, ImplementsOutcome, Outcome!Spec

(***************************************************************************)
(* What the outcome is worth: whatever implements OperationOutcome updates *)
(* the row once for an operation and answers its caller honestly.          *)
(***************************************************************************)
HonestTo(o) ==
    Mutates(o) => /\ answer[o] \in {"result", "committed"} => Updated(o)
                  /\ answer[o] = "failed" => ~Updated(o)

HonestInv ==
    /\ row \in Seq(Ops) /\ NoRepetition(row)
    /\ answer \in [Ops -> {"none", "result", "committed", "failed", "unknown"}]
    /\ \A o \in Ops : HonestTo(o)

LEMMA HonestInitially == Outcome!Init => HonestInv
BY DEF Outcome!Init, HonestInv, HonestTo, Updated, NoRepetition

\* Committing adds one operation to the row, at its end.
LEMMA TakingOnce ==
    ASSUME row \in Seq(Ops), NoRepetition(row), NEW o \in Ops, ~Updated(o), row' = Append(row, o)
    PROVE  /\ row' \in Seq(Ops) /\ NoRepetition(row')
           /\ \A p \in Ops : Updated(p)' <=> Updated(p) \/ p = o
<1>1. /\ row' \in Seq(Ops) /\ Len(row') = Len(row) + 1 /\ Len(row) \in Nat
      /\ \A i \in 1..Len(row) : row'[i] = row[i]
      /\ row'[Len(row) + 1] = o
    OBVIOUS
<1>2. ASSUME NEW i \in 1..Len(row'), NEW j \in 1..Len(row'), row'[i] = row'[j]
      PROVE  i = j
    <2>1. CASE i \in 1..Len(row) /\ j \in 1..Len(row)
        BY <1>1, <1>2, <2>1 DEF NoRepetition
    <2>2. CASE i = Len(row) + 1 \/ j = Len(row) + 1
        BY <1>1, <1>2, <2>2 DEF Updated
    <2> QED
        BY <1>1, <2>1, <2>2
<1>3. ASSUME NEW p \in Ops
      PROVE  Updated(p)' <=> Updated(p) \/ p = o
    BY <1>1 DEF Updated
<1> QED
    BY <1>1, <1>2, <1>3 DEF NoRepetition

LEMMA HonestInductive == HonestInv /\ [Outcome!Next]_(Outcome!ovars) => HonestInv'
<1> SUFFICES ASSUME HonestInv, [Outcome!Next]_(Outcome!ovars)
             PROVE  HonestInv'
    OBVIOUS
<1> DEFINE M == {p \in Ops : Mutates(p)}
<1>1. \A p \in Ops : Mutates(p)' <=> Mutates(p)
    <2>1. M' = M
        BY DEF Outcome!Next, Outcome!See, Outcome!Take, Outcome!Tell, Outcome!ovars
    <2>2. \A p \in Ops : (p \in M <=> Mutates(p)) /\ (p \in M' <=> Mutates(p)')
        OBVIOUS
    <2> HIDE DEF M
    <2> QED
        BY <2>1, <2>2
<1>2. ASSUME UNCHANGED <<row, answer>>
      PROVE  HonestInv'
    BY <1>1, <1>2 DEF HonestInv, HonestTo, Updated, NoRepetition
<1>3. ASSUME NEW o \in Ops, Outcome!Take(o)
      PROVE  HonestInv'
    <2>1. /\ Mutates(o) /\ answer[o] = "none" /\ ~Updated(o) /\ row' = Append(row, o)
          /\ answer' = answer \/ answer' = [answer EXCEPT ![o] = "unknown"]
        BY <1>3, TookIsUpdated DEF Outcome!Take, Outcome!Update
    <2>2. /\ row' \in Seq(Ops) /\ NoRepetition(row')
          /\ \A p \in Ops : Updated(p)' <=> Updated(p) \/ p = o
        BY <2>1, TakingOnce DEF HonestInv
    <2>3. /\ answer' \in [Ops -> {"none", "result", "committed", "failed", "unknown"}]
          /\ answer'[o] \in {"none", "unknown"} /\ \A p \in Ops \ {o} : answer'[p] = answer[p]
        BY <2>1 DEF HonestInv
    <2>4. ASSUME NEW p \in Ops
          PROVE  HonestTo(p)'
        BY <1>1, <2>2, <2>3 DEF HonestInv, HonestTo
    <2> QED
        BY <2>2, <2>3, <2>4 DEF HonestInv
<1>4. ASSUME NEW o \in Ops, NEW said \in {"result", "committed", "failed", "unknown"}, Outcome!Tell(o, said)
      PROVE  HonestInv'
    <2>1. /\ Mutates(o) /\ said \in {"result", "committed"} => Updated(o)
          /\ Mutates(o) /\ said = "failed" => ~Updated(o)
          /\ answer' = [answer EXCEPT ![o] = said] /\ UNCHANGED row
        BY <1>4, TookIsUpdated DEF Outcome!Tell
    <2>2. answer' \in [Ops -> {"none", "result", "committed", "failed", "unknown"}]
          /\ answer'[o] = said /\ \A p \in Ops \ {o} : answer'[p] = answer[p]
        BY <2>1 DEF HonestInv
    <2>3. ASSUME NEW p \in Ops
          PROVE  HonestTo(p)'
        BY <1>1, <2>1, <2>2 DEF HonestInv, HonestTo, Updated
    <2> QED
        BY <2>1, <2>2, <2>3 DEF HonestInv, NoRepetition
<1>5. ASSUME NEW o \in Ops, Outcome!See(o)
      PROVE  HonestInv'
    BY <1>2, <1>5 DEF Outcome!See
<1>6. CASE UNCHANGED Outcome!ovars
    BY <1>2, <1>6 DEF Outcome!ovars
<1> QED
    BY <1>3, <1>4, <1>5, <1>6 DEF Outcome!Next

\* Whatever implements OperationOutcome updates the row once for an operation at
\* most, and tells its caller of success only after that and of failure only
\* without it.
THEOREM OutcomeMeansHonesty == Outcome!Spec => [](HonestAnswer /\ NoRepetition(row))
<1>1. HonestInv => HonestAnswer /\ NoRepetition(row)
    BY DEF HonestInv, HonestTo, HonestAnswer
<1> QED
    BY <1>1, HonestInitially, HonestInductive, PTL DEF Outcome!Spec

\* So does runOperation, as long as no run registers more best-effort effects
\* than half its budget: an error that does not say so
\* (OperationCommittedEffectError) means that nothing was committed.
THEOREM CallersAreToldHonestly ==
    ASSUME HalfTheBudget
    PROVE  OSpec => [](HonestAnswer /\ NoRepetition(row))
BY PipelineKeepsItsWord, OutcomeMeansHonesty, PTL DEF ImplementsOutcome
=============================================================================

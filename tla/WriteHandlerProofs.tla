------------------------- MODULE WriteHandlerProofs -------------------------
(***************************************************************************)
(* For every set of keys, requests and finalizers, with or without tags    *)
(* and cache: a key's mutation is committed once and has one answer, the   *)
(* obligation to invalidate is not dropped, and nobody is answered ahead   *)
(* of the cache.                                                           *)
(***************************************************************************)
EXTENDS WriteHandler, TLAPS

Committed(k) == status[k] \in {"business-committed", "completed"}

Settled ==
    /\ \A k \in Keys : commits[k] = IF Committed(k) THEN 1 ELSE 0
    /\ ObligationKept

\* What the place of a request says of the row of its key: a request past its
\* commit still owns the row, and nobody completes it with the cache stale.
RequestAt(r) ==
    /\ pc[r] \in {"finish", "complete", "recover"} => Committed(KeyOf[r]) /\ token[KeyOf[r]] = r
    /\ pc[r] \in Recovering => Committed(KeyOf[r])
    /\ pc[r] = "drain" /\ ~seen[r].owes => KeyOf[r] \notin dirty
    /\ pc[r] \in {"complete", "recomplete"} => KeyOf[r] \notin dirty
    /\ pc[r] = "respond" => result[KeyOf[r]] = r
    /\ pc[r] # "done" => reply[r] = None
    /\ reply[r] \in Requests => result[KeyOf[r]] = reply[r]

DrainedAt(f) ==
    /\ \A k \in batch[f] : Committed(k)
    /\ draining[f] # None => Committed(draining[f]) /\ draining[f] \notin dirty

WInv ==
    /\ WTypeOK
    /\ Settled
    /\ \A r \in Requests : RequestAt(r)
    /\ \A f \in Finalizers : DrainedAt(f)

-----------------------------------------------------------------------------
(* Types *)

LEMMA RequestKey == \A r \in Requests : KeyOf[r] \in Keys
BY RequestsAssumption

LEMMA TypesInitially == WInit => WTypeOK
BY FaultsAssumption DEF WInit, WTypeOK, Rows, NoRows, ColumnsOK, NotSeen, Places

ControlOK ==
    /\ pc \in [Requests -> Places]
    /\ seen \in [Requests -> [token: Requests \cup {None}, owes: BOOLEAN]]
    /\ reply \in [Requests -> Requests \cup {"conflict", None}]

LEMMA GotoKeepsTypes ==
    ASSUME WTypeOK, NEW r \in Requests, NEW place \in Places, Goto(r, place)
    PROVE  ControlOK'
BY DEF WTypeOK, ControlOK, Goto

LEMMA AnswerKeepsTypes ==
    ASSUME WTypeOK, NEW r \in Requests, NEW a \in Requests \cup {"conflict", None}, Answer(r, a)
    PROVE  ControlOK'
BY DEF WTypeOK, ControlOK, Answer, NotSeen, Places

\* Each statement, where its condition holds, leaves a well-formed table.
LEMMA ReservationsKeepTypes ==
    ASSUME ColumnsOK, NEW k \in Keys, NEW r \in Requests,
           \/ status[k] = "absent" /\ Reserve(k, r)
           \/ Takeable(k, r) /\ TakeOver(k, r)
           \/ Renew(k)
    PROVE  ColumnsOK'
<1> USE RequestsAssumption DEF ColumnsOK
<1>1. CASE status[k] = "absent" /\ Reserve(k, r)
  BY <1>1 DEF Reserve, Prints
<1>2. CASE Takeable(k, r) /\ TakeOver(k, r)
  BY <1>2 DEF Takeable, TakeOver
<1>3. CASE Renew(k)
  BY <1>3 DEF Renew
<1>4. QED
  BY <1>1, <1>2, <1>3

LEMMA ReceiptsKeepTypes ==
    ASSUME ColumnsOK, NEW k \in Keys, NEW r \in Requests,
           \/ Markable(k, r) /\ MarkCommitted(k)
           \/ status[k] = "business-committed" /\ Complete(k, r)
           \/ Recover(k, r)
    PROVE  ColumnsOK'
<1> USE RequestsAssumption, TagsAssumption DEF ColumnsOK
<1>1. CASE Markable(k, r) /\ MarkCommitted(k)
  BY <1>1 DEF Markable, Owned, MarkCommitted
<1>2. CASE status[k] = "business-committed" /\ Complete(k, r)
  BY <1>2 DEF Complete
<1>3. CASE Recover(k, r)
  BY <1>3 DEF Recover, Owned
<1>4. QED
  BY <1>1, <1>2, <1>3

LEMMA ClaimsKeepTypes ==
    ASSUME ColumnsOK, NEW f \in Finalizers,
           \/ \E ks \in SUBSET Drainable : ClaimRows(ks, f)
           \/ \E k \in Keys : Ackable(k, f) /\ Ack(k)
    PROVE  ColumnsOK'
<1> USE RequestsAssumption DEF ColumnsOK
<1>1. ASSUME NEW ks \in SUBSET Drainable, ClaimRows(ks, f) PROVE ColumnsOK'
  BY <1>1 DEF ClaimRows, Drainable
<1>2. ASSUME NEW k \in Keys, Ackable(k, f), Ack(k) PROVE ColumnsOK'
  BY <1>2 DEF Ackable, Ack
<1>3. QED
  BY <1>1, <1>2

LEMMA FindKeepsTypes ==
    ASSUME WTypeOK, NEW r \in Requests, Read(r) \/ Recheck(r)
    PROVE  ControlOK'
<1> USE RequestKey
<1>1. CASE Answer(r, "conflict")
  BY <1>1, AnswerKeepsTypes
<1>2. CASE Answer(r, None)
  BY <1>2, AnswerKeepsTypes
<1>3. CASE Matches(KeyOf[r], r) /\ status[KeyOf[r]] = "completed" /\ Answer(r, result[KeyOf[r]])
  <2>1. result[KeyOf[r]] \in Requests
    BY <1>3 DEF WTypeOK, ColumnsOK
  <2>2. QED
    BY <1>3, <2>1, AnswerKeepsTypes
<1>4. CASE Goto(r, "takeover")
  BY <1>4, GotoKeepsTypes DEF Places, Finding
<1>5. CASE /\ pc' = [pc EXCEPT ![r] = "drain"]
           /\ seen' = [seen EXCEPT ![r] = [token |-> token[KeyOf[r]], owes |-> pending[KeyOf[r]]]]
           /\ UNCHANGED reply
  BY <1>5 DEF WTypeOK, ControlOK, ColumnsOK, Places, Recovering
<1>6. QED
  BY <1>1, <1>2, <1>3, <1>4, <1>5 DEF Read, Recheck, Resolve

LEMMA HandleKeepsTypes ==
    ASSUME WTypeOK, NEW r \in Requests, Handle(r)
    PROVE  WTypeOK'
<1> USE RequestKey DEF WTypeOK
<1>0. {"run", "acquire", "read", "takeover", "recheck", "finish", "complete", "recover",
      "respond", "recomplete", "new"} \subseteq Places
  BY DEF Places, Executing, Finding, Recovering
<1>1. CASE Begin(r)
  <2>1. ColumnsOK'
    BY <1>1, ReservationsKeepTypes DEF Begin, ColumnsOK, columns
  <2>2. QED
    BY <1>0, <1>1, <2>1, GotoKeepsTypes, AnswerKeepsTypes DEF ControlOK, Begin, drains, resource
<1>2. CASE Read(r)
  <2>1. ColumnsOK'
    BY <1>2 DEF Read, ColumnsOK, columns
  <2>2. QED
    BY <1>0, <1>2, <2>1, FindKeepsTypes DEF ControlOK, Read, drains, resource
<1>3. CASE TryTakeover(r)
  <2>1. ColumnsOK'
    BY <1>3, ReservationsKeepTypes DEF TryTakeover, ColumnsOK, columns
  <2>2. QED
    BY <1>0, <1>3, <2>1, GotoKeepsTypes, AnswerKeepsTypes DEF ControlOK, TryTakeover, drains, resource
<1>4. CASE Recheck(r)
  <2>1. ColumnsOK'
    BY <1>4 DEF Recheck, ColumnsOK, columns
  <2>2. QED
    BY <1>0, <1>4, <2>1, FindKeepsTypes DEF ControlOK, Recheck, drains, resource
<1>5. CASE Drain(r)
  <2>1. ColumnsOK'
    BY <1>5 DEF Drain, ColumnsOK, columns
  <2>2. QED
    BY <1>0, <1>5, <2>1, GotoKeepsTypes, AnswerKeepsTypes DEF ControlOK, Drain, drains, resource
<1>6. CASE Recomplete(r)
  <2>1. ColumnsOK'
    BY <1>6, ReceiptsKeepTypes DEF Recomplete, ColumnsOK, columns, Completable
  <2>2. QED
    BY <1>0, <1>6, <2>1, GotoKeepsTypes, AnswerKeepsTypes DEF ControlOK, Recomplete, drains, resource
<1>7. CASE Commit(r)
  <2>1. ColumnsOK'
    BY <1>7, ReceiptsKeepTypes DEF Commit, ColumnsOK, columns
  <2>2. QED
    BY <1>0, <1>7, <2>1, GotoKeepsTypes, AnswerKeepsTypes
       DEF ControlOK, Commit, Mutated, Rows, drains, resource
<1>8. CASE Refuse(r)
  <2>1. ColumnsOK'
    BY <1>8 DEF Refuse, ColumnsOK, columns
  <2>2. QED
    BY <1>0, <1>8, <2>1, GotoKeepsTypes, AnswerKeepsTypes DEF ControlOK, Refuse, drains, resource
<1>9. CASE Invalidate(r)
  <2>1. ColumnsOK'
    BY <1>9 DEF Invalidate, ColumnsOK, columns
  <2>2. QED
    BY <1>0, <1>9, <2>1, GotoKeepsTypes, AnswerKeepsTypes DEF ControlOK, Invalidate, drains, resource
<1>10. CASE Finalize(r)
  <2>1. ColumnsOK'
    BY <1>10, ReceiptsKeepTypes DEF Finalize, ColumnsOK, columns, Completable
  <2>2. QED
    BY <1>0, <1>10, <2>1, GotoKeepsTypes, AnswerKeepsTypes DEF ControlOK, Finalize, drains, resource
<1>11. CASE GiveBack(r)
  <2>1. ColumnsOK'
    BY <1>11, ReceiptsKeepTypes DEF GiveBack
  <2>2. QED
    BY <1>0, <1>11, <2>1, GotoKeepsTypes, AnswerKeepsTypes DEF ControlOK, GiveBack, drains, resource
<1>12. CASE Respond(r)
  <2>1. ColumnsOK'
    BY <1>12 DEF Respond, ColumnsOK, columns
  <2>2. QED
    BY <1>0, <1>12, <2>1, GotoKeepsTypes, AnswerKeepsTypes DEF ControlOK, Respond, drains, resource
<1>13. CASE Lookup(r)
  <2>1. ColumnsOK'
    BY <1>13 DEF Lookup, ColumnsOK, columns
  <2>2. QED
    BY <1>0, <1>13, <2>1, GotoKeepsTypes, AnswerKeepsTypes DEF ControlOK, Lookup, drains, resource
<1>14. QED
  BY <1>1, <1>2, <1>3, <1>4, <1>5, <1>6, <1>7, <1>8, <1>9, <1>10, <1>11, <1>12, <1>13 DEF Handle

LEMMA FaultsKeepType ==
    ASSUME WTypeOK, NEW cond, FaultIf(cond)
    PROVE  faults' \in 0..MaxFaults
BY FaultsAssumption DEF WTypeOK, FaultIf

LEMMA RequestKeepsTypes ==
    ASSUME WTypeOK, NEW r \in Requests,
           Heartbeat(r) \/ Retry(r) \/ Crash(r) \/ FinalizationThrows(r)
    PROVE  WTypeOK'
<1> USE RequestKey, GotoKeepsTypes, AnswerKeepsTypes, FaultsKeepType DEF WTypeOK, ControlOK, drains, resource
<1>1. CASE Heartbeat(r)
  <2>1. ColumnsOK'
    BY <1>1, ReservationsKeepTypes DEF Heartbeat
  <2>2. QED
    BY <1>1, <2>1 DEF Heartbeat, requests
<1>2. CASE Retry(r) \/ Crash(r) \/ FinalizationThrows(r)
  <2>1. ColumnsOK'
    <3>1. UNCHANGED columns
      BY <1>2 DEF Retry, Crash, FinalizationThrows
    <3>2. QED
      BY <3>1 DEF ColumnsOK, columns
  <2>2. {"new", "recover"} \subseteq Places
    BY DEF Places
  <2>3. QED
    BY <1>2, <2>1, <2>2 DEF Retry, Crash, FinalizationThrows
<1>3. QED
  BY <1>1, <1>2

LEMMA FinalizerKeepsTypes ==
    ASSUME WTypeOK, NEW f \in Finalizers,
           Finalizer(f) \/ DrainCrash(f) \/ DrainThrows(f)
    PROVE  WTypeOK'
<1> USE RequestsAssumption DEF WTypeOK, requests, resource
<1>1. CASE Claim(f)
  <2>1. ColumnsOK'
    BY <1>1, ClaimsKeepTypes DEF Claim
  <2>2. QED
    BY <1>1, <2>1 DEF Claim, Drainable
<1>2. ASSUME NEW k \in batch[f], InvalidateClaimed(f, k) PROVE WTypeOK'
  BY <1>2 DEF InvalidateClaimed, columns, ColumnsOK
<1>3. CASE Acknowledge(f)
  <2>1. ColumnsOK'
    BY <1>3, ClaimsKeepTypes DEF Acknowledge, columns, ColumnsOK
  <2>2. QED
    BY <1>3, <2>1 DEF Acknowledge
<1>4. CASE DrainCrash(f)
  BY <1>4, FaultsAssumption DEF DrainCrash, FaultIf, columns, ColumnsOK
<1>5. CASE DrainThrows(f)
  <2>1. ColumnsOK'
    BY <1>5 DEF DrainThrows, columns, ColumnsOK
  <2>2. batch' \in [Finalizers -> SUBSET Keys] /\ draining' \in [Finalizers -> Keys \cup {None}]
    BY <1>5 DEF DrainThrows
  <2>3. QED
    BY <1>5, <2>1, <2>2, FaultsAssumption DEF DrainThrows, FaultIf
<1>6. QED
  BY <1>1, <1>2, <1>3, <1>4, <1>5 DEF Finalizer

LEMMA TimeKeepsTypes ==
    ASSUME WTypeOK, NEW k \in Keys, LeaseRunsOut(k) \/ ClaimRunsOut(k) \/ TakeAway(k)
    PROVE  WTypeOK'
<1> USE FaultsKeepType DEF WTypeOK, requests, drains, resource
<1>1. CASE LeaseRunsOut(k)
  <2>1. ColumnsOK'
    BY <1>1 DEF LeaseRunsOut, ColumnsOK, Prints
  <2>2. QED
    BY <1>1, <2>1 DEF LeaseRunsOut
<1>2. CASE ClaimRunsOut(k)
  <2>1. ColumnsOK'
    BY <1>2 DEF ClaimRunsOut, ColumnsOK, Prints
  <2>2. QED
    BY <1>2, <2>1 DEF ClaimRunsOut
<1>3. CASE TakeAway(k)
  <2>1. ColumnsOK'
    BY <1>3 DEF TakeAway, columns, ColumnsOK
  <2>2. row' \in [Keys -> Rows]
    BY <1>3 DEF TakeAway, Rows
  <2>3. QED
    BY <1>3, <2>1, <2>2 DEF TakeAway
<1>4. QED
  BY <1>1, <1>2, <1>3

LEMMA TypesInductive == WTypeOK /\ [WNext]_wvars => WTypeOK'
<1> SUFFICES ASSUME WTypeOK, [WNext]_wvars PROVE WTypeOK'
  OBVIOUS
<1>1. CASE UNCHANGED wvars
  BY <1>1 DEF WTypeOK, wvars, columns, requests, drains, resource, ColumnsOK
<1>2. QED
  BY <1>1, HandleKeepsTypes, RequestKeepsTypes, FinalizerKeepsTypes, TimeKeepsTypes DEF WNext

\* The table, the requests and the finalizers keep their types.
THEOREM WritesTyped == WSpec => []WTypeOK
BY TypesInitially, TypesInductive, PTL DEF WSpec

-----------------------------------------------------------------------------
(* What no step undoes *)

\* A committed row keeps its owner, its answer and, once clean, its tags.
Advances ==
    \A k \in Keys :
        /\ Committed(k) => Committed(k)' /\ token'[k] = token[k]
        /\ Committed(k) => (k \in dirty' => k \in dirty)
        /\ result[k] # None => result'[k] = result[k]

LEMMA HandleAdvances ==
    ASSUME WTypeOK, NEW r \in Requests, Handle(r)
    PROVE  Advances
<1> USE RequestKey, RequestsAssumption DEF WTypeOK, ColumnsOK, Advances, Committed
<1>1. CASE Begin(r)
  BY <1>1 DEF Begin, Reserve, columns
<1>2. CASE Lookup(r) \/ Read(r) \/ Recheck(r) \/ Refuse(r) \/ Respond(r)
  BY <1>2 DEF Lookup, Read, Recheck, Refuse, Respond, columns
<1>3. CASE TryTakeover(r)
  BY <1>3 DEF TryTakeover, Takeable, TakeOver, columns
<1>4. CASE Drain(r) \/ Invalidate(r)
  BY <1>4 DEF Drain, Invalidate, columns
<1>5. CASE Recomplete(r) \/ Finalize(r)
  BY <1>5 DEF Recomplete, Finalize, Completable, Complete, columns
<1>6. CASE Commit(r)
  BY <1>6 DEF Commit, Markable, Owned, MarkCommitted, columns
<1>7. CASE GiveBack(r)
  BY <1>7 DEF GiveBack, Recover, Owned
<1>8. QED
  BY <1>1, <1>2, <1>3, <1>4, <1>5, <1>6, <1>7 DEF Handle

LEMMA StepAdvances ==
    ASSUME WTypeOK, [WNext]_wvars
    PROVE  Advances
<1> USE RequestKey DEF WTypeOK, ColumnsOK, Advances, Committed
<1>1. CASE UNCHANGED wvars
  BY <1>1 DEF wvars, columns
<1>2. ASSUME NEW r \in Requests,
             Heartbeat(r) \/ Retry(r) \/ Crash(r) \/ FinalizationThrows(r)
      PROVE  Advances
  BY <1>2 DEF Heartbeat, Renew, Retry, Crash, FinalizationThrows, columns
<1>3. ASSUME NEW f \in Finalizers, Finalizer(f) \/ DrainCrash(f) \/ DrainThrows(f)
      PROVE  Advances
  BY <1>3 DEF Finalizer, Claim, ClaimRows, InvalidateClaimed, Acknowledge, Ack, DrainCrash, DrainThrows, columns
<1>4. ASSUME NEW k \in Keys, LeaseRunsOut(k) \/ ClaimRunsOut(k) \/ TakeAway(k)
      PROVE  Advances
  BY <1>4 DEF LeaseRunsOut, ClaimRunsOut, TakeAway, columns
<1>5. QED
  BY <1>1, <1>2, <1>3, <1>4, HandleAdvances DEF WNext

-----------------------------------------------------------------------------
(* The invariant *)

LEMMA SettledInitially == WInit => WInv
<1> SUFFICES ASSUME WInit PROVE WInv
  OBVIOUS
<1>1. WTypeOK
  BY TypesInitially
<1>2. Settled
  BY DEF WInit, NoRows, Settled, Committed, ObligationKept
<1>3. \A r \in Requests : RequestAt(r)
  BY RequestsAssumption, RequestKey DEF WInit, NoRows, RequestAt, Recovering
<1>4. \A f \in Finalizers : DrainedAt(f)
  BY DEF WInit, DrainedAt
<1>5. QED
  BY <1>1, <1>2, <1>3, <1>4 DEF WInv

LEMMA OthersStay ==
    ASSUME WInv, Advances, NEW r \in Requests,
           pc'[r] = pc[r], seen'[r] = seen[r], reply'[r] = reply[r]
    PROVE  RequestAt(r)'
BY RequestKey, RequestsAssumption DEF WInv, RequestAt, Advances, Committed, Recovering

LEMMA HandleKeepsOwn ==
    ASSUME WInv, NEW r \in Requests, Handle(r)
    PROVE  RequestAt(r)'
<1>1. /\ KeyOf[r] \in Keys /\ r \in Requests /\ r # None
      /\ None \notin Requests /\ "conflict" \notin Requests
  BY RequestKey, RequestsAssumption, RepliesAssumption
<1>2. RequestAt(r) /\ WTypeOK /\ Settled
  BY DEF WInv
<1> USE <1>1, <1>2 DEF WTypeOK, ColumnsOK, Settled, ObligationKept, RequestAt, Committed, Recovering
<1>3. CASE Begin(r)
  BY <1>3 DEF Begin, Reserve, Goto
<1>4. CASE Read(r)
  BY <1>4 DEF Read, Resolve, Goto, Answer, columns
<1>5. CASE TryTakeover(r)
  BY <1>5 DEF TryTakeover, Goto, TakeOver
<1>6. CASE Recheck(r)
  BY <1>6 DEF Recheck, Resolve, Answer, columns
<1>7. CASE Drain(r)
  BY <1>7 DEF Drain, Goto, Answer, columns
<1>8. CASE Recomplete(r)
  BY <1>8 DEF Recomplete, Goto, Answer, Complete
<1>9. CASE Commit(r)
  BY <1>9 DEF Commit, Markable, Owned, MarkCommitted, Goto
<1>10. CASE Refuse(r) \/ GiveBack(r)
  BY <1>10 DEF Refuse, GiveBack, Answer
<1>11. CASE Invalidate(r)
  BY <1>11 DEF Invalidate, Goto, columns
<1>12. CASE Finalize(r)
  BY <1>12 DEF Finalize, Goto, Complete, columns
<1>13. CASE Respond(r)
  BY <1>13 DEF Respond, Answer, columns
<1>14. CASE Lookup(r)
  BY <1>14 DEF Lookup, Goto, Answer, columns
<1>15. QED
  BY <1>3, <1>4, <1>5, <1>6, <1>7, <1>8, <1>9, <1>10, <1>11, <1>12, <1>13, <1>14 DEF Handle

LEMMA OthersKeepOwn ==
    ASSUME WInv, NEW r \in Requests,
           Heartbeat(r) \/ Retry(r) \/ Crash(r) \/ FinalizationThrows(r)
    PROVE  RequestAt(r)'
<1>1. KeyOf[r] \in Keys /\ r \in Requests /\ None \notin Requests
  BY RequestKey, RequestsAssumption
<1>2. RequestAt(r) /\ WTypeOK
  BY DEF WInv
<1> USE <1>1, <1>2 DEF WTypeOK, ColumnsOK, RequestAt, Committed, Recovering
<1>3. CASE Heartbeat(r)
  BY <1>3 DEF Heartbeat, Renew, requests
<1>4. CASE Retry(r)
  BY <1>4 DEF Retry, Goto, columns
<1>5. CASE Crash(r)
  <2>1. Answer(r, None)
    BY <1>5 DEF Crash
  <2>2. QED
    BY <2>1 DEF Answer
<1>6. CASE FinalizationThrows(r)
  BY <1>6 DEF FinalizationThrows, Goto, columns
<1>7. QED
  BY <1>3, <1>4, <1>5, <1>6

LEMMA RequestsKeep ==
    ASSUME WInv, Advances, [WNext]_wvars, NEW q \in Requests
    PROVE  RequestAt(q)'
<1>1. WTypeOK /\ q \in Requests
  BY RequestKey DEF WInv
<1>2. CASE UNCHANGED requests
  BY <1>2, OthersStay DEF requests
<1>3. ASSUME NEW r \in Requests,
             \/ Handle(r) \/ Heartbeat(r) \/ Retry(r)
             \/ Crash(r) \/ FinalizationThrows(r)
      PROVE  RequestAt(q)'
  <2>1. CASE q = r
    BY <1>3, <2>1, HandleKeepsOwn, OthersKeepOwn
  <2>2. CASE q # r
    <3>1. pc'[q] = pc[q] /\ seen'[q] = seen[q] /\ reply'[q] = reply[q]
      BY <1>1, <1>3, <2>2 DEF WTypeOK, Handle, Lookup, Begin, Read, Resolve, TryTakeover, Recheck, Drain, Recomplete,
         Commit, Refuse, Invalidate, Finalize, GiveBack, Respond, Heartbeat, requests,
         Retry, Crash, FinalizationThrows, Goto, Answer
    <3>2. QED
      BY <3>1, OthersStay
  <2>3. QED
    BY <2>1, <2>2
<1>4. ASSUME NEW f \in Finalizers, Finalizer(f) \/ DrainCrash(f) \/ DrainThrows(f)
      PROVE  UNCHANGED requests
  BY <1>4 DEF Finalizer, Claim, InvalidateClaimed, Acknowledge, DrainCrash, DrainThrows
<1>5. ASSUME NEW k \in Keys, LeaseRunsOut(k) \/ ClaimRunsOut(k) \/ TakeAway(k)
      PROVE  UNCHANGED requests
  BY <1>5 DEF LeaseRunsOut, ClaimRunsOut, TakeAway
<1>6. QED
  BY <1>2, <1>3, <1>4, <1>5 DEF WNext, wvars

LEMMA FinalizersKeep ==
    ASSUME WInv, Advances, [WNext]_wvars, NEW g \in Finalizers
    PROVE  DrainedAt(g)'
<1>1. WTypeOK /\ DrainedAt(g)
  BY DEF WInv
<1>2. batch[g] \subseteq Keys /\ draining[g] \in Keys \cup {None}
  BY <1>1 DEF WTypeOK
<1>3. ASSUME batch'[g] \subseteq batch[g], draining'[g] \in {draining[g], None}
      PROVE  DrainedAt(g)'
  BY <1>1, <1>2, <1>3 DEF DrainedAt, Advances
<1>4. CASE UNCHANGED drains
  BY <1>3, <1>4 DEF drains
<1>5. ASSUME NEW f \in Finalizers, Claim(f) PROVE DrainedAt(g)'
  <2>1. \A k \in Drainable : Committed(k)'
    BY DEF Drainable, Committed, Advances
  <2>2. batch'[g] \subseteq batch[g] \cup Drainable /\ draining' = draining
    BY <1>1, <1>5 DEF Claim, WTypeOK
  <2>3. QED
    BY <1>1, <1>2, <2>1, <2>2 DEF DrainedAt, Advances
<1>6. ASSUME NEW f \in Finalizers, NEW k \in batch[f], InvalidateClaimed(f, k) PROVE DrainedAt(g)'
  <2>1. CASE f = g
    BY <1>1, <1>2, <1>6, <2>1 DEF DrainedAt, Advances, InvalidateClaimed, WTypeOK
  <2>2. CASE f # g
    BY <1>1, <1>3, <1>6, <2>2 DEF InvalidateClaimed, WTypeOK
  <2>3. QED
    BY <2>1, <2>2
<1>7. ASSUME NEW f \in Finalizers, Acknowledge(f) \/ DrainCrash(f) \/ DrainThrows(f)
      PROVE  DrainedAt(g)'
  <2>1. batch'[g] \subseteq batch[g] /\ draining'[g] \in {draining[g], None}
    BY <1>1, <1>7 DEF WTypeOK, Acknowledge, DrainCrash, DrainThrows
  <2>2. QED
    BY <1>3, <2>1
<1>8. ASSUME NEW r \in Requests,
             \/ Handle(r) \/ Heartbeat(r) \/ Retry(r)
             \/ Crash(r) \/ FinalizationThrows(r)
      PROVE  UNCHANGED drains
  BY <1>8 DEF Handle, Lookup, Begin, Read, TryTakeover, Recheck, Drain, Recomplete, Commit, Refuse, Invalidate,
     Finalize, GiveBack, Respond, Heartbeat, Retry, Crash, FinalizationThrows
<1>9. ASSUME NEW k \in Keys, LeaseRunsOut(k) \/ ClaimRunsOut(k) \/ TakeAway(k)
      PROVE  UNCHANGED drains
  BY <1>9 DEF LeaseRunsOut, ClaimRunsOut, TakeAway
<1>10. QED
  BY <1>4, <1>5, <1>6, <1>7, <1>8, <1>9 DEF WNext, wvars, Finalizer

LEMMA HandleKeepsSettled ==
    ASSUME WInv, NEW r \in Requests, Handle(r)
    PROVE  Settled'
<1>1. WTypeOK /\ Settled /\ RequestAt(r)
  BY DEF WInv
<1> USE <1>1, RequestKey, RequestsAssumption DEF WTypeOK, ColumnsOK, Settled, ObligationKept, Committed
<1>2. CASE Begin(r)
  BY <1>2 DEF Begin, Reserve, columns
<1>3. CASE Lookup(r) \/ Read(r) \/ Recheck(r) \/ Refuse(r) \/ Respond(r)
  BY <1>3 DEF Lookup, Read, Recheck, Refuse, Respond, columns
<1>4. CASE TryTakeover(r)
  BY <1>4 DEF TryTakeover, Takeable, TakeOver, columns
<1>5. CASE Drain(r) \/ Invalidate(r)
  BY <1>5 DEF Drain, Invalidate, columns
<1>6. CASE Recomplete(r) \/ Finalize(r)
  BY <1>6 DEF RequestAt, Recomplete, Finalize, Completable, Complete, columns
<1>7. CASE Commit(r)
  BY <1>7 DEF Commit, Markable, Owned, MarkCommitted, columns
<1>8. CASE GiveBack(r)
  BY <1>8 DEF RequestAt, GiveBack, Recover, Owned
<1>9. QED
  BY <1>2, <1>3, <1>4, <1>5, <1>6, <1>7, <1>8 DEF Handle

LEMMA SettledKeeps ==
    ASSUME WInv, [WNext]_wvars
    PROVE  Settled'
<1>1. WTypeOK /\ Settled /\ \A f \in Finalizers : DrainedAt(f)
  BY DEF WInv
<1> USE <1>1, RequestKey, RequestsAssumption DEF WTypeOK, ColumnsOK, Settled, ObligationKept, Committed
<1>2. CASE UNCHANGED wvars
  BY <1>2 DEF wvars, columns
<1>3. ASSUME NEW r \in Requests,
             Heartbeat(r) \/ Retry(r) \/ Crash(r) \/ FinalizationThrows(r)
      PROVE  Settled'
  <2>1. UNCHANGED <<status, pending, commits, dirty>>
    BY <1>3 DEF Heartbeat, Renew, Retry, Crash, FinalizationThrows, columns
  <2>2. QED
    BY <2>1
<1>4. ASSUME NEW f \in Finalizers, Finalizer(f) \/ DrainCrash(f) \/ DrainThrows(f)
      PROVE  Settled'
  <2>1. CASE Claim(f) \/ DrainCrash(f) \/ DrainThrows(f)
    <3>1. UNCHANGED <<status, pending, commits, dirty>>
      BY <2>1 DEF Claim, ClaimRows, DrainCrash, DrainThrows, columns
    <3>2. QED
      BY <3>1
  <2>2. ASSUME NEW k \in batch[f], InvalidateClaimed(f, k) PROVE Settled'
    BY <2>2 DEF InvalidateClaimed, columns
  <2>3. CASE Acknowledge(f)
    BY <1>4, <2>3 DEF Acknowledge, Ack, DrainedAt, columns
  <2>4. QED
    BY <1>4, <2>1, <2>2, <2>3 DEF Finalizer
<1>5. ASSUME NEW k \in Keys, LeaseRunsOut(k) \/ ClaimRunsOut(k) \/ TakeAway(k)
      PROVE  Settled'
  BY <1>5 DEF LeaseRunsOut, ClaimRunsOut, TakeAway, columns
<1>6. QED
  BY <1>2, <1>3, <1>4, <1>5, HandleKeepsSettled DEF WNext

LEMMA WInvInductive == WInv /\ [WNext]_wvars => WInv'
<1> SUFFICES ASSUME WInv, [WNext]_wvars PROVE WInv'
  OBVIOUS
<1>1. WTypeOK
  BY DEF WInv
<1>2. Advances /\ WTypeOK' /\ Settled'
  BY <1>1, StepAdvances, TypesInductive, SettledKeeps
<1>3. (\A r \in Requests : RequestAt(r))'
  BY <1>2, RequestsKeep
<1>4. (\A f \in Finalizers : DrainedAt(f))'
  BY <1>2, FinalizersKeep
<1>5. QED
  BY <1>2, <1>3, <1>4 DEF WInv

\* The invariant holds, whatever requests, deaths and leases.
THEOREM WritesInvariant == WSpec => []WInv
BY SettledInitially, WInvInductive, PTL DEF WSpec

\* The row of a key says that its mutation was committed exactly when it was.
THEOREM ReceiptsTruthful == WSpec => []ReceiptTruthful
<1>1. WInv => ReceiptTruthful
  BY DEF WInv, Settled, Committed, ReceiptTruthful
<1>2. QED
  BY <1>1, WritesInvariant, PTL

\* No obligation to invalidate is dropped while the tags are stale.
THEOREM ObligationsKept == WSpec => []ObligationKept
<1>1. WInv => ObligationKept
  BY DEF WInv, Settled
<1>2. QED
  BY <1>1, WritesInvariant, PTL

\* Nobody is answered with the response of a key whose tags are stale.
THEOREM AnswersNotAheadOfCache == WSpec => []AnswerNotAheadOfCache
<1>1. WInv => AnswerNotAheadOfCache
  BY RequestKey, RequestsAssumption
     DEF WInv, WTypeOK, ColumnsOK, Settled, ObligationKept, RequestAt, AnswerNotAheadOfCache
<1>2. QED
  BY <1>1, WritesInvariant, PTL

\* A request whose reservation was taken over changes nothing of the row: only
\* one that has not committed yet can have lost it.
THEOREM LosersHarmless == WSpec => LoserIsHarmless
<1>1. ASSUME WInv, [WNext]_wvars, NEW q \in Requests,
             pc[q] \in Executing \cup {"complete", "recover"}, pc'[q] # pc[q], token[KeyOf[q]] # q
      PROVE  UNCHANGED columns
  <2>1. pc[q] = "run" /\ q \in Requests /\ WTypeOK
    BY <1>1, RequestKey DEF WInv, RequestAt, Executing
  <2>2. ASSUME NEW r \in Requests,
               \/ Handle(r) \/ Heartbeat(r) \/ Retry(r)
               \/ Crash(r) \/ FinalizationThrows(r)
        PROVE  r = q
    BY <1>1, <2>1, <2>2 DEF WTypeOK, Handle, Lookup, Begin, Read, Resolve, TryTakeover, Recheck, Drain, Recomplete,
       Commit, Refuse, Invalidate, Finalize, GiveBack, Respond, Heartbeat, requests,
       Retry, Crash, FinalizationThrows, Goto, Answer
  <2>3. CASE Handle(q) \/ Heartbeat(q) \/ Retry(q) \/ Crash(q) \/ FinalizationThrows(q)
    BY <1>1, <2>1, <2>3 DEF Handle, Lookup, Begin, Read, TryTakeover, Recheck, Drain, Recomplete, Commit, Markable,
       Owned, Refuse, Invalidate, Finalize, GiveBack, Respond, Heartbeat, requests,
       Retry, Crash, FinalizationThrows
  <2>4. ASSUME NEW f \in Finalizers, Finalizer(f) \/ DrainCrash(f) \/ DrainThrows(f)
        PROVE  UNCHANGED requests
    BY <2>4 DEF Finalizer, Claim, InvalidateClaimed, Acknowledge, DrainCrash, DrainThrows
  <2>5. ASSUME NEW k \in Keys, LeaseRunsOut(k) \/ ClaimRunsOut(k) \/ TakeAway(k)
        PROVE  UNCHANGED requests
    BY <2>5 DEF LeaseRunsOut, ClaimRunsOut, TakeAway
  <2>6. ~UNCHANGED requests
    BY <1>1 DEF requests
  <2>7. QED
    BY <1>1, <2>2, <2>3, <2>4, <2>5, <2>6 DEF WNext, wvars
<1>2. WInv /\ [WNext]_wvars =>
        [\A r \in Requests :
           pc[r] \in Executing \cup {"complete", "recover"} /\ pc'[r] # pc[r]
           /\ token[KeyOf[r]] # r => UNCHANGED columns]_wvars
  BY <1>1
<1>3. QED
  BY <1>2, WritesInvariant, PTL DEF WSpec, LoserIsHarmless

-----------------------------------------------------------------------------
(* The table and the handlers implement WriteOnce *)

ToldOf(k) == {reply[r] : r \in {q \in Requests : KeyOf[q] = k}} \ {"conflict", None}

LEMMA PromiseInitially == WInit => Promise!Init
<1> SUFFICES ASSUME WInit PROVE Promise!Init
  OBVIOUS
<1>1. \A k \in Keys : ToldOf(k) = {}
  BY RequestKey DEF WInit, ToldOf
<1>2. QED
  BY <1>1 DEF WInit, NoRows, Promise!Init, ToldOf

LEMMA SilentReply ==
    ASSUME WTypeOK, NEW r \in Requests, UNCHANGED <<commits, result>>,
           \E a \in Requests \cup {"conflict", None} :
              a \in {"conflict", None} /\ reply[r] = None /\ reply' = [reply EXCEPT ![r] = a]
    PROVE  UNCHANGED Promise!vars
<1>1. \A k \in Keys : ToldOf(k)' = ToldOf(k)
  BY DEF WTypeOK, ToldOf
<1>2. QED
  BY <1>1 DEF Promise!vars, ToldOf

LEMMA ToldReply ==
    ASSUME WInv, WInv', NEW r \in Requests, UNCHANGED <<commits, result>>,
           reply[r] = None, reply' = [reply EXCEPT ![r] = result[KeyOf[r]]],
           result[KeyOf[r]] # None
    PROVE  Promise!Tell(KeyOf[r])
<1>1. /\ KeyOf[r] \in Keys /\ r \in Requests /\ result[KeyOf[r]] \in Requests
      /\ reply \in [Requests -> Requests \cup {"conflict", None}]
  BY RequestKey DEF WInv, WTypeOK, ColumnsOK
<1>2. ASSUME NEW k \in Keys, k # KeyOf[r] PROVE ToldOf(k)' = ToldOf(k)
  BY <1>1, <1>2 DEF ToldOf
<1>3. ToldOf(KeyOf[r])' = {result[KeyOf[r]]}
  <2>1. result[KeyOf[r]] \in ToldOf(KeyOf[r])'
    BY <1>1, RepliesAssumption, RequestsAssumption DEF ToldOf
  <2>2. ToldOf(KeyOf[r])' \subseteq {result'[KeyOf[r]]}
    BY <1>1, RequestKey DEF WInv, WTypeOK, RequestAt, ToldOf
  <2>3. QED
    BY <2>1, <2>2
<1>4. [k \in Keys |-> ToldOf(k)]'
        = [[k \in Keys |-> ToldOf(k)] EXCEPT ![KeyOf[r]] = {result[KeyOf[r]]}]
  BY <1>1, <1>2, <1>3
<1>5. QED
  BY <1>1, <1>4 DEF Promise!Tell, ToldOf

LEMMA AnswerPromised ==
    ASSUME WInv, WInv', NEW r \in Requests, UNCHANGED <<commits, result>>,
           \E a \in Requests \cup {"conflict", None} :
              /\ Answer(r, a) /\ pc[r] # "done"
              /\ a \in Requests => a = result[KeyOf[r]]
    PROVE  Promise!Next \/ UNCHANGED Promise!vars
<1>1. WTypeOK /\ KeyOf[r] \in Keys /\ reply[r] = None
  BY RequestKey DEF WInv, RequestAt
<1>2. PICK a \in Requests \cup {"conflict", None} :
         /\ reply' = [reply EXCEPT ![r] = a]
         /\ a \in Requests => a = result[KeyOf[r]]
  BY DEF Answer
<1>3. CASE a \in Requests
  BY <1>1, <1>2, <1>3, ToldReply, RequestsAssumption DEF Promise!Next
<1>4. CASE a \in {"conflict", None}
  BY <1>1, <1>2, <1>4, SilentReply
<1>5. QED
  BY <1>3, <1>4

LEMMA CompletePromised ==
    ASSUME WInv, NEW r \in Requests, status[KeyOf[r]] = "business-committed", Complete(KeyOf[r], r),
           UNCHANGED <<commits, reply>>
    PROVE  Promise!Next
<1>1. KeyOf[r] \in Keys /\ r \in Requests
  BY RequestKey
<1>2. commits[KeyOf[r]] = 1 /\ result[KeyOf[r]] = None
  BY <1>1 DEF WInv, Settled, Committed, WTypeOK, ColumnsOK
<1>3. Promise!Settle(KeyOf[r], r)
  BY <1>2 DEF Complete, Promise!Settle
<1>4. QED
  BY <1>1, <1>3 DEF Promise!Next

LEMMA HandlePromised ==
    ASSUME WInv, WInv', NEW r \in Requests, Handle(r)
    PROVE  Promise!Next \/ UNCHANGED Promise!vars
<1>1. WTypeOK /\ Settled /\ RequestAt(r) /\ KeyOf[r] \in Keys
  BY RequestKey DEF WInv
<1>2. CASE UNCHANGED <<commits, result, reply>>
  BY <1>2 DEF Promise!vars
<1>3. CASE Begin(r) \/ TryTakeover(r) \/ Invalidate(r)
  BY <1>2, <1>3 DEF Begin, Reserve, TryTakeover, TakeOver, Invalidate, Goto, columns
<1>4. CASE Read(r) \/ Recheck(r)
  <2>1. UNCHANGED <<commits, result>> /\ pc[r] # "done"
    BY <1>1, <1>4 DEF Read, Recheck, columns
  <2>2. CASE UNCHANGED reply
    BY <1>2, <2>1, <2>2
  <2>3. CASE Answer(r, "conflict") \/ Answer(r, None)
    BY <2>1, <2>3, AnswerPromised, RepliesAssumption, RequestsAssumption
  <2>4. CASE Matches(KeyOf[r], r) /\ status[KeyOf[r]] = "completed" /\ Answer(r, result[KeyOf[r]])
    BY <1>1, <2>1, <2>4, AnswerPromised DEF WTypeOK, ColumnsOK
  <2>5. QED
    BY <1>4, <2>2, <2>3, <2>4 DEF Read, Recheck, Resolve, Goto
<1>5. CASE Lookup(r) \/ Drain(r) \/ Refuse(r) \/ GiveBack(r)
  <2>1. UNCHANGED <<commits, result>> /\ pc[r] # "done"
    BY <1>5 DEF Lookup, Drain, Refuse, GiveBack, Recover, columns
  <2>2. CASE UNCHANGED reply
    BY <1>2, <2>1, <2>2
  <2>3. CASE Answer(r, None)
    BY <2>1, <2>3, AnswerPromised, RequestsAssumption
  <2>4. QED
    BY <1>5, <2>2, <2>3 DEF Lookup, Drain, Refuse, GiveBack, Goto
<1>6. CASE Respond(r)
  <2>1. UNCHANGED <<commits, result>> /\ pc[r] # "done" /\ Answer(r, r)
    BY <1>6 DEF Respond, columns
  <2>2. r = result[KeyOf[r]]
    BY <1>1, <1>6 DEF RequestAt, Respond
  <2>3. QED
    BY <2>1, <2>2, AnswerPromised
<1>7. CASE Recomplete(r) \/ Finalize(r)
  <2>1. pc[r] # "done" /\ UNCHANGED commits
    BY <1>1, <1>7 DEF Recomplete, Finalize
  <2>2. CASE status[KeyOf[r]] = "business-committed" /\ Complete(KeyOf[r], r) /\ UNCHANGED reply
    BY <2>1, <2>2, CompletePromised
  <2>3. CASE Answer(r, None) /\ UNCHANGED columns
    BY <2>1, <2>3, AnswerPromised, RequestsAssumption DEF columns
  <2>4. CASE UNCHANGED reply /\ UNCHANGED columns
    BY <1>2, <2>1, <2>4 DEF columns
  <2>5. QED
    BY <1>7, <2>2, <2>3, <2>4 DEF Recomplete, Finalize, Completable, Goto
<1>8. CASE Commit(r)
  <2>1. UNCHANGED <<result, reply>>
    BY <1>8 DEF Commit, MarkCommitted, Goto, columns
  <2>2. Markable(KeyOf[r], r) /\ commits' = [commits EXCEPT ![KeyOf[r]] = @ + 1]
    BY <1>8 DEF Commit
  <2>3. commits[KeyOf[r]] = 0
    BY <1>1, <2>2 DEF Settled, Committed, Markable, Owned
  <2>4. Promise!Mutate(KeyOf[r])
    BY <2>1, <2>2, <2>3 DEF Promise!Mutate
  <2>5. QED
    BY <1>1, <2>4 DEF Promise!Next
<1>9. QED
  BY <1>3, <1>4, <1>5, <1>6, <1>7, <1>8 DEF Handle

LEMMA StepPromised ==
    ASSUME WInv, WInv', [WNext]_wvars
    PROVE  Promise!Next \/ UNCHANGED Promise!vars
<1>1. CASE UNCHANGED <<commits, result, reply>>
  BY <1>1 DEF Promise!vars
<1>2. CASE UNCHANGED wvars
  BY <1>1, <1>2 DEF wvars, columns, requests
<1>3. ASSUME NEW r \in Requests, Heartbeat(r) \/ Retry(r) \/ FinalizationThrows(r)
      PROVE  UNCHANGED <<commits, result, reply>>
  BY <1>3 DEF Heartbeat, Renew, Retry, FinalizationThrows, Goto, requests, columns
<1>4. ASSUME NEW r \in Requests, Crash(r)
      PROVE  Promise!Next \/ UNCHANGED Promise!vars
  <2>1. UNCHANGED <<commits, result>> /\ pc[r] # "done"
    BY <1>4 DEF Crash, columns
  <2>2. Answer(r, None)
    BY <1>4 DEF Crash
  <2>3. QED
    BY <2>1, <2>2, AnswerPromised, RequestsAssumption
<1>5. ASSUME NEW f \in Finalizers, Finalizer(f) \/ DrainCrash(f) \/ DrainThrows(f)
      PROVE  UNCHANGED <<commits, result, reply>>
  BY <1>5 DEF Finalizer, Claim, ClaimRows, InvalidateClaimed, Acknowledge, Ack, DrainCrash, DrainThrows,
     requests, columns
<1>6. ASSUME NEW k \in Keys, LeaseRunsOut(k) \/ ClaimRunsOut(k) \/ TakeAway(k)
      PROVE  UNCHANGED <<commits, result, reply>>
  BY <1>6 DEF LeaseRunsOut, ClaimRunsOut, TakeAway, requests, columns
<1>7. QED
  BY <1>1, <1>2, <1>3, <1>4, <1>5, <1>6, HandlePromised DEF WNext

\* Table, handlers and finalizers implement WriteOnce.
THEOREM PromiseKept == WSpec => KeepsPromise
<1>1. WInv /\ WInv' /\ [WNext]_wvars => [Promise!Next]_Promise!vars
  BY StepPromised
<1>2. QED
  BY <1>1, PromiseInitially, WritesInvariant, PTL DEF WSpec, KeepsPromise, Promise!Spec

-----------------------------------------------------------------------------
(* What the promise is worth *)

\* Nobody is told before there is an answer, else it could be another one.
OnceAt(k) ==
    /\ commits[k] \in Nat /\ commits[k] <= 1
    /\ ToldOf(k) \in SUBSET Requests /\ ToldOf(k) \subseteq {result[k]}
    /\ result[k] # None => commits[k] = 1
    /\ ToldOf(k) # {} => result[k] # None

OnceInv ==
    /\ commits \in [Keys -> Nat] /\ result \in [Keys -> Requests \cup {None}]
    /\ \A k \in Keys : OnceAt(k)

LEMMA OnceInitially == Promise!Init => OnceInv
BY DEF Promise!Init, OnceInv, OnceAt, ToldOf

LEMMA OnceInductive == OnceInv /\ [Promise!Next]_Promise!vars => OnceInv'
<1> SUFFICES ASSUME OnceInv, [Promise!Next]_Promise!vars PROVE OnceInv'
  OBVIOUS
<1>1. ASSUME NEW k \in Keys, Promise!Tell(k)
      PROVE  \A j \in Keys : ToldOf(j)' = IF j = k THEN {result[k]} ELSE ToldOf(j)
  BY <1>1 DEF Promise!Tell, ToldOf
<1>2. CASE UNCHANGED Promise!vars
  BY <1>2 DEF Promise!vars, OnceInv, OnceAt, ToldOf
<1>3. ASSUME NEW k \in Keys, Promise!Mutate(k) PROVE OnceInv'
  <2>1. /\ commits[k] = 0 /\ commits' = [commits EXCEPT ![k] = 1] /\ UNCHANGED result
        /\ \A j \in Keys : ToldOf(j)' = ToldOf(j)
    BY <1>3 DEF Promise!Mutate, ToldOf
  <2>2. /\ commits \in [Keys -> Nat] /\ result \in [Keys -> Requests \cup {None}]
        /\ \A j \in Keys : OnceAt(j)
    BY DEF OnceInv
  <2>3. \A j \in Keys : OnceAt(j)'
    BY <2>1, <2>2 DEF OnceAt
  <2>4. commits' \in [Keys -> Nat] /\ result' \in [Keys -> Requests \cup {None}]
    BY <2>1, <2>2
  <2>5. QED
    BY <2>3, <2>4 DEF OnceInv
<1>4. ASSUME NEW k \in Keys, NEW a \in Requests, Promise!Settle(k, a) PROVE OnceInv'
  BY <1>4 DEF Promise!Settle, OnceInv, OnceAt, ToldOf
<1>5. ASSUME NEW k \in Keys, Promise!Tell(k) PROVE OnceInv'
  <2>1. /\ result[k] # None /\ UNCHANGED <<commits, result>>
        /\ \A j \in Keys : ToldOf(j)' = IF j = k THEN {result[k]} ELSE ToldOf(j)
    BY <1>1, <1>5 DEF Promise!Tell
  <2>2. /\ commits \in [Keys -> Nat] /\ result \in [Keys -> Requests \cup {None}]
        /\ \A j \in Keys : OnceAt(j)
    BY DEF OnceInv
  <2>3. \A j \in Keys : OnceAt(j)'
    BY <2>1, <2>2 DEF OnceAt
  <2>4. commits' \in [Keys -> Nat] /\ result' \in [Keys -> Requests \cup {None}]
    BY <2>1, <2>2
  <2>5. QED
    BY <2>3, <2>4 DEF OnceInv
<1>6. QED
  BY <1>2, <1>3, <1>4, <1>5 DEF Promise!Next

\* Whatever keeps the promise commits a key's mutation at most once, gives it
\* one answer and tells its clients of success by nothing else.
THEOREM PromiseMeansOnce == Promise!Spec => []Promise!Once
<1>1. OnceInv => Promise!Once
  BY DEF OnceInv, OnceAt, Promise!Once, ToldOf
<1>2. QED
  BY <1>1, OnceInitially, OnceInductive, PTL DEF Promise!Spec

\* The mutation of a key is committed at most once, and the clients of the key
\* that are told of success are told the same answer, that of the row.
THEOREM CommittedAndToldOnce == WSpec => []Promise!Once
BY PromiseKept, PromiseMeansOnce, PTL DEF KeepsPromise
=============================================================================

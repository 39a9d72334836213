---------------------------- MODULE WriteHandler ----------------------------
(***************************************************************************)
(* Write requests (createFrameworkWriteHandler) and finalizers             *)
(* (drainPendingInvalidations) over the idempotency table: a request of    *)
(* the CRUD handlers (create, update, delete) loads its resource, reserves *)
(* its key or finds what became of it, runs the operation, whose           *)
(* transaction or batch commits the mutation and the receipt together,     *)
(* invalidates the cache tags, writes the response and answers.  A request *)
(* that recovers a committed mutation invalidates the tags of the receipt, *)
(* reads the resource again and completes the row.                         *)
(*                                                                         *)
(* Processes die and calls throw at any step, and others change the        *)
(* resource; a client that was not told of success sends its request       *)
(* again.  Every request has an Idempotency-Key: one without touches no    *)
(* row of the table, and is not sent again (its mutation is in             *)
(* CrudMutations).                                                         *)
(***************************************************************************)
EXTENDS Naturals, FiniteSets

-----------------------------------------------------------------------------
(* The idempotency table (DrizzlePgIdempotencyStore and its D1 twin): one row *)
(* for each scope and key, its columns as functions of the key, and the       *)
(* statements the store runs on them.  A statement that matches no row has    *)
(* its condition named (Takeable, Owned, ...): the callers throw or go on by  *)
(* it.                                                                        *)
(*                                                                            *)
(* A request generates one token per acquire and at most one of its tokens    *)
(* ever gets into the table, so a token is the request that generated it.     *)
(* created_at is kept as `fresh': it is younger than the lease duration.  A   *)
(* finalizer claim that expired is gone.                                      *)

CONSTANTS
    Keys,        \* scope and key of the mutations
    Requests,    \* the HTTP requests in flight, each with its retries
    Finalizers,  \* the processes that drain pending invalidations
    None,
    KeyOf,       \* the Idempotency-Key of a request, in its scope
    PrintOf,     \* the fingerprint of its mutation
    HasTags      \* the handler invalidates cache tags

ASSUME RequestsAssumption ==
    /\ KeyOf \in [Requests -> Keys]
    /\ None \notin Requests /\ None \notin Keys /\ None \notin Finalizers
    /\ \A r \in Requests : PrintOf[r] # None
ASSUME TagsAssumption == HasTags \in BOOLEAN

VARIABLES
    status,   \* status of the row of each key, "absent" before it is inserted
    token,    \* who the row was last reserved by
    print,    \* fingerprint
    fresh,    \* created_at
    result,   \* the response written by complete(), as the request it is of
    pending,  \* pending_invalidations is not null
    claim     \* finalizer_claim_token, while finalizer_claim_expires_at is ahead

columns == <<status, token, print, fresh, result, pending, claim>>

Prints == {PrintOf[r] : r \in Requests}

ColumnsOK ==
    /\ status \in [Keys -> {"absent", "in-progress", "business-committed", "completed"}]
    /\ token \in [Keys -> Requests \cup {None}]
    /\ print \in [Keys -> Prints \cup {None}]
    /\ fresh \in [Keys -> BOOLEAN]
    /\ result \in [Keys -> Requests \cup {None}]
    /\ pending \in [Keys -> BOOLEAN]
    /\ claim \in [Keys -> Finalizers \cup {None}]
    /\ \A k \in Keys :
          /\ status[k] = "absent" <=> token[k] = None
          /\ status[k] = "absent" <=> print[k] = None
          /\ status[k] = "completed" <=> result[k] # None
          /\ claim[k] # None => pending[k]
          /\ pending[k] => status[k] = "business-committed"

NoRows ==
    /\ status = [k \in Keys |-> "absent"]
    /\ token = [k \in Keys |-> None]
    /\ print = [k \in Keys |-> None]
    /\ fresh = [k \in Keys |-> FALSE]
    /\ result = [k \in Keys |-> None]
    /\ pending = [k \in Keys |-> FALSE]
    /\ claim = [k \in Keys |-> None]

Matches(k, r) == print[k] = PrintOf[r]

\* The reservation of the key is still the one token t was generated for.
Owned(k, t, r) == status[k] = "in-progress" /\ token[k] = t /\ Matches(k, r)

\* INSERT of acquire.
Reserve(k, r) ==
    /\ status' = [status EXCEPT ![k] = "in-progress"]
    /\ token' = [token EXCEPT ![k] = r]
    /\ print' = [print EXCEPT ![k] = PrintOf[r]]
    /\ fresh' = [fresh EXCEPT ![k] = TRUE]
    /\ UNCHANGED <<result, pending, claim>>

\* A bug to be caught: the lease is compared the wrong way round.
TakeableWhileFresh(k, r) == status[k] = "in-progress" /\ Matches(k, r) /\ fresh[k]

\* UPDATE of takeoverOrRecheck.
Takeable(k, r) == status[k] = "in-progress" /\ Matches(k, r) /\ ~fresh[k]
TakeOver(k, r) ==
    /\ token' = [token EXCEPT ![k] = r]
    /\ fresh' = [fresh EXCEPT ![k] = TRUE]
    /\ UNCHANGED <<status, print, result, pending, claim>>

\* renew() does not ask whether the lease has run out meanwhile.
Renew(k) ==
    /\ fresh' = [fresh EXCEPT ![k] = TRUE]
    /\ UNCHANGED <<status, token, print, result, pending, claim>>

\* A bug to be caught: the receipt is written without the obligations.
MarkCommittedBare(k) ==
    /\ status' = [status EXCEPT ![k] = "business-committed"]
    /\ UNCHANGED <<token, print, fresh, result, pending, claim>>

\* markCommittedInTransaction, or the receipt and its assertion in a D1 batch.
Markable(k, r) == Owned(k, r, r)
MarkCommitted(k) ==
    /\ status' = [status EXCEPT ![k] = "business-committed"]
    /\ pending' = [pending EXCEPT ![k] = HasTags]
    /\ UNCHANGED <<token, print, fresh, result, claim>>

\* A bug to be caught: completion does not ask for the status.
CompletableAgain(k, t, r) ==
    status[k] \in {"business-committed", "completed"} /\ token[k] = t /\ Matches(k, r)

Completable(k, t, r) == status[k] = "business-committed" /\ token[k] = t /\ Matches(k, r)
Complete(k, r) ==
    /\ status' = [status EXCEPT ![k] = "completed"]
    /\ result' = [result EXCEPT ![k] = r]
    /\ pending' = [pending EXCEPT ![k] = FALSE]
    /\ claim' = [claim EXCEPT ![k] = None]
    /\ UNCHANGED <<token, print, fresh>>

\* recover() takes a row still in progress to business-committed as well.
Recover(k, r) ==
    /\ status' = IF Owned(k, r, r) THEN [status EXCEPT ![k] = "business-committed"] ELSE status
    /\ UNCHANGED <<token, print, fresh, result, pending, claim>>

\* claimPendingInvalidations and ackClaimedInvalidation.
Drainable == {k \in Keys : status[k] = "business-committed" /\ pending[k] /\ claim[k] = None}
ClaimRows(ks, f) ==
    /\ claim' = [k \in Keys |-> IF k \in ks THEN f ELSE claim[k]]
    /\ UNCHANGED <<status, token, print, fresh, result, pending>>

Ackable(k, f) == status[k] = "business-committed" /\ claim[k] = f
Ack(k) ==
    /\ pending' = [pending EXCEPT ![k] = FALSE]
    /\ claim' = [claim EXCEPT ![k] = None]
    /\ UNCHANGED <<status, token, print, fresh, result>>

-----------------------------------------------------------------------------
(* The handlers and the finalizers *)

CONSTANTS
    HasCache,   \* getCacheAdapter() was called and returned an adapter
    MaxFaults   \* bound on faults: deaths, throwing calls, leases that run out
                \* under a living process, resources taken away by others

ASSUME CacheAssumption == HasCache \in BOOLEAN /\ (HasTags => HasCache)
ASSUME FaultsAssumption == MaxFaults \in Nat
ASSUME RepliesAssumption == "conflict" \notin Requests \cup {None}

VARIABLES
    pc,       \* where each request is
    seen,     \* the committed row it found: its token, and whether it owed
              \* invalidations
    reply,    \* the request whose response it answered with, "conflict", or
              \* None: an error, or no answer at all
    action,   \* what the handler of each key does with its resource
    row,      \* what the handlers find of that resource
    commits,  \* how often the mutation of each key was committed
    dirty,    \* committed mutations whose tags have not been invalidated since
    batch,    \* the rows each finalizer claimed and has still to work on
    draining, \* the one whose tags it has just invalidated
    faults

requests == <<pc, seen, reply>>
drains == <<batch, draining>>
resource == <<action, row>>
wvars == <<columns, requests, commits, resource, dirty, drains, faults>>

Finding == {"read", "takeover", "recheck"}
Recovering == {"drain", "recomplete"}
Executing == {"run", "finish"}
Places == {"new", "acquire", "complete", "recover", "respond", "done"}
          \cup Finding \cup Recovering \cup Executing

Actions == {"create", "update", "delete"}

\* A resource is not created yet, or has the version and is where the receipt
\* leaves it, or can be found but not read back so: others have given it another
\* version or moved it out of the caller's read scope.  It is not found either
\* when others removed it, or moved it out of the action's scope, or when the
\* mutation itself deleted it.
Rows == {"unborn", "intact", "unreadable", "unfound", "deleted"}

NotSeen == [token |-> None, owes |-> FALSE]

WTypeOK ==
    /\ ColumnsOK
    /\ pc \in [Requests -> Places]
    /\ seen \in [Requests -> [token: Requests \cup {None}, owes: BOOLEAN]]
    /\ reply \in [Requests -> Requests \cup {"conflict", None}]
    /\ action \in [Keys -> Actions]
    /\ row \in [Keys -> Rows]
    /\ commits \in [Keys -> Nat]
    /\ dirty \subseteq Keys
    /\ batch \in [Finalizers -> SUBSET Keys]
    /\ draining \in [Finalizers -> Keys \cup {None}]
    /\ faults \in 0..MaxFaults

WInit ==
    /\ NoRows
    /\ pc = [r \in Requests |-> "new"]
    /\ seen = [r \in Requests |-> NotSeen]
    /\ reply = [r \in Requests |-> None]
    /\ action \in [Keys -> Actions]
    /\ row = [k \in Keys |-> IF action[k] = "create" THEN "unborn" ELSE "intact"]
    /\ commits = [k \in Keys |-> 0]
    /\ dirty = {}
    /\ batch = [f \in Finalizers |-> {}]
    /\ draining = [f \in Finalizers |-> None]
    /\ faults = 0

Goto(r, place) == pc' = [pc EXCEPT ![r] = place] /\ UNCHANGED <<seen, reply>>

Answer(r, a) ==
    /\ pc' = [pc EXCEPT ![r] = "done"]
    /\ seen' = [seen EXCEPT ![r] = NotSeen]
    /\ reply' = [reply EXCEPT ![r] = a]

-----------------------------------------------------------------------------
(* The resource, then acquire *)

\* A handler that updates or deletes finds its resource, or answers that there
\* is none, before it looks at the key.
Found(k) == action[k] = "create" \/ row[k] \in {"intact", "unreadable"}

Lookup(r) ==
    /\ pc[r] = "new"
    /\ IF Found(KeyOf[r]) THEN Goto(r, "acquire") ELSE Answer(r, None)
    /\ UNCHANGED <<columns, commits, resource, dirty, drains, faults>>

Begin(r) ==
    /\ pc[r] = "acquire"
    /\ \/ status[KeyOf[r]] = "absent" /\ Reserve(KeyOf[r], r) /\ Goto(r, "run")
       \/ status[KeyOf[r]] # "absent" /\ UNCHANGED columns /\ Goto(r, "read")
    /\ UNCHANGED <<commits, resource, dirty, drains, faults>>

\* resolveExisting, on the row a select returned; a row in progress is left to
\* the caller.
Resolve(k, r, otherwise) ==
    \/ ~Matches(k, r) /\ Answer(r, "conflict")
    \/ Matches(k, r) /\ status[k] = "completed" /\ Answer(r, result[k])
    \/ /\ Matches(k, r) /\ status[k] = "business-committed"
       /\ pc' = [pc EXCEPT ![r] = "drain"]
       /\ seen' = [seen EXCEPT ![r] = [token |-> token[k], owes |-> pending[k]]]
       /\ UNCHANGED reply
    \/ Matches(k, r) /\ status[k] = "in-progress" /\ otherwise

Read(r) ==
    /\ pc[r] = "read"
    /\ Resolve(KeyOf[r], r, Goto(r, "takeover"))
    /\ UNCHANGED <<columns, commits, resource, dirty, drains, faults>>

TryTakeover(r) ==
    /\ pc[r] = "takeover"
    /\ \/ Takeable(KeyOf[r], r) /\ TakeOver(KeyOf[r], r) /\ Goto(r, "run")
       \/ ~Takeable(KeyOf[r], r) /\ Goto(r, "recheck") /\ UNCHANGED columns
    /\ UNCHANGED <<commits, resource, dirty, drains, faults>>

Recheck(r) ==
    /\ pc[r] = "recheck"
    /\ Resolve(KeyOf[r], r, Answer(r, None))
    /\ UNCHANGED <<columns, commits, resource, dirty, drains, faults>>

-----------------------------------------------------------------------------
(* A mutation that was committed before *)

\* A bug to be caught: the row is completed without invalidating first.
DrainNothing(r) ==
    /\ pc[r] = "drain"
    /\ IF HasCache THEN Goto(r, "recomplete") ELSE Answer(r, None)
    /\ UNCHANGED <<columns, commits, resource, dirty, drains, faults>>

\* The tags of the receipt are invalidated, be they none: even then a handler
\* without a cache adapter refuses with a ConfigurationError.
Drain(r) ==
    /\ pc[r] = "drain"
    /\ \/ ~HasCache /\ Answer(r, None) /\ UNCHANGED dirty
       \/ /\ HasCache /\ Goto(r, "recomplete")
          /\ dirty' = IF seen[r].owes THEN dirty \ {KeyOf[r]} ELSE dirty
    /\ UNCHANGED <<columns, commits, resource, drains, faults>>

\* recoverCommittedResponse rereads the resource, of which a delete needs
\* nothing, and its response is written.  Without one the request is refused as
\* a conflict, now and whenever it is sent again.
Recoverable(k) == action[k] = "delete" \/ row[k] = "intact"

Recomplete(r) ==
    /\ pc[r] = "recomplete"
    /\ \/ /\ Recoverable(KeyOf[r]) /\ Completable(KeyOf[r], seen[r].token, r)
          /\ Complete(KeyOf[r], r) /\ Goto(r, "respond")
       \/ /\ ~Recoverable(KeyOf[r]) \/ ~Completable(KeyOf[r], seen[r].token, r)
          /\ Answer(r, None) /\ UNCHANGED columns
    /\ UNCHANGED <<commits, resource, dirty, drains, faults>>

-----------------------------------------------------------------------------
(* The operation *)

\* The timer renews the reservation while the operation runs.
Heartbeat(r) ==
    /\ pc[r] \in Executing
    /\ Owned(KeyOf[r], r, r)
    /\ Renew(KeyOf[r])
    /\ UNCHANGED <<requests, commits, resource, dirty, drains, faults>>

\* What the commit leaves of the resource.
Mutated(k) ==
    /\ row' = [row EXCEPT ![k] = IF action[k] = "delete" THEN "deleted" ELSE "intact"]
    /\ UNCHANGED action

\* A bug to be caught: the mutation is committed on its own, before the receipt.
CommitApart(r) ==
    /\ pc[r] = "run"
    /\ Found(KeyOf[r]) /\ Mutated(KeyOf[r])
    /\ IF Markable(KeyOf[r], r) THEN MarkCommitted(KeyOf[r]) ELSE UNCHANGED columns
    /\ commits' = [commits EXCEPT ![KeyOf[r]] = @ + 1]
    /\ dirty' = IF HasTags THEN dirty \cup {KeyOf[r]} ELSE dirty
    /\ Goto(r, "finish")
    /\ UNCHANGED <<drains, faults>>

\* The mutation and its receipt are committed together.
Commit(r) ==
    /\ pc[r] = "run"
    /\ Markable(KeyOf[r], r) /\ Found(KeyOf[r])
    /\ MarkCommitted(KeyOf[r]) /\ Mutated(KeyOf[r])
    /\ commits' = [commits EXCEPT ![KeyOf[r]] = @ + 1]
    /\ dirty' = IF HasTags THEN dirty \cup {KeyOf[r]} ELSE dirty
    /\ Goto(r, "finish")
    /\ UNCHANGED <<drains, faults>>

\* The reservation was lost, or the resource is no longer what was loaded: the
\* transaction is rolled back, and the row left in progress.
Refuse(r) ==
    /\ pc[r] = "run"
    /\ ~Markable(KeyOf[r], r) \/ row[KeyOf[r]] \notin {"unborn", "intact"}
    /\ Answer(r, None)
    /\ UNCHANGED <<columns, commits, resource, dirty, drains, faults>>

\* The hooks ran and the response is serialized; the tags are invalidated.
Invalidate(r) ==
    /\ pc[r] = "finish"
    /\ dirty' = dirty \ {KeyOf[r]}
    /\ Goto(r, "complete")
    /\ UNCHANGED <<columns, commits, resource, drains, faults>>

Finalize(r) ==
    /\ pc[r] = "complete"
    /\ \/ /\ Completable(KeyOf[r], r, r)
          /\ Complete(KeyOf[r], r) /\ Goto(r, "respond")
       \/ /\ ~Completable(KeyOf[r], r, r)
          /\ Goto(r, "recover") /\ UNCHANGED columns
    /\ UNCHANGED <<commits, resource, dirty, drains, faults>>

\* The catch block; the error is thrown on.
GiveBack(r) ==
    /\ pc[r] = "recover"
    /\ Recover(KeyOf[r], r)
    /\ Answer(r, None)
    /\ UNCHANGED <<commits, resource, dirty, drains, faults>>

Respond(r) ==
    /\ pc[r] = "respond"
    /\ Answer(r, r)
    /\ UNCHANGED <<columns, commits, resource, dirty, drains, faults>>

\* The client sends the request again, with its key.
Retry(r) ==
    /\ pc[r] = "done" /\ reply[r] = None
    /\ Goto(r, "new")
    /\ UNCHANGED <<columns, commits, resource, dirty, drains, faults>>

-----------------------------------------------------------------------------
(* The finalizer *)

Claim(f) ==
    /\ batch[f] = {} /\ draining[f] = None
    /\ \E ks \in SUBSET Drainable \ {{}} :
         /\ ClaimRows(ks, f)
         /\ batch' = [batch EXCEPT ![f] = ks]
    /\ UNCHANGED <<requests, commits, resource, dirty, draining, faults>>

InvalidateClaimed(f, k) ==
    /\ k \in batch[f] /\ draining[f] = None
    /\ dirty' = dirty \ {k}
    /\ batch' = [batch EXCEPT ![f] = @ \ {k}]
    /\ draining' = [draining EXCEPT ![f] = k]
    /\ UNCHANGED <<columns, requests, commits, resource, faults>>

\* The claim may have run out: ackClaimedInvalidation then throws, the error
\* is reported and the row left to a later drain.
Acknowledge(f) ==
    /\ draining[f] # None
    /\ IF Ackable(draining[f], f) THEN Ack(draining[f]) ELSE UNCHANGED columns
    /\ draining' = [draining EXCEPT ![f] = None]
    /\ UNCHANGED <<requests, commits, resource, dirty, batch, faults>>

-----------------------------------------------------------------------------
(* Time and faults *)

InHand(k) ==
    \E r \in Requests : KeyOf[r] = k /\ pc[r] \in Executing /\ token[k] = r
Claimed(k) == \E f \in Finalizers : claim[k] = f /\ (k \in batch[f] \/ draining[f] = k)

FaultIf(cond) == faults' = (IF cond THEN faults + 1 ELSE faults) /\ faults' <= MaxFaults

LeaseRunsOut(k) ==
    /\ status[k] = "in-progress" /\ fresh[k]
    /\ fresh' = [fresh EXCEPT ![k] = FALSE]
    /\ FaultIf(InHand(k))
    /\ UNCHANGED <<status, token, print, result, pending, claim, requests, commits, resource, dirty, drains>>

ClaimRunsOut(k) ==
    /\ claim[k] # None
    /\ claim' = [claim EXCEPT ![k] = None]
    /\ FaultIf(Claimed(k))
    /\ UNCHANGED <<status, token, print, fresh, result, pending, requests, commits, resource, dirty, drains>>

\* The process dies, or a call outside the finalization's try throws, a hook
\* after the commit for one: the client is not told of success.  That the
\* operation refuses the mutation is a case of this.
Crash(r) ==
    /\ pc[r] \notin {"new", "done"}
    /\ Answer(r, None)
    /\ FaultIf(TRUE)
    /\ UNCHANGED <<columns, commits, resource, dirty, drains>>

\* Serialization, the cache or complete() throws.
FinalizationThrows(r) ==
    /\ pc[r] \in {"finish", "complete"}
    /\ Goto(r, "recover")
    /\ FaultIf(TRUE)
    /\ UNCHANGED <<columns, commits, resource, dirty, drains>>

\* Others write to the resource, or remove it; or the mutation has moved it out
\* of its caller's scope.
TakeAway(k) ==
    /\ row[k] \in {"intact", "unreadable"}
    /\ \E left \in {"unreadable", "unfound"} \ {row[k]} : row' = [row EXCEPT ![k] = left]
    /\ FaultIf(TRUE)
    /\ UNCHANGED <<columns, requests, commits, action, dirty, drains>>

\* The finalizer dies.
DrainCrash(f) ==
    /\ batch[f] # {} \/ draining[f] # None
    /\ batch' = [batch EXCEPT ![f] = {}]
    /\ draining' = [draining EXCEPT ![f] = None]
    /\ FaultIf(TRUE)
    /\ UNCHANGED <<columns, requests, commits, resource, dirty>>

\* A bug to be caught: the row is acknowledged though the cache threw.
DrainThrowsAcknowledging(f) ==
    /\ \E k \in batch[f] :
          /\ IF Ackable(k, f) THEN Ack(k) ELSE UNCHANGED columns
          /\ batch' = [batch EXCEPT ![f] = @ \ {k}]
    /\ FaultIf(TRUE)
    /\ UNCHANGED <<requests, commits, resource, dirty, draining>>

\* The cache or the acknowledgement throws: the loop goes on.
DrainThrows(f) ==
    /\ \/ /\ draining[f] # None
          /\ draining' = [draining EXCEPT ![f] = None]
          /\ UNCHANGED batch
       \/ /\ draining[f] = None
          /\ \E k \in batch[f] : batch' = [batch EXCEPT ![f] = @ \ {k}]
          /\ UNCHANGED draining
    /\ FaultIf(TRUE)
    /\ UNCHANGED <<columns, requests, commits, resource, dirty>>

-----------------------------------------------------------------------------
Handle(r) ==
    \/ Lookup(r) \/ Begin(r) \/ Read(r) \/ TryTakeover(r) \/ Recheck(r)
    \/ Drain(r) \/ Recomplete(r)
    \/ Commit(r) \/ Refuse(r) \/ Invalidate(r) \/ Finalize(r)
    \/ GiveBack(r) \/ Respond(r)

Finalizer(f) == Claim(f) \/ Acknowledge(f) \/ \E k \in batch[f] : InvalidateClaimed(f, k)

WNext ==
    \/ \E r \in Requests :
         Handle(r) \/ Heartbeat(r) \/ Retry(r) \/ Crash(r) \/ FinalizationThrows(r)
    \/ \E f \in Finalizers : Finalizer(f) \/ DrainCrash(f) \/ DrainThrows(f)
    \/ \E k \in Keys : LeaseRunsOut(k) \/ ClaimRunsOut(k) \/ TakeAway(k)

WSpec == WInit /\ [][WNext]_wvars

\* A living process takes its next step (its operation and its hooks settle,
\* the cache and the database answer), the finalizer's interval timer keeps
\* firing, time passes and a client that was not told of success tries again.
WFairSpec ==
    /\ WSpec
    /\ \A r \in Requests : WF_wvars(Handle(r) \/ Retry(r))
    /\ \A f \in Finalizers : WF_wvars(Finalizer(f))
    /\ \A k \in Keys : WF_wvars(LeaseRunsOut(k) \/ ClaimRunsOut(k))

-----------------------------------------------------------------------------
(* Properties *)

\* What the clients see is WriteOnce: one commit and one answer for each key,
\* whatever leases run out, requests are repeated and recoveries race.
Promise == INSTANCE WriteOnce WITH
    Answers <- Requests, NoAnswer <- None, answer <- result,
    told <- [k \in Keys |-> {reply[r] : r \in {q \in Requests : KeyOf[q] = k}} \ {"conflict", None}]

KeepsPromise == Promise!Spec

\* A row says its mutation was committed exactly when it was (recover() sets
\* the status also of a row in progress).
ReceiptTruthful ==
    \A k \in Keys : commits[k] = 1 <=> status[k] \in {"business-committed", "completed"}

\* The obligation to invalidate is discharged only by invalidating: while the
\* tags of a committed mutation are stale, its row is not completed and owes
\* their invalidation.
ObligationKept ==
    \A k \in Keys \cap dirty : status[k] = "business-committed" /\ pending[k]

\* Whoever is answered with the response of a key finds the cache without what
\* the mutation made stale.
AnswerNotAheadOfCache ==
    \A r \in Requests : reply[r] \in Requests => KeyOf[r] \notin dirty

\* A request that lost its reservation changes nothing of the row any more.
LoserIsHarmless ==
    [][\A r \in Requests :
          pc[r] \in Executing \cup {"complete", "recover"} /\ pc'[r] # pc[r]
          /\ token[KeyOf[r]] # r => UNCHANGED columns]_wvars

\* The tags of a committed mutation are invalidated in the end, though every
\* process that set out to do so may have died.
TagsInvalidated == \A k \in Keys : k \in dirty ~> k \notin dirty

\* "A crashed request MUST be recoverable": a client that keeps sending its
\* request is told of success in the end, or that the key stands for another,
\* as long as its resource is there.  Otherwise the code has no response to give
\* it, not even that of a mutation that was committed: when others have taken
\* the resource away, and when the mutation itself has deleted it, since a retry
\* is told that there is none (delete.ts) before its key is looked up.
RetriesSucceed ==
    \A r \in Requests :
        pc[r] = "new" ~> reply[r] # None \/ row[KeyOf[r]] \in {"unreadable", "unfound", "deleted"}
=============================================================================

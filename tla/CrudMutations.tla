----------------------------- MODULE CrudMutations -----------------------------
(* Concurrent mutations of one record under attribute policies that change   *)
(* meanwhile: the create, update and delete handlers of                      *)
(* packages/adapters/src/http/crudHandlers in transactions (PostgreSQL, read *)
(* committed; MySQL, repeatable read) or atomic batches (D1), and code that  *)
(* writes through the AuthorizedRepository of packages/adapters/src/server.  *)
(*                                                                           *)
(* Requests come from actors that policies bind, of the record's own tenant. *)
(* A handler resolves the bundle anew for each decision, and each may be of  *)
(* another version of the policies.                                          *)
EXTENDS PolicyTiers, FiniteSets

CONSTANTS
    Writers,        \* requests in flight, one mutation each
    Values,         \* values of fields
    Patches,        \* patches of updates: functions from some fields
    Bundles,        \* versions of the policies
    NoBundle,       \* what resolveAbacBundle finds when there is none
    NoRecord, Nobody,
    Hooks,          \* handlers the application may give a beforeCommitTransform
    MaxChanges      \* bound: changes of the policies

ASSUME RecordsAssumption == Records = [Fields -> Values] /\ NoRecord \notin Records
ASSUME PatchesAssumption == Patches \subseteq UNION {[S -> Values] : S \in SUBSET Fields}
ASSUME BundlesAssumption == Bundles \subseteq SUBSET PolicySet /\ NoBundle \notin Bundles
ASSUME WritersAssumption == Nobody \notin Writers

VARIABLES
    versioned,  \* does the entity have a version field?
    dialect,    \* the database
    hooks,      \* the handlers with a beforeCommitTransform
    policies,   \* the bundle in force
    published,  \* ghost: the bundles that have been in force
    row,        \* the committed record
    pending,    \* an uncommitted change of it and whose it is: it is locked
    kind,       \* the operation of each request
    phase,      \* where each request is
    auth,       \* the bundle of the handler, or of the AuthorizedRepository
    scope,      \* the bundle whose scope is in the filter of the write
    seen,       \* the record as the request last read it
    patch,      \* the patch or the body
    expected,   \* the version named by If-Match, or read by the repository
    answer,     \* what the caller was told
    log         \* ghost: the committed changes

setup == <<versioned, dialect, hooks, kind>>
context == <<setup, policies, published>>
request == <<auth, scope, seen, patch, expected>>
vars == <<context, row, pending, phase, request, answer, log>>

Dialects == {"postgresql", "mysql", "d1"}
Handlers == {"create", "update", "delete"}
Kinds == Handlers \cup {"repository create", "repository update", "repository delete"}
NoVersion == -1

Absent == [content |-> NoRecord, version |-> 0]
Unlocked == [by |-> Nobody, row |-> Absent]

ActionOf(w) ==
    CASE kind[w] \in {"create", "repository create"} -> "create"
      [] kind[w] \in {"update", "repository update"} -> "update"
      [] OTHER -> "delete"

\* The row with the patch applied; a body names every field.
Merge(record, p) == [f \in Fields |-> IF f \in DOMAIN p THEN p[f] ELSE record[f]]

Enforce(w, record) == WriteAllowed(auth[w], ActionOf(w), record, DOMAIN patch[w])

Admits(bundle, action, r) ==
    bundle # NoBundle /\ r.content # NoRecord /\ ScopeAdmits(bundle, action, r.content)

\* D1 has atomic batches only; application code uses neither.
InTransaction(w) == kind[w] \in Handlers /\ dialect # "d1"

\* A transaction reads its own change, and others what is committed; on MySQL
\* what was committed at its first read.
View(w) ==
    IF pending.by = w THEN pending.row
    ELSE IF InTransaction(w) /\ dialect = "mysql" /\ phase[w] # "read" THEN seen[w]
    ELSE row

NewVersion(r) == IF versioned THEN r.version + 1 ELSE r.version

CInit ==
    /\ versioned \in BOOLEAN
    /\ dialect \in Dialects
    /\ hooks \in SUBSET Hooks
    /\ policies \in Bundles /\ published = {policies}
    /\ kind \in [Writers -> Kinds]
    /\ \A v, w \in Writers : ActionOf(v) = "create" /\ ActionOf(w) = "create" => v = w
    \* the identifier a create draws is nobody else's before
    /\ row \in IF \E w \in Writers : ActionOf(w) = "create"
               THEN {Absent} ELSE [content : Records, version : {1}]
    /\ pending = Unlocked
    /\ phase = [w \in Writers |-> "start"]
    /\ auth = [w \in Writers |-> NoBundle]
    /\ scope = [w \in Writers |-> NoBundle]
    /\ seen = [w \in Writers |-> Absent]
    /\ patch = [w \in Writers |-> <<>>]
    /\ expected = [w \in Writers |-> NoVersion]
    /\ answer = [w \in Writers |-> "none"]
    /\ log = {}

-----------------------------------------------------------------------------
(* Before the transaction *)

Go(w, next) == phase' = [phase EXCEPT ![w] = next]

Answer(w, a) ==
    /\ answer' = [answer EXCEPT ![w] = a]
    /\ Go(w, "end")

\* The request throws before it has changed anything.
Refuse(w) ==
    /\ Answer(w, "refused")
    /\ UNCHANGED <<context, row, pending, request, log>>

\* Input is complete: the hook, if there is one, then the authorization.
Enter(w) == Go(w, IF kind[w] \in hooks THEN "hook" ELSE "authorize")

\* The handler resolves its bundle; an authorizer is made of one.
Begin(w) ==
    /\ phase[w] = "start"
    /\ IF policies = NoBundle
       THEN Refuse(w)
       ELSE /\ auth' = [auth EXCEPT ![w] = policies]
            /\ IF ActionOf(w) = "create"
               THEN /\ \E body \in Records : patch' = [patch EXCEPT ![w] = body]
                    /\ IF kind[w] = "create" THEN Enter(w) ELSE Go(w, "insert")
               ELSE /\ Go(w, IF kind[w] \in Handlers THEN "load" ELSE "read")
                    /\ UNCHANGED patch
            /\ UNCHANGED <<context, row, pending, scope, seen, expected, answer, log>>

\* What If-Match must name: a version for an update, nothing or one for a
\* delete; entities without versions ignore it.
UpdateNames(v) == versioned => v # NoVersion
DeleteNames(v) == TRUE

\* resolveExistingRecord and resolveInput; what the client sent comes in here.
Load(w) ==
    /\ phase[w] = "load"
    /\ \E p \in IF kind[w] = "update" THEN Patches ELSE {<<>>}, v \in {NoVersion} \cup 1..(row.version + 1) :
         IF /\ Admits(policies, ActionOf(w), row)
            /\ IF kind[w] = "update" THEN UpdateNames(v) ELSE DeleteNames(v)
         THEN /\ seen' = [seen EXCEPT ![w] = row]
              /\ patch' = [patch EXCEPT ![w] = p]
              /\ expected' = [expected EXCEPT ![w] = IF versioned THEN v ELSE NoVersion]
              /\ Enter(w)
              /\ UNCHANGED <<context, row, pending, auth, scope, answer, log>>
         ELSE Refuse(w)

\* beforeCommitTransform may answer with another patch or body.
Hook(w) ==
    /\ phase[w] = "hook"
    /\ \E p \in CASE kind[w] = "create" -> Records
                  [] kind[w] = "update" -> Patches
                  [] OTHER -> {patch[w]} :
         patch' = [patch EXCEPT ![w] = p]
    /\ Go(w, "authorize")
    /\ UNCHANGED <<context, row, pending, auth, scope, seen, expected, answer, log>>

AuthorizeCreate(w) == Enforce(w, patch[w])

\* Field writes that depend on the record need a version to fence them.
AuthorizeUpdate(w) ==
    /\ Enforce(w, Merge(seen[w].content, patch[w]))
    /\ policies # NoBundle /\ ~versioned =>
          \A p \in Relevant(policies, "update") : p.write = {}

AuthorizeDelete(w) == Enforce(w, seen[w].content)

Authorize(w) ==
    /\ phase[w] = "authorize"
    /\ IF CASE kind[w] = "create" -> AuthorizeCreate(w)
             [] kind[w] = "update" -> AuthorizeUpdate(w)
             [] OTHER -> AuthorizeDelete(w)
       THEN /\ Go(w, IF dialect = "d1" THEN "prepare"
                     ELSE IF kind[w] = "create" THEN "insert" ELSE "read")
            /\ UNCHANGED <<context, row, pending, request, answer, log>>
       ELSE Refuse(w)

-----------------------------------------------------------------------------
(* The transaction *)

\* The handler's current row, in the scope of the policies now in force and
\* enforced with those of the beginning.
ReadForUpdate(w) ==
    LET current == View(w)
    IN  /\ Admits(policies, "update", current)
        /\ Enforce(w, Merge(current.content, patch[w]))
        /\ versioned => expected[w] = current.version

ReadForDelete(w) ==
    LET current == View(w)
    IN  /\ Admits(policies, "delete", current)
        /\ Enforce(w, current.content)
        /\ versioned => expected[w] # NoVersion

Read(w) ==
    /\ phase[w] = "read" /\ kind[w] \in Handlers
    /\ IF IF kind[w] = "update" THEN ReadForUpdate(w) ELSE ReadForDelete(w)
       THEN /\ seen' = [seen EXCEPT ![w] = View(w)]
            /\ scope' = [scope EXCEPT ![w] = policies]
            /\ Go(w, IF kind[w] = "update" THEN "probe" ELSE "delete")
            /\ UNCHANGED <<context, row, pending, auth, patch, expected, answer, log>>
       ELSE Refuse(w)

\* Mutants of Filter: the version, or the scope, is left to the earlier read.
FilterScopeOnly(w, r) == Admits(scope[w], ActionOf(w), r)
FilterVersionOnly(w, r) ==
    /\ r.content # NoRecord
    /\ expected[w] # NoVersion => r.version = expected[w]

\* The filter both statements of an update and a delete share.
Filter(w, r) ==
    /\ Admits(scope[w], ActionOf(w), r)
    /\ expected[w] # NoVersion => r.version = expected[w]

\* An update looks for the keys its filter matches first.
Probe(w) ==
    /\ phase[w] = "probe"
    /\ IF Filter(w, View(w))
       THEN /\ Go(w, "write")
            /\ UNCHANGED <<context, row, pending, request, answer, log>>
       ELSE Refuse(w)

\* A statement that writes waits until the row is not locked.
Free(w) == pending.by \in {Nobody, w}

Entry(w, new) ==
    [by |-> w, kind |-> kind[w], expected |-> expected[w], old |-> row, new |-> new]

\* A change committed at once, or kept until the transaction commits.
Put(w, new, next) ==
    IF InTransaction(w)
    THEN /\ pending' = [by |-> w, row |-> new]
         /\ Go(w, next)
         /\ UNCHANGED <<row, answer, log>>
    ELSE /\ row' = new
         /\ log' = log \cup {Entry(w, new)}
         /\ Go(w, next)
         /\ UNCHANGED <<pending, answer>>

Write(w) ==
    /\ phase[w] = "write" /\ Free(w)
    /\ IF Filter(w, row)
       THEN /\ Put(w, [content |-> Merge(row.content, patch[w]), version |-> NewVersion(row)],
                   IF dialect = "mysql" THEN "readback" ELSE "reread")
            /\ UNCHANGED <<context, request>>
       ELSE Refuse(w)

\* MySQL returns no rows and the repository reads the key again; outside a
\* transaction the row may be gone, and its caller then hears of a conflict.
ReadBack(w) ==
    /\ phase[w] = "readback"
    /\ IF View(w) = Absent
       THEN /\ Answer(w, "gone")
            /\ UNCHANGED <<row, pending, log>>
       ELSE /\ Go(w, "reread")
            /\ UNCHANGED <<row, pending, answer, log>>
    /\ UNCHANGED <<context, request>>

Delete(w) ==
    /\ phase[w] = "delete" /\ Free(w)
    /\ IF Filter(w, row)
       THEN /\ Put(w, Absent, IF kind[w] = "delete" THEN "commit" ELSE "returned")
            /\ UNCHANGED <<context, request>>
       ELSE Refuse(w)

Insert(w) ==
    /\ phase[w] = "insert" /\ kind[w] = "create"
    /\ Put(w, [content |-> patch[w], version |-> 1], "reread")
    /\ UNCHANGED <<context, request>>

\* A mutant of Abort: the change was committed before the failure.
AbortTooLate(w, a) ==
    /\ row' = pending.row
    /\ log' = log \cup {Entry(w, pending.row)}
    /\ pending' = Unlocked
    /\ Answer(w, a)
    /\ UNCHANGED <<context, request>>

\* The transaction is rolled back.
Abort(w, a) ==
    /\ pending' = Unlocked
    /\ Answer(w, a)
    /\ UNCHANGED <<context, row, request, log>>

\* The changed row is read again with the scope of reads; without a bundle
\* the handler throws.
Reread(w) ==
    /\ phase[w] = "reread" /\ kind[w] \in Handlers
    /\ IF policies = NoBundle
       THEN Abort(w, "refused")
       ELSE /\ answer' = [answer EXCEPT ![w] =
                            IF Admits(policies, "read", View(w)) THEN "record" ELSE "outside"]
            /\ Go(w, "commit")
            /\ UNCHANGED <<context, row, pending, request, log>>

Commit(w) ==
    /\ phase[w] = "commit"
    /\ row' = pending.row
    /\ pending' = Unlocked
    /\ log' = log \cup {Entry(w, pending.row)}
    /\ answer' = [answer EXCEPT ![w] = IF kind[w] = "delete" THEN "deleted" ELSE answer[w]]
    /\ Go(w, "end")
    /\ UNCHANGED <<context, request>>

\* A hook, an audit or the commit fails, or the process dies.
Fail(w) ==
    /\ pending.by = w /\ phase[w] # "end"
    /\ Abort(w, "failed")

-----------------------------------------------------------------------------
(* The atomic batch of providers without transactions *)

\* The command's filter carries the scope of the policies now in force; an
\* update is refused, since nothing could enforce policies on its outcome.
PrepareCreate(w) == TRUE
PrepareUpdate(w) == FALSE
PrepareDelete(w) ==
    /\ policies # NoBundle
    /\ versioned => expected[w] # NoVersion

Prepare(w) ==
    /\ phase[w] = "prepare"
    /\ IF CASE kind[w] = "create" -> PrepareCreate(w)
             [] kind[w] = "update" -> PrepareUpdate(w)
             [] OTHER -> PrepareDelete(w)
       THEN /\ scope' = [scope EXCEPT ![w] = policies]
            /\ Go(w, "batch")
            /\ UNCHANGED <<context, row, pending, auth, seen, patch, expected, answer, log>>
       ELSE Refuse(w)

\* All of the batch or, when the delete matches no row, nothing of it.
RunBatch(w) ==
    /\ phase[w] = "batch"
    /\ IF kind[w] = "delete" /\ ~Filter(w, row)
       THEN Refuse(w)
       ELSE LET new == IF kind[w] = "delete" THEN Absent
                       ELSE [content |-> patch[w], version |-> 1]
            IN  /\ row' = new
                /\ log' = log \cup {Entry(w, new)}
                /\ Answer(w, IF kind[w] = "delete" THEN "deleted" ELSE "record")
                /\ UNCHANGED <<context, pending, request>>

-----------------------------------------------------------------------------
(* The AuthorizedRepository: one bundle, statements of their own *)

RepositoryInsert(w) ==
    /\ phase[w] = "insert" /\ kind[w] = "repository create"
    /\ IF Enforce(w, patch[w])
       THEN /\ Put(w, [content |-> patch[w], version |-> 1], "reread")
            /\ UNCHANGED <<context, request>>
       ELSE Refuse(w)

\* update(): the version may be left to what it reads; delete() must be told.
UpdateChecks(w, p, v) ==
    /\ v \in {NoVersion, row.version}
    /\ Admits(auth[w], "update", row)
    /\ WriteAllowed(auth[w], "update", Merge(row.content, p), DOMAIN p)

DeleteChecks(w, v) ==
    /\ v = row.version
    /\ Admits(auth[w], "delete", row)
    /\ WriteAllowed(auth[w], "delete", row.content, {})

RepositoryRead(w) ==
    /\ phase[w] = "read" /\ kind[w] \notin Handlers
    /\ LET isUpdate == kind[w] = "repository update"
       IN  \E p \in IF isUpdate THEN Patches ELSE {<<>>}, v \in {NoVersion} \cup 1..(row.version + 1) :
             IF versioned /\ IF isUpdate THEN UpdateChecks(w, p, v) ELSE DeleteChecks(w, v)
             THEN /\ seen' = [seen EXCEPT ![w] = row]
                  /\ patch' = [patch EXCEPT ![w] = p]
                  /\ expected' = [expected EXCEPT ![w] = row.version]
                  /\ scope' = [scope EXCEPT ![w] = auth[w]]
                  /\ Go(w, IF isUpdate THEN "probe" ELSE "delete")
                  /\ UNCHANGED <<context, row, pending, auth, answer, log>>
             ELSE Refuse(w)

\* The update is committed; without a policy that allows reads its caller is
\* told that the action is forbidden.
RepositoryReread(w) ==
    /\ phase[w] = "reread" /\ kind[w] \notin Handlers
    /\ Answer(w, IF ~CollectionAllowed(auth[w], "read") THEN "forbidden"
                 ELSE IF Admits(auth[w], "read", row) THEN "record" ELSE "outside")
    /\ UNCHANGED <<context, row, pending, request, log>>

Returned(w) ==
    /\ phase[w] = "returned"
    /\ Answer(w, "deleted")
    /\ UNCHANGED <<context, row, pending, request, log>>

-----------------------------------------------------------------------------
\* An administrator changes the policies, or they cannot be resolved.
ChangePolicies ==
    /\ \E b \in Bundles \cup {NoBundle} : b # policies /\ policies' = b
    /\ Cardinality(published) <= MaxChanges
    /\ published' = published \cup ({policies'} \ {NoBundle})
    /\ UNCHANGED <<setup, row, pending, phase, request, answer, log>>

Step(w) ==
    \/ Begin(w) \/ Load(w) \/ Authorize(w) \/ Hook(w)
    \/ Read(w) \/ Probe(w) \/ Write(w) \/ Delete(w) \/ Insert(w) \/ ReadBack(w) \/ Reread(w) \/ Commit(w)
    \/ Prepare(w) \/ RunBatch(w)
    \/ RepositoryInsert(w) \/ RepositoryRead(w) \/ RepositoryReread(w) \/ Returned(w)

CNext == ChangePolicies \/ \E w \in Writers : Step(w) \/ Fail(w)

CSpec == CInit /\ [][CNext]_vars

-----------------------------------------------------------------------------
(* Properties *)

\* The state is well-formed; who holds the lock has its change to commit.
CTypeOK ==
    /\ versioned \in BOOLEAN /\ dialect \in Dialects /\ hooks \subseteq Hooks
    /\ policies \in Bundles \cup {NoBundle} /\ published \subseteq Bundles
    /\ row.content \in Records \cup {NoRecord} /\ row.version \in Nat
    /\ pending.row.content \in Records \cup {NoRecord} /\ pending.row.version \in Nat
    /\ pending.by \in Writers \cup {Nobody}
    /\ \A w \in Writers : pending.by = w <=> InTransaction(w) /\ phase[w] \in {"readback", "reread", "commit"}

\* A committed change of a versioned record was made to the version its
\* request named or read, and no two changes were made to one version
\* (update.ts and delete.ts put the version into the filter of the write, the
\* repositories advance it in the same statement).
NoLostUpdate ==
    versioned => \A c \in log :
        /\ c.old # Absent => c.expected = c.old.version
        /\ c.new # Absent => c.new.version = c.old.version + 1
        /\ \A d \in log : d.old.version = c.old.version => d = c

\* A handler that refuses or fails leaves no trace, and one that answers with
\* a record or of its deletion has committed just that change.
AnswersTruthful ==
    \A w \in Writers :
        /\ answer[w] \in {"refused", "failed"} => \A c \in log : c.by # w
        /\ phase[w] = "end" /\ answer[w] \in {"record", "outside", "deleted"} =>
              \E c \in log : /\ c.by = w
                             /\ answer[w] = "deleted" <=> c.new = Absent
                             /\ \A d \in log : d.by = w => d = c

\* Whatever the interleaving with other requests and with changes of the
\* policies, every committed change is one the policies permit about the very
\* record it replaces and the one it leaves (the authorize stage, the filter of
\* the write and the version in it each see another moment).
Abstract == INSTANCE GuardedRecord
ImplementsGuardedRecord == Abstract!Spec
=============================================================================

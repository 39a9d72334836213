------------------------- MODULE CrudMutationsProofs -------------------------
(***************************************************************************)
(* For every set of requests, fields, values, policies and hooks, on every *)
(* database: no update of a versioned record is lost, an answer tells what *)
(* became of the record, and the committed changes are steps of            *)
(* GuardedRecord.                                                          *)
(***************************************************************************)
EXTENDS CrudMutations, TLAPS

-----------------------------------------------------------------------------
(* The inductive invariant *)

Row == {Absent} \cup [content : Records, version : Nat \ {0}]
Bodies == Records \cup Patches \cup {<<>>}
Change == [by : Writers, kind : Kinds, expected : Nat \cup {NoVersion}, old : Row, new : Row]
Phases == {"start", "load", "hook", "authorize", "prepare", "batch", "read", "probe", "write",
           "delete", "insert", "readback", "reread", "commit", "returned", "end"}
Answers == {"none", "record", "outside", "deleted", "refused", "failed", "gone", "forbidden"}

SetupTypes ==
    /\ versioned \in BOOLEAN /\ dialect \in Dialects /\ kind \in [Writers -> Kinds]
    /\ policies \in Bundles \cup {NoBundle} /\ published \subseteq Bundles
    /\ policies # NoBundle => policies \in published

StoreTypes ==
    /\ row \in Row /\ log \subseteq Change
    /\ pending \in [by : Writers \cup {Nobody}, row : Row]

RequestTypes ==
    /\ phase \in [Writers -> Phases] /\ answer \in [Writers -> Answers]
    /\ auth \in [Writers -> published \cup {NoBundle}]
    /\ scope \in [Writers -> published \cup {NoBundle}]
    /\ seen \in [Writers -> Row] /\ patch \in [Writers -> Bodies]
    /\ expected \in [Writers -> Nat \cup {NoVersion}]

Types == SetupTypes /\ StoreTypes /\ RequestTypes

\* Where a request of each kind can be: handlers on D1 go through the batch,
\* others through a transaction, the repository through neither.
Path(w) ==
    phase[w] \in {"start", "end"} \cup
      CASE kind[w] = "create" -> {"hook", "authorize"} \cup
             (IF dialect = "d1" THEN {"prepare", "batch"} ELSE {"insert", "reread", "commit"})
        [] kind[w] = "update" -> {"load", "hook", "authorize"} \cup
             (IF dialect = "d1" THEN {"prepare"}
              ELSE {"read", "probe", "write", "readback", "reread", "commit"})
        [] kind[w] = "delete" -> {"load", "hook", "authorize"} \cup
             (IF dialect = "d1" THEN {"prepare", "batch"} ELSE {"read", "delete", "commit"})
        [] kind[w] = "repository create" -> {"insert", "reread"}
        [] kind[w] = "repository update" -> {"read", "probe", "write", "readback", "reread"}
        [] OTHER -> {"read", "delete", "returned"}

\* What a request may have answered.
Answered(w) ==
    /\ phase[w] \notin {"commit", "end"} => answer[w] = "none"
    /\ phase[w] = "commit" =>
          answer[w] \in IF kind[w] = "delete" THEN {"none"} ELSE {"record", "outside"}
    /\ phase[w] = "end" => answer[w] # "none"
    /\ answer[w] = "deleted" => ActionOf(w) = "delete"
    /\ answer[w] \in {"record", "outside"} => ActionOf(w) # "delete"
    /\ answer[w] \in {"gone", "forbidden"} => kind[w] \notin Handlers

\* What a request has made sure of before it writes.
Decided(w) ==
    /\ phase[w] \notin {"start", "end"} => auth[w] \in published
    /\ ActionOf(w) = "create" /\ phase[w] \in {"hook", "authorize", "prepare", "batch", "insert"} =>
          patch[w] \in Records
    /\ kind[w] = "create" /\ phase[w] \in {"prepare", "batch", "insert"} => Enforce(w, patch[w])
    /\ kind[w] = "update" /\ phase[w] \in {"hook", "authorize", "read"} => patch[w] \in Patches
    /\ phase[w] \in {"probe", "write"} =>
          /\ patch[w] \in Patches
          /\ versioned => /\ seen[w] # Absent /\ expected[w] = seen[w].version
                          /\ Enforce(w, Merge(seen[w].content, patch[w]))
    /\ ActionOf(w) = "delete" /\ phase[w] \in {"delete", "batch"} /\ versioned =>
          expected[w] # NoVersion

\* Who holds the lock has its change to commit.
Holding(w) == InTransaction(w) /\ phase[w] \in {"readback", "reread", "commit"}
Locked == \A w \in Writers : pending.by = w <=> Holding(w)

\* A change its request was permitted to make of the record it was made to.
Created(w, old, new) ==
    /\ ActionOf(w) = "create" /\ old = Absent
    /\ new \in [content : Records, version : {1}]
    /\ \E b \in published : WriteAllowed(b, "create", new.content, Fields)

Updated(w, old, new) ==
    /\ ActionOf(w) = "update" /\ old # Absent
    /\ new \in [content : Records, version : {NewVersion(old)}]
    /\ \E b \in published : ScopeAdmits(b, "update", old.content)
    /\ versioned => \E b \in published :
          WriteAllowed(b, "update", new.content, {f \in Fields : old.content[f] # new.content[f]})

Deleted(w, old, new) ==
    /\ ActionOf(w) = "delete" /\ old # Absent /\ new = Absent
    /\ \E b \in published : ScopeAdmits(b, "delete", old.content)

Permitted(w, old, new) ==
    /\ Created(w, old, new) \/ Updated(w, old, new) \/ Deleted(w, old, new)
    /\ versioned /\ old # Absent => expected[w] = old.version

PendingPermitted == \A w \in Writers : pending.by = w => Permitted(w, row, pending.row)

\* While a record is still to be created nothing has happened to it: it is
\* created once.
Early == {"start", "hook", "authorize", "prepare", "batch", "insert"}
Creating(w) == ActionOf(w) = "create" /\ (phase[w] \in Early \/ pending.by = w)

CreatedOnce ==
    /\ \A v, w \in Writers : ActionOf(v) = "create" /\ ActionOf(w) = "create" => v = w
    /\ \A w \in Writers : Creating(w) =>
          row = Absent /\ log = {} /\ \A v \in Writers : seen[v] = Absent

\* A version is of one content: whoever has seen the present one has seen the
\* record as it is.
VersionsTell ==
    versioned => \A w \in Writers :
        seen[w] # Absent /\ row # Absent => seen[w] = row \/ seen[w].version < row.version

\* The changes made so far were each made to another version, the present one
\* not yet among them.
ChangesInOrder ==
    versioned => \A c \in log :
        /\ c.old # Absent => c.expected = c.old.version
        /\ c.new # Absent => c.new.version = c.old.version + 1
        /\ row # Absent => c.old.version < row.version
        /\ \A d \in log : d.old.version = c.old.version => d = c

\* Which requests have a committed change.
HasCommitted(w) ==
    \/ phase[w] \in {"readback", "reread", "returned"} /\ ~InTransaction(w)
    \/ phase[w] = "end" /\ answer[w] \notin {"refused", "failed"}

Logged ==
    /\ \A w \in Writers : HasCommitted(w) <=> \E c \in log : c.by = w
    /\ \A c \in log : c.new = Absent <=> ActionOf(c.by) = "delete"
    /\ \A c, d \in log : c.by = d.by => c = d

Local(w) == Path(w) /\ Answered(w) /\ Decided(w)
Requests == \A w \in Writers : Local(w)

CInv ==
    /\ Types /\ Requests
    /\ Locked /\ PendingPermitted
    /\ CreatedOnce /\ VersionsTell /\ ChangesInOrder /\ Logged
-----------------------------------------------------------------------------
(* What a step does: it is one request's, and leaves the others', and it does  *)
(* one of five things to the record                                            *)

\* Nothing, though the request may have read the record.
Quiet(w) ==
    /\ UNCHANGED <<row, log, pending>>
    /\ Holding(w)' = Holding(w) /\ HasCommitted(w)' = HasCommitted(w)
    /\ Holding(w) => UNCHANGED expected

\* It changes the record within its transaction,
Locks(w) ==
    /\ UNCHANGED <<row, log, expected>>
    /\ Free(w) /\ pending'.by = w /\ pending'.row \in Row /\ pending' = [by |-> w, row |-> pending'.row]
    /\ Permitted(w, row, pending'.row)
    /\ Holding(w)' /\ ~HasCommitted(w) /\ ~HasCommitted(w)'

\* abandons that change,
Releases(w) ==
    /\ UNCHANGED <<row, log>>
    /\ pending.by = w /\ pending' = Unlocked
    /\ ~Holding(w)' /\ ~HasCommitted(w) /\ ~HasCommitted(w)'

\* commits it, or changes the record at once.
Changes(w) ==
    /\ Permitted(w, row, row')
    /\ ActionOf(w) = "create" => Creating(w)
    /\ log' = log \cup {Entry(w, row')}
    /\ pending.by \in {Nobody, w} /\ pending'.by = Nobody /\ pending' \in {pending, Unlocked}
    /\ ~Holding(w)' /\ ~HasCommitted(w) /\ HasCommitted(w)'

Others(w) ==
    \A v \in Writers \ {w} :
        /\ phase'[v] = phase[v] /\ answer'[v] = answer[v]
        /\ auth'[v] = auth[v] /\ scope'[v] = scope[v] /\ seen'[v] = seen[v]
        /\ patch'[v] = patch[v] /\ expected'[v] = expected[v]

Sound(w) ==
    /\ UNCHANGED context /\ Others(w)
    /\ RequestTypes' /\ Local(w)'
    /\ seen'[w] \in {seen[w], row}
    /\ Creating(w)' => Creating(w)
    /\ Quiet(w) \/ Locks(w) \/ Releases(w) \/ Changes(w)

LEMMA MergeMakesRecords ==
    ASSUME NEW r \in Records, NEW p \in Patches
    PROVE  /\ Merge(r, p) \in Records
           /\ DOMAIN p \subseteq Fields
           /\ {f \in Fields : r[f] # Merge(r, p)[f]} \subseteq DOMAIN p
<1>1. PICK S \in SUBSET Fields : p \in [S -> Values]
  BY PatchesAssumption
<1>2. r \in [Fields -> Values]
  BY RecordsAssumption
<1>3. \A f \in Fields : (IF f \in DOMAIN p THEN p[f] ELSE r[f]) \in Values
  BY <1>1, <1>2
<1>4. QED
  BY <1>1, <1>2, <1>3, RecordsAssumption DEF Merge

\* Who may write some fields may write fewer.
LEMMA WritingLessIsAllowed ==
    ASSUME NEW b, NEW action, NEW r, NEW S, NEW T, T \subseteq S, WriteAllowed(b, action, r, S)
    PROVE  WriteAllowed(b, action, r, T)
<1>1. \A m : DeniedFields(m, T) \subseteq DeniedFields(m, S)
  BY DEF DeniedFields
<1>2. QED
  BY <1>1 DEF WriteAllowed

LEMMA VersionsAreNamed == \A n \in Nat : n # NoVersion
BY DEF NoVersion

LEMMA RowFacts ==
    /\ Absent \in Row /\ Absent.content = NoRecord /\ Absent.version = 0
    /\ \A r \in Row : /\ r.version \in Nat
                      /\ r = Absent <=> r.content = NoRecord
                      /\ r # Absent => r.content \in Records /\ r.version > 0
BY RecordsAssumption DEF Row, Absent

LEMMA MakesRows ==
    ASSUME NEW r \in Records
    PROVE  /\ [content |-> r, version |-> 1] \in [content : Records, version : {1}]
           /\ [content |-> r, version |-> 1] \in Row
<1>1. \A v \in Nat \ {0} : /\ [content |-> r, version |-> v] \in [content : Records, version : {v}]
                          /\ [content |-> r, version |-> v] \in Row
  BY DEF Row
<1>2. 1 \in Nat \ {0}
  OBVIOUS
<1>3. QED
  BY <1>1, <1>2, Zenon

LEMMA GoFacts ==
    ASSUME Types, NEW w \in Writers, NEW next \in Phases, Go(w, next)
    PROVE  /\ phase' \in [Writers -> Phases] /\ phase'[w] = next
           /\ \A v \in Writers \ {w} : phase'[v] = phase[v]
BY DEF Types, RequestTypes, Go

LEMMA AnswerFacts ==
    ASSUME Types, NEW w \in Writers, NEW a \in Answers, Answer(w, a)
    PROVE  /\ phase' \in [Writers -> Phases] /\ phase'[w] = "end"
           /\ answer' \in [Writers -> Answers] /\ answer'[w] = a
           /\ \A v \in Writers \ {w} : phase'[v] = phase[v] /\ answer'[v] = answer[v]
<1>1. Go(w, "end") /\ answer' = [answer EXCEPT ![w] = a]
  BY DEF Answer
<1>2. QED
  BY <1>1, GoFacts DEF Types, RequestTypes, Phases

LEMMA ContextStays ==
    ASSUME UNCHANGED context, NEW w
    PROVE  /\ ActionOf(w)' = ActionOf(w) /\ UNCHANGED <<versioned, dialect, hooks, kind, policies, published>>
           /\ InTransaction(w)' = InTransaction(w)
BY DEF context, setup, ActionOf, InTransaction

LEMMA ActionFacts ==
    ASSUME NEW w, kind[w] \in Kinds
    PROVE  /\ ActionOf(w) = "create" <=> kind[w] \in {"create", "repository create"}
           /\ ActionOf(w) = "update" <=> kind[w] \in {"update", "repository update"}
           /\ ActionOf(w) = "delete" <=> kind[w] \in {"delete", "repository delete"}
           /\ InTransaction(w) <=> kind[w] \in {"create", "update", "delete"} /\ dialect # "d1"
BY DEF ActionOf, Kinds, Handlers, InTransaction

LEMMA Here ==
    ASSUME CInv, NEW w \in Writers
    PROVE  /\ Types /\ SetupTypes /\ StoreTypes /\ RequestTypes /\ kind[w] \in Kinds
           /\ Path(w) /\ Answered(w) /\ Decided(w)
           /\ pending.by = w <=> Holding(w)
           /\ auth[w] \in published \cup {NoBundle} /\ scope[w] \in published \cup {NoBundle}
           /\ seen[w] \in Row /\ patch[w] \in Bodies /\ expected[w] \in Nat \cup {NoVersion}
           /\ row \in Row /\ row.version \in Nat
BY RowFacts DEF CInv, Types, SetupTypes, StoreTypes, RequestTypes, Requests, Local, Locked

LEMMA Refusing ==
    ASSUME CInv, NEW w \in Writers, Refuse(w),
           phase[w] \notin {"readback", "reread", "commit", "returned", "end"}
    PROVE  Sound(w)
<1>1. UNCHANGED <<context, row, pending, request, log>> /\ Answer(w, "refused")
  BY DEF Refuse
<1>2. Types
  BY DEF CInv
<1>3. /\ phase' \in [Writers -> Phases] /\ phase'[w] = "end"
      /\ answer' \in [Writers -> Answers] /\ answer'[w] = "refused"
      /\ \A v \in Writers \ {w} : phase'[v] = phase[v] /\ answer'[v] = answer[v]
  BY <1>1, <1>2, AnswerFacts DEF Answers
<1>4. UNCHANGED <<auth, scope, seen, patch, expected, row, pending, log>> /\ UNCHANGED context
  BY <1>1 DEF request
<1>5. /\ UNCHANGED <<versioned, dialect, hooks, kind, policies, published>>
      /\ ActionOf(w)' = ActionOf(w) /\ InTransaction(w)' = InTransaction(w)
  BY <1>4, ContextStays
<1>6. Others(w) /\ RequestTypes'
  BY <1>2, <1>3, <1>4, <1>5 DEF Others, Types, RequestTypes
<1>7. Local(w)'
  BY <1>3, <1>4, <1>5 DEF Local, Path, Answered, Decided
<1>8. Quiet(w)
  BY <1>3, <1>4, <1>5 DEF Quiet, Holding, HasCommitted
<1>9. ~Creating(w)'
  <2>1. pending.by # w
    BY Here DEF Holding
  <2>2. QED
    BY <1>3, <1>4, <2>1 DEF Creating, Early
<1>10. QED
  BY <1>4, <1>6, <1>7, <1>8, <1>9 DEF Sound

-----------------------------------------------------------------------------
(* The steps before a write *)

Before == {"start", "load", "hook", "authorize", "prepare", "batch", "read", "probe", "write",
           "delete", "insert"}

LEMMA Moving ==
    ASSUME CInv, NEW w \in Writers, NEW next \in Before, phase[w] \in Before, Go(w, next),
           UNCHANGED <<context, row, pending, answer, log>>, Others(w), RequestTypes',
           seen'[w] \in {seen[w], row},
           ActionOf(w) = "create" /\ next \in Early => phase[w] \in Early,
           Path(w)', Decided(w)'
    PROVE  Sound(w)
<1>1. /\ phase' \in [Writers -> Phases] /\ phase'[w] = next
      /\ \A v \in Writers \ {w} : phase'[v] = phase[v]
  BY GoFacts DEF CInv, Before, Phases
<1>2. InTransaction(w)' = InTransaction(w) /\ ActionOf(w)' = ActionOf(w) /\ kind' = kind
  BY ContextStays
<1>3. Answered(w)'
  BY <1>1, <1>2 DEF CInv, Requests, Local, Answered, Before
<1>4. Quiet(w)
  BY <1>1, <1>2 DEF Quiet, Holding, HasCommitted, Before
<1>5. Creating(w)' => Creating(w)
  BY <1>1, <1>2 DEF Creating
<1>6. QED
  BY <1>1, <1>3, <1>4, <1>5 DEF Sound, Local

LEMMA BeginSound == ASSUME CInv, NEW w \in Writers, Begin(w) PROVE Sound(w)
<1>1. CASE policies = NoBundle
  BY <1>1, Refusing DEF Begin
<1>2. CASE policies # NoBundle
  <2>1. /\ phase[w] = "start"
        /\ auth' = [auth EXCEPT ![w] = policies]
        /\ UNCHANGED <<context, row, pending, scope, seen, expected, answer, log>>
    BY <1>2 DEF Begin
  <2>2. policies \in published /\ RequestTypes /\ Types /\ kind[w] \in Kinds
    BY <1>2, Here DEF SetupTypes
  <2>3. PICK next \in {"hook", "authorize", "insert", "load", "read"} :
           /\ Go(w, next)
           /\ kind[w] = "create" => next \in {"hook", "authorize"}
           /\ kind[w] = "repository create" => next = "insert"
           /\ kind[w] \in {"update", "delete"} => next = "load"
           /\ kind[w] \in {"repository update", "repository delete"} => next = "read"
    BY <1>2, <2>2 DEF Begin, Enter, ActionOf, Handlers, Kinds
  <2>4. /\ patch' \in [Writers -> Bodies]
        /\ ActionOf(w) = "create" => patch'[w] \in Records
        /\ \A v \in Writers \ {w} : patch'[v] = patch[v]
    <3>1. CASE ActionOf(w) = "create"
      <4>1. PICK body \in Records : patch' = [patch EXCEPT ![w] = body]
        BY <1>2, <3>1 DEF Begin
      <4>2. QED
        BY <2>2, <4>1 DEF RequestTypes, Bodies
    <3>2. CASE ActionOf(w) # "create"
      BY <1>2, <2>2, <3>2 DEF Begin, RequestTypes
    <3>3. QED
      BY <3>1, <3>2
  <2>5. /\ phase' \in [Writers -> Phases] /\ phase'[w] = next
        /\ \A v \in Writers \ {w} : phase'[v] = phase[v]
    BY <2>2, <2>3, GoFacts DEF Phases
  <2>6. /\ UNCHANGED <<versioned, dialect, hooks, kind, policies, published>>
        /\ ActionOf(w)' = ActionOf(w) /\ InTransaction(w)' = InTransaction(w)
    BY <2>1, ContextStays
  <2>7. RequestTypes' /\ Others(w) /\ auth'[w] \in published'
    BY <2>1, <2>2, <2>4, <2>5, <2>6 DEF RequestTypes, Others
  <2>8. Path(w)'
    BY <2>2, <2>3, <2>5, <2>6 DEF Path, Kinds, Handlers
  <2>9. Decided(w)'
    BY <2>2, <2>3, <2>4, <2>5, <2>6, <2>7, ActionFacts DEF Decided
  <2>10. QED
    BY <2>1, <2>2, <2>3, <2>7, <2>8, <2>9, Moving DEF Before, Early, ActionOf
<1>3. QED
  BY <1>1, <1>2

LEMMA LoadSound == ASSUME CInv, NEW w \in Writers, Load(w) PROVE Sound(w)
<1>1. phase[w] = "load" /\ RequestTypes /\ Types /\ row \in Row /\ row.version \in Nat
  BY Here DEF Load
<1>2. CASE Refuse(w)
  BY <1>1, <1>2, Refusing
<1>3. CASE ~Refuse(w)
  <2>1. PICK p \in IF kind[w] = "update" THEN Patches ELSE {<<>>},
             v \in {NoVersion} \cup 1..(row.version + 1) :
           /\ seen' = [seen EXCEPT ![w] = row]
           /\ patch' = [patch EXCEPT ![w] = p]
           /\ expected' = [expected EXCEPT ![w] = IF versioned THEN v ELSE NoVersion]
           /\ Enter(w)
           /\ UNCHANGED <<context, row, pending, auth, scope, answer, log>>
    BY <1>3 DEF Load
  <2>2. PICK next \in {"hook", "authorize"} : Go(w, next)
    BY <2>1 DEF Enter
  <2>3. /\ phase' \in [Writers -> Phases] /\ phase'[w] = next
        /\ \A u \in Writers \ {w} : phase'[u] = phase[u]
    BY <1>1, <2>2, GoFacts DEF Phases
  <2>4. kind[w] \in {"update", "delete"} /\ auth[w] \in published
    BY <1>1, Here DEF Path, Decided
  <2>5. /\ UNCHANGED <<versioned, dialect, hooks, kind, policies, published>>
        /\ ActionOf(w)' = ActionOf(w) /\ InTransaction(w)' = InTransaction(w)
    BY <2>1, ContextStays
  <2>6. v \in Nat \cup {NoVersion} /\ p \in Bodies
    BY <1>1, <2>1 DEF NoVersion, Bodies
  <2>7. RequestTypes' /\ Others(w) /\ patch'[w] = p /\ seen'[w] = row
    BY <1>1, <2>1, <2>3, <2>5, <2>6 DEF RequestTypes, Others
  <2>8. Path(w)' /\ Decided(w)'
    BY <2>1, <2>2, <2>3, <2>4, <2>5, <2>7 DEF Path, Decided, ActionOf
  <2>9. ActionOf(w) # "create"
    BY <2>4 DEF ActionOf
  <2>10. QED
    BY <1>1, <2>1, <2>2, <2>7, <2>8, <2>9, Moving DEF Before
<1>4. QED
  BY <1>2, <1>3

LEMMA HookSound == ASSUME CInv, NEW w \in Writers, Hook(w) PROVE Sound(w)
<1>1. /\ phase[w] = "hook" /\ Go(w, "authorize")
      /\ UNCHANGED <<context, row, pending, auth, scope, seen, expected, answer, log>>
  BY DEF Hook
<1>2. PICK p \in CASE kind[w] = "create" -> Records
                   [] kind[w] = "update" -> Patches
                   [] OTHER -> {patch[w]} :
         patch' = [patch EXCEPT ![w] = p]
  BY DEF Hook
<1>3. kind[w] \in Handlers /\ auth[w] \in published /\ Types /\ RequestTypes /\ p \in Bodies
  BY <1>1, <1>2, Here DEF Path, Decided, Handlers, Bodies, Kinds
<1>4. /\ phase' \in [Writers -> Phases] /\ phase'[w] = "authorize"
      /\ \A u \in Writers \ {w} : phase'[u] = phase[u]
  BY <1>1, <1>3, GoFacts DEF Phases
<1>5. /\ UNCHANGED <<versioned, dialect, hooks, kind, policies, published>>
      /\ ActionOf(w)' = ActionOf(w) /\ InTransaction(w)' = InTransaction(w)
  BY <1>1, ContextStays
<1>6. RequestTypes' /\ Others(w) /\ patch'[w] = p
  BY <1>1, <1>2, <1>3, <1>4, <1>5 DEF RequestTypes, Others
<1>7. Path(w)' /\ Decided(w)'
  BY <1>1, <1>2, <1>3, <1>4, <1>5, <1>6 DEF Path, Decided, ActionOf, Handlers
<1>8. QED
  BY <1>1, <1>6, <1>7, Moving DEF Before, Early

LEMMA AuthorizeSound == ASSUME CInv, NEW w \in Writers, Authorize(w) PROVE Sound(w)
<1>1. phase[w] = "authorize" /\ RequestTypes /\ Types
  BY Here DEF Authorize
<1>2. CASE Refuse(w)
  BY <1>1, <1>2, Refusing
<1>3. CASE ~Refuse(w)
  <2>1. UNCHANGED <<context, row, pending, request, answer, log>>
    BY <1>3 DEF Authorize
  <2>2. /\ kind[w] \in Handlers /\ auth[w] \in published
        /\ kind[w] = "create" => patch[w] \in Records
        /\ kind[w] = "update" => patch[w] \in Patches
    BY <1>1, Here DEF Path, Decided, ActionOf, Handlers, Kinds
  <2>3. kind[w] = "create" => Enforce(w, patch[w])
    BY <1>3, <2>2 DEF Authorize, AuthorizeCreate, Handlers
  <2>4. PICK next \in {"prepare", "insert", "read"} :
           /\ Go(w, next)
           /\ dialect = "d1" => next = "prepare"
           /\ dialect # "d1" => next = IF kind[w] = "create" THEN "insert" ELSE "read"
    BY <1>3 DEF Authorize
  <2>5. /\ phase' \in [Writers -> Phases] /\ phase'[w] = next
        /\ \A u \in Writers \ {w} : phase'[u] = phase[u]
    BY <1>1, <2>4, GoFacts DEF Phases
  <2>6. UNCHANGED <<auth, scope, seen, patch, expected>>
    BY <2>1 DEF request
  <2>7. /\ UNCHANGED <<versioned, dialect, hooks, kind, policies, published>>
        /\ ActionOf(w)' = ActionOf(w) /\ InTransaction(w)' = InTransaction(w)
    BY <2>1, ContextStays
  <2>8. RequestTypes' /\ Others(w)
    BY <1>1, <2>1, <2>5, <2>6, <2>7 DEF RequestTypes, Others
  <2>9. Enforce(w, patch[w])' = Enforce(w, patch[w])
    BY <2>6, <2>7 DEF Enforce
  <2>10. Path(w)'
    BY <2>2, <2>4, <2>5, <2>7 DEF Path, Handlers
  <2>11. Decided(w)'
    BY <1>1, <2>2, <2>3, <2>4, <2>5, <2>6, <2>7, <2>9, Here, ActionFacts DEF Decided, Handlers
  <2>12. QED
    BY <1>1, <2>1, <2>4, <2>6, <2>8, <2>10, <2>11, Moving DEF Before, Early
<1>4. QED
  BY <1>2, <1>3

LEMMA PrepareSound == ASSUME CInv, NEW w \in Writers, Prepare(w) PROVE Sound(w)
<1>1. phase[w] = "prepare" /\ RequestTypes /\ Types /\ SetupTypes
  BY Here DEF Prepare
<1>2. CASE Refuse(w)
  BY <1>1, <1>2, Refusing
<1>3. CASE ~Refuse(w)
  <2>1. /\ scope' = [scope EXCEPT ![w] = policies] /\ Go(w, "batch")
        /\ UNCHANGED <<context, row, pending, auth, seen, patch, expected, answer, log>>
    BY <1>3 DEF Prepare
  <2>2. /\ kind[w] \in {"create", "delete"} /\ auth[w] \in published /\ dialect = "d1"
        /\ kind[w] = "create" => patch[w] \in Records /\ Enforce(w, patch[w])
    <3>1. kind[w] \in Handlers /\ dialect = "d1" /\ kind[w] \in Kinds
      BY <1>1, Here DEF Path, Handlers, Kinds
    <3>2. kind[w] # "update"
      BY <1>3 DEF Prepare, PrepareUpdate
    <3>3. Decided(w)
      BY Here
    <3>4. QED
      BY <1>1, <3>1, <3>2, <3>3, ActionFacts DEF Decided, Handlers
  <2>3. kind[w] = "delete" /\ versioned => expected[w] # NoVersion
    BY <1>3 DEF Prepare, PrepareDelete
  <2>4. /\ phase' \in [Writers -> Phases] /\ phase'[w] = "batch"
        /\ \A u \in Writers \ {w} : phase'[u] = phase[u]
    BY <1>1, <2>1, GoFacts DEF Phases
  <2>5. /\ UNCHANGED <<versioned, dialect, hooks, kind, policies, published>>
        /\ ActionOf(w)' = ActionOf(w) /\ InTransaction(w)' = InTransaction(w)
    BY <2>1, ContextStays
  <2>6. policies \in published \cup {NoBundle}
    BY <1>1 DEF SetupTypes
  <2>7. RequestTypes' /\ Others(w)
    BY <1>1, <2>1, <2>4, <2>5, <2>6 DEF RequestTypes, Others
  <2>8. Enforce(w, patch[w])' = Enforce(w, patch[w])
    BY <2>1, <2>5 DEF Enforce
  <2>9. Path(w)'
    BY <2>2, <2>4, <2>5 DEF Path
  <2>10. Decided(w)'
    BY <2>1, <2>2, <2>3, <2>4, <2>5, <2>8, Here, ActionFacts DEF Decided
  <2>11. QED
    BY <1>1, <2>1, <2>7, <2>9, <2>10, Moving DEF Before, Early
<1>4. QED
  BY <1>2, <1>3

\* What is read outside a change of one's own is the committed record.
LEMMA ReadsTheRow ==
    ASSUME CInv, NEW w \in Writers, phase[w] = "read"
    PROVE  View(w) = row
BY Here DEF View, Holding

LEMMA ReadSound == ASSUME CInv, NEW w \in Writers, Read(w) PROVE Sound(w)
<1>1. /\ phase[w] = "read" /\ kind[w] \in Handlers /\ RequestTypes /\ Types /\ SetupTypes
      /\ View(w) = row /\ row \in Row
  BY Here, ReadsTheRow DEF Read
<1>2. CASE Refuse(w)
  BY <1>1, <1>2, Refusing
<1>3. CASE ~Refuse(w)
  <2>1. /\ seen' = [seen EXCEPT ![w] = row] /\ scope' = [scope EXCEPT ![w] = policies]
        /\ Go(w, IF kind[w] = "update" THEN "probe" ELSE "delete")
        /\ UNCHANGED <<context, row, pending, auth, patch, expected, answer, log>>
        /\ IF kind[w] = "update" THEN ReadForUpdate(w) ELSE ReadForDelete(w)
    BY <1>1, <1>3 DEF Read
  <2>2. /\ kind[w] \in {"update", "delete"} /\ auth[w] \in published /\ dialect # "d1"
        /\ kind[w] = "update" => patch[w] \in Patches
    <3>1. kind[w] \in {"update", "delete"} /\ dialect # "d1"
      BY <1>1, Here DEF Path, Handlers
    <3>2. Decided(w)
      BY Here
    <3>3. QED
      BY <1>1, <3>1, <3>2 DEF Decided
  <2>3. kind[w] = "update" /\ versioned =>
           row # Absent /\ expected[w] = row.version /\ Enforce(w, Merge(row.content, patch[w]))
    BY <1>1, <2>1, RowFacts DEF ReadForUpdate, Admits
  <2>4. kind[w] = "delete" /\ versioned => expected[w] # NoVersion
    BY <2>1 DEF ReadForDelete
  <2>5. PICK next \in {"probe", "delete"} :
           Go(w, next) /\ next = IF kind[w] = "update" THEN "probe" ELSE "delete"
    BY <2>1
  <2>6. /\ phase' \in [Writers -> Phases] /\ phase'[w] = next
        /\ \A u \in Writers \ {w} : phase'[u] = phase[u]
    BY <1>1, <2>5, GoFacts DEF Phases
  <2>7. /\ UNCHANGED <<versioned, dialect, hooks, kind, policies, published>>
        /\ ActionOf(w)' = ActionOf(w) /\ InTransaction(w)' = InTransaction(w)
    BY <2>1, ContextStays
  <2>8. policies \in published \cup {NoBundle}
    BY <1>1 DEF SetupTypes
  <2>9. RequestTypes' /\ Others(w) /\ seen'[w] = row
    BY <1>1, <2>1, <2>6, <2>7, <2>8 DEF RequestTypes, Others
  <2>10. Enforce(w, Merge(seen[w].content, patch[w]))' = Enforce(w, Merge(row.content, patch[w]))
    BY <2>1, <2>7, <2>9 DEF Enforce, Merge
  <2>11. Path(w)'
    BY <2>2, <2>5, <2>6, <2>7 DEF Path
  <2>12. Decided(w)'
    BY <2>1, <2>2, <2>3, <2>4, <2>5, <2>6, <2>7, <2>9, <2>10, Here, ActionFacts DEF Decided
  <2>13. QED
    BY <1>1, <2>1, <2>5, <2>9, <2>11, <2>12, Moving DEF Before, Early
<1>4. QED
  BY <1>2, <1>3

LEMMA ProbeSound == ASSUME CInv, NEW w \in Writers, Probe(w) PROVE Sound(w)
<1>1. phase[w] = "probe" /\ RequestTypes /\ Types
  BY Here DEF Probe
<1>2. CASE Refuse(w)
  BY <1>1, <1>2, Refusing
<1>3. CASE ~Refuse(w)
  <2>1. Go(w, "write") /\ UNCHANGED <<context, row, pending, request, answer, log>>
    BY <1>3 DEF Probe
  <2>2. /\ phase' \in [Writers -> Phases] /\ phase'[w] = "write"
        /\ \A u \in Writers \ {w} : phase'[u] = phase[u]
    BY <1>1, <2>1, GoFacts DEF Phases
  <2>3. UNCHANGED <<auth, scope, seen, patch, expected>>
    BY <2>1 DEF request
  <2>4. /\ UNCHANGED <<versioned, dialect, hooks, kind, policies, published>>
        /\ ActionOf(w)' = ActionOf(w) /\ InTransaction(w)' = InTransaction(w)
    BY <2>1, ContextStays
  <2>5. RequestTypes' /\ Others(w)
    BY <1>1, <2>1, <2>2, <2>3, <2>4 DEF RequestTypes, Others
  <2>6. Enforce(w, Merge(seen[w].content, patch[w]))' = Enforce(w, Merge(seen[w].content, patch[w]))
    BY <2>3, <2>4 DEF Enforce, Merge
  <2>7. Path(w)'
    <3>1. Path(w)
      BY Here
    <3>2. QED
      BY <1>1, <2>2, <2>4, <3>1 DEF Path
  <2>8. Decided(w)'
    <3>1. Decided(w)
      BY Here
    <3>2. QED
      BY <1>1, <2>2, <2>3, <2>4, <2>6, <3>1 DEF Decided
  <2>9. QED
    BY <1>1, <2>1, <2>3, <2>5, <2>7, <2>8, Moving DEF Before, Early
<1>4. QED
  BY <1>2, <1>3

LEMMA RepositoryReadSound == ASSUME CInv, NEW w \in Writers, RepositoryRead(w) PROVE Sound(w)
<1>1. /\ phase[w] = "read" /\ kind[w] \notin Handlers /\ RequestTypes /\ Types /\ row \in Row
      /\ row.version \in Nat
  BY Here DEF RepositoryRead
<1>2. CASE Refuse(w)
  BY <1>1, <1>2, Refusing
<1>3. CASE ~Refuse(w)
  <2>1. kind[w] \in {"repository update", "repository delete"} /\ auth[w] \in published
    <3>1. Path(w) /\ Decided(w) /\ kind[w] \in Kinds
      BY Here
    <3>2. QED
      BY <1>1, <3>1 DEF Path, Decided, Handlers, Kinds
  <2> DEFINE isUpdate == kind[w] = "repository update"
  <2>2. PICK p \in IF isUpdate THEN Patches ELSE {<<>>},
             v \in {NoVersion} \cup 1..(row.version + 1) :
           /\ versioned /\ IF isUpdate THEN UpdateChecks(w, p, v) ELSE DeleteChecks(w, v)
           /\ seen' = [seen EXCEPT ![w] = row]
           /\ patch' = [patch EXCEPT ![w] = p]
           /\ expected' = [expected EXCEPT ![w] = row.version]
           /\ scope' = [scope EXCEPT ![w] = auth[w]]
           /\ Go(w, IF isUpdate THEN "probe" ELSE "delete")
           /\ UNCHANGED <<context, row, pending, auth, answer, log>>
    BY <1>3 DEF RepositoryRead
  <2>3. PICK next \in {"probe", "delete"} :
           Go(w, next) /\ next = IF isUpdate THEN "probe" ELSE "delete"
    BY <2>2
  <2>4. /\ phase' \in [Writers -> Phases] /\ phase'[w] = next
        /\ \A u \in Writers \ {w} : phase'[u] = phase[u]
    BY <1>1, <2>3, GoFacts DEF Phases
  <2>5. /\ UNCHANGED <<versioned, dialect, hooks, kind, policies, published>>
        /\ ActionOf(w)' = ActionOf(w) /\ InTransaction(w)' = InTransaction(w)
    BY <2>2, ContextStays
  <2>6. p \in Bodies /\ isUpdate => p \in Patches
    BY <2>2 DEF Bodies
  <2>7. /\ RequestTypes' /\ Others(w)
        /\ seen'[w] = row /\ patch'[w] = p /\ expected'[w] = row.version
    BY <1>1, <2>1, <2>2, <2>4, <2>5, <2>6 DEF RequestTypes, Others, Bodies
  <2>8. isUpdate => /\ row # Absent
                    /\ WriteAllowed(auth[w], "update", Merge(row.content, p), DOMAIN p)
    BY <1>1, <2>2, RowFacts DEF UpdateChecks, Admits
  <2>9. isUpdate => Enforce(w, Merge(seen[w].content, patch[w]))'
    BY <1>1, <2>1, <2>2, <2>5, <2>7, <2>8, Here, ActionFacts DEF Enforce, Merge
  <2>10. Path(w)'
    BY <2>1, <2>3, <2>4, <2>5 DEF Path
  <2>11. row.version # NoVersion
    BY <1>1, VersionsAreNamed
  <2>12. Decided(w)'
    BY <2>1, <2>2, <2>3, <2>4, <2>5, <2>6, <2>7, <2>8, <2>9, <2>11, Here, ActionFacts DEF Decided
  <2>13. QED
    BY <1>1, <2>1, <2>2, <2>3, <2>7, <2>10, <2>12, Moving DEF Before, Early
<1>4. QED
  BY <1>2, <1>3

-----------------------------------------------------------------------------
(* The steps that change the record *)

LEMMA AbortSound ==
    ASSUME CInv, NEW w \in Writers, NEW a \in {"refused", "failed"}, Abort(w, a), pending.by = w
    PROVE  Sound(w)
<1>1. /\ pending' = Unlocked /\ Answer(w, a) /\ UNCHANGED <<context, row, request, log>>
  BY DEF Abort
<1>2. Types /\ RequestTypes /\ Holding(w)
  BY Here
<1>3. /\ phase' \in [Writers -> Phases] /\ phase'[w] = "end"
      /\ answer' \in [Writers -> Answers] /\ answer'[w] = a
      /\ \A v \in Writers \ {w} : phase'[v] = phase[v] /\ answer'[v] = answer[v]
  BY <1>1, <1>2, AnswerFacts DEF Answers
<1>4. UNCHANGED <<auth, scope, seen, patch, expected>>
  BY <1>1 DEF request
<1>5. /\ UNCHANGED <<versioned, dialect, hooks, kind, policies, published>>
      /\ ActionOf(w)' = ActionOf(w) /\ InTransaction(w)' = InTransaction(w)
  BY <1>1, ContextStays
<1>6. RequestTypes' /\ Others(w)
  BY <1>2, <1>3, <1>4, <1>5 DEF RequestTypes, Others
<1>7. Path(w)'
  BY <1>3 DEF Path
<1>8. Answered(w)' /\ Decided(w)'
  BY <1>3 DEF Answered, Decided
<1>9. Releases(w)
  BY <1>1, <1>2, <1>3 DEF Releases, Holding, HasCommitted
<1>10. ~Creating(w)'
  BY <1>1, <1>3, WritersAssumption DEF Creating, Early, Unlocked
<1>11. QED
  BY <1>1, <1>4, <1>6, <1>7, <1>8, <1>9, <1>10 DEF Sound, Local

LEMMA FailSound == ASSUME CInv, NEW w \in Writers, Fail(w) PROVE Sound(w)
BY AbortSound DEF Fail

LEMMA RereadSound == ASSUME CInv, NEW w \in Writers, Reread(w) PROVE Sound(w)
<1>1. /\ phase[w] = "reread" /\ kind[w] \in Handlers /\ kind[w] \in Kinds
      /\ RequestTypes /\ Types /\ Path(w) /\ Decided(w)
  BY Here DEF Reread
<1>2. kind[w] \in {"create", "update"} /\ dialect # "d1" /\ InTransaction(w) /\ pending.by = w
  <2>1. kind[w] \in {"create", "update"} /\ dialect # "d1"
    BY <1>1 DEF Path, Handlers
  <2>2. InTransaction(w)
    BY <1>1, <2>1, ActionFacts
  <2>3. QED
    BY <1>1, <2>1, <2>2, Here DEF Holding
<1>3. CASE policies = NoBundle
  BY <1>1, <1>2, <1>3, AbortSound DEF Reread
<1>4. CASE policies # NoBundle
  <2>1. PICK a \in {"record", "outside"} : answer' = [answer EXCEPT ![w] = a]
    BY <1>4 DEF Reread
  <2>2. Go(w, "commit") /\ UNCHANGED <<context, row, pending, request, log>>
    BY <1>4 DEF Reread
  <2>3. /\ phase' \in [Writers -> Phases] /\ phase'[w] = "commit"
        /\ \A u \in Writers \ {w} : phase'[u] = phase[u]
    BY <1>1, <2>2, GoFacts DEF Phases
  <2>4. UNCHANGED <<auth, scope, seen, patch, expected>>
    BY <2>2 DEF request
  <2>5. /\ UNCHANGED <<versioned, dialect, hooks, kind, policies, published>>
        /\ ActionOf(w)' = ActionOf(w) /\ InTransaction(w)' = InTransaction(w)
    BY <2>2, ContextStays
  <2>6. RequestTypes' /\ Others(w) /\ answer'[w] = a
    BY <1>1, <2>1, <2>3, <2>4, <2>5 DEF RequestTypes, Others, Answers
  <2>7. Path(w)'
    BY <1>2, <2>3, <2>5 DEF Path
  <2>8. ActionOf(w) # "delete" /\ kind[w] # "delete"
    BY <1>1, <1>2, ActionFacts
  <2>9. Answered(w)'
    BY <2>1, <2>3, <2>5, <2>6, <2>8 DEF Answered
  <2>10. Decided(w)'
    BY <1>1, <2>3, <2>4, <2>5 DEF Decided
  <2>11. Quiet(w)
    BY <1>1, <1>2, <2>2, <2>3, <2>4, <2>5 DEF Quiet, Holding, HasCommitted
  <2>12. Creating(w)' => Creating(w)
    BY <1>2, <2>5 DEF Creating
  <2>13. QED
    BY <2>2, <2>4, <2>6, <2>7, <2>9, <2>10, <2>11, <2>12 DEF Sound, Local
<1>5. QED
  BY <1>3, <1>4

\* A repository's request ends, with its change already committed.
LEMMA AnsweringAfterwards ==
    ASSUME CInv, NEW w \in Writers, NEW a \in Answers \ {"none", "refused", "failed"}, Answer(w, a),
           UNCHANGED <<context, row, pending, request, log>>,
           phase[w] \in {"readback", "reread", "returned"}, ~InTransaction(w), kind[w] \notin Handlers,
           a = "deleted" => ActionOf(w) = "delete",
           a \in {"record", "outside"} => ActionOf(w) # "delete"
    PROVE  Sound(w)
<1>1. Types /\ RequestTypes
  BY Here
<1>2. /\ phase' \in [Writers -> Phases] /\ phase'[w] = "end"
      /\ answer' \in [Writers -> Answers] /\ answer'[w] = a
      /\ \A v \in Writers \ {w} : phase'[v] = phase[v] /\ answer'[v] = answer[v]
  BY <1>1, AnswerFacts DEF Answers
<1>3. UNCHANGED <<auth, scope, seen, patch, expected>>
  BY DEF request
<1>4. /\ UNCHANGED <<versioned, dialect, hooks, kind, policies, published>>
      /\ ActionOf(w)' = ActionOf(w) /\ InTransaction(w)' = InTransaction(w)
  BY ContextStays
<1>5. RequestTypes' /\ Others(w)
  BY <1>1, <1>2, <1>3, <1>4 DEF RequestTypes, Others
<1>6. Path(w)' /\ Decided(w)'
  BY <1>2 DEF Path, Decided
<1>7. Answered(w)'
  BY <1>2, <1>4 DEF Answered
<1>8. Quiet(w)
  BY <1>2, <1>4 DEF Quiet, Holding, HasCommitted
<1>9. Creating(w)' => Creating(w)
  BY <1>2, <1>4 DEF Creating, Early
<1>10. QED
  BY <1>3, <1>5, <1>6, <1>7, <1>8, <1>9 DEF Sound, Local

LEMMA ReturnedSound == ASSUME CInv, NEW w \in Writers, Returned(w) PROVE Sound(w)
<1>1. /\ phase[w] = "returned" /\ Answer(w, "deleted")
      /\ UNCHANGED <<context, row, pending, request, log>>
  BY DEF Returned
<1>2. kind[w] = "repository delete"
  <2>1. Path(w) /\ kind[w] \in Kinds
    BY Here
  <2>2. QED
    BY <1>1, <2>1 DEF Path, Kinds, Handlers
<1>3. ActionOf(w) = "delete" /\ ~InTransaction(w)
  BY <1>2, Here, ActionFacts
<1>4. QED
  BY <1>1, <1>2, <1>3, AnsweringAfterwards DEF Answers, Handlers

LEMMA RepositoryRereadSound == ASSUME CInv, NEW w \in Writers, RepositoryReread(w) PROVE Sound(w)
<1>1. /\ phase[w] = "reread" /\ kind[w] \notin Handlers
      /\ UNCHANGED <<context, row, pending, request, log>>
  BY DEF RepositoryReread
<1>2. PICK a \in {"forbidden", "record", "outside"} : Answer(w, a)
  BY DEF RepositoryReread
<1>3. kind[w] \in {"repository create", "repository update"}
  BY <1>1, Here DEF Path, Kinds, Handlers
<1>4. ActionOf(w) # "delete" /\ ~InTransaction(w)
  BY <1>3, Here, ActionFacts
<1>5. QED
  BY <1>1, <1>2, <1>4, AnsweringAfterwards DEF Answers

LEMMA ReadBackSound == ASSUME CInv, NEW w \in Writers, ReadBack(w) PROVE Sound(w)
<1>1. /\ phase[w] = "readback" /\ UNCHANGED <<context, row, pending, request, log>>
      /\ RequestTypes /\ Types /\ Path(w) /\ Decided(w) /\ Answered(w) /\ kind[w] \in Kinds
  BY Here DEF ReadBack
<1>2. /\ kind[w] \in {"update", "repository update"} /\ ActionOf(w) = "update"
      /\ kind[w] = "update" => dialect # "d1" /\ InTransaction(w) /\ pending.by = w
      /\ kind[w] = "repository update" => ~InTransaction(w)
  <2>1. /\ kind[w] \in {"update", "repository update"}
        /\ kind[w] = "update" => dialect # "d1"
    BY <1>1 DEF Path, Kinds
  <2>2. QED
    BY <1>1, <2>1, Here, ActionFacts DEF Holding
<1>3. CASE View(w) = Absent
  <2>1. kind[w] # "update"
    <3>1. SUFFICES ASSUME kind[w] = "update" PROVE FALSE
      OBVIOUS
    <3>2. View(w) = pending.row /\ Permitted(w, row, pending.row)
      BY <1>2, <3>1 DEF View, CInv, PendingPermitted
    <3>3. pending.row.content \in Records
      BY <1>2, <3>2 DEF Permitted, Created, Updated, Deleted
    <3>4. QED
      BY <1>3, <3>2, <3>3, RecordsAssumption DEF Absent
  <2>2. Answer(w, "gone")
    BY <1>3 DEF ReadBack
  <2>3. QED
    BY <1>1, <1>2, <2>1, <2>2, AnsweringAfterwards DEF Answers, Handlers
<1>4. CASE View(w) # Absent
  <2>1. Go(w, "reread") /\ answer' = answer
    BY <1>4 DEF ReadBack
  <2>2. /\ phase' \in [Writers -> Phases] /\ phase'[w] = "reread"
        /\ \A u \in Writers \ {w} : phase'[u] = phase[u]
    BY <1>1, <2>1, GoFacts DEF Phases
  <2>3. UNCHANGED <<auth, scope, seen, patch, expected>>
    BY <1>1 DEF request
  <2>4. /\ UNCHANGED <<versioned, dialect, hooks, kind, policies, published>>
        /\ ActionOf(w)' = ActionOf(w) /\ InTransaction(w)' = InTransaction(w)
    BY <1>1, ContextStays
  <2>5. RequestTypes' /\ Others(w)
    BY <1>1, <2>1, <2>2, <2>3, <2>4 DEF RequestTypes, Others
  <2>6. Path(w)'
    BY <1>2, <2>2, <2>4 DEF Path
  <2>7. Answered(w)'
    BY <1>1, <2>1, <2>2, <2>4 DEF Answered
  <2>8. Decided(w)'
    BY <1>1, <2>2, <2>3, <2>4 DEF Decided
  <2>9. Quiet(w)
    BY <1>1, <1>2, <2>1, <2>2, <2>3, <2>4 DEF Quiet, Holding, HasCommitted
  <2>10. ~Creating(w)'
    BY <1>2, <2>4 DEF Creating
  <2>11. QED
    BY <1>1, <2>3, <2>5, <2>6, <2>7, <2>8, <2>9, <2>10 DEF Sound, Local
<1>5. QED
  BY <1>3, <1>4

\* Within a transaction the change is the lock's, otherwise it is committed.
LEMMA Putting ==
    ASSUME CInv, NEW w \in Writers, NEW new \in Row, NEW next \in {"readback", "reread", "commit", "returned"},
           Put(w, new, next), UNCHANGED <<context, request>>, Free(w), Permitted(w, row, new),
           phase[w] \in {"write", "delete", "insert"},
           InTransaction(w) => next # "returned", ~InTransaction(w) => next # "commit",
           next = "commit" => kind[w] = "delete",
           Path(w)'
    PROVE  Sound(w)
<1>1. Types /\ RequestTypes /\ Decided(w) /\ Answered(w) /\ StoreTypes /\ Go(w, next)
  BY Here DEF Put
<1>2. /\ phase' \in [Writers -> Phases] /\ phase'[w] = next
      /\ \A u \in Writers \ {w} : phase'[u] = phase[u]
  BY <1>1, GoFacts DEF Phases
<1>3. UNCHANGED <<auth, scope, seen, patch, expected, answer>>
  BY DEF request, Put
<1>4. /\ UNCHANGED <<versioned, dialect, hooks, kind, policies, published>>
      /\ ActionOf(w)' = ActionOf(w) /\ InTransaction(w)' = InTransaction(w)
  BY ContextStays
<1>5. RequestTypes' /\ Others(w)
  BY <1>1, <1>2, <1>3, <1>4 DEF RequestTypes, Others
<1>6. Answered(w)' /\ answer[w] = "none"
  <2>1. answer[w] = "none"
    BY <1>1 DEF Answered
  <2>2. QED
    BY <1>2, <1>3, <1>4, <2>1 DEF Answered
<1>7. Decided(w)'
  BY <1>1, <1>2, <1>3, <1>4 DEF Decided
<1>8. ~HasCommitted(w)
  BY DEF HasCommitted
<1>9. ActionOf(w) = "create" => Creating(w)
  <2>1. Path(w) /\ kind[w] \in Kinds
    BY Here
  <2>2. ActionOf(w) = "create" => phase[w] = "insert"
    BY <2>1, ActionFacts DEF Path
  <2>3. QED
    BY <2>2 DEF Creating, Early
<1>10. CASE InTransaction(w)
  <2>1. pending' = [by |-> w, row |-> new] /\ UNCHANGED <<row, log>>
    BY <1>10 DEF Put
  <2>2. Holding(w)' /\ ~HasCommitted(w)'
    BY <1>2, <1>4, <1>10 DEF Holding, HasCommitted
  <2>3. Locks(w)
    BY <1>3, <1>8, <2>1, <2>2 DEF Locks
  <2>4. QED
    BY <1>3, <1>4, <1>5, <1>6, <1>7, <1>9, <2>3 DEF Sound, Local, Creating
<1>11. CASE ~InTransaction(w)
  <2>1. row' = new /\ log' = log \cup {Entry(w, new)} /\ pending' = pending
    BY <1>11 DEF Put
  <2>2. ~Holding(w)' /\ HasCommitted(w)' /\ ~Holding(w)
    BY <1>2, <1>4, <1>11 DEF Holding, HasCommitted
  <2>3. pending.by = Nobody
    BY <2>2, Here DEF Free
  <2>4. Changes(w)
    BY <1>8, <1>9, <2>1, <2>2, <2>3 DEF Changes
  <2>5. QED
    BY <1>3, <1>4, <1>5, <1>6, <1>7, <1>9, <2>4 DEF Sound, Local, Creating
<1>12. QED
  BY <1>10, <1>11

LEMMA FilterFacts ==
    ASSUME CInv, NEW w \in Writers, Filter(w, row)
    PROVE  /\ row # Absent /\ row.content \in Records
           /\ scope[w] \in published /\ ScopeAdmits(scope[w], ActionOf(w), row.content)
           /\ expected[w] # NoVersion => row.version = expected[w]
BY Here, RowFacts DEF Filter, Admits

LEMMA WriteSound == ASSUME CInv, NEW w \in Writers, Write(w) PROVE Sound(w)
<1>1. phase[w] = "write" /\ Free(w) /\ Path(w) /\ Decided(w) /\ kind[w] \in Kinds
  BY Here DEF Write
<1>2. CASE Refuse(w)
  BY <1>1, <1>2, Refusing
<1>3. CASE ~Refuse(w)
  <2> DEFINE new == [content |-> Merge(row.content, patch[w]), version |-> NewVersion(row)]
             next == IF dialect = "mysql" THEN "readback" ELSE "reread"
  <2>1. Filter(w, row) /\ Put(w, new, next) /\ UNCHANGED <<context, request>>
    BY <1>3 DEF Write
  <2>2. /\ row # Absent /\ row.content \in Records
        /\ scope[w] \in published /\ ScopeAdmits(scope[w], ActionOf(w), row.content)
        /\ expected[w] # NoVersion => row.version = expected[w]
    BY <2>1, FilterFacts
  <2>3. /\ kind[w] \in {"update", "repository update"}
        /\ kind[w] = "update" => dialect # "d1"
    BY <1>1 DEF Path, Kinds, Handlers
  <2>4. ActionOf(w) = "update" /\ patch[w] \in Patches /\ auth[w] \in published
    BY <1>1, <2>3, ActionFacts DEF Decided
  <2>5. versioned => /\ expected[w] = row.version
                     /\ WriteAllowed(auth[w], "update", new.content, DOMAIN patch[w])
    <3>1. SUFFICES ASSUME versioned
                   PROVE  /\ expected[w] = row.version
                          /\ WriteAllowed(auth[w], "update", new.content, DOMAIN patch[w])
      OBVIOUS
    <3>2. /\ seen[w] # Absent /\ expected[w] = seen[w].version
          /\ Enforce(w, Merge(seen[w].content, patch[w]))
      BY <1>1, <3>1 DEF Decided
    <3>3. seen[w].version \in Nat
      BY Here, RowFacts
    <3>4. expected[w] = row.version
      BY <2>2, <3>2, <3>3, VersionsAreNamed
    <3>5. seen[w] = row \/ seen[w].version < row.version
      BY <2>2, <3>1, <3>2 DEF CInv, VersionsTell
    <3>6. seen[w] = row
      BY <3>2, <3>3, <3>4, <3>5
    <3>7. QED
      BY <2>4, <3>2, <3>4, <3>6 DEF Enforce
  <2>6. new \in Row
    <3>1. NewVersion(row) \in Nat \ {0}
      BY <2>2, Here, RowFacts DEF NewVersion
    <3>2. new \in [content : Records, version : Nat \ {0}]
      BY <2>2, <2>4, <3>1, MergeMakesRecords
    <3> HIDE DEF new
    <3>3. QED
      BY <3>2 DEF Row
  <2>7. versioned => WriteAllowed(auth[w], "update", new.content,
                                  {f \in Fields : row.content[f] # new.content[f]})
    BY <2>2, <2>4, <2>5, MergeMakesRecords, WritingLessIsAllowed
  <2>8. new \in [content : Records, version : {NewVersion(row)}]
    BY <2>2, <2>4, MergeMakesRecords
  <2>9. Updated(w, row, new)
    BY <2>2, <2>4, <2>7, <2>8 DEF Updated
  <2>10. Permitted(w, row, new)
    BY <2>5, <2>9 DEF Permitted
  <2>11. next \in {"readback", "reread"}
    OBVIOUS
  <2> HIDE DEF new, next
  <2>12. Path(w)'
    <3>1. phase'[w] = next
      BY <2>1, <2>11, Here, GoFacts DEF Put, Phases
    <3>2. UNCHANGED <<kind, dialect>>
      BY <2>1, ContextStays
    <3>3. QED
      BY <2>3, <2>11, <3>1, <3>2 DEF Path
  <2>13. QED
    BY <1>1, <2>1, <2>6, <2>10, <2>11, <2>12, Putting
<1>4. QED
  BY <1>2, <1>3

LEMMA DeleteSound == ASSUME CInv, NEW w \in Writers, Delete(w) PROVE Sound(w)
<1>1. phase[w] = "delete" /\ Free(w) /\ Path(w) /\ Decided(w) /\ kind[w] \in Kinds
  BY Here DEF Delete
<1>2. CASE Refuse(w)
  BY <1>1, <1>2, Refusing
<1>3. CASE ~Refuse(w)
  <2> DEFINE next == IF kind[w] = "delete" THEN "commit" ELSE "returned"
  <2>1. Filter(w, row) /\ Put(w, Absent, next) /\ UNCHANGED <<context, request>>
    BY <1>3 DEF Delete
  <2>2. /\ row # Absent
        /\ scope[w] \in published /\ ScopeAdmits(scope[w], ActionOf(w), row.content)
        /\ expected[w] # NoVersion => row.version = expected[w]
    BY <2>1, FilterFacts
  <2>3. /\ kind[w] \in {"delete", "repository delete"}
        /\ kind[w] = "delete" => dialect # "d1"
    BY <1>1 DEF Path, Kinds, Handlers
  <2>4. ActionOf(w) = "delete" /\ (InTransaction(w) <=> kind[w] = "delete")
    BY <1>1, <2>3, ActionFacts
  <2>5. versioned => expected[w] = row.version
    BY <1>1, <2>2, <2>3, ActionFacts DEF Decided
  <2>6. Permitted(w, row, Absent)
    BY <2>2, <2>4, <2>5 DEF Permitted, Deleted
  <2>7. next \in {"commit", "returned"} /\ (next = "commit" <=> kind[w] = "delete")
    OBVIOUS
  <2> HIDE DEF next
  <2>8. Path(w)'
    <3>1. phase'[w] = next
      BY <2>1, <2>7, Here, GoFacts DEF Put, Phases
    <3>2. UNCHANGED <<kind, dialect>>
      BY <2>1, ContextStays
    <3>3. QED
      BY <2>3, <2>7, <3>1, <3>2 DEF Path
  <2>9. QED
    BY <1>1, <2>1, <2>4, <2>6, <2>7, <2>8, RowFacts, Putting
<1>4. QED
  BY <1>2, <1>3

\* Nobody else changes a record that is still to be created.
LEMMA CreatesAlone ==
    ASSUME CInv, NEW w \in Writers, ActionOf(w) = "create",
           phase[w] \in {"batch", "insert"}
    PROVE  row = Absent /\ Free(w)
<1>1. row = Absent
  BY DEF CInv, CreatedOnce, Creating, Early
<1>2. ASSUME NEW v \in Writers, pending.by = v
      PROVE  v = w
  <2>1. Permitted(v, row, pending.row)
    BY <1>2 DEF CInv, PendingPermitted
  <2>2. ActionOf(v) = "create"
    BY <1>1, <2>1 DEF Permitted, Created, Updated, Deleted
  <2>3. QED
    BY <2>2 DEF CInv, CreatedOnce
<1>3. pending.by \in Writers \cup {Nobody}
  BY Here DEF StoreTypes
<1>4. QED
  BY <1>1, <1>2, <1>3 DEF Free

LEMMA CreatePermitted ==
    ASSUME CInv, NEW w \in Writers, kind[w] \in {"create", "repository create"},
           phase[w] \in {"batch", "insert"}, Enforce(w, patch[w])
    PROVE  LET new == [content |-> patch[w], version |-> 1]
           IN  new \in Row /\ Permitted(w, row, new)
<1> DEFINE new == [content |-> patch[w], version |-> 1]
<1>1. ActionOf(w) = "create" /\ Decided(w)
  BY Here, ActionFacts
<1>2. patch[w] \in Records /\ auth[w] \in published /\ row = Absent
  BY <1>1, CreatesAlone DEF Decided
<1>3. DOMAIN patch[w] = Fields
  BY <1>2, RecordsAssumption
<1>4. WriteAllowed(auth[w], "create", new.content, Fields)
  BY <1>1, <1>3 DEF Enforce
<1>5. new \in [content : Records, version : {1}] /\ new \in Row
  BY <1>2, MakesRows, Zenon
<1>6. Created(w, row, new)
  BY <1>1, <1>2, <1>4, <1>5 DEF Created
<1>7. Permitted(w, row, new)
  BY <1>2, <1>6 DEF Permitted
<1>8. QED
  BY <1>5, <1>7

LEMMA InsertSound ==
    ASSUME CInv, NEW w \in Writers, Insert(w) \/ (RepositoryInsert(w) /\ ~Refuse(w))
    PROVE  Sound(w)
<1> DEFINE new == [content |-> patch[w], version |-> 1]
<1>1. phase[w] = "insert" /\ Path(w) /\ Decided(w) /\ kind[w] \in Kinds
  BY Here DEF Insert, RepositoryInsert
<1>2. /\ kind[w] \in {"create", "repository create"} /\ Enforce(w, patch[w])
      /\ Put(w, new, "reread") /\ UNCHANGED <<context, request>>
  BY <1>1 DEF Insert, RepositoryInsert, Decided
<1>3. kind[w] = "create" => dialect # "d1"
  BY <1>1 DEF Path
<1>4. new \in Row /\ Permitted(w, row, new)
  BY <1>1, <1>2, CreatePermitted
<1>5. Free(w)
  BY <1>1, <1>2, CreatesAlone, ActionFacts
<1> HIDE DEF new
<1>6. Path(w)'
  <2>1. phase'[w] = "reread"
    BY <1>2, Here, GoFacts DEF Put, Phases
  <2>2. UNCHANGED <<kind, dialect>>
    BY <1>2, ContextStays
  <2>3. QED
    BY <1>2, <1>3, <2>1, <2>2 DEF Path
<1>7. QED
  BY <1>1, <1>2, <1>4, <1>5, <1>6, Putting

LEMMA RepositoryInsertSound == ASSUME CInv, NEW w \in Writers, RepositoryInsert(w) PROVE Sound(w)
<1>1. CASE Refuse(w)
  BY <1>1, Refusing DEF RepositoryInsert
<1>2. QED
  BY <1>1, InsertSound

LEMMA RunBatchSound == ASSUME CInv, NEW w \in Writers, RunBatch(w) PROVE Sound(w)
<1>1. phase[w] = "batch" /\ Path(w) /\ Decided(w) /\ kind[w] \in Kinds /\ RequestTypes /\ Types
  BY Here DEF RunBatch
<1>2. CASE Refuse(w)
  BY <1>1, <1>2, Refusing
<1>3. CASE ~Refuse(w)
  <2>1. kind[w] \in {"create", "delete"} /\ dialect = "d1"
    BY <1>1 DEF Path, Kinds, Handlers
  <2>2. UNCHANGED <<context, pending, request>>
    BY <1>3 DEF RunBatch
  <2>3. PICK new \in Row, a \in {"deleted", "record"} :
           /\ row' = new /\ log' = log \cup {Entry(w, new)} /\ Answer(w, a)
           /\ Permitted(w, row, new)
           /\ a = "deleted" <=> kind[w] = "delete"
    <3>1. CASE kind[w] = "delete"
      <4>1. Filter(w, row) /\ row' = Absent /\ log' = log \cup {Entry(w, Absent)} /\ Answer(w, "deleted")
        BY <1>3, <3>1 DEF RunBatch
      <4>2. ActionOf(w) = "delete" /\ (versioned => expected[w] # NoVersion)
        BY <1>1, <3>1, ActionFacts DEF Decided
      <4>3. Permitted(w, row, Absent)
        BY <4>1, <4>2, FilterFacts DEF Permitted, Deleted
      <4>4. QED
        BY <3>1, <4>1, <4>3, RowFacts
    <3>2. CASE kind[w] = "create"
      <4> DEFINE new == [content |-> patch[w], version |-> 1]
      <4>1. row' = new /\ log' = log \cup {Entry(w, new)} /\ Answer(w, "record")
        BY <1>3, <3>2 DEF RunBatch
      <4>2. Enforce(w, patch[w])
        BY <1>1, <3>2 DEF Decided
      <4>3. new \in Row /\ Permitted(w, row, new)
        BY <1>1, <3>2, <4>2, CreatePermitted
      <4> HIDE DEF new
      <4>4. QED
        BY <3>2, <4>1, <4>3
    <3>3. QED
      BY <2>1, <3>1, <3>2
  <2>4. /\ phase' \in [Writers -> Phases] /\ phase'[w] = "end"
        /\ answer' \in [Writers -> Answers] /\ answer'[w] = a
        /\ \A v \in Writers \ {w} : phase'[v] = phase[v] /\ answer'[v] = answer[v]
    BY <1>1, <2>3, AnswerFacts DEF Answers
  <2>5. UNCHANGED <<auth, scope, seen, patch, expected>>
    BY <2>2 DEF request
  <2>6. /\ UNCHANGED <<versioned, dialect, hooks, kind, policies, published>>
        /\ ActionOf(w)' = ActionOf(w) /\ InTransaction(w)' = InTransaction(w)
    BY <2>2, ContextStays
  <2>7. RequestTypes' /\ Others(w)
    BY <1>1, <2>4, <2>5, <2>6 DEF RequestTypes, Others
  <2>8. Path(w)' /\ Decided(w)'
    BY <2>4 DEF Path, Decided
  <2>9. /\ a = "deleted" => ActionOf(w) = "delete"
        /\ a = "record" => ActionOf(w) # "delete"
    BY <1>1, <2>1, <2>3, ActionFacts
  <2>10. Answered(w)'
    BY <2>3, <2>4, <2>6, <2>9 DEF Answered
  <2>11. ~InTransaction(w) /\ pending.by = Nobody
    <3>1. \A v \in Writers : pending.by # v
      BY <2>1, Here DEF Holding, InTransaction
    <3>2. QED
      BY <2>1, <3>1, Here DEF InTransaction, StoreTypes
  <2>12. Changes(w)
    <3>1. ~HasCommitted(w) /\ HasCommitted(w)' /\ ~Holding(w)'
      BY <1>1, <2>3, <2>4 DEF HasCommitted, Holding
    <3>2. QED
      BY <1>1, <2>2, <2>3, <2>11, <3>1 DEF Changes, Creating, Early
  <2>13. Creating(w)' => Creating(w)
    BY <2>2, <2>4, <2>6 DEF Creating, Early
  <2>14. QED
    BY <2>2, <2>5, <2>7, <2>8, <2>10, <2>12, <2>13 DEF Sound, Local
<1>4. QED
  BY <1>2, <1>3

LEMMA CommitSound == ASSUME CInv, NEW w \in Writers, Commit(w) PROVE Sound(w)
<1>1. /\ phase[w] = "commit" /\ row' = pending.row /\ pending' = Unlocked
      /\ log' = log \cup {Entry(w, pending.row)}
      /\ answer' = [answer EXCEPT ![w] = IF kind[w] = "delete" THEN "deleted" ELSE answer[w]]
      /\ Go(w, "end") /\ UNCHANGED <<context, request>>
  BY DEF Commit
<1>2. /\ RequestTypes /\ Types /\ Path(w) /\ Answered(w) /\ kind[w] \in Kinds
  BY Here
<1>3. kind[w] \in {"create", "update", "delete"} /\ dialect # "d1"
  BY <1>1, <1>2 DEF Path, Kinds, Handlers
<1>4. InTransaction(w) /\ pending.by = w
  BY <1>1, <1>2, <1>3, ActionFacts, Here DEF Holding
<1>5. Permitted(w, row, row')
  BY <1>1, <1>4 DEF CInv, PendingPermitted
<1>6. /\ phase' \in [Writers -> Phases] /\ phase'[w] = "end"
      /\ \A v \in Writers \ {w} : phase'[v] = phase[v]
  BY <1>1, <1>2, GoFacts DEF Phases
<1>7. /\ answer' \in [Writers -> Answers]
      /\ \A v \in Writers \ {w} : answer'[v] = answer[v]
      /\ answer'[w] = IF kind[w] = "delete" THEN "deleted" ELSE answer[w]
  BY <1>1, <1>2 DEF RequestTypes, Answers
<1>8. UNCHANGED <<auth, scope, seen, patch, expected>>
  BY <1>1 DEF request
<1>9. /\ UNCHANGED <<versioned, dialect, hooks, kind, policies, published>>
      /\ ActionOf(w)' = ActionOf(w) /\ InTransaction(w)' = InTransaction(w)
  BY <1>1, ContextStays
<1>10. RequestTypes' /\ Others(w)
  BY <1>2, <1>6, <1>7, <1>8, <1>9 DEF RequestTypes, Others
<1>11. Path(w)' /\ Decided(w)'
  BY <1>6 DEF Path, Decided
<1>12. /\ answer'[w] \in {"deleted", "record", "outside"}
       /\ answer'[w] = "deleted" <=> ActionOf(w) = "delete"
  <2>1. kind[w] # "delete" => answer[w] \in {"record", "outside"}
    BY <1>1, <1>2 DEF Answered
  <2>2. ActionOf(w) = "delete" <=> kind[w] = "delete"
    BY <1>2, <1>3, ActionFacts
  <2>3. QED
    BY <1>7, <2>1, <2>2
<1>13. Answered(w)'
  BY <1>6, <1>9, <1>12 DEF Answered
<1>14. Changes(w)
  <2>1. ~HasCommitted(w) /\ HasCommitted(w)' /\ ~Holding(w)'
    BY <1>1, <1>6, <1>12 DEF HasCommitted, Holding
  <2>2. QED
    BY <1>1, <1>4, <1>5, <2>1 DEF Changes, Creating, Unlocked
<1>15. Creating(w)' => Creating(w)
  BY <1>4, <1>9 DEF Creating
<1>16. QED
  BY <1>1, <1>8, <1>10, <1>11, <1>13, <1>14, <1>15 DEF Sound, Local

LEMMA StepSound == ASSUME CInv, NEW w \in Writers, Step(w) \/ Fail(w) PROVE Sound(w)
BY BeginSound, LoadSound, AuthorizeSound, HookSound, ReadSound, ProbeSound, WriteSound, DeleteSound,
   InsertSound, ReadBackSound, RereadSound, CommitSound, PrepareSound, RunBatchSound,
   RepositoryInsertSound, RepositoryReadSound, RepositoryRereadSound, ReturnedSound, FailSound
   DEF Step

-----------------------------------------------------------------------------
(* The invariant is kept *)

LEMMA PermittedRow ==
    ASSUME NEW w, NEW old \in Row, NEW new, Permitted(w, old, new)
    PROVE  new \in Row
<1>1. CASE Created(w, old, new)
  BY <1>1, MakesRows DEF Created, Row
<1>2. CASE Updated(w, old, new)
  <2>1. NewVersion(old) \in Nat \ {0}
    <3>1. old # Absent
      BY <1>2 DEF Updated
    <3>2. old.version \in Nat /\ old.version > 0
      BY <3>1, RowFacts
    <3>3. QED
      BY <3>2 DEF NewVersion
  <2>2. QED
    BY <1>2, <2>1 DEF Updated, Row
<1>3. CASE Deleted(w, old, new)
  BY <1>3, RowFacts DEF Deleted
<1>4. QED
  BY <1>1, <1>2, <1>3 DEF Permitted

LEMMA SoundKeepsTypes == ASSUME CInv, NEW w \in Writers, Sound(w) PROVE Types' /\ Requests'
<1>1. Types /\ SetupTypes /\ StoreTypes /\ row \in Row /\ kind[w] \in Kinds
      /\ expected[w] \in Nat \cup {NoVersion}
  BY Here
<1>2. /\ UNCHANGED <<versioned, dialect, hooks, kind, policies, published>>
      /\ \A v : ActionOf(v)' = ActionOf(v)
  BY ContextStays DEF Sound
<1>3. SetupTypes'
  BY <1>1, <1>2 DEF SetupTypes
<1>4. StoreTypes'
  <2>1. CASE Quiet(w)
    BY <1>1, <2>1 DEF Quiet, StoreTypes
  <2>2. CASE Locks(w)
    BY <1>1, <2>2 DEF Locks, StoreTypes
  <2>3. CASE Releases(w)
    BY <1>1, <2>3, RowFacts DEF Releases, StoreTypes, Unlocked
  <2>4. CASE Changes(w)
    <3>1. row' \in Row
      BY <1>1, <2>4, PermittedRow DEF Changes
    <3>2. Entry(w, row') \in Change
      BY <1>1, <3>1 DEF Entry, Change
    <3>3. Unlocked \in [by : Writers \cup {Nobody}, row : Row]
      BY RowFacts DEF Unlocked
    <3>4. QED
      BY <1>1, <2>4, <3>1, <3>2, <3>3 DEF Changes, StoreTypes
  <2>5. QED
    BY <2>1, <2>2, <2>3, <2>4 DEF Sound
<1>5. Types'
  BY <1>3, <1>4 DEF Types, Sound
<1>6. ASSUME NEW v \in Writers \ {w}
      PROVE  Local(v)'
  <2>1. Local(v)
    BY DEF CInv, Requests
  <2>2. /\ phase'[v] = phase[v] /\ answer'[v] = answer[v] /\ auth'[v] = auth[v] /\ seen'[v] = seen[v]
        /\ patch'[v] = patch[v] /\ expected'[v] = expected[v]
    BY DEF Sound, Others
  <2>3. Path(v)'
    BY <1>2, <2>1, <2>2 DEF Local, Path
  <2>4. Answered(v)'
    BY <1>2, <2>1, <2>2 DEF Local, Answered
  <2>5. Decided(v)'
    BY <1>2, <2>1, <2>2 DEF Local, Decided, Enforce, Merge
  <2>6. QED
    BY <2>3, <2>4, <2>5 DEF Local
<1>7. Requests'
  BY <1>6 DEF Sound, Requests
<1>8. QED
  BY <1>5, <1>7

LEMMA SoundKeepsLocks == ASSUME CInv, NEW w \in Writers, Sound(w) PROVE Locked' /\ PendingPermitted'
<1>1. /\ UNCHANGED <<versioned, dialect, hooks, kind, policies, published>>
      /\ \A v : ActionOf(v)' = ActionOf(v) /\ InTransaction(v)' = InTransaction(v)
  BY ContextStays DEF Sound
<1>2. ASSUME NEW v \in Writers
      PROVE  pending'.by = v <=> Holding(v)'
  <2>1. pending.by = v <=> Holding(v)
    BY Here
  <2>2. v # w => Holding(v)' = Holding(v)
    BY <1>1 DEF Sound, Others, Holding
  <2>3. v # w => (pending'.by = v <=> pending.by = v)
    BY WritersAssumption DEF Sound, Quiet, Locks, Releases, Changes, Free, Unlocked
  <2>4. pending'.by = w <=> Holding(w)'
    BY Here, WritersAssumption DEF Sound, Quiet, Locks, Releases, Changes, Unlocked
  <2>5. QED
    BY <2>1, <2>2, <2>3, <2>4
<1>3. ASSUME NEW v \in Writers, pending'.by = v
      PROVE  Permitted(v, row, pending.row)'
  <2>1. CASE Quiet(w)
    <3>1. pending.by = v /\ row' = row /\ pending' = pending /\ Permitted(v, row, pending.row)
      BY <1>3, <2>1 DEF Quiet, CInv, PendingPermitted
    <3>2. expected'[v] = expected[v]
      BY <2>1, <3>1, Here DEF Sound, Others, Quiet
    <3>3. QED
      BY <1>1, <3>1, <3>2 DEF Permitted, Created, Updated, Deleted, NewVersion
  <2>2. CASE Locks(w)
    <3>1. v = w /\ row' = row /\ expected' = expected /\ Permitted(v, row, pending'.row)
      BY <1>3, <2>2 DEF Locks
    <3>2. QED
      BY <1>1, <3>1 DEF Permitted, Created, Updated, Deleted, NewVersion
  <2>3. CASE Releases(w) \/ Changes(w)
    BY <1>3, <2>3, WritersAssumption DEF Releases, Changes, Unlocked
  <2>4. QED
    BY <2>1, <2>2, <2>3 DEF Sound
<1>4. QED
  BY <1>2, <1>3 DEF Locked, PendingPermitted

LEMMA CreationStays ==
    ASSUME CInv, NEW w \in Writers, Sound(w), NEW v \in Writers, Creating(v)'
    PROVE  /\ Creating(v) /\ UNCHANGED <<row, log>>
           /\ \A u \in Writers : seen'[u] = Absent
<1>1. \A u : ActionOf(u)' = ActionOf(u)
  BY ContextStays DEF Sound
<1>2. Creating(v)
  <2>1. CASE v = w
    BY <2>1 DEF Sound
  <2>2. CASE v # w
    BY <1>1, <2>2, WritersAssumption
       DEF Sound, Others, Creating, Quiet, Locks, Releases, Changes, Unlocked
  <2>3. QED
    BY <2>1, <2>2
<1>3. row = Absent /\ log = {} /\ \A u \in Writers : seen[u] = Absent
  BY <1>2 DEF CInv, CreatedOnce
<1>4. ~Changes(w)
  <2>1. SUFFICES ASSUME Changes(w) PROVE FALSE
    OBVIOUS
  <2>2. ActionOf(w) = "create"
    BY <1>3, <2>1 DEF Changes, Permitted, Created, Updated, Deleted
  <2>3. v = w
    BY <1>2, <2>2 DEF CInv, CreatedOnce, Creating
  <2>4. phase'[w] \notin Early
    BY <2>1 DEF Changes, HasCommitted, Early
  <2>5. QED
    BY <2>1, <2>3, <2>4, WritersAssumption DEF Changes, Creating
<1>5. UNCHANGED <<row, log>>
  BY <1>4 DEF Sound, Quiet, Locks, Releases
<1>6. \A u \in Writers : seen'[u] = Absent
  BY <1>3 DEF Sound, Others
<1>7. QED
  BY <1>2, <1>5, <1>6

LEMMA SoundKeepsCreatedOnce == ASSUME CInv, NEW w \in Writers, Sound(w) PROVE CreatedOnce'
<1>1. \A u : ActionOf(u)' = ActionOf(u)
  BY ContextStays DEF Sound
<1>2. \A u, v \in Writers : ActionOf(u)' = "create" /\ ActionOf(v)' = "create" => u = v
  BY <1>1 DEF CInv, CreatedOnce
<1>3. ASSUME NEW v \in Writers, Creating(v)'
      PROVE  row' = Absent /\ log' = {} /\ \A u \in Writers : seen'[u] = Absent
  BY <1>3, CreationStays DEF CInv, CreatedOnce
<1>4. QED
  BY <1>2, <1>3 DEF CreatedOnce, Absent

\* A committed change makes a new version, or deletes the record.
LEMMA ChangeFacts ==
    ASSUME CInv, NEW w \in Writers, Changes(w)
    PROVE  /\ row \in Row /\ row' \in Row
           /\ row = Absent => /\ log = {} /\ row'.version = 1 /\ row' # Absent
                              /\ \A v \in Writers : seen[v] = Absent
           /\ versioned /\ row # Absent => expected[w] = row.version
           /\ versioned /\ row # Absent /\ row' # Absent => row'.version = row.version + 1
           /\ row' = Absent <=> ActionOf(w) = "delete"
<1>1. Permitted(w, row, row') /\ row \in Row
  BY Here DEF Changes
<1>2. row' \in Row
  BY <1>1, PermittedRow
<1>3. CASE Created(w, row, row')
  <2>1. row = Absent /\ row'.version = 1 /\ row' # Absent /\ ActionOf(w) = "create"
    BY <1>2, <1>3, RowFacts DEF Created
  <2>2. Creating(w)
    BY <2>1 DEF Changes
  <2>3. QED
    BY <1>1, <1>2, <2>1, <2>2 DEF CInv, CreatedOnce
<1>4. CASE Updated(w, row, row')
  <2>1. row # Absent /\ row'.version = NewVersion(row) /\ row'.content \in Records /\ ActionOf(w) = "update"
    BY <1>4 DEF Updated
  <2>2. QED
    BY <1>1, <1>2, <2>1, RowFacts, RecordsAssumption DEF Permitted, NewVersion
<1>5. CASE Deleted(w, row, row')
  BY <1>1, <1>2, <1>5 DEF Permitted, Deleted
<1>6. QED
  BY <1>1, <1>3, <1>4, <1>5 DEF Permitted

LEMMA SoundKeepsVersions == ASSUME CInv, NEW w \in Writers, Sound(w) PROVE VersionsTell'
<1>1. SUFFICES ASSUME versioned, NEW v \in Writers, seen'[v] # Absent, row' # Absent
               PROVE  seen'[v] = row' \/ seen'[v].version < row'.version
  BY ContextStays DEF VersionsTell, Absent, Sound
<1>2. /\ seen'[v] \in {seen[v], row} /\ row \in Row /\ seen[v] \in Row
      /\ seen[v].version \in Nat /\ row.version \in Nat
  BY Here, RowFacts DEF Sound, Others
<1>3. seen[v] # Absent /\ row # Absent => seen[v] = row \/ seen[v].version < row.version
  BY <1>1 DEF CInv, VersionsTell
<1>4. CASE row' = row
  BY <1>1, <1>2, <1>3, <1>4
<1>5. CASE Changes(w)
  <2>1. row # Absent
    BY <1>1, <1>2, <1>5, ChangeFacts
  <2>2. row'.version = row.version + 1
    BY <1>1, <1>5, <2>1, ChangeFacts
  <2>3. QED
    BY <1>1, <1>2, <1>3, <2>1, <2>2
<1>6. QED
  BY <1>4, <1>5 DEF Sound, Quiet, Locks, Releases

LEMMA SoundKeepsOrder == ASSUME CInv, NEW w \in Writers, Sound(w) PROVE ChangesInOrder'
<1>1. versioned' = versioned
  BY ContextStays DEF Sound
<1>2. CASE UNCHANGED <<row, log>>
  BY <1>1, <1>2 DEF CInv, ChangesInOrder, Absent
<1>3. CASE versioned /\ Changes(w)
  <2> DEFINE e == Entry(w, row')
  <2>1. /\ e.old = row /\ e.new = row' /\ e.expected = expected[w] /\ log' = log \cup {e}
    BY <1>3 DEF Entry, Changes
  <2>2. /\ row \in Row /\ row' \in Row /\ row.version \in Nat
        /\ row = Absent => log = {} /\ row'.version = 1 /\ row.version = 0
        /\ row # Absent => expected[w] = row.version
        /\ row # Absent /\ row' # Absent => row'.version = row.version + 1
    BY <1>3, ChangeFacts, RowFacts
  <2>3. \A c \in log : c.old.version \in Nat
    BY Here, RowFacts DEF StoreTypes, Change
  <2>4. \A c \in log :
           /\ c.old # Absent => c.expected = c.old.version
           /\ c.new # Absent => c.new.version = c.old.version + 1
           /\ row # Absent => c.old.version < row.version
           /\ \A d \in log : d.old.version = c.old.version => d = c
    BY <1>3 DEF CInv, ChangesInOrder
  <2> HIDE DEF e
  <2>5. /\ e.old # Absent => e.expected = e.old.version
        /\ e.new # Absent => e.new.version = e.old.version + 1
        /\ row' # Absent => e.old.version < row'.version
    BY <2>1, <2>2
  <2>6. \A c \in log : row' # Absent => c.old.version < row'.version
    BY <2>2, <2>3, <2>4
  <2>7. \A c \in log : c.old.version # e.old.version
    BY <2>1, <2>2, <2>3, <2>4
  <2>8. \A c \in log' :
           /\ c.old # Absent => c.expected = c.old.version
           /\ c.new # Absent => c.new.version = c.old.version + 1
           /\ row' # Absent => c.old.version < row'.version
           /\ \A d \in log' : d.old.version = c.old.version => d = c
    BY <2>1, <2>4, <2>5, <2>6, <2>7
  <2>9. QED
    BY <2>8 DEF ChangesInOrder, Absent
<1>4. CASE ~versioned
  BY <1>1, <1>4 DEF ChangesInOrder
<1>5. QED
  BY <1>2, <1>3, <1>4 DEF Sound, Quiet, Locks, Releases

LEMMA SoundKeepsLogged == ASSUME CInv, NEW w \in Writers, Sound(w) PROVE Logged'
<1>1. \A v : ActionOf(v)' = ActionOf(v) /\ InTransaction(v)' = InTransaction(v)
  BY ContextStays DEF Sound
<1>2. \A v \in Writers \ {w} : HasCommitted(v)' = HasCommitted(v)
  BY <1>1 DEF Sound, Others, HasCommitted
<1>3. CASE Changes(w)
  <2> DEFINE e == Entry(w, row')
  <2>1. e.by = w /\ e.new = row' /\ log' = log \cup {e}
    BY <1>3 DEF Entry, Changes
  <2>2. ~HasCommitted(w) /\ HasCommitted(w)' /\ (row' = Absent <=> ActionOf(w) = "delete")
    BY <1>3, ChangeFacts DEF Changes
  <2>3. /\ \A v \in Writers : HasCommitted(v) <=> \E c \in log : c.by = v
        /\ \A c \in log : c.new = Absent <=> ActionOf(c.by) = "delete"
        /\ \A c, d \in log : c.by = d.by => c = d
    BY DEF CInv, Logged
  <2> HIDE DEF e
  <2>4. \A v \in Writers : HasCommitted(v)' <=> \E c \in log' : c.by = v
    BY <1>2, <2>1, <2>2, <2>3
  <2>5. \A c \in log' : c.new = Absent <=> ActionOf(c.by)' = "delete"
    BY <1>1, <2>1, <2>2, <2>3
  <2>6. \A c, d \in log' : c.by = d.by => c = d
    BY <2>1, <2>2, <2>3
  <2>7. QED
    BY <2>4, <2>5, <2>6 DEF Logged, Absent
<1>4. CASE UNCHANGED log /\ (HasCommitted(w)' <=> HasCommitted(w))
  BY <1>1, <1>2, <1>4 DEF CInv, Logged, Absent
<1>5. Changes(w) \/ (UNCHANGED log /\ (HasCommitted(w)' <=> HasCommitted(w)))
  BY DEF Sound, Quiet, Locks, Releases
<1>6. QED
  BY <1>3, <1>4, <1>5

LEMMA StepKeepsCInv == ASSUME CInv, NEW w \in Writers, Step(w) \/ Fail(w) PROVE CInv'
<1>1. Sound(w)
  BY StepSound
<1>2. QED
  BY <1>1, SoundKeepsTypes, SoundKeepsLocks, SoundKeepsCreatedOnce, SoundKeepsVersions,
     SoundKeepsOrder, SoundKeepsLogged
     DEF CInv

\* New policies leave the requests and the record alone; those already
\* published stay so.
LEMMA PoliciesKeepCInv == ASSUME CInv, ChangePolicies PROVE CInv'
<1>1. /\ UNCHANGED <<versioned, dialect, hooks, kind, row, pending, phase, answer, log>>
      /\ UNCHANGED <<auth, scope, seen, patch, expected>>
      /\ policies' \in Bundles \cup {NoBundle}
      /\ published' = published \cup ({policies'} \ {NoBundle})
  BY DEF ChangePolicies, setup, request
<1>2. \A v : ActionOf(v)' = ActionOf(v) /\ InTransaction(v)' = InTransaction(v)
  BY <1>1 DEF ActionOf, InTransaction
<1>3. SetupTypes /\ StoreTypes /\ RequestTypes
  BY DEF CInv, Types
<1>4. published \subseteq published'
  BY <1>1
<1>5. SetupTypes' /\ StoreTypes'
  BY <1>1, <1>3 DEF SetupTypes, StoreTypes, Row, Change, Absent
<1>6. RequestTypes'
  BY <1>1, <1>3, <1>4 DEF RequestTypes, Row, Absent
<1>7. ASSUME NEW v \in Writers
      PROVE  Local(v)'
  <2>1. Local(v)
    BY DEF CInv, Requests
  <2>2. Path(v)'
    BY <1>1, <2>1 DEF Local, Path
  <2>3. Answered(v)'
    BY <1>1, <1>2, <2>1 DEF Local, Answered
  <2>4. Decided(v)'
    BY <1>1, <1>2, <1>4, <2>1 DEF Local, Decided, Enforce, Merge, Absent
  <2>5. QED
    BY <2>2, <2>3, <2>4 DEF Local
<1>8. Locked'
  BY <1>1, <1>2 DEF CInv, Locked, Holding
<1>9. ASSUME NEW v \in Writers, pending'.by = v
      PROVE  Permitted(v, row, pending.row)'
  <2>1. Permitted(v, row, pending.row)
    BY <1>1, <1>9 DEF CInv, PendingPermitted
  <2>2. QED
    BY <1>1, <1>2, <1>4, <2>1 DEF Permitted, Created, Updated, Deleted, NewVersion, Absent
<1>10. CreatedOnce'
  BY <1>1, <1>2 DEF CInv, CreatedOnce, Creating, Absent
<1>11. VersionsTell' /\ ChangesInOrder'
  BY <1>1 DEF CInv, VersionsTell, ChangesInOrder, Absent
<1>12. Logged'
  BY <1>1, <1>2 DEF CInv, Logged, HasCommitted, Absent
<1>13. QED
  BY <1>5, <1>6, <1>7, <1>8, <1>9, <1>10, <1>11, <1>12
     DEF CInv, Types, Requests, PendingPermitted

LEMMA StutteringKeepsCInv == ASSUME CInv, UNCHANGED vars PROVE CInv'
<1>1. UNCHANGED <<versioned, dialect, hooks, kind, policies, published, row, pending, phase, answer, log>>
  BY DEF vars, context, setup
<1>2. UNCHANGED <<auth, scope, seen, patch, expected>>
  BY DEF vars, request
<1>3. \A v : ActionOf(v)' = ActionOf(v) /\ InTransaction(v)' = InTransaction(v)
  BY <1>1 DEF ActionOf, InTransaction
<1>4. Types'
  BY <1>1, <1>2 DEF CInv, Types, SetupTypes, StoreTypes, RequestTypes, Row, Change, Absent
<1>5. ASSUME NEW v \in Writers
      PROVE  Local(v)'
  <2>1. Local(v)
    BY DEF CInv, Requests
  <2>2. Path(v)' /\ Answered(v)'
    BY <1>1, <1>3, <2>1 DEF Local, Path, Answered
  <2>3. Decided(v)'
    BY <1>1, <1>2, <1>3, <2>1 DEF Local, Decided, Enforce, Merge, Absent
  <2>4. QED
    BY <2>2, <2>3 DEF Local
<1>6. Locked'
  BY <1>1, <1>3 DEF CInv, Locked, Holding
<1>7. PendingPermitted'
  BY <1>1, <1>2, <1>3
     DEF CInv, PendingPermitted, Permitted, Created, Updated, Deleted, NewVersion, Absent
<1>8. CreatedOnce'
  BY <1>1, <1>2, <1>3 DEF CInv, CreatedOnce, Creating, Absent
<1>9. VersionsTell' /\ ChangesInOrder'
  BY <1>1, <1>2 DEF CInv, VersionsTell, ChangesInOrder, Absent
<1>10. Logged'
  BY <1>1, <1>3 DEF CInv, Logged, HasCommitted, Absent
<1>11. QED
  BY <1>4, <1>5, <1>6, <1>7, <1>8, <1>9, <1>10 DEF CInv, Requests

LEMMA InitialCInv == CInit => CInv
<1> SUFFICES ASSUME CInit PROVE CInv
  OBVIOUS
<1>1. row \in Row /\ policies \in Bundles /\ policies # NoBundle /\ published = {policies}
  BY BundlesAssumption, MakesRows DEF CInit, Row
<1>2. SetupTypes
  BY <1>1 DEF CInit, SetupTypes
<1>3. StoreTypes
  BY <1>1, RowFacts DEF CInit, StoreTypes, Unlocked
<1>4. RequestTypes
  BY RowFacts DEF CInit, RequestTypes, Phases, Answers, Bodies
<1>5. ASSUME NEW w \in Writers
      PROVE  Local(w)
  <2>1. phase[w] = "start" /\ answer[w] = "none"
    BY DEF CInit
  <2>2. QED
    BY <2>1 DEF Local, Path, Answered, Decided
<1>6. Locked /\ PendingPermitted
  BY WritersAssumption DEF CInit, Locked, PendingPermitted, Holding, Unlocked
<1>7. \A w \in Writers : Creating(w) => row = Absent
  BY DEF CInit, Creating
<1>8. CreatedOnce
  BY <1>7 DEF CInit, CreatedOnce
<1>9. VersionsTell /\ ChangesInOrder
  BY DEF CInit, VersionsTell, ChangesInOrder
<1>10. Logged
  BY DEF CInit, Logged, HasCommitted
<1>11. QED
  BY <1>2, <1>3, <1>4, <1>5, <1>6, <1>8, <1>9, <1>10 DEF CInv, Types, Requests

LEMMA NextKeepsCInv == CInv /\ [CNext]_vars => CInv'
BY StepKeepsCInv, PoliciesKeepCInv, StutteringKeepsCInv DEF CNext

LEMMA Invariance == CSpec => []CInv
<1>1. QED
  BY InitialCInv, NextKeepsCInv, PTL DEF CSpec

-----------------------------------------------------------------------------
(* What it means for the record and for its callers *)

\* Requests race for a record they have read: no committed change of a
\* versioned one was made to another version than its request named or read,
\* and no two changes to the same (the filters update.ts and delete.ts give
\* their writes).
THEOREM NothingIsOverwritten == CSpec => []NoLostUpdate
<1>1. CInv => NoLostUpdate
  BY DEF CInv, ChangesInOrder, NoLostUpdate
<1>2. QED
  BY <1>1, Invariance, PTL

\* Who is refused, or hears of a failure, has changed nothing, and who is told
\* of a record or its deletion has committed that (the order of the checks,
\* the write and the commit in the three handlers and the repository).
THEOREM CallersHearTheTruth == CSpec => []AnswersTruthful
<1>1. ASSUME CInv, NEW w \in Writers, answer[w] \in {"refused", "failed"}
      PROVE  \A c \in log : c.by # w
  <2>1. phase[w] = "end"
    BY <1>1, Here DEF Answered
  <2>2. ~HasCommitted(w)
    BY <1>1, <2>1 DEF HasCommitted
  <2>3. QED
    BY <1>1, <2>2 DEF CInv, Logged
<1>2. ASSUME CInv, NEW w \in Writers, phase[w] = "end",
             answer[w] \in {"record", "outside", "deleted"}
      PROVE  \E c \in log : /\ c.by = w
                            /\ answer[w] = "deleted" <=> c.new = Absent
                            /\ \A d \in log : d.by = w => d = c
  <2>1. HasCommitted(w)
    BY <1>2 DEF HasCommitted
  <2>2. PICK c \in log : c.by = w
    BY <1>2, <2>1 DEF CInv, Logged
  <2>3. answer[w] = "deleted" <=> ActionOf(w) = "delete"
    BY <1>2, Here DEF Answered
  <2>4. c.new = Absent <=> ActionOf(w) = "delete"
    BY <1>2, <2>2 DEF CInv, Logged
  <2>5. \A d \in log : d.by = w => d = c
    BY <1>2, <2>2 DEF CInv, Logged
  <2>6. QED
    BY <2>2, <2>3, <2>4, <2>5
<1>3. CInv => AnswersTruthful
  BY <1>1, <1>2 DEF AnswersTruthful
<1>4. QED
  BY <1>3, Invariance, PTL

\* GuardedRecord decides by the same policies.
LEMMA SamePolicies ==
    /\ \A b, action, r, S : WriteAllowed(b, action, r, S) <=> Abstract!WriteAllowed(b, action, r, S)
    /\ \A b, action, r : ScopeAdmits(b, action, r) <=> Abstract!ScopeAdmits(b, action, r)
<1>1. /\ \A b, action : Relevant(b, action) = Abstract!Relevant(b, action)
      /\ \A b, r : Matched(b, r) = Abstract!Matched(b, r)
      /\ \A b : TopTier(b) = Abstract!TopTier(b)
      /\ \A b : Denies(b) = Abstract!Denies(b) /\ Allows(b) = Abstract!Allows(b)
      /\ \A b, p : Tier(b, p) = Abstract!Tier(b, p) /\ Above(b, p) = Abstract!Above(b, p)
  BY DEF Relevant, Abstract!Relevant, Matched, Abstract!Matched, TopTier, Abstract!TopTier,
         Denies, Abstract!Denies, Allows, Abstract!Allows, Tier, Abstract!Tier, Above, Abstract!Above
<1>2. /\ \A m, S : DeniedFields(m, S) = Abstract!DeniedFields(m, S)
      /\ \A m : TieredDecision(m) <=> Abstract!TieredDecision(m)
      /\ \A b, p, r : TierAdmits(b, p, r) <=> Abstract!TierAdmits(b, p, r)
  BY <1>1 DEF DeniedFields, Abstract!DeniedFields, TieredDecision, Abstract!TieredDecision,
              TierAdmits, Abstract!TierAdmits
<1>3. QED
  BY <1>1, <1>2 DEF WriteAllowed, Abstract!WriteAllowed, ScopeAdmits, Abstract!ScopeAdmits

\* Seen from the record, a step is one of GuardedRecord's or nothing.
LEMMA PermittedIsAStep ==
    ASSUME NEW w, Permitted(w, row, row'), UNCHANGED <<published, versioned>>
    PROVE  Abstract!Next
<1>1. CASE Created(w, row, row')
  BY <1>1, SamePolicies DEF Created, Abstract!Next, Abstract!Create, Abstract!Absent, Absent
<1>2. CASE Updated(w, row, row')
  BY <1>2, SamePolicies DEF Updated, Abstract!Next, Abstract!Update, Abstract!Absent, Absent,
              NewVersion, Abstract!NewVersion
<1>3. CASE Deleted(w, row, row')
  BY <1>3, SamePolicies DEF Deleted, Abstract!Next, Abstract!Delete, Abstract!Absent, Absent
<1>4. QED
  BY <1>1, <1>2, <1>3 DEF Permitted

LEMMA StepsAreAbstract ==
    ASSUME CInv, [CNext]_vars
    PROVE  [Abstract!Next]_Abstract!gvars
<1>1. ASSUME NEW w \in Writers, Step(w) \/ Fail(w)
      PROVE  [Abstract!Next]_Abstract!gvars
  <2>1. Sound(w)
    BY <1>1, StepSound
  <2>2. UNCHANGED <<published, versioned>>
    BY <2>1, ContextStays DEF Sound
  <2>3. CASE Changes(w)
    BY <2>2, <2>3, PermittedIsAStep DEF Changes
  <2>4. CASE row' = row
    BY <2>2, <2>4 DEF Abstract!gvars
  <2>5. QED
    BY <2>1, <2>3, <2>4 DEF Sound, Quiet, Locks, Releases
<1>2. CASE ChangePolicies
  <2>1. /\ UNCHANGED <<row, versioned>> /\ policies' \in Bundles \cup {NoBundle}
        /\ published' = published \cup ({policies'} \ {NoBundle})
    BY <1>2 DEF ChangePolicies, setup
  <2>2. CASE policies' = NoBundle
    BY <2>1, <2>2 DEF Abstract!gvars
  <2>3. CASE policies' # NoBundle
    BY <2>1, <2>3 DEF Abstract!Next, Abstract!Publish
  <2>4. QED
    BY <2>2, <2>3
<1>3. CASE UNCHANGED vars
  BY <1>3 DEF vars, context, setup, Abstract!gvars
<1>4. QED
  BY <1>1, <1>2, <1>3 DEF CNext

\* Whatever the interleaving of requests, transactions, failures and changes
\* of the policies, the committed changes are steps that policies in force at
\* some time permit about the record they change and the one they leave.
THEOREM EveryChangeIsPermitted == CSpec => ImplementsGuardedRecord
<1>1. CInit => Abstract!Init
  BY DEF CInit, Abstract!Init, Abstract!Absent, Absent
<1>2. CInv /\ [CNext]_vars => [Abstract!Next]_Abstract!gvars
  BY StepsAreAbstract
<1>3. QED
  BY <1>1, <1>2, Invariance, PTL DEF CSpec, ImplementsGuardedRecord, Abstract!Spec

-----------------------------------------------------------------------------
(* What policies decide, for every set of them *)

\* Matched policies of which one is at the top.
LEMMA TopFacts ==
    ASSUME NEW m, NEW p \in TopTier(m)
    PROVE  p \in m /\ \A q \in m : q.priority <= p.priority
BY DEF TopTier

\* The filter of a query, built before any record is seen, selects the records
\* that the tiers would allow one by one: a list shows what a detail of it would
\* show, and an update or a delete filtered in the database changes only what a
\* check of the record in memory would let it (buildActionScope against
\* resolveTieredDecision).
THEOREM ScopesDecideAsTiers ==
    ASSUME NEW ps \in SUBSET PolicySet, NEW action, NEW r
    PROVE  ScopeAdmits(ps, action, r) <=> RecordAction(ps, action, r)
<1> DEFINE relevant == Relevant(ps, action)
           m == Matched(relevant, r)
<1>1. m \subseteq relevant /\ relevant \subseteq PolicySet
  BY DEF Relevant, Matched
<1>2. \A p \in relevant : p.priority \in Int /\ p.effect \in {"allow", "deny"}
  BY <1>1 DEF PolicySet
<1>3. ASSUME RecordAction(ps, action, r)
      PROVE  ScopeAdmits(ps, action, r)
  <2>1. TopTier(m) # {} /\ Denies(TopTier(m)) = {}
    BY <1>3 DEF RecordAction, TieredDecision
  <2>2. PICK p : p \in TopTier(m)
    BY <2>1
  <2>3. p \in m /\ p \in relevant /\ \A q \in m : q.priority <= p.priority
    BY <1>1, <2>2, TopFacts
  <2>4. p.effect = "allow"
    BY <1>2, <2>1, <2>2, <2>3 DEF Denies
  <2>5. Matched(Above(relevant, p.priority), r) = {}
    BY <1>2, <2>3 DEF Matched, Above
  <2>6. p \in Matched(Allows(Tier(relevant, p.priority)), r)
    BY <2>3, <2>4 DEF Matched, Allows, Tier
  <2>7. Matched(Denies(Tier(relevant, p.priority)), r) \subseteq Denies(TopTier(m))
    BY <1>2, <2>3 DEF Matched, Denies, Tier, TopTier
  <2>8. QED
    BY <2>1, <2>3, <2>5, <2>6, <2>7 DEF TierAdmits, ScopeAdmits
<1>4. ASSUME ScopeAdmits(ps, action, r)
      PROVE  RecordAction(ps, action, r)
  <2>1. PICK p \in relevant : TierAdmits(relevant, p.priority, r)
    BY <1>4 DEF ScopeAdmits
  <2>2. PICK q \in relevant : Matches(q.condition, r) /\ q.effect = "allow" /\ q.priority = p.priority
    BY <2>1 DEF TierAdmits, Matched, Allows, Tier
  <2>3. \A n \in m : n.priority <= p.priority
    BY <1>1, <1>2, <2>1 DEF TierAdmits, Matched, Above
  <2>4. q \in TopTier(m)
    BY <2>2, <2>3 DEF Matched, TopTier
  <2>5. \A n \in TopTier(m) : n \in m /\ n.priority = p.priority
    <3>1. ASSUME NEW n \in TopTier(m)
          PROVE  n \in m /\ n.priority = p.priority
      <4>1. n \in m /\ q.priority <= n.priority
        BY <2>4, <3>1, TopFacts
      <4>2. QED
        BY <1>1, <1>2, <2>2, <2>3, <4>1
    <3>2. QED
      BY <3>1
  <2>6. \A n \in TopTier(m) : n.effect # "deny"
    BY <2>1, <2>5 DEF TierAdmits, Matched, Denies, Tier
  <2>7. QED
    BY <2>4, <2>6 DEF RecordAction, TieredDecision, Denies
<1>5. QED
  BY <1>3, <1>4

\* A collection is refused outright only where no record of it is allowed: who
\* is told "forbidden" by the static look at the filter would have been shown an
\* empty list (list.ts on buildActionScope and isAlwaysFalse).
THEOREM RefusedCollectionsAreEmpty ==
    ASSUME NEW ps \in SUBSET PolicySet, NEW action, NEW r \in Records,
           RecordAction(ps, action, r)
    PROVE  CollectionAllowed(ps, action)
<1> DEFINE relevant == Relevant(ps, action)
           m == Matched(relevant, r)
<1>1. \A p \in relevant : /\ p.priority \in Int /\ p.effect \in {"allow", "deny"}
                          /\ p.condition \in Conditions
  BY DEF Relevant, PolicySet
<1>2. TopTier(m) # {} /\ Denies(TopTier(m)) = {}
  BY DEF RecordAction, TieredDecision
<1>3. PICK p : p \in TopTier(m)
  BY <1>2
<1>4. p \in m /\ p \in relevant /\ \A q \in m : q.priority <= p.priority
  BY <1>3, TopFacts DEF Matched
<1>5. p \in Allows(relevant)
  BY <1>1, <1>2, <1>3, <1>4 DEF Allows, Denies
<1>6. ~NeverHolds(p.condition)
  BY <1>1, <1>4, StaticConditions DEF Matched
<1>7. \A q \in relevant : AlwaysHolds(q.condition) => q \in m
  BY <1>1, StaticConditions DEF Matched
<1>8. \A q \in m : q.priority = p.priority => q \in TopTier(m)
  BY <1>4 DEF TopTier
<1>9. ASSUME NEW q \in relevant, AlwaysHolds(q.condition)
      PROVE  ~(q.priority > p.priority \/ (q.priority = p.priority /\ q.effect = "deny"))
  <2>1. q \in m /\ q.priority <= p.priority
    BY <1>4, <1>7, <1>9
  <2>2. q.priority = p.priority => q.effect # "deny"
    BY <1>2, <1>8, <2>1 DEF Denies
  <2>3. QED
    BY <1>1, <1>4, <2>1, <2>2
<1>10. {q \in relevant : /\ AlwaysHolds(q.condition)
                          /\ \/ q.priority > p.priority
                             \/ q.priority = p.priority /\ q.effect = "deny"} = {}
  BY <1>9
<1>11. QED
  BY <1>5, <1>6, <1>10 DEF CollectionAllowed

\* One more denial never lets anybody do more: a record, a filter and a write
\* that are allowed with it are allowed without it, whatever its priority, its
\* condition and its fields (resolveTieredDecision, buildTieredPolicyOutcome and
\* enforceAbacWrite).
THEOREM DenialsOnlyRestrict ==
    ASSUME NEW ps \in SUBSET PolicySet, NEW denial \in PolicySet, denial.effect = "deny",
           NEW action, NEW r, NEW changed
    PROVE  /\ RecordAction(ps \cup {denial}, action, r) => RecordAction(ps, action, r)
           /\ ScopeAdmits(ps \cup {denial}, action, r) => ScopeAdmits(ps, action, r)
           /\ WriteAllowed(ps \cup {denial}, action, r, changed) =>
                  WriteAllowed(ps, action, r, changed)
<1> DEFINE before == Matched(Relevant(ps, action), r)
           after == Matched(Relevant(ps \cup {denial}, action), r)
<1>1. /\ before \subseteq after /\ after \subseteq before \cup {denial}
      /\ \A p \in after : p.priority \in Int
  BY DEF Matched, Relevant, PolicySet
<1>2. ASSUME TieredDecision(after)
      PROVE  TopTier(before) = TopTier(after) /\ before # {}
  <2>1. PICK top : top \in TopTier(after)
    BY <1>2 DEF TieredDecision
  <2>2. denial \notin TopTier(after)
    BY <1>2 DEF TieredDecision, Denies
  <2> HIDE DEF before, after
  <2>3. top \in before /\ \A q \in after : q.priority <= top.priority
    BY <1>1, <2>1, <2>2, TopFacts
  <2>4. TopTier(after) \subseteq TopTier(before)
    BY <1>1, <2>2 DEF TopTier
  <2>5. ASSUME NEW p \in TopTier(before)
        PROVE  p \in TopTier(after)
    <3>1. p \in after /\ top.priority <= p.priority
      BY <1>1, <2>3, <2>5, TopFacts
    <3>2. p.priority \in Int /\ top.priority \in Int
      BY <1>1, <2>3, <3>1
    <3>3. ASSUME NEW q \in after
          PROVE  q.priority <= p.priority
      <4>1. q.priority \in Int /\ q.priority <= top.priority
        BY <1>1, <2>3
      <4>2. QED
        BY <3>1, <3>2, <4>1
    <3>4. QED
      BY <3>1, <3>3 DEF TopTier
  <2>6. QED
    BY <2>3, <2>4, <2>5
<1>3. RecordAction(ps \cup {denial}, action, r) => RecordAction(ps, action, r)
  BY <1>2 DEF RecordAction, TieredDecision
<1>4. ScopeAdmits(ps \cup {denial}, action, r) => ScopeAdmits(ps, action, r)
  <2>1. ps \cup {denial} \in SUBSET PolicySet
    OBVIOUS
  <2>2. QED
    BY <1>3, <2>1, ScopesDecideAsTiers
<1>5. ASSUME WriteAllowed(ps \cup {denial}, action, r, changed)
      PROVE  WriteAllowed(ps, action, r, changed)
  <2>1. TieredDecision(after)
    BY <1>5 DEF WriteAllowed
  <2>2. TopTier(before) = TopTier(after) /\ before # {} /\ after # {}
    BY <1>1, <1>2, <2>1
  <2>3. DeniedFields(before, changed) = DeniedFields(after, changed)
    BY <2>2 DEF DeniedFields
  <2>4. QED
    BY <1>5, <2>2, <2>3 DEF WriteAllowed, TieredDecision
<1>6. QED
  BY <1>3, <1>4, <1>5

=============================================================================

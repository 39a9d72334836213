---------------------------- MODULE CacheService ----------------------------
(***************************************************************************)
(* CacheService.getOrSet and invalidateTags over a shared cache: values    *)
(* are stored under a key and the generations of its tags, and a write is  *)
(* fenced off by advancing them.  Writers and readers are requests of any  *)
(* process; each constructs a CacheService of its own, so the map of       *)
(* generations it remembers is its own and never two reads wait for one    *)
(* resolver.                                                               *)
(*                                                                         *)
(* Generations are linearizable counters (DbTagGenerationStore, or the map *)
(* of InMemoryCacheAdapter).  Of the payload nothing is asked but that it  *)
(* returns what was once stored under a key: it may expire or evict an     *)
(* entry, lose it with a tag, or lag behind, as KV does.                   *)
(***************************************************************************)
EXTENDS Naturals, FiniteSets

CONSTANTS
    Keys,             \* what is read: a list or a detail of one scope
    Tags,
    TagsOf,           \* the tags of a read, and of the writes that change it
    Requests,         \* the reads under way
    Critical,         \* those whose service is correctnessCritical
    Invalidators,     \* the write handlers and finalizers that invalidate
    None,
    MaxVersion,       \* bound on the commits to what a key reads
    MaxInvalidations, \* bound on the calls of invalidateTags
    Capacity          \* bound on the entries the payload keeps

ASSUME TagsAssumption == TagsOf \in [Keys -> (SUBSET Tags) \ {{}}]
ASSUME CriticalAssumption == Critical \subseteq Requests
ASSUME NoneAssumption == None \notin Keys
ASSUME BoundsAssumption ==
    MaxVersion \in Nat /\ MaxInvalidations \in Nat /\ Capacity \in Nat

VARIABLES
    version,    \* how many commits changed what each key reads
    published,  \* the latest of them whose invalidation has returned
    gen,        \* the generation of each tag
    entries,    \* what the payload keeps: key, generations, version
    inv,        \* the invalidation each invalidator has under way
    calls,      \* how many there were
    read        \* the read each request has under way

cvars == <<version, published, gen, entries, inv, calls, read>>

Generations == [Tags -> Nat]
Zero == [t \in Tags |-> 0]

Entry == [key: Keys, gens: Generations, version: Nat]

NoInvalidation == [key |-> None, upto |-> 0, left |-> {}]

Collecting == {"first", "recheck", "verify"}
Between == {"idle", "failed"}
Places == {"resolve"} \cup Collecting \cup Between

Reading ==
    [pc: Places, key: Keys \cup {None},
     local: Generations,    \* localTagGenerations
     gens: Generations,     \* generation
     todo: SUBSET Tags,     \* the tags whose generation it has still to get
     value: Nat,            \* the version of what it read
     floor: Nat,            \* what had been published when it went to read it
     blind: BOOLEAN]        \* it fell back on a generation it remembered

ReadAt(pc, key, local, gens, todo, value, floor, blind) ==
    [pc |-> pc, key |-> key, local |-> local, gens |-> gens, todo |-> todo,
     value |-> value, floor |-> floor, blind |-> blind]

Rest(pc) == ReadAt(pc, None, Zero, Zero, {}, 0, 0, FALSE)

CTypeOK ==
    /\ version \in [Keys -> Nat] /\ published \in [Keys -> Nat]
    /\ gen \in Generations
    /\ entries \subseteq Entry
    /\ inv \in [Invalidators -> [key: Keys \cup {None}, upto: Nat, left: SUBSET Tags]]
    /\ read \in [Requests -> Reading]
    /\ calls \in Nat
    /\ \A i \in Invalidators : inv[i].key = None <=> inv[i].left = {}
    /\ \A r \in Requests : read[r].key = None <=> read[r].pc \in Between
    /\ \A r \in Requests : read[r].todo # {} => read[r].pc \in Collecting

CInit ==
    /\ version = [k \in Keys |-> 0] /\ published = [k \in Keys |-> 0]
    /\ gen = Zero
    /\ entries = {}
    /\ inv = [i \in Invalidators |-> NoInvalidation]
    /\ calls = 0
    /\ read = [r \in Requests |-> Rest("idle")]

-----------------------------------------------------------------------------
(* Writes: a commit, and the invalidation that follows it at once, from the *)
(* retry of its request or from the finalizer                               *)

Commit(k) ==
    /\ version[k] < MaxVersion
    /\ version' = [version EXCEPT ![k] = @ + 1]
    /\ UNCHANGED <<published, gen, entries, inv, calls, read>>

InvalidateTags(i, k) ==
    /\ inv[i].key = None
    /\ calls < MaxInvalidations
    /\ inv' = [inv EXCEPT ![i] = [key |-> k, upto |-> version[k], left |-> TagsOf[k]]]
    /\ calls' = calls + 1
    /\ UNCHANGED <<version, published, gen, entries, read>>

Later(m, n) == IF m >= n THEN m ELSE n

\* advanceTagGeneration; with the last tag the invalidation returns.
Advance(i, t) ==
    /\ t \in inv[i].left
    /\ gen' = [gen EXCEPT ![t] = @ + 1]
    /\ LET k == inv[i].key IN
       IF inv[i].left = {t}
       THEN /\ published' = [published EXCEPT ![k] = Later(@, inv[i].upto)]
            /\ inv' = [inv EXCEPT ![i] = NoInvalidation]
       ELSE /\ inv' = [inv EXCEPT ![i].left = @ \ {t}]
            /\ UNCHANGED published
    /\ UNCHANGED <<version, entries, calls, read>>

\* advanceTagGeneration throws, or the process dies: the write still owes its
\* invalidation.
Abandon(i) ==
    /\ inv[i].key # None
    /\ inv' = [inv EXCEPT ![i] = NoInvalidation]
    /\ UNCHANGED <<version, published, gen, entries, calls, read>>

-----------------------------------------------------------------------------
(* getOrSet *)

Goes(r, rd) ==
    /\ read' = [read EXCEPT ![r] = rd]
    /\ UNCHANGED <<version, published, gen, inv, calls>>

Begin(r, k) ==
    /\ read[r].pc \in Between
    /\ Goes(r, ReadAt("first", k, Zero, Zero, TagsOf[k], 0, 0, FALSE))
    /\ UNCHANGED entries

Gets(r, local, todo, blind) ==
    Goes(r, ReadAt(read[r].pc, read[r].key, local, read[r].gens, todo, read[r].value,
                   read[r].floor, blind))

\* getTagGeneration for one of the tags.  What it returns is what is remembered
\* then; a critical read throws instead of falling back on it (Fails).
Collect(r, t) ==
    /\ t \in read[r].todo
    /\ \/ Gets(r, [read[r].local EXCEPT ![t] = gen[t]], read[r].todo \ {t}, read[r].blind)
       \/ r \notin Critical /\ Gets(r, read[r].local, read[r].todo \ {t}, TRUE)
    /\ UNCHANGED entries

Collected(r, place) == read[r].pc = place /\ read[r].todo = {}

Hit(r, e) ==
    /\ Collected(r, "first")
    /\ e.key = read[r].key /\ e.gens = read[r].local
    /\ Goes(r, ReadAt("recheck", e.key, e.gens, e.gens, TagsOf[e.key], e.version,
                      published[e.key], read[r].blind))
    /\ UNCHANGED entries

Resolving(r, gens) ==
    Goes(r, ReadAt("resolve", read[r].key, read[r].local, gens, {}, 0, 0, read[r].blind))

\* Nothing is found, or get() throws and the read is not critical.
Miss(r) ==
    /\ Collected(r, "first")
    /\ Resolving(r, read[r].local)
    /\ UNCHANGED entries

Answers(r) == Goes(r, Rest("idle"))

\* A bug to be caught: a hit is returned under whatever generations it has.
RecheckedTrusting(r) == Collected(r, "recheck") /\ Answers(r) /\ UNCHANGED entries

Rechecked(r) ==
    /\ Collected(r, "recheck")
    /\ IF read[r].local = read[r].gens THEN Answers(r) ELSE Resolving(r, read[r].gens)
    /\ UNCHANGED entries

\* The resolver reads the database.
Resolve(r) ==
    /\ read[r].pc = "resolve"
    /\ LET k == read[r].key IN
       Goes(r, ReadAt("verify", k, read[r].local, read[r].gens, TagsOf[k], version[k],
                      published[k], read[r].blind))
    /\ UNCHANGED entries

\* set(): the payload keeps the new entry or not, and others as it likes.
Stores(e) ==
    \E kept \in SUBSET (entries \cup {e}) : Cardinality(kept) <= Capacity /\ entries' = kept

EntryOf(r, gens) == [key |-> read[r].key, gens |-> gens, version |-> read[r].value]

\* A bug to be caught: the key is made of the generations found afterwards.
VerifiedAfresh(r) ==
    /\ Collected(r, "verify")
    /\ Stores(EntryOf(r, read[r].local))
    /\ Answers(r)

Verified(r) ==
    /\ Collected(r, "verify")
    /\ IF read[r].local = read[r].gens THEN Stores(EntryOf(r, read[r].gens)) ELSE UNCHANGED entries
    /\ Answers(r)

\* The resolver throws, the process dies, or a call of the adapter throws and
\* the read is critical.
Fails(r) ==
    /\ read[r].pc \notin Between
    /\ Goes(r, Rest("failed"))
    /\ UNCHANGED entries

-----------------------------------------------------------------------------
Reads(r) ==
    \/ \E k \in Keys : Begin(r, k)
    \/ \E t \in Tags : Collect(r, t)
    \/ \E e \in entries : Hit(r, e)
    \/ Miss(r) \/ Rechecked(r) \/ Resolve(r) \/ Verified(r) \/ Fails(r)

Invalidates(i) ==
    \/ \E k \in Keys : InvalidateTags(i, k)
    \/ \E t \in Tags : Advance(i, t)
    \/ Abandon(i)

CNext ==
    \/ \E k \in Keys : Commit(k)
    \/ \E i \in Invalidators : Invalidates(i)
    \/ \E r \in Requests : Reads(r)

CSpec == CInit /\ [][CNext]_cvars

-----------------------------------------------------------------------------
(* Properties *)

Current(e) == \A t \in TagsOf[e.key] : e.gens[t] = gen[t]

\* What can be found under the generations of now is no older than the last
\* write whose invalidation returned, whenever its resolver ran and by
\* whatever generations, remembered ones included, it was stored.
EntriesFenced == \A e \in entries : Current(e) => e.version >= published[e.key]

\* A read answers with nothing older than what was published when it went to
\* the cache, or else to the database: the second look at the generations
\* catches the invalidation that came between the first and the value.  Only a
\* read that is not critical and could not get a generation may be stale.
FreshReads ==
    [][\A r \in Requests :
          read[r].pc \in {"recheck", "verify"} /\ read'[r].pc = "idle" /\ ~read[r].blind
              => read[r].value >= read[r].floor]_cvars
=============================================================================

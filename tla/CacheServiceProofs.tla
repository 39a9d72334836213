------------------------- MODULE CacheServiceProofs -------------------------
(***************************************************************************)
(* The cache keeps its types, what it keeps under the generations of now   *)
(* is as recent as what was published, and reads are fresh: for every set  *)
(* of keys, tags, readers and invalidators and every capacity.             *)
(***************************************************************************)
EXTENDS CacheService, TLAPS

\* No generation in hand is ahead of its counter: what was collected earlier is
\* at most what is there now.
Behind(g) == \A t \in Tags : g[t] <= gen[t]

\* A vector of generations that differs from the counters is one of an
\* invalidation that went by, and stays different.
Overtaken(k, g) == \E t \in TagsOf[k] : g[t] # gen[t]

\* A value read from the database under these generations.
Sound(k, g, v) == Overtaken(k, g) \/ v >= published[k]

\* A read of a hit will notice: a tag it has still to look at again, or has
\* looked at, is not what it was.
Noticed(rd) ==
    \E t \in TagsOf[rd.key] :
        rd.gens[t] # gen[t] /\ (t \in rd.todo \/ rd.local[t] # rd.gens[t])

NothingAhead ==
    /\ \A e \in entries : Behind(e.gens)
    /\ \A r \in Requests : Behind(read[r].local) /\ Behind(read[r].gens)
    /\ \A k \in Keys : published[k] <= version[k]
    /\ \A i \in Invalidators : inv[i].key # None =>
          inv[i].upto <= version[inv[i].key] /\ inv[i].left \subseteq TagsOf[inv[i].key]

ReadSound(rd) ==
    /\ rd.pc = "verify" => Sound(rd.key, rd.gens, rd.value) /\ rd.value >= rd.floor
    /\ rd.pc = "recheck" /\ ~rd.blind => rd.value >= rd.floor \/ Noticed(rd)

EntriesSound == \A e \in entries : Sound(e.key, e.gens, e.version)
ReadsSound == \A r \in Requests : ReadSound(read[r])

CInv == CTypeOK /\ NothingAhead /\ EntriesSound /\ ReadsSound

-----------------------------------------------------------------------------
LEMMA Start == CInit => CInv
<1> SUFFICES ASSUME CInit PROVE CInv
    OBVIOUS
<1>1. Zero \in Generations
    BY DEF Zero, Generations
<1>2. Rest("idle") \in Reading
    BY <1>1 DEF Rest, ReadAt, Reading, Places, Between, Collecting
<1>3. CTypeOK
    BY <1>1, <1>2 DEF CInit, CTypeOK, NoInvalidation, Rest, ReadAt, Between, Entry
<1>4. NothingAhead
    BY <1>1 DEF CInit, NothingAhead, Behind, Rest, ReadAt, NoInvalidation, Zero
<1>5. EntriesSound /\ ReadsSound
    BY DEF CInit, EntriesSound, ReadsSound, ReadSound, Rest, ReadAt
<1> QED BY <1>3, <1>4, <1>5 DEF CInv

\* A step of one read: what has to be seen to of it, and of what it stores.
LEMMA ReadMoves ==
    ASSUME CInv, NEW r \in Requests, NEW rd \in Reading, Goes(r, rd),
           rd.key = None <=> rd.pc \in Between,
           rd.todo # {} => rd.pc \in Collecting,
           Behind(rd.local), Behind(rd.gens), ReadSound(rd),
           entries' \subseteq Entry,
           \A e \in entries' : Behind(e.gens) /\ Sound(e.key, e.gens, e.version)
    PROVE  CInv'
<1>1. /\ read' = [read EXCEPT ![r] = rd]
      /\ UNCHANGED <<version, published, gen, inv, calls>>
    BY DEF Goes
<1>2. /\ read' \in [Requests -> Reading] /\ read'[r] = rd
      /\ \A q \in Requests \ {r} : read'[q] = read[q]
    BY <1>1 DEF CInv, CTypeOK
<1>3. CTypeOK'
    BY <1>1, <1>2 DEF CInv, CTypeOK
<1>4. NothingAhead'
    BY <1>1, <1>2 DEF CInv, NothingAhead, Behind
<1>5. EntriesSound'
    BY <1>1 DEF EntriesSound, Sound, Overtaken
<1>6. ReadsSound'
  <2> SUFFICES ASSUME NEW q \in Requests PROVE ReadSound(read[q])'
      BY DEF ReadsSound
  <2>1. ReadSound(read'[q])
      BY <1>2 DEF CInv, ReadsSound
  <2> QED BY <2>1, <1>1 DEF ReadSound, Sound, Overtaken, Noticed
<1> QED BY <1>3, <1>4, <1>5, <1>6 DEF CInv

\* A step that stores nothing.
LEMMA ReadMovesOn ==
    ASSUME CInv, NEW r \in Requests, NEW rd \in Reading, Goes(r, rd), UNCHANGED entries,
           rd.key = None <=> rd.pc \in Between,
           rd.todo # {} => rd.pc \in Collecting,
           Behind(rd.local), Behind(rd.gens), ReadSound(rd)
    PROVE  CInv'
<1>1. /\ entries' \subseteq Entry
      /\ \A e \in entries' : Behind(e.gens) /\ Sound(e.key, e.gens, e.version)
    BY DEF CInv, CTypeOK, NothingAhead, EntriesSound
<1> QED BY <1>1, ReadMoves

LEMMA RestsSoundly ==
    ASSUME CInv, NEW place \in Between
    PROVE  /\ Rest(place) \in Reading
           /\ Rest(place).key = None /\ Rest(place).pc = place /\ Rest(place).todo = {}
           /\ Behind(Rest(place).local) /\ Behind(Rest(place).gens) /\ ReadSound(Rest(place))
<1>1. Behind(Zero) /\ Zero \in Generations
    BY DEF CInv, CTypeOK, Behind, Zero, Generations
<1> QED BY <1>1 DEF Rest, ReadAt, Reading, Places, Between, ReadSound

LEMMA BeginStep ==
    ASSUME CInv, NEW r \in Requests, NEW k \in Keys, Begin(r, k) PROVE CInv'
<1> DEFINE rd == ReadAt("first", k, Zero, Zero, TagsOf[k], 0, 0, FALSE)
<1>1. Goes(r, rd) /\ UNCHANGED entries
    BY DEF Begin
<1>2. Behind(Zero) /\ Zero \in Generations
    BY DEF CInv, CTypeOK, Behind, Zero, Generations
<1>3. rd \in Reading
    BY <1>2, TagsAssumption DEF ReadAt, Reading, Places, Collecting
<1>4. (rd.key = None <=> rd.pc \in Between) /\ rd.pc \in Collecting
    BY NoneAssumption DEF ReadAt, Between, Collecting
<1>5. Behind(rd.local) /\ Behind(rd.gens) /\ ReadSound(rd)
    BY <1>2 DEF ReadAt, ReadSound
<1> QED BY <1>1, <1>3, <1>4, <1>5, ReadMovesOn

LEMMA CollectStep ==
    ASSUME CInv, NEW r \in Requests, NEW t \in Tags, Collect(r, t) PROVE CInv'
<1> DEFINE rd(local, blind) ==
             ReadAt(read[r].pc, read[r].key, local, read[r].gens, read[r].todo \ {t},
                    read[r].value, read[r].floor, blind)
           got == rd([read[r].local EXCEPT ![t] = gen[t]], read[r].blind)
           fell == rd(read[r].local, TRUE)
<1>1. read[r] \in Reading /\ t \in read[r].todo /\ UNCHANGED entries
    BY DEF CInv, CTypeOK, Collect
<1>2. /\ read[r].pc \in Collecting /\ read[r].key \in Keys
      /\ Behind(read[r].local) /\ Behind(read[r].gens) /\ ReadSound(read[r])
    BY <1>1 DEF CInv, CTypeOK, NothingAhead, ReadsSound, Between, Collecting, Reading
<1>3. CASE Goes(r, got)
  <2>1. got.local = [read[r].local EXCEPT ![t] = gen[t]]
      BY DEF ReadAt
  <2>2. got \in Reading
      BY <1>1 DEF ReadAt, Reading, Generations, CInv, CTypeOK
  <2>3. /\ got.pc = read[r].pc /\ got.key = read[r].key /\ got.gens = read[r].gens
        /\ got.value = read[r].value /\ got.floor = read[r].floor /\ got.blind = read[r].blind
        /\ got.todo = read[r].todo \ {t}
      BY DEF ReadAt
  <2>4. Behind(got.local)
      BY <2>1, <1>1, <1>2 DEF Behind, Reading, Generations, CInv, CTypeOK
  <2>5. Noticed(read[r]) => Noticed(got)
    <3> HIDE DEF got
    <3> SUFFICES ASSUME Noticed(read[r]) PROVE Noticed(got)
        OBVIOUS
    <3>1. PICK u \in TagsOf[read[r].key] :
             /\ read[r].gens[u] # gen[u]
             /\ u \in read[r].todo \/ read[r].local[u] # read[r].gens[u]
        BY DEF Noticed
    <3>2. DOMAIN read[r].local = Tags
        BY <1>1 DEF Reading, Generations
    <3>3. CASE u = t
        BY <2>1, <2>3, <3>1, <3>2, <3>3 DEF Noticed
    <3>4. CASE u # t
      <4>1. got.local[u] = read[r].local[u]
          BY <2>1, <3>4, <3>1, <1>2, <3>2, TagsAssumption
      <4> QED BY <2>3, <3>1, <3>4, <4>1 DEF Noticed
    <3> QED BY <3>3, <3>4
  <2>6. ReadSound(got)
      BY <2>3, <2>5, <1>2 DEF ReadSound
  <2> HIDE DEF got
  <2> QED BY <1>1, <1>2, <1>3, <2>2, <2>3, <2>4, <2>6, ReadMovesOn, NoneAssumption DEF Between, Collecting
<1>4. CASE Goes(r, fell)
  <2>1. fell \in Reading
      BY <1>1 DEF ReadAt, Reading
  <2>2. /\ fell.pc = read[r].pc /\ fell.key = read[r].key /\ fell.gens = read[r].gens
        /\ fell.value = read[r].value /\ fell.floor = read[r].floor /\ fell.blind
        /\ fell.local = read[r].local
      BY DEF ReadAt
  <2>3. ReadSound(fell)
      BY <2>2, <1>2 DEF ReadSound
  <2> HIDE DEF fell
  <2> QED BY <1>1, <1>2, <1>4, <2>1, <2>2, <2>3, ReadMovesOn, NoneAssumption DEF Between, Collecting
<1> QED BY <1>3, <1>4 DEF Collect, Gets

LEMMA HitStep ==
    ASSUME CInv, NEW r \in Requests, NEW e \in entries, Hit(r, e) PROVE CInv'
<1> DEFINE rd == ReadAt("recheck", e.key, e.gens, e.gens, TagsOf[e.key], e.version,
                        published[e.key], read[r].blind)
<1>1. Goes(r, rd) /\ UNCHANGED entries
    BY DEF Hit
<1>2. e \in Entry /\ read[r] \in Reading /\ published[e.key] \in Nat /\ TagsOf[e.key] \subseteq Tags
    BY TagsAssumption DEF CInv, CTypeOK, Entry
<1>3. rd \in Reading
    BY <1>2 DEF ReadAt, Reading, Places, Collecting, Entry
<1>4. /\ rd.pc = "recheck" /\ rd.key = e.key /\ rd.local = e.gens /\ rd.gens = e.gens
      /\ rd.value = e.version /\ rd.floor = published[e.key] /\ rd.todo = TagsOf[e.key]
    BY DEF ReadAt
<1>5. Behind(rd.local) /\ Behind(rd.gens)
    BY <1>4 DEF CInv, NothingAhead
<1>6. rd.value >= rd.floor \/ Noticed(rd)
    BY <1>4 DEF CInv, EntriesSound, Sound, Overtaken, Noticed
<1>7. rd.key # None
    BY <1>2, <1>4, NoneAssumption DEF Entry
<1> HIDE DEF rd
<1> QED BY <1>1, <1>3, <1>4, <1>5, <1>6, <1>7, ReadMovesOn DEF Between, Collecting, ReadSound

\* A read that goes to the database, under generations it has in hand.
LEMMA ResolvingStep ==
    ASSUME CInv, NEW r \in Requests, NEW gens \in Generations, Behind(gens),
           Resolving(r, gens), read[r].key # None, UNCHANGED entries
    PROVE  CInv'
<1> DEFINE rd == ReadAt("resolve", read[r].key, read[r].local, gens, {}, 0, 0, read[r].blind)
<1>1. Goes(r, rd) /\ read[r] \in Reading
    BY DEF Resolving, CInv, CTypeOK
<1>2. rd \in Reading
    BY <1>1 DEF ReadAt, Reading, Places
<1>3. /\ rd.pc = "resolve" /\ rd.key # None /\ rd.todo = {}
      /\ rd.local = read[r].local /\ rd.gens = gens
    BY DEF ReadAt
<1>4. Behind(rd.local) /\ Behind(rd.gens)
    BY <1>3 DEF CInv, NothingAhead
<1> HIDE DEF rd
<1> QED BY <1>1, <1>2, <1>3, <1>4, ReadMovesOn DEF Between, ReadSound

LEMMA MissStep ==
    ASSUME CInv, NEW r \in Requests, Miss(r) PROVE CInv'
<1>1. Resolving(r, read[r].local) /\ UNCHANGED entries /\ read[r].pc = "first"
    BY DEF Miss, Collected
<1>2. read[r].local \in Generations /\ Behind(read[r].local) /\ read[r].key # None
    BY <1>1 DEF CInv, CTypeOK, NothingAhead, Reading, Between
<1> QED BY <1>1, <1>2, ResolvingStep

LEMMA RecheckedStep ==
    ASSUME CInv, NEW r \in Requests, Rechecked(r) PROVE CInv'
<1>1. read[r].pc = "recheck" /\ UNCHANGED entries
    BY DEF Rechecked, Collected
<1>2. CASE Answers(r)
    BY <1>1, <1>2, RestsSoundly, ReadMovesOn DEF Answers, Between
<1>3. CASE Resolving(r, read[r].gens)
  <2>1. read[r].gens \in Generations /\ Behind(read[r].gens) /\ read[r].key # None
      BY <1>1 DEF CInv, CTypeOK, NothingAhead, Reading, Between
  <2> QED BY <1>1, <1>3, <2>1, ResolvingStep
<1> QED BY <1>2, <1>3 DEF Rechecked

LEMMA ResolveStep ==
    ASSUME CInv, NEW r \in Requests, Resolve(r) PROVE CInv'
<1> DEFINE k == read[r].key
           rd == ReadAt("verify", k, read[r].local, read[r].gens, TagsOf[k], version[k],
                        published[k], read[r].blind)
<1>1. Goes(r, rd) /\ UNCHANGED entries /\ read[r].pc = "resolve"
    BY DEF Resolve
<1>2. read[r] \in Reading /\ k \in Keys
    BY <1>1 DEF CInv, CTypeOK, Between, Reading
<1>3. version[k] \in Nat /\ published[k] \in Nat /\ published[k] <= version[k]
      /\ TagsOf[k] \subseteq Tags
    BY <1>2, TagsAssumption DEF CInv, CTypeOK, NothingAhead
<1>4. rd \in Reading
    BY <1>2, <1>3 DEF ReadAt, Reading, Places, Collecting
<1>5. /\ rd.pc = "verify" /\ rd.key = k /\ rd.local = read[r].local /\ rd.gens = read[r].gens
      /\ rd.value = version[k] /\ rd.floor = published[k]
    BY DEF ReadAt
<1>6. Behind(rd.local) /\ Behind(rd.gens)
    BY <1>5 DEF CInv, NothingAhead
<1>7. ReadSound(rd)
    BY <1>3, <1>5 DEF ReadSound, Sound
<1> HIDE DEF rd
<1> QED BY <1>1, <1>2, <1>4, <1>5, <1>6, <1>7, NoneAssumption, ReadMovesOn DEF Between, Collecting

LEMMA VerifiedStep ==
    ASSUME CInv, NEW r \in Requests, Verified(r) PROVE CInv'
<1> DEFINE e == EntryOf(r, read[r].gens)
<1>1. read[r].pc = "verify" /\ Goes(r, Rest("idle"))
    BY DEF Verified, Collected, Answers
<1>2. read[r] \in Reading /\ read[r].key \in Keys
    BY <1>1 DEF CInv, CTypeOK, Between, Reading
<1>3. e \in Entry /\ Behind(e.gens) /\ Sound(e.key, e.gens, e.version)
    BY <1>1, <1>2 DEF EntryOf, Entry, Reading, CInv, NothingAhead, ReadsSound, ReadSound
<1>4. entries' \subseteq entries \cup {e}
    BY DEF Verified, Stores
<1>5. /\ entries' \subseteq Entry
      /\ \A d \in entries' : Behind(d.gens) /\ Sound(d.key, d.gens, d.version)
    BY <1>3, <1>4 DEF CInv, CTypeOK, NothingAhead, EntriesSound
<1> QED BY <1>1, <1>5, RestsSoundly, ReadMoves DEF Between

LEMMA FailsStep ==
    ASSUME CInv, NEW r \in Requests, Fails(r) PROVE CInv'
  BY RestsSoundly, ReadMovesOn DEF Fails, Between

-----------------------------------------------------------------------------
(* Writes and invalidations *)

LEMMA CommitStep ==
    ASSUME CInv, NEW k \in Keys, Commit(k) PROVE CInv'
<1>1. version' = [version EXCEPT ![k] = @ + 1]
    BY DEF Commit
<1>2. UNCHANGED <<published, gen, entries, inv, calls, read>>
    BY DEF Commit
<1>3. /\ version' \in [Keys -> Nat]
      /\ \A j \in Keys : version[j] <= version'[j]
    BY <1>1 DEF CInv, CTypeOK
<1>4. CTypeOK'
    BY <1>2, <1>3 DEF CInv, CTypeOK
<1>5. NothingAhead'
  <2>1. \A j \in Keys : published[j] <= version'[j]
      BY <1>3 DEF CInv, CTypeOK, NothingAhead
  <2>2. ASSUME NEW i \in Invalidators, inv[i].key # None
        PROVE  inv[i].upto <= version'[inv[i].key]
    <3>1. /\ inv[i].key \in Keys /\ inv[i].upto \in Nat
          /\ inv[i].upto <= version[inv[i].key]
        BY <2>2 DEF CInv, CTypeOK, NothingAhead
    <3>2. version[inv[i].key] \in Nat /\ version'[inv[i].key] \in Nat
        BY <1>3, <3>1 DEF CInv, CTypeOK
    <3> QED BY <1>3, <3>1, <3>2
  <2> QED BY <1>2, <2>1, <2>2 DEF CInv, NothingAhead, Behind
<1>6. EntriesSound' /\ ReadsSound'
    BY <1>2 DEF CInv, EntriesSound, ReadsSound, ReadSound, Sound, Overtaken, Noticed
<1> QED BY <1>4, <1>5, <1>6 DEF CInv

\* A step of one invalidation that leaves counters and versions alone.
LEMMA InvalidationMoves ==
    ASSUME CInv, NEW i \in Invalidators,
           NEW e \in [key: Keys \cup {None}, upto: Nat, left: SUBSET Tags],
           inv' = [inv EXCEPT ![i] = e], calls' \in Nat,
           version' = version, published' = published, gen' = gen,
           entries' = entries, read' = read,
           e.key = None <=> e.left = {},
           e.key # None => e.upto <= version[e.key] /\ e.left \subseteq TagsOf[e.key]
    PROVE  CInv'
<1>1. /\ inv' \in [Invalidators -> [key: Keys \cup {None}, upto: Nat, left: SUBSET Tags]]
      /\ \A j \in Invalidators : inv'[j] = IF j = i THEN e ELSE inv[j]
    BY DEF CInv, CTypeOK
<1>2. CTypeOK'
    BY <1>1 DEF CInv, CTypeOK
<1>3. NothingAhead'
    BY <1>1 DEF CInv, NothingAhead, Behind
<1>4. EntriesSound' /\ ReadsSound'
    BY DEF CInv, EntriesSound, ReadsSound, ReadSound, Sound, Overtaken, Noticed
<1> QED BY <1>2, <1>3, <1>4 DEF CInv

LEMMA InvalidateTagsStep ==
    ASSUME CInv, NEW i \in Invalidators, NEW k \in Keys, InvalidateTags(i, k) PROVE CInv'
<1> DEFINE e == [key |-> k, upto |-> version[k], left |-> TagsOf[k]]
<1>1. e \in [key: Keys \cup {None}, upto: Nat, left: SUBSET Tags] /\ e.left # {} /\ e.key # None
    BY TagsAssumption, NoneAssumption DEF CInv, CTypeOK
<1>2. e.upto <= version[e.key] /\ e.left \subseteq TagsOf[e.key]
    BY DEF CInv, CTypeOK
<1>3. inv' = [inv EXCEPT ![i] = e] /\ calls' \in Nat
    BY DEF InvalidateTags, CInv, CTypeOK
<1>4. UNCHANGED <<version, published, gen, entries, read>>
    BY DEF InvalidateTags
<1> HIDE DEF e
<1> QED BY <1>1, <1>2, <1>3, <1>4, InvalidationMoves

LEMMA AbandonStep ==
    ASSUME CInv, NEW i \in Invalidators, Abandon(i) PROVE CInv'
<1>1. /\ NoInvalidation \in [key: Keys \cup {None}, upto: Nat, left: SUBSET Tags]
      /\ NoInvalidation.key = None /\ NoInvalidation.left = {}
    BY DEF NoInvalidation
<1>2. inv' = [inv EXCEPT ![i] = NoInvalidation] /\ calls' \in Nat
    BY DEF Abandon, CInv, CTypeOK
<1>3. UNCHANGED <<version, published, gen, entries, read>>
    BY DEF Abandon
<1> QED BY <1>1, <1>2, <1>3, InvalidationMoves

\* When a counter moves on, whoever has not seen it stays behind, what was
\* overtaken stays so and what would be noticed will be.
LEMMA CountersMoveOn ==
    ASSUME CInv, NEW t \in Tags, gen' = [gen EXCEPT ![t] = @ + 1]
    PROVE  /\ gen' \in Generations
           /\ \A g \in Generations : Behind(g) => Behind(g)' /\ g[t] # gen'[t]
           /\ \A g \in Generations, k \in Keys :
                 Behind(g) /\ Overtaken(k, g) => Overtaken(k, g)'
<1>1. gen \in Generations
    BY DEF CInv, CTypeOK
<1>2. gen' \in Generations /\ \A u \in Tags : gen'[u] = IF u = t THEN gen[u] + 1 ELSE gen[u]
    BY <1>1 DEF Generations
<1>3. ASSUME NEW g \in Generations, Behind(g) PROVE Behind(g)' /\ g[t] # gen'[t]
    BY <1>1, <1>2, <1>3 DEF Behind, Generations
<1>4. ASSUME NEW g \in Generations, NEW k \in Keys, Behind(g), Overtaken(k, g)
      PROVE  Overtaken(k, g)'
    BY <1>1, <1>2, <1>4, TagsAssumption DEF Behind, Overtaken, Generations
<1> QED BY <1>2, <1>3, <1>4

LEMMA AdvanceStep ==
    ASSUME CInv, NEW i \in Invalidators, NEW t \in Tags, Advance(i, t) PROVE CInv'
<1> DEFINE k == inv[i].key
<1>1. gen' = [gen EXCEPT ![t] = @ + 1]
    BY DEF Advance
<1>2. UNCHANGED <<version, entries, calls, read>>
    BY DEF Advance
<1>3. t \in inv[i].left /\ k \in Keys /\ inv[i].upto \in Nat /\ inv[i].upto <= version[k]
      /\ t \in TagsOf[k]
    BY DEF Advance, CInv, CTypeOK, NothingAhead
<1>4. /\ published' \in [Keys -> Nat]
      /\ \A j \in Keys : published'[j] <= version[j]
      /\ \A j \in Keys : published'[j] = published[j] \/ j = k
    BY <1>3 DEF Advance, CInv, CTypeOK, NothingAhead, Later
<1>5. /\ inv' \in [Invalidators -> [key: Keys \cup {None}, upto: Nat, left: SUBSET Tags]]
      /\ \A j \in Invalidators : inv'[j].key = None <=> inv'[j].left = {}
      /\ \A j \in Invalidators : inv'[j].key # None =>
            inv'[j].upto <= version[inv'[j].key] /\ inv'[j].left \subseteq TagsOf[inv'[j].key]
  <2>1. CASE inv[i].left = {t}
    <3>1. inv' = [inv EXCEPT ![i] = NoInvalidation]
        BY <2>1 DEF Advance
    <3> QED BY <3>1 DEF NoInvalidation, CInv, CTypeOK, NothingAhead
  <2>2. CASE inv[i].left # {t}
    <3>1. inv' = [inv EXCEPT ![i].left = @ \ {t}]
        BY <2>2 DEF Advance
    <3>2. inv[i].left \ {t} # {}
        BY <1>3, <2>2
    <3>3. /\ inv'[i].key = k /\ inv'[i].upto = inv[i].upto /\ inv'[i].left = inv[i].left \ {t}
          /\ \A j \in Invalidators \ {i} : inv'[j] = inv[j]
          /\ inv' \in [Invalidators -> [key: Keys \cup {None}, upto: Nat, left: SUBSET Tags]]
        BY <3>1 DEF CInv, CTypeOK
    <3> QED BY <1>3, <3>2, <3>3, NoneAssumption DEF CInv, CTypeOK, NothingAhead
  <2> QED BY <2>1, <2>2
<1>6. /\ gen' \in Generations
      /\ \A g \in Generations : Behind(g) => Behind(g)' /\ g[t] # gen'[t]
      /\ \A g \in Generations, j \in Keys : Behind(g) /\ Overtaken(j, g) => Overtaken(j, g)'
    BY <1>1, CountersMoveOn
<1>7. CTypeOK'
    BY <1>2, <1>4, <1>5, <1>6 DEF CInv, CTypeOK
<1>8. NothingAhead'
    BY <1>2, <1>4, <1>5, <1>6 DEF CInv, CTypeOK, NothingAhead, Entry, Reading
\* The only key that has more published is the one every vector now lags behind.
<1>9. ASSUME NEW j \in Keys, NEW g \in Generations, NEW v \in Nat, Behind(g), Sound(j, g, v)
      PROVE  Sound(j, g, v)'
  <2>1. CASE j = k
      BY <1>3, <1>6, <1>9, <2>1 DEF Sound, Overtaken
  <2>2. CASE j # k
      BY <1>4, <1>6, <1>9, <2>2 DEF Sound
  <2> QED BY <2>1, <2>2
<1>10. EntriesSound'
    BY <1>2, <1>9 DEF CInv, CTypeOK, NothingAhead, EntriesSound, Entry
<1>11. ReadsSound'
  <2> SUFFICES ASSUME NEW r \in Requests PROVE ReadSound(read[r])'
      BY DEF ReadsSound
  <2>1. read[r] \in Reading /\ Behind(read[r].gens) /\ ReadSound(read[r])
      BY DEF CInv, CTypeOK, NothingAhead, ReadsSound
  <2>2. ASSUME read[r].pc = "verify"
        PROVE  Sound(read[r].key, read[r].gens, read[r].value)'
      BY <1>9, <2>1, <2>2, <1>2 DEF ReadSound, CInv, CTypeOK, Reading, Between
  <2>3. ASSUME read[r].key \in Keys, Noticed(read[r]) PROVE Noticed(read[r])'
    <3>1. PICK u \in TagsOf[read[r].key] :
             /\ read[r].gens[u] # gen[u]
             /\ u \in read[r].todo \/ read[r].local[u] # read[r].gens[u]
        BY <2>3 DEF Noticed
    <3>2. read[r].gens[u] # gen'[u]
        BY <1>1, <2>1, <2>3, <3>1, TagsAssumption
           DEF Behind, Reading, Generations, CInv, CTypeOK
    <3> QED BY <1>2, <3>1, <3>2 DEF Noticed
  <2>4. read[r].pc = "recheck" => read[r].key \in Keys
      BY <2>1 DEF CInv, CTypeOK, Reading, Between
  <2> QED BY <1>2, <2>1, <2>2, <2>3, <2>4 DEF ReadSound
<1> QED BY <1>7, <1>8, <1>10, <1>11 DEF CInv

LEMMA CInvKept == CInv /\ [CNext]_cvars => CInv'
<1> SUFFICES ASSUME CInv, [CNext]_cvars PROVE CInv'
    OBVIOUS
<1>1. ASSUME NEW k \in Keys, Commit(k) PROVE CInv'
    BY <1>1, CommitStep
<1>2. ASSUME NEW i \in Invalidators, Invalidates(i) PROVE CInv'
    BY <1>2, InvalidateTagsStep, AdvanceStep, AbandonStep DEF Invalidates
<1>3. ASSUME NEW r \in Requests, Reads(r) PROVE CInv'
    BY <1>3, BeginStep, CollectStep, HitStep, MissStep, RecheckedStep, ResolveStep,
       VerifiedStep, FailsStep DEF Reads
<1>4. CASE UNCHANGED cvars
  <2>1. UNCHANGED <<version, published, gen, entries, inv, calls, read>>
      BY <1>4 DEF cvars
  <2> QED BY <2>1 DEF CInv, CTypeOK, NothingAhead, Behind, EntriesSound, ReadsSound, ReadSound,
                      Sound, Overtaken, Noticed
<1> QED BY <1>1, <1>2, <1>3, <1>4 DEF CNext

-----------------------------------------------------------------------------
LEMMA CInvAlways == CSpec => []CInv
  BY Start, CInvKept, PTL DEF CSpec

\* Counters, entries, invalidations and reads keep their types.
THEOREM CacheTyped == CSpec => []CTypeOK
  BY CInvAlways, PTL DEF CInv

\* An entry that can be found holds what the last published write made, or
\* something later.
THEOREM EntriesAreFenced == CSpec => []EntriesFenced
<1>1. CInv => EntriesFenced
  <2> SUFFICES ASSUME CInv, NEW e \in entries, Current(e) PROVE e.version >= published[e.key]
      BY DEF EntriesFenced
  <2> QED BY DEF CInv, EntriesSound, Sound, Overtaken, Current
<1> QED BY <1>1, CInvAlways, PTL

\* A read that trusts no generation it remembered is as fresh as what was
\* published when it went for its value.
THEOREM ReadsAreFresh == CSpec => FreshReads
<1> DEFINE Fresh(r) ==
        read[r].pc \in {"recheck", "verify"} /\ read'[r].pc = "idle" /\ ~read[r].blind
            => read[r].value >= read[r].floor
<1>1. ASSUME CInv, [CNext]_cvars PROVE [\A r \in Requests : Fresh(r)]_cvars
  <2> SUFFICES ASSUME NEW r \in Requests, read[r].pc = "recheck", read'[r].pc = "idle",
                      ~read[r].blind
               PROVE  read[r].value >= read[r].floor
      BY <1>1 DEF CInv, ReadsSound, ReadSound
  <2>1. read'[r] # read[r]
      OBVIOUS
  <2>2. PICK q \in Requests : Reads(q)
      BY <1>1, <2>1 DEF CNext, cvars, Commit, Invalidates, InvalidateTags, Advance, Abandon
  <2>3. PICK rd : Goes(q, rd)
      BY <2>2 DEF Reads, Begin, Collect, Gets, Hit, Miss, Resolving, Rechecked, Answers,
                  Resolve, Verified, Fails
  <2>4. q = r
      BY <1>1, <2>1, <2>3 DEF Goes, CInv, CTypeOK
  <2>5. ASSUME NEW d, Goes(r, d) PROVE d.pc = "idle"
      BY <1>1, <2>5 DEF Goes, CInv, CTypeOK
  <2>6. read[r].local = read[r].gens /\ read[r].todo = {}
    <3>1. ~(\E k \in Keys : Begin(r, k)) /\ ~(\E e \in entries : Hit(r, e))
        BY DEF Begin, Between, Hit, Collected
    <3>2. ~Miss(r) /\ ~Resolve(r) /\ ~Verified(r)
        BY DEF Miss, Resolve, Verified, Collected
    <3>3. ~(\E t \in Tags : Collect(r, t))
      <4>1. ASSUME NEW local, NEW todo, NEW blind PROVE ~Gets(r, local, todo, blind)
        <5> DEFINE d == ReadAt(read[r].pc, read[r].key, local, read[r].gens, todo,
                               read[r].value, read[r].floor, blind)
        <5>1. d.pc # "idle"
            BY DEF ReadAt
        <5>2. ~Goes(r, d)
            BY <2>5, <5>1
        <5> QED BY <5>2 DEF Gets
      <4> QED BY <4>1 DEF Collect
    <3>4. ~Fails(r)
        BY <2>5 DEF Fails, Rest, ReadAt
    <3>5. ~Resolving(r, read[r].gens)
        BY <2>5 DEF Resolving, ReadAt
    <3>6. Rechecked(r)
        BY <2>2, <2>4, <3>1, <3>2, <3>3, <3>4 DEF Reads
    <3> QED BY <3>5, <3>6 DEF Rechecked, Collected
  <2>7. ~Noticed(read[r])
      BY <2>6 DEF Noticed
  <2> QED BY <1>1, <2>7 DEF CInv, ReadsSound, ReadSound
<1> QED BY <1>1, CInvAlways, PTL DEF CSpec, FreshReads
=============================================================================

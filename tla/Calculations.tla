----------------------------- MODULE Calculations -----------------------------
(* The library's pure calculations: a caller asks, one call after another,    *)
(* and every answer is compared with what it should be.  Each question is one *)
(* call's arguments; the answers are the operators of the modules below.  The *)
(* one question with a course of its own is that of a rate limit, answered    *)
(* when all the requests of a situation are (RateLimits).                     *)
EXTENDS PolicyDecisions, EntityDefinitions, StoreStatements

CONSTANTS
    FieldValues,         \* the values each field of the catalog can have
    Trees,               \* predicates asked about
    PolicySets,          \* policies a provider may resolve, set by set
    Modes,               \* the modes a bundle is asked for
    Contexts,            \* callers' contexts
    Times,               \* times a bundle is asked at
    RowTables, RowCalls, \* the rows a repository may find, and the calls of it
    Databases, Plans,    \* what a batch may find, and the batches
    ReadTables, ReadCallers, ReadEntities, ReadQueries,
                         \* the rows a reader may find, the readers, what is read
    MinutesInHour, HoursInDay, DaysInWeek, Dates,
                         \* the clock and the calendar
    Expressions, Places, Starts, Spans
                         \* cron expressions, where and from when on they are
                         \* asked about, for how long and how many

Scoped == INSTANCE ScopedPersistence
Reads == INSTANCE ReadHandlers
Cron == INSTANCE CronCalculator

ASSUME StoreCallsAssumption == CallsAreMade

\* Every record of the entity.
Records == {r \in [DOMAIN FieldTypes -> UNION {FieldValues[f] : f \in DOMAIN FieldTypes}] :
               \A f \in DOMAIN FieldTypes : r[f] \in FieldValues[f]}

AnySituation == CHOOSE s \in Situations : TRUE

CalculationsInit == question = NoQuestion /\ storeCall = Unasked /\ LInit /\ asks = AnySituation

Idle == question = NoQuestion /\ storeCall = Unasked
Ask(subject) == question' = subject /\ UNCHANGED <<storeCall, lvars>>

AskPredicate == Idle /\ \E p \in Trees : Ask([subject |-> "predicate", predicate |-> p])

AskBundle ==
    Idle /\ \E policies \in PolicySets, mode \in Modes, context \in Contexts, at \in Times :
        Ask([subject |-> "bundle", policies |-> SetToSeq(policies),
             mode |-> mode, context |-> context, at |-> at])

AskJobStore == Idle /\ CallJobStore /\ UNCHANGED <<question, lvars>>
AskScheduleStore == Idle /\ CallScheduleStore /\ UNCHANGED <<question, lvars>>
AskIdempotencyStore == Idle /\ CallIdempotencyStore /\ UNCHANGED <<question, lvars>>

AskRepository ==
    Idle /\ \E table \in RowTables, call \in RowCalls : Ask([subject |-> "rows", table |-> table, call |-> call])

AskBatch ==
    Idle /\ \E database \in Databases, plan \in Plans : Ask([subject |-> "batch", database |-> database, call |-> plan])

AskRead ==
    Idle /\ \E table \in ReadTables, caller \in ReadCallers, entity \in ReadEntities, query \in ReadQueries :
        Ask([subject |-> "reads", table |-> table, caller |-> caller, entity |-> entity, query |-> query])

AskDefinition == Idle /\ Define /\ UNCHANGED <<storeCall, lvars>>
AskBinding == Idle /\ Bind /\ UNCHANGED <<storeCall, lvars>>

AskOccurrence ==
    Idle /\ \E fields \in Expressions, place \in Places, after \in Starts, span \in Spans :
        Ask([subject |-> "occurrence", fields |-> fields, place |-> place, after |-> after, span |-> span])

AskLimit ==
    Idle /\ \E s \in Situations :
        /\ question' = [subject |-> "limit"] /\ asks' = s
        /\ UNCHANGED <<storeCall, clock, bucket, loose, progress>>

Limiting == question.subject = "limit" /\ UNCHANGED <<question, storeCall>>

LimitReject == Limiting /\ \E r \in Requests : Reject(r)
LimitIncrement == Limiting /\ \E r \in Requests : IncrementAtomically(r)
LimitIncrementFails == Limiting /\ \E r \in Requests : IncrementFails(r)
LimitRead == Limiting /\ \E r \in Requests : ReadBucket(r)
LimitWrite == Limiting /\ \E r \in Requests : WriteBucket(r)
LimitWriteFails == Limiting /\ \E r \in Requests : WriteFails(r)
LimitTick == Limiting /\ Tick
LimitForget == Limiting /\ \E k \in RateKeys : Forget(k)

Answered ==
    /\ ~Idle
    /\ question.subject = "limit" => \A r \in Requests : progress[r].pc \in Answers
    /\ question' = NoQuestion /\ storeCall' = Unasked
    /\ clock' = 0 /\ asks' = AnySituation /\ loose' = {}
    /\ bucket' = [k \in RateKeys |-> NoBucket] /\ progress' = [r \in Requests |-> Arriving]

CalculationsNext ==
    \/ AskPredicate \/ AskBundle
    \/ AskJobStore \/ AskScheduleStore \/ AskIdempotencyStore
    \/ AskRepository \/ AskBatch \/ AskRead
    \/ AskDefinition \/ AskBinding \/ AskOccurrence
    \/ AskLimit \/ LimitReject \/ LimitIncrement \/ LimitIncrementFails
    \/ LimitRead \/ LimitWrite \/ LimitWriteFails \/ LimitTick \/ LimitForget
    \/ Answered

CalculationsSpec == CalculationsInit /\ [][CalculationsNext]_<<question, storeCall, lvars>>

-----------------------------------------------------------------------------
(* Properties *)

RECURSIVE Negated(_)
Negated(p) ==
    \/ p.kind = "not"
    \/ p.kind \in {"and", "or"} /\ \E i \in DOMAIN p.filters : Negated(p.filters[i])

\* A database that compares texts its own way has some to compare.
TextTells(collation, p) ==
    \E c \in ConditionsOf(p) :
        \/ collation # "exact" /\ c.op \in TextOps
        \/ collation = "folding" /\ c.op \in {"eq", "neq", "in"}
              /\ "string" \in {c.value.from.t} \cup {c.value.list[i].t : i \in DOMAIN c.value.list}

\* What SQL makes of a predicate, as memory would read it: a comparison that is
\* unknown of the row is false, also where it is negated.
RECURSIVE Settled(_, _)
Settled(r, p) ==
    CASE p.kind = "condition" -> IF EvaluateCondition(r, p) = "unknown" THEN Literal(FALSE) ELSE p
      [] p.kind \in {"and", "or"} -> [p EXCEPT !.filters = [i \in DOMAIN @ |-> Settled(r, @[i])]]
      [] p.kind = "not" -> Not(Settled(r, p.filter))
      [] OTHER -> p

\* A predicate selects in a database the rows it matches in memory
\* (predicateCompiler.ts and evaluatePredicate.ts), nulls included, but for two
\* things: a negation of what is unknown of a row is true in SQL and unknown in
\* memory, and some databases do not mind the case of texts, by which a predicate
\* without negations then selects more rows by LIKE, never fewer.  Simplifying
\* a predicate changes neither (predicateSimplifier.ts).
PredicatesSound ==
    question.subject = "predicate" =>
        LET p == question.predicate
            simplified == SimplifyPredicate(p)
        IN  \A r \in Records :
                /\ EvaluatePredicateTruth(r, simplified) = EvaluatePredicateTruth(r, p)
                /\ ~Negated(p) => (EvaluatePredicate(r, p) <=> EvaluatePredicate(r, Settled(r, p)))
                /\ \A collation \in Collations :
                      /\ Selects(collation, r, simplified) <=> Selects(collation, r, p)
                      /\ ~TextTells(collation, p) =>
                            (Selects(collation, r, p) <=> EvaluatePredicate(r, Settled(r, p)))
                /\ ~Negated(p) /\ EvaluatePredicate(r, p) => Selects("like", r, p)

\* A policy's conditions look for no part of a text, so PostgreSQL and D1 read
\* them alike; MySQL does under a collation that minds the case.
Strict == Collations \ {"folding"}

Bundle == CreateAbacBundle(question.policies, question.mode, question.context, question.at)

FailsClosed(bundle) ==
    bundle.made =>
        /\ \A i \in DOMAIN question.policies :
              IsActive(question.policies[i], question.at) =>
                  \E j \in DOMAIN bundle.policies : bundle.policies[j].header = question.policies[i]
        /\ \A j \in DOMAIN bundle.policies :
              LET p == bundle.policies[j].compiled
              IN  /\ \A c \in ConditionsOf(p) :
                        c.value.from.t \in {"null", "undefined", FieldTypes[c.field]} /\ c.value.from # Text(UndefinedWord)
                  /\ \A r \in Records, collation \in Strict : Selects(collation, r, p) <=> EvaluatePredicate(r, p)

\* A bundle is made of all the policies there are or of none: no policy that is
\* in its window is missing (abacBundleFactory.ts), whoever it denies, each
\* condition compares values of its field's type, an attribute the caller lacks
\* is compared with nothing, and a database reads it as memory does.
BundlesFailClosed ==
    question.subject = "bundle" => FailsClosed(Bundle)

ScopeDecides(bundle, action, scope, collection) ==
    /\ \A r \in Records :
          LET allowed == Tiers!RecordAction(TierPolicies(bundle.policies), action, r)
          IN  /\ \A collation \in Strict :
                    /\ Selects(collation, r, scope) <=> allowed
                    /\ Selects(collation, r, SimplifyPredicate(scope)) <=> allowed
              /\ allowed => collection
    /\ collection <=> Tiers!CollectionAllowed(TierPolicies(bundle.policies), action)
ScopesDecide(bundle) ==
    bundle.made =>
        \A action \in CatalogActions :
            ScopeDecides(bundle, action, BuildActionScope(bundle.policies, action),
                         CollectionAllowed(bundle.policies, action))

\* The rows a query is given for an action are those the tiers allow one by one
\* (abacReadScope.ts and abacDecision.ts), also where a condition is unknown of
\* a row, simplified or not; and a collection is refused outright only when no
\* row of it would be allowed, which its tiers tell without the scope.
ScopeIsDecision ==
    question.subject = "bundle" => ScopesDecide(Bundle)

\* The three databases give one call the same answer and leave the same rows
\* (drizzle-pg, drizzle-mysql and drizzle-d1), but where their sources differ:
\* D1 claims a schedule whose lease is null or ends now; with required history
\* PostgreSQL reports a transition applied that met no row, with history of it,
\* and can cancel nothing; MySQL knows no required history; in an insert
\* without a primary key, an update that names the version, what becomes of a
\* driver's error, and filters that tell texts apart by their case.
DialectsAgree ==
    /\ storeCall.subject = "jobs" => JobsAgree(storeCall.table, storeCall.call)
    /\ storeCall.subject = "schedules" => SchedulesAgree(storeCall.table, storeCall.call)
    /\ storeCall.subject = "keys" => KeysAgree(storeCall.table, storeCall.call)
    /\ question.subject = "rows" => Scoped!RepositoriesAgree(question.table, question.call)

\* Everybody is kept to what is their own: on every database a requester of the
\* job store is told of, claims and cancels the jobs of its scope and tenant
\* alone, as if there were no others (requesterFilters); only the live jobs of
\* a partition hold back its others whosever they are; and a repository that
\* is scoped to a tenant (createTenantScopedPersistenceProvider) reads, changes
\* and answers the tenant's rows alone, also when its adapter leaks on reads.
\* A list or a detail tells a reader of rows its policies and its tenant let it
\* read alone, and whoever shares its cached answer would have been given the
\* same (deriveSecurityCachePartition).
TenantsApart ==
    /\ storeCall.subject = "jobs" => RequestersApart(storeCall.table, storeCall.call)
    /\ question.subject = "rows" => Scoped!TenantApart(question.table, question.call)
    /\ question.subject = "reads" =>
        Reads!ReadsApart(question.table, question.caller, ReadCallers, question.entity, question.query)

RowHidden(r, response, matched) ==
    LET naming(f) == {p \in matched : f \in DOMAIN p.header.read}
        top(ps) == {p \in ps : \A q \in ps : q.header.priority <= p.header.priority}
        shown(f) == f \in DOMAIN response /\ response[f] = r[f]
    IN  \A f \in DOMAIN r :
          /\ \A p \in top(naming(f)) :
                /\ ModeOf(p, f) = "omit" => f \notin DOMAIN response
                /\ ModeOf(p, f) = "mask" => ~shown(f) \/ r[f] = Null
          /\ naming(f) = {} /\ (\E p \in matched : p.header.effect = "allow") => f \notin DOMAIN response
FieldsHidden(bundle) ==
    bundle.made =>
        \A r \in Records :
            RowHidden(r, ProjectResponseRecord(r, ResolveFieldReadOverrides(bundle.policies, r)),
                      ToSet(ReadMatches(bundle.policies, r)))

\* What a reader's policies hide of a row stays hidden.  Nobody is given more of
\* it than they let: of the matching policies that name a field, the strictest
\* of the highest priority hides it at least as well as they say, and a field no
\* policy names is hidden once a policy allows by a list (fieldAccess.ts).  Nor
\* does asking tell: rows that differ only in a field hidden of them give one
\* answer to every filter, search, sort, page and count, also when a hook
\* enriches them (list.ts, filterInterop.ts); a field a policy's condition tells
\* of, or the entity's own sort or scope, is told of by the rows themselves.
HiddenStaysHidden ==
    /\ question.subject = "bundle" => FieldsHidden(Bundle)
    /\ question.subject = "reads" =>
        Reads!QueriesBlind(question.table, question.caller, question.entity, question.query)

\* On every database a row of a versioned entity changes only for those who
\* know its version, an operation on one row changes one at most, and what was
\* refused changed nothing, whatever others write between its statements; and a
\* batch of D1 is executed as a whole, for its tenant (executeAtomicBatch).
WritesGuarded ==
    /\ question.subject = "rows" => Scoped!WritesGuarded(question.table, question.call)
    /\ question.subject = "batch" =>
          Scoped!BatchWhole(question.database, question.call.items, question.call.tenant,
                            question.call.late, question.call.maxBatchItems)

\* A schedule is due at the instants its expression stands for where it is
\* kept, each once and in their order: none is passed over or taken twice when
\* the offset changes between them (scheduleCalculator.ts); and the occurrences
\* a dispatcher is to catch up on are the earliest of them.
OccurrencesFirst ==
    question.subject = "occurrence" =>
        /\ Cron!NextIsFirst(question.fields, question.after, question.place)
        /\ Cron!OccurrencesAreSet(question.fields, question.after, question.after + question.span.length,
                                  question.span.count, question.place)
=============================================================================

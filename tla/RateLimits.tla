------------------------------- MODULE RateLimits -------------------------------
(***************************************************************************)
(* Fixed windows over a shared store: rateLimit.ts decides whether a call  *)
(* is admitted from the bucket its increment leaves, cacheBackedRate-      *)
(* LimitStore.ts increments it, in one operation of the backend or by      *)
(* reading and writing back, and the read and write handlers choose the    *)
(* key, the store and the consistency.  Several requests are under way at  *)
(* once, the store fails before or after it has counted, and what it keeps *)
(* may be lost (clear(), a restart, an eviction).                          *)
(***************************************************************************)
EXTENDS Integers, FiniteSets

CONSTANTS
    Requests,
    Calls,          \* what a request may ask: [route, caller]
    Situations,     \* what the requests of a behaviour ask
    UnitLength,     \* the length of each unit of time
    MaxTime         \* bound on the clock

Consistencies == {"atomic", "best-effort"}

ASSUME RequestsAssumption == IsFiniteSet(Requests)
\* A module's action is one route, of one configuration.
ASSUME SituationsAssumption ==
    /\ Situations \subseteq [Requests -> Calls]
    /\ \A s \in Situations : \A r, q \in Requests :
          s[r].route.action = s[q].route.action => s[r].route = s[q].route
ASSUME CallsAssumption ==
    \A c \in Calls : c.route.max \in Int /\ c.route.window.count \in Int
ASSUME UnitsAssumption == UnitLength \in [{"second", "minute", "hour"} -> Nat \ {0}]
ASSUME TimeAssumption == MaxTime \in Nat

VARIABLES
    clock,
    asks,          \* what each request asks
    bucket,         \* the bucket kept under each key
    loose,          \* the keys of which a count was lost
    progress        \* how far each request has come

lvars == <<clock, asks, bucket, loose, progress>>

-----------------------------------------------------------------------------
(* The call *)

First(a, b) == IF a # "none" THEN a ELSE b

\* parseTimeWindowMs; 0 stands for a window it refuses.
ParseTimeWindowMs(window) ==
    CASE window.form = "number" /\ window.count > 0 -> window.count
      [] window.form = "text" /\ window.count > 0 /\ window.unit \in DOMAIN UnitLength ->
            window.count * UnitLength[window.unit]
      [] OTHER -> 0

\* What the handlers, and a direct caller, pass on.
RateLimitConsistency(route) ==
    IF route.kind = "write" THEN First(route.consistency, First(route.configured, "atomic"))
    ELSE route.consistency

Conflicting(route) ==
    /\ route.policy # "none" /\ RateLimitConsistency(route) # "none"
    /\ route.policy # RateLimitConsistency(route)

ResolveConsistency(route) == First(RateLimitConsistency(route), First(route.policy, "atomic"))

\* Namespaced by module and action, whatever the custom key is.
RateKeyUnder(action, call) ==
    LET c == call.caller
        tenant == IF c.tenant = "none" THEN "platform" ELSE c.tenant
        key(scope, owner, custom, actor, ip) ==
            [scope |-> scope, tenant |-> owner, action |-> action,
             custom |-> custom, actor |-> actor, ip |-> ip]
    IN  CASE call.route.kind = "read" /\ c.actor = "none" -> key("public", "global", "none", "none", c.ip)
          [] call.route.kind # "read" /\ c.custom # "none" ->
                key(call.route.scope, tenant, c.custom, "none", "none")
          [] OTHER -> key(call.route.scope, tenant, "none", c.actor, c.ip)

RateKeyOfAnyAction(call) == RateKeyUnder("any", call)
RateKey(call) == RateKeyUnder(call.route.action, call)

RateKeys == {RateKey(c) : c \in Calls}

\* What a call is answered before a store is asked anything, "none" if nothing.
Refusal(route) ==
    LET atomic == ResolveConsistency(route) = "atomic"
    IN  CASE ~atomic /\ ~route.cache /\ route.kind # "direct" -> "ConfigurationError"
          [] atomic /\ route.store = "none" -> "ConfigurationError"
          [] route.max <= 0 -> "ValidationError"
          [] ParseTimeWindowMs(route.window) = 0 -> "ValidationError"
          [] Conflicting(route) -> "ValidationError"
          [] atomic /\ route.store = "plain" -> "RuntimeCapabilityError"
          [] OTHER -> "none"

KeyOf(r) == RateKey(asks[r])
RouteOf(r) == asks[r].route
Limit(r) == RouteOf(r).max
Window(r) == ParseTimeWindowMs(RouteOf(r).window)
Consistency(r) == ResolveConsistency(RouteOf(r))

-----------------------------------------------------------------------------
(* The state *)

Bucket == [count: Nat, resetAt: Nat]
NoBucket == [count |-> 0, resetAt |-> 0]

Answers == {"admitted", "refused", "unmetered", "StoreError", "ConfigurationError",
            "ValidationError", "RuntimeCapabilityError"}

At(pc, now, seen, counted) == [pc |-> pc, now |-> now, seen |-> seen, counted |-> counted]
Arriving == At("arriving", 0, NoBucket, NoBucket)

LTypeOK ==
    /\ clock \in Nat
    /\ asks \in [Requests -> Calls]
    /\ bucket \in [RateKeys -> Bucket]
    /\ loose \subseteq RateKeys
    /\ progress \in [Requests -> [pc: {"arriving", "incrementing"} \cup Answers, now: Nat,
                                  seen: Bucket, counted: Bucket]]

LInit ==
    /\ clock = 0
    /\ asks \in Situations
    /\ bucket = [k \in RateKeys |-> NoBucket]
    /\ loose = {}
    /\ progress = [r \in Requests |-> Arriving]

IncrementedAtTheEnd(found, now, window) ==
    IF found.resetAt >= now
    THEN [count |-> found.count + 1, resetAt |-> found.resetAt]
    ELSE [count |-> 1, resetAt |-> now + window]

\* The bucket an increment leaves, of one found at a time.
Incremented(found, now, window) ==
    IF found.resetAt > now
    THEN [count |-> found.count + 1, resetAt |-> found.resetAt]
    ELSE [count |-> 1, resetAt |-> now + window]

VerdictZeroBased(count, limit) == IF count - 1 <= limit THEN "admitted" ELSE "refused"
Verdict(count, limit) == IF count <= limit THEN "admitted" ELSE "refused"

OnFailureOfAny(r) == IF RouteOf(r).failureMode = "fail-open" THEN "unmetered" ELSE "StoreError"

\* A failing store denies, unless the route asked for the contrary, and counts
\* without the primitive.
OnFailure(r) ==
    IF RouteOf(r).failureMode = "fail-open" /\ Consistency(r) = "best-effort"
    THEN "unmetered" ELSE "StoreError"

-----------------------------------------------------------------------------
(* The steps *)

Answer(r, answer, now, counted) ==
    progress' = [progress EXCEPT ![r] = At(answer, now, NoBucket, counted)]

Reject(r) ==
    /\ progress[r].pc = "arriving" /\ Refusal(RouteOf(r)) # "none"
    /\ Answer(r, Refusal(RouteOf(r)), clock, NoBucket)
    /\ UNCHANGED <<clock, asks, bucket, loose>>

Enters(r, consistency) ==
    progress[r].pc = "arriving" /\ Refusal(RouteOf(r)) = "none" /\ Consistency(r) = consistency

\* incrementAtomically, and the decision on the bucket it returns, which a
\* failure may keep from the caller.  A store over an adapter without the
\* primitive throws.
IncrementAtomically(r) ==
    /\ Enters(r, "atomic") /\ RouteOf(r).store = "adapter"
    /\ LET b == Incremented(bucket[KeyOf(r)], clock, Window(r))
       IN  /\ bucket' = [bucket EXCEPT ![KeyOf(r)] = b]
           /\ \E answer \in {Verdict(b.count, Limit(r)), OnFailure(r)} : Answer(r, answer, clock, b)
    /\ UNCHANGED <<clock, asks, loose>>

IncrementFails(r) ==
    /\ Enters(r, "atomic")
    /\ Answer(r, OnFailure(r), clock, NoBucket)
    /\ UNCHANGED <<clock, asks, bucket, loose>>

\* increment of CacheBackedRateLimitStore: the time, the bucket, and then, once
\* the cache has answered, the bucket written back.
ReadBucket(r) ==
    /\ Enters(r, "best-effort")
    /\ \/ progress' = [progress EXCEPT ![r] =
              At("incrementing", clock, bucket[KeyOf(r)], NoBucket)]
       \/ Answer(r, OnFailure(r), clock, NoBucket)
    /\ UNCHANGED <<clock, asks, bucket, loose>>

WriteBucket(r) ==
    /\ progress[r].pc = "incrementing"
    /\ LET k == KeyOf(r)
           b == Incremented(progress[r].seen, progress[r].now, Window(r))
       IN  /\ bucket' = [bucket EXCEPT ![k] = b]
           /\ loose' = IF bucket[k] = progress[r].seen THEN loose ELSE loose \cup {k}
           /\ \E answer \in {Verdict(b.count, Limit(r)), OnFailure(r)} : Answer(r, answer, progress[r].now, b)
    /\ UNCHANGED <<clock, asks>>

WriteFails(r) ==
    /\ progress[r].pc = "incrementing"
    /\ Answer(r, OnFailure(r), clock, NoBucket)
    /\ UNCHANGED <<clock, asks, bucket, loose>>

Tick ==
    /\ clock < MaxTime
    /\ clock' = clock + 1
    /\ UNCHANGED <<asks, bucket, loose, progress>>

\* clear(), a restart of the process, an entry evicted or expired early.
Forget(k) ==
    /\ bucket[k] # NoBucket
    /\ bucket' = [bucket EXCEPT ![k] = NoBucket]
    /\ loose' = loose \cup {k}
    /\ UNCHANGED <<clock, asks, progress>>

LNext ==
    \/ \E r \in Requests :
          \/ Reject(r) \/ IncrementAtomically(r) \/ IncrementFails(r)
          \/ ReadBucket(r) \/ WriteBucket(r) \/ WriteFails(r)
    \/ Tick
    \/ \E k \in RateKeys : Forget(k)

LSpec == LInit /\ [][LNext]_lvars

-----------------------------------------------------------------------------
(* Properties *)

Counted(r) == progress[r].counted.count > 0

\* The requests counted in the window r was counted in.
Together(r) ==
    {q \in Requests :
        /\ Counted(q) /\ KeyOf(q) = KeyOf(r) /\ RouteOf(q) = RouteOf(r)
        /\ progress[q].counted.resetAt = progress[r].counted.resetAt}

Admitted == {r \in Requests : progress[r].pc = "admitted"}

\* Of a key of which no count was lost, no window admits more requests than its
\* limit, and two windows never overlap: no two increments of one key, however
\* they and the failures of the store interleave, leave the same count
\* (checkRateLimit over incrementRateLimitAtomically; over a read and a write
\* back, when nothing came between the two).
AdmissionsLimited ==
    \A r \in Requests : Counted(r) /\ KeyOf(r) \notin loose =>
        /\ Cardinality(Together(r) \cap Admitted) <= Limit(r)
        /\ \A q \in Requests : Counted(q) /\ KeyOf(q) = KeyOf(r) /\ q \notin Together(r) =>
              \/ progress[q].counted.resetAt + Window(r) <= progress[r].counted.resetAt
              \/ progress[r].counted.resetAt + Window(r) <= progress[q].counted.resetAt

\* Whatever was lost, who is admitted was counted in a window that had begun and
\* was not over, unless the store failed and the route put up with that; and
\* nobody is refused unless more requests of its own route and key than the
\* limit were counted in its window (checkRateLimit, increment).
RefusalsEarned ==
    \A r \in Requests :
        /\ progress[r].pc \in {"admitted", "refused"} =>
              /\ Counted(r)
              /\ progress[r].counted.resetAt - Window(r) <= progress[r].now
              /\ progress[r].now < progress[r].counted.resetAt
        /\ progress[r].pc = "refused" => Cardinality(Together(r)) > Limit(r)
        /\ progress[r].pc = "unmetered" =>
              RouteOf(r).failureMode = "fail-open" /\ Consistency(r) = "best-effort"

\* Both: a limit is kept, and keeps out nobody else.
LimitKept == AdmissionsLimited /\ RefusalsEarned
=============================================================================

------------------------------ MODULE AnswerProofs ------------------------------
(***************************************************************************)
(* What is answered: to a definition, to a request at its limit, and to    *)
(* what is asked for again.                                                *)
(*                                                                         *)
(* Whatever is defined can be served, for any inputs: to normalize an      *)
(* input again changes nothing.  The limits of routes are kept, for any    *)
(* number of requests, routes and callers, any limits and windows and any  *)
(* failures of the store: every bucket there is, kept or in hand, was      *)
(* reached one request at a time, so that for each count up to its own     *)
(* somebody was counted so in its window, and where no count was lost      *)
(* nobody else was.  And an enqueue or a request that is retried is        *)
(* answered from the row that its first call left, whatever rows there     *)
(* are: no other row has its key.                                          *)
(***************************************************************************)
EXTENDS EntityDefinitions, StoreStatements, FiniteSetTheorems, FunctionTheorems, TLAPS

\* Somebody was counted, under the key, at each count of the bucket.
Reached(k, b) ==
    \A n \in 1 .. b.count : \E q \in Requests :
        /\ KeyOf(q) = k
        /\ progress[q].counted.count = n /\ progress[q].counted.resetAt = b.resetAt

Metered(r) == Refusal(RouteOf(r)) = "none"

Situated == asks \in Situations

PlacesSound ==
    \A r \in Requests :
        /\ progress[r].pc = "arriving" => progress[r].counted = NoBucket
        /\ progress[r].pc = "incrementing" =>
              /\ progress[r].counted = NoBucket /\ Metered(r)
              /\ Consistency(r) = "best-effort"
              /\ progress[r].now <= clock
              /\ progress[r].seen.resetAt <= progress[r].now + Window(r)
        /\ Counted(r) => Metered(r)

AnswersSound ==
    \A r \in Requests :
        /\ progress[r].pc \in {"admitted", "refused"} =>
              /\ Counted(r)
              /\ progress[r].counted.resetAt <= progress[r].now + Window(r)
              /\ progress[r].now < progress[r].counted.resetAt
        /\ progress[r].pc = "admitted" => progress[r].counted.count <= Limit(r)
        /\ progress[r].pc = "refused" => progress[r].counted.count > Limit(r)
        /\ progress[r].pc = "unmetered" =>
              RouteOf(r).failureMode = "fail-open" /\ Consistency(r) = "best-effort"

AllReached ==
    /\ \A k \in RateKeys : Reached(k, bucket[k])
    /\ \A r \in Requests : Reached(KeyOf(r), progress[r].counted)
    /\ \A r \in Requests : Reached(KeyOf(r), progress[r].seen)

WindowsAhead == \A r \in Requests : bucket[KeyOf(r)].resetAt <= clock + Window(r)

\* Of a key of which no count was lost.
Exact ==
    \A r \in Requests : Counted(r) /\ KeyOf(r) \notin loose =>
        /\ LET b == bucket[KeyOf(r)] IN
              \/ progress[r].counted.resetAt = b.resetAt /\ progress[r].counted.count <= b.count
              \/ progress[r].counted.resetAt + Window(r) <= b.resetAt
        /\ \A q \in Requests : Counted(q) /\ KeyOf(q) = KeyOf(r) /\ q # r =>
              \/ /\ progress[q].counted.resetAt = progress[r].counted.resetAt
                 /\ progress[q].counted.count # progress[r].counted.count
              \/ progress[q].counted.resetAt + Window(r) <= progress[r].counted.resetAt
              \/ progress[r].counted.resetAt + Window(r) <= progress[q].counted.resetAt

LInv ==
    LTypeOK /\ Situated /\ PlacesSound /\ AnswersSound /\ AllReached /\ WindowsAhead /\ Exact

-----------------------------------------------------------------------------
LEMMA WindowIsNat ==
    ASSUME NEW c \in Calls
    PROVE  /\ ParseTimeWindowMs(c.route.window) \in Nat
           /\ c.route.max \in Int
<1> DEFINE w == c.route.window
<1>1. w.count \in Int /\ c.route.max \in Int
    BY CallsAssumption
<1>2. ASSUME w.count > 0, w.unit \in {"second", "minute", "hour"}
      PROVE  w.count * UnitLength[w.unit] \in Nat
    <2>1. UnitLength[w.unit] \in Nat
        BY <1>2, UnitsAssumption
    <2>2. w.count \in Nat
        BY <1>1, <1>2
    <2> HIDE DEF w
    <2> QED BY <2>1, <2>2
<1>3. DOMAIN UnitLength = {"second", "minute", "hour"}
    BY UnitsAssumption
<1> QED BY <1>1, <1>2, <1>3 DEF ParseTimeWindowMs

\* Requests of one key are of one route.
LEMMA OneRoute ==
    ASSUME Situated, NEW q \in Requests, NEW r \in Requests, KeyOf(q) = KeyOf(r)
    PROVE  RouteOf(q) = RouteOf(r) /\ Window(q) = Window(r) /\ Limit(q) = Limit(r)
<1>1. \A c : RateKey(c).action = c.route.action
    BY DEF RateKey, RateKeyUnder
<1>2. RouteOf(q).action = RouteOf(r).action
    BY <1>1 DEF KeyOf, RouteOf
<1>3. RouteOf(q) = RouteOf(r)
    BY <1>2, SituationsAssumption DEF Situated, RouteOf
<1> QED BY <1>3 DEF Window, Limit

LEMMA Typing ==
    ASSUME LTypeOK, NEW r \in Requests
    PROVE  /\ KeyOf(r) \in RateKeys /\ Window(r) \in Nat /\ Limit(r) \in Int
           /\ bucket[KeyOf(r)] \in Bucket
           /\ progress[r].counted \in Bucket /\ progress[r].seen \in Bucket
           /\ progress[r].now \in Nat
           /\ Refusal(RouteOf(r)) = "none" => Limit(r) > 0 /\ Window(r) > 0
<1>1. asks[r] \in Calls
    BY DEF LTypeOK
<1>2. KeyOf(r) \in RateKeys
    BY <1>1 DEF KeyOf, RateKeys
<1>3. Window(r) \in Nat /\ Limit(r) \in Int
    BY <1>1, WindowIsNat DEF Window, Limit, RouteOf
<1>4. ASSUME Refusal(RouteOf(r)) = "none" PROVE Limit(r) > 0 /\ Window(r) > 0
    <2>1. RouteOf(r).max > 0 /\ ParseTimeWindowMs(RouteOf(r).window) # 0
        <3> DEFINE rt == RouteOf(r)  atomic == ResolveConsistency(rt) = "atomic"
        <3>1. rt.max \in Int
            BY <1>3 DEF Limit
        <3> QED BY <1>4, <3>1 DEF Refusal
    <2> QED BY <2>1, <1>3 DEF Window, Limit
<1> QED BY <1>2, <1>3, <1>4 DEF LTypeOK

LEMMA Start == LInit => LInv
<1> SUFFICES ASSUME LInit PROVE LInv
    OBVIOUS
<1>1. NoBucket \in Bucket
    BY DEF NoBucket, Bucket
<1>2. LTypeOK /\ Situated
    BY <1>1, SituationsAssumption DEF LInit, LTypeOK, Situated, Arriving, At
<1>3. \A r \in Requests : ~Counted(r) /\ progress[r].pc = "arriving"
                            /\ progress[r].counted = NoBucket /\ progress[r].seen = NoBucket
    BY DEF LInit, Counted, Arriving, At, NoBucket
<1>4. PlacesSound /\ AnswersSound /\ Exact
    BY <1>3 DEF PlacesSound, AnswersSound, Exact
<1>5. AllReached
    <2>1. \A k : Reached(k, NoBucket)
        BY DEF Reached, NoBucket
    <2> QED BY <1>3, <2>1 DEF AllReached, LInit
<1>6. WindowsAhead
    <2> SUFFICES ASSUME NEW r \in Requests
                 PROVE  bucket[KeyOf(r)].resetAt <= clock + Window(r)
        BY DEF WindowsAhead
    <2> QED BY <1>2, Typing DEF LInit, NoBucket
<1> QED BY <1>2, <1>4, <1>5, <1>6 DEF LInv

-----------------------------------------------------------------------------
(* A request that is not counted by a step: it is answered, or goes off with *)
(* what it has read.                                                         *)
LEMMA UncountedStep ==
    ASSUME LInv, NEW r \in Requests, progress[r].counted = NoBucket,
           NEW pc \in {"incrementing", "unmetered", "StoreError", "ConfigurationError",
                       "ValidationError", "RuntimeCapabilityError"},
           NEW now \in Nat, NEW seen \in Bucket,
           progress' = [progress EXCEPT ![r] = At(pc, now, seen, NoBucket)],
           UNCHANGED <<clock, asks, bucket, loose>>,
           Reached(KeyOf(r), seen),
           pc = "incrementing" =>
               /\ Metered(r) /\ Consistency(r) = "best-effort" /\ now <= clock
               /\ seen.resetAt <= now + Window(r),
           pc = "unmetered" =>
               RouteOf(r).failureMode = "fail-open" /\ Consistency(r) = "best-effort"
    PROVE  LInv'
<1> DEFINE new == At(pc, now, seen, NoBucket)
<1>0. clock' = clock /\ asks' = asks /\ bucket' = bucket /\ loose' = loose
    OBVIOUS
<1>1. /\ new.pc = pc /\ new.now = now /\ new.seen = seen /\ new.counted = NoBucket
      /\ NoBucket \in Bucket
      /\ new \in [pc: {"arriving", "incrementing"} \cup Answers, now: Nat,
                  seen: Bucket, counted: Bucket]
    BY DEF At, NoBucket, Bucket, Answers
<1>2. /\ DOMAIN progress = Requests
      /\ \A q \in Requests : q # r => progress'[q] = progress[q]
      /\ progress'[r] = new
    BY DEF LInv, LTypeOK
<1> HIDE DEF new
<1>3. /\ \A q \in Requests : progress'[q].counted = progress[q].counted
      /\ \A q \in Requests : Counted(q)' <=> Counted(q)
      /\ ~Counted(r)
    BY <1>1, <1>2 DEF Counted, NoBucket
<1>4. \A q \in Requests : /\ KeyOf(q)' = KeyOf(q) /\ RouteOf(q)' = RouteOf(q)
                           /\ Window(q)' = Window(q) /\ Limit(q)' = Limit(q)
                           /\ Consistency(q)' = Consistency(q) /\ Metered(q)' = Metered(q)
    BY <1>0 DEF KeyOf, RouteOf, Window, Limit, Consistency, Metered
<1>5. (LTypeOK /\ Situated)'
    <2>1. progress' \in [Requests -> [pc: {"arriving", "incrementing"} \cup Answers, now: Nat,
                                      seen: Bucket, counted: Bucket]]
        BY <1>1 DEF LInv, LTypeOK, new
    <2> QED BY <1>0, <2>1 DEF LInv, LTypeOK, Situated
<1>6. PlacesSound'
    BY <1>0, <1>1, <1>2, <1>3, <1>4 DEF LInv, PlacesSound
<1>7. AnswersSound'
    BY <1>0, <1>1, <1>2, <1>3, <1>4 DEF LInv, AnswersSound
<1>8. AllReached'
    <2>1. \A k \in RateKeys : Reached(k, bucket[k])'
        BY <1>0, <1>3, <1>4 DEF LInv, AllReached, Reached
    <2>2. \A q \in Requests : Reached(KeyOf(q), progress[q].counted)'
        BY <1>3, <1>4 DEF LInv, AllReached, Reached
    <2>3. ASSUME NEW q \in Requests PROVE Reached(KeyOf(q), progress[q].seen)'
        BY <1>1, <1>2, <1>3, <1>4 DEF LInv, AllReached, Reached
    <2> QED BY <2>1, <2>2, <2>3 DEF AllReached
<1>9. WindowsAhead'
    BY <1>0, <1>4 DEF LInv, WindowsAhead
<1>10. Exact'
    BY <1>0, <1>3, <1>4 DEF LInv, Exact
<1> QED BY <1>5, <1>6, <1>7, <1>8, <1>9, <1>10 DEF LInv

-----------------------------------------------------------------------------
(* A request that is counted by a step: atomically, or by writing back what  *)
(* it makes of the bucket it has read.                                       *)
LEMMA CountedStep ==
    ASSUME LInv, NEW r \in Requests, progress[r].counted = NoBucket, Metered(r),
           NEW now \in Nat, now <= clock,
           NEW found \in Bucket, found.resetAt <= now + Window(r), Reached(KeyOf(r), found),
           NEW answer,
           \/ answer = Verdict(Incremented(found, now, Window(r)).count, Limit(r))
           \/ answer = OnFailure(r),
           progress' = [progress EXCEPT ![r] =
                          At(answer, now, NoBucket, Incremented(found, now, Window(r)))],
           bucket' = [bucket EXCEPT ![KeyOf(r)] = Incremented(found, now, Window(r))],
           UNCHANGED <<clock, asks>>,
           loose' \in SUBSET RateKeys, loose \subseteq loose',
           found = bucket[KeyOf(r)] \/ KeyOf(r) \in loose'
    PROVE  LInv'
<1> DEFINE k == KeyOf(r)
           b == Incremented(found, now, Window(r))
           new == At(answer, now, NoBucket, b)
<1>0. clock' = clock /\ asks' = asks
    OBVIOUS
<1>1. /\ k \in RateKeys /\ Window(r) \in Nat /\ Window(r) > 0 /\ Limit(r) \in Int
      /\ clock \in Nat
    BY Typing DEF LInv, LTypeOK, Metered
<1>2. /\ b \in Bucket /\ b.count > 0
      /\ now < b.resetAt /\ b.resetAt <= now + Window(r)
      /\ \/ found.resetAt > now /\ b.count = found.count + 1 /\ b.resetAt = found.resetAt
         \/ found.resetAt <= now /\ b.count = 1 /\ b.resetAt = now + Window(r)
    BY <1>1 DEF Incremented, Bucket
<1>3. /\ answer \in {"admitted", "refused", "unmetered", "StoreError"}
      /\ answer = "admitted" => b.count <= Limit(r)
      /\ answer = "refused" => b.count > Limit(r)
      /\ answer = "unmetered" =>
            RouteOf(r).failureMode = "fail-open" /\ Consistency(r) = "best-effort"
    BY <1>1, <1>2 DEF Verdict, OnFailure, Bucket
<1> HIDE DEF b
<1>4. /\ new.pc = answer /\ new.now = now /\ new.seen = NoBucket /\ new.counted = b
      /\ NoBucket \in Bucket
    BY DEF At, NoBucket, Bucket
<1>5. new \in [pc: {"arriving", "incrementing"} \cup Answers, now: Nat,
               seen: Bucket, counted: Bucket]
    BY <1>2, <1>3, <1>4 DEF At, Answers
<1>6. /\ \A q \in Requests : q # r => progress'[q] = progress[q]
      /\ progress'[r] = new
      /\ \A j \in RateKeys : j # k => bucket'[j] = bucket[j]
      /\ bucket'[k] = b
    BY <1>1 DEF LInv, LTypeOK, b
<1>7. (LTypeOK /\ Situated)'
    <2>1. progress' \in [Requests -> [pc: {"arriving", "incrementing"} \cup Answers, now: Nat,
                                      seen: Bucket, counted: Bucket]]
        BY <1>5 DEF LInv, LTypeOK, b
    <2>2. bucket' \in [RateKeys -> Bucket]
        BY <1>1, <1>2 DEF LInv, LTypeOK, b
    <2> QED BY <1>0, <2>1, <2>2 DEF LInv, LTypeOK, Situated
<1> HIDE DEF new, k
<1>8. /\ \A q \in Requests : q # r => (Counted(q)' <=> Counted(q))
      /\ ~Counted(r) /\ Counted(r)'
    BY <1>2, <1>4, <1>6 DEF Counted, NoBucket
<1>9. \A q \in Requests : /\ KeyOf(q)' = KeyOf(q) /\ RouteOf(q)' = RouteOf(q)
                           /\ Window(q)' = Window(q) /\ Limit(q)' = Limit(q)
                           /\ Consistency(q)' = Consistency(q) /\ Metered(q)' = Metered(q)
    BY <1>0 DEF KeyOf, RouteOf, Window, Limit, Consistency, Metered
<1>10. PlacesSound'
    <2> SUFFICES ASSUME NEW q \in Requests
                 PROVE  (/\ progress[q].pc = "arriving" => progress[q].counted = NoBucket
                         /\ progress[q].pc = "incrementing" =>
                               /\ progress[q].counted = NoBucket /\ Metered(q)
                               /\ Consistency(q) = "best-effort"
                               /\ progress[q].now <= clock
                               /\ progress[q].seen.resetAt <= progress[q].now + Window(q)
                         /\ Counted(q) => Metered(q))'
        BY DEF PlacesSound
    <2>1. CASE q = r
        BY <2>1, <1>3, <1>4, <1>6, <1>9
    <2>2. CASE q # r
        BY <2>2, <1>0, <1>6, <1>8, <1>9 DEF LInv, PlacesSound
    <2> QED BY <2>1, <2>2
<1>11. AnswersSound'
    <2> SUFFICES ASSUME NEW q \in Requests
                 PROVE  (/\ progress[q].pc \in {"admitted", "refused"} =>
                               /\ Counted(q)
                               /\ progress[q].counted.resetAt <= progress[q].now + Window(q)
                               /\ progress[q].now < progress[q].counted.resetAt
                         /\ progress[q].pc = "admitted" => progress[q].counted.count <= Limit(q)
                         /\ progress[q].pc = "refused" => progress[q].counted.count > Limit(q)
                         /\ progress[q].pc = "unmetered" =>
                               /\ RouteOf(q).failureMode = "fail-open"
                               /\ Consistency(q) = "best-effort")'
        BY DEF AnswersSound
    <2>1. CASE q = r
        BY <2>1, <1>2, <1>3, <1>4, <1>6, <1>8, <1>9
    <2>2. CASE q # r
        BY <2>2, <1>6, <1>8, <1>9 DEF LInv, AnswersSound
    <2> QED BY <2>1, <2>2
<1>12. AllReached'
    <2>1. ASSUME NEW j, NEW c, Reached(j, c)
          PROVE  \A n \in 1 .. c.count : \E q \in Requests :
                    /\ KeyOf(q)' = j
                    /\ progress'[q].counted.count = n /\ progress'[q].counted.resetAt = c.resetAt
        <3> SUFFICES ASSUME NEW n \in 1 .. c.count
                     PROVE  \E q \in Requests :
                               /\ KeyOf(q)' = j
                               /\ progress'[q].counted.count = n
                               /\ progress'[q].counted.resetAt = c.resetAt
            OBVIOUS
        <3>1. PICK q \in Requests : /\ KeyOf(q) = j
                                    /\ progress[q].counted.count = n
                                    /\ progress[q].counted.resetAt = c.resetAt
            BY <2>1 DEF Reached
        <3>2. q # r
            BY <3>1 DEF NoBucket
        <3> QED BY <3>1, <3>2, <1>6, <1>9
    <2>2. \A n \in 1 .. b.count : \E q \in Requests :
              /\ KeyOf(q)' = k
              /\ progress'[q].counted.count = n /\ progress'[q].counted.resetAt = b.resetAt
        <3> SUFFICES ASSUME NEW n \in 1 .. b.count
                     PROVE  \E q \in Requests :
                               /\ KeyOf(q)' = k
                               /\ progress'[q].counted.count = n
                               /\ progress'[q].counted.resetAt = b.resetAt
            OBVIOUS
        <3>1. CASE n = b.count
            BY <3>1, <1>4, <1>6, <1>9 DEF k
        <3>2. CASE n # b.count
            <4>1. found.resetAt = b.resetAt /\ n \in 1 .. found.count
                BY <3>2, <1>2 DEF Bucket
            <4> QED BY <4>1, <2>1 DEF k
        <3> QED BY <3>1, <3>2
    <2>3. ASSUME NEW j \in RateKeys PROVE Reached(j, bucket[j])'
        <3>1. CASE j = k
            BY <3>1, <2>2, <1>6 DEF Reached
        <3>2. CASE j # k
            <4>1. Reached(j, bucket[j])
                BY DEF LInv, AllReached
            <4>2. \A n \in 1 .. bucket[j].count : \E q \in Requests :
                     /\ KeyOf(q)' = j
                     /\ progress'[q].counted.count = n
                     /\ progress'[q].counted.resetAt = bucket[j].resetAt
                BY <4>1, <2>1
            <4> QED BY <4>2, <3>2, <1>6 DEF Reached
        <3> QED BY <3>1, <3>2
    <2>4. ASSUME NEW p \in Requests PROVE Reached(KeyOf(p), progress[p].counted)'
        <3>1. CASE p = r
            BY <3>1, <2>2, <1>4, <1>6, <1>9 DEF Reached, k
        <3>2. CASE p # r
            <4>1. Reached(KeyOf(p), progress[p].counted)
                BY DEF LInv, AllReached
            <4>2. \A n \in 1 .. progress[p].counted.count : \E q \in Requests :
                     /\ KeyOf(q)' = KeyOf(p)
                     /\ progress'[q].counted.count = n
                     /\ progress'[q].counted.resetAt = progress[p].counted.resetAt
                BY <4>1, <2>1
            <4> QED BY <4>2, <3>2, <1>6, <1>9 DEF Reached
        <3> QED BY <3>1, <3>2
    <2>5. ASSUME NEW p \in Requests PROVE Reached(KeyOf(p), progress[p].seen)'
        <3>1. CASE p = r
            BY <3>1, <1>4, <1>6 DEF Reached, NoBucket
        <3>2. CASE p # r
            <4>1. Reached(KeyOf(p), progress[p].seen)
                BY DEF LInv, AllReached
            <4>2. \A n \in 1 .. progress[p].seen.count : \E q \in Requests :
                     /\ KeyOf(q)' = KeyOf(p)
                     /\ progress'[q].counted.count = n
                     /\ progress'[q].counted.resetAt = progress[p].seen.resetAt
                BY <4>1, <2>1
            <4> QED BY <4>2, <3>2, <1>6, <1>9 DEF Reached
        <3> QED BY <3>1, <3>2
    <2> QED BY <2>3, <2>4, <2>5, <1>7 DEF AllReached
<1>13. WindowsAhead'
    <2> SUFFICES ASSUME NEW q \in Requests
                 PROVE  (bucket[KeyOf(q)].resetAt <= clock + Window(q))'
        BY DEF WindowsAhead
    <2>1. KeyOf(q) \in RateKeys /\ Window(q) \in Nat
        BY Typing DEF LInv
    <2>2. CASE KeyOf(q) = k
        <3>1. Window(q) = Window(r)
            BY <2>2, OneRoute DEF LInv, k
        <3> QED BY <3>1, <2>2, <1>0, <1>1, <1>2, <1>6, <1>9 DEF Bucket
    <2>3. CASE KeyOf(q) # k
        BY <2>1, <2>3, <1>0, <1>6, <1>9 DEF LInv, WindowsAhead
    <2> QED BY <2>2, <2>3
<1>14. Exact'
    <2> DEFINE Below(p, c) ==
                  \/ /\ progress[p].counted.resetAt = c.resetAt
                     /\ progress[p].counted.count <= c.count
                  \/ progress[p].counted.resetAt + Window(p) <= c.resetAt
               Apart(p, q) ==
                  \/ /\ progress[q].counted.resetAt = progress[p].counted.resetAt
                     /\ progress[q].counted.count # progress[p].counted.count
                  \/ progress[q].counted.resetAt + Window(p) <= progress[p].counted.resetAt
                  \/ progress[p].counted.resetAt + Window(p) <= progress[q].counted.resetAt
    <2>1. \A p \in Requests : Counted(p) /\ KeyOf(p) \notin loose =>
             /\ Below(p, bucket[KeyOf(p)])
             /\ \A q \in Requests : Counted(q) /\ KeyOf(q) = KeyOf(p) /\ q # p => Apart(p, q)
        BY DEF LInv, Exact
    <2>2. \A p \in Requests :
             /\ KeyOf(p) \in RateKeys /\ Window(p) \in Nat
             /\ progress[p].counted.count \in Nat /\ progress[p].counted.resetAt \in Nat
        BY Typing DEF LInv, Bucket
    <2>3. ASSUME k \notin loose', NEW p \in Requests, p # r, Counted(p), KeyOf(p) = k
          PROVE  /\ progress[p].counted.resetAt + Window(r) <= b.resetAt
                 \/ /\ progress[p].counted.resetAt = b.resetAt
                    /\ progress[p].counted.count < b.count
        <3>1. found = bucket[k] /\ KeyOf(p) \notin loose
            BY <2>3 DEF k
        <3>2. Below(p, found) /\ Window(p) = Window(r)
            BY <3>1, <2>1, <2>3, OneRoute DEF LInv, k
        <3> QED BY <3>2, <2>2, <1>1, <1>2 DEF Bucket
    <2>4. ASSUME NEW p \in Requests, Counted(p)', KeyOf(p)' \notin loose'
          PROVE  Below(p, bucket[KeyOf(p)])'
        <3>1. CASE p = r
            BY <3>1, <1>2, <1>4, <1>6, <1>9 DEF k, Bucket
        <3>2. CASE p # r /\ KeyOf(p) = k
            BY <3>2, <2>3, <2>4, <2>2, <1>2, <1>6, <1>8, <1>9, OneRoute DEF LInv, k, Bucket
        <3>3. CASE p # r /\ KeyOf(p) # k
            BY <3>3, <2>1, <2>2, <2>4, <1>6, <1>8, <1>9
        <3> QED BY <3>1, <3>2, <3>3
    <2>5. ASSUME NEW p \in Requests, Counted(p)', KeyOf(p)' \notin loose',
                 NEW q \in Requests, Counted(q)', KeyOf(q)' = KeyOf(p)', q # p
          PROVE  Apart(p, q)'
        <3>1. Window(q) = Window(p) /\ KeyOf(q) = KeyOf(p)
            BY <2>5, <1>9, OneRoute DEF LInv
        <3>2. CASE p = r
            BY <3>1, <3>2, <2>3, <2>5, <2>2, <1>2, <1>4, <1>6, <1>8, <1>9 DEF k, Bucket
        <3>3. CASE q = r
            BY <3>1, <3>3, <2>3, <2>5, <2>2, <1>2, <1>4, <1>6, <1>8, <1>9 DEF k, Bucket
        <3>4. CASE p # r /\ q # r
            BY <3>1, <3>4, <2>1, <2>5, <1>6, <1>8, <1>9
        <3> QED BY <3>2, <3>3, <3>4
    <2> QED BY <2>4, <2>5 DEF Exact
<1> QED BY <1>7, <1>10, <1>11, <1>12, <1>13, <1>14 DEF LInv

-----------------------------------------------------------------------------
LEMMA Next == LInv /\ [LNext]_lvars => LInv'
<1> SUFFICES ASSUME LInv, [LNext]_lvars PROVE LInv'
    OBVIOUS
<1>0. NoBucket \in Bucket /\ clock \in Nat /\ \A k : Reached(k, NoBucket)
    BY DEF LInv, LTypeOK, NoBucket, Bucket, Reached
<1>1. ASSUME NEW r \in Requests, Reject(r) PROVE LInv'
    <2>1. progress[r].counted = NoBucket
        BY <1>1 DEF Reject, LInv, PlacesSound
    <2>2. Refusal(RouteOf(r)) \in {"ConfigurationError", "ValidationError",
                                   "RuntimeCapabilityError"}
        BY <1>1 DEF Reject, Refusal
    <2>3. progress' = [progress EXCEPT ![r] = At(Refusal(RouteOf(r)), clock, NoBucket, NoBucket)]
        BY <1>1 DEF Reject, Answer
    <2> QED BY <2>1, <2>2, <2>3, <1>0, <1>1, UncountedStep DEF Reject
<1>2. ASSUME NEW r \in Requests, IncrementAtomically(r) PROVE LInv'
    <2>1. progress[r].counted = NoBucket /\ Metered(r)
        BY <1>2 DEF IncrementAtomically, Enters, LInv, PlacesSound, Metered
    <2>2. /\ bucket[KeyOf(r)] \in Bucket /\ bucket[KeyOf(r)].resetAt <= clock + Window(r)
          /\ Reached(KeyOf(r), bucket[KeyOf(r)])
        BY Typing DEF LInv, WindowsAhead, AllReached
    <2> DEFINE b == Incremented(bucket[KeyOf(r)], clock, Window(r))
    <2>3. PICK answer \in {Verdict(b.count, Limit(r)), OnFailure(r)} :
             progress' = [progress EXCEPT ![r] = At(answer, clock, NoBucket, b)]
        BY <1>2 DEF IncrementAtomically, Answer
    <2>4. /\ bucket' = [bucket EXCEPT ![KeyOf(r)] = b]
          /\ UNCHANGED <<clock, asks>> /\ loose' \in SUBSET RateKeys /\ loose \subseteq loose'
        BY <1>2 DEF IncrementAtomically, LInv, LTypeOK
    <2>5. clock \in Nat /\ clock <= clock
        BY <1>0
    <2> QED BY <2>1, <2>2, <2>3, <2>4, <2>5, CountedStep
<1>3. ASSUME NEW r \in Requests, IncrementFails(r) PROVE LInv'
    <2>1. progress[r].counted = NoBucket
        BY <1>3 DEF IncrementFails, Enters, LInv, PlacesSound
    <2>2. OnFailure(r) = "StoreError"
        BY <1>3 DEF IncrementFails, Enters, OnFailure
    <2>3. progress' = [progress EXCEPT ![r] = At(OnFailure(r), clock, NoBucket, NoBucket)]
        BY <1>3 DEF IncrementFails, Answer
    <2> QED BY <2>1, <2>2, <2>3, <1>0, <1>3, UncountedStep DEF IncrementFails
<1>4. ASSUME NEW r \in Requests, ReadBucket(r) PROVE LInv'
    <2>1. /\ progress[r].counted = NoBucket /\ Metered(r)
          /\ Consistency(r) = "best-effort"
        BY <1>4 DEF ReadBucket, Enters, LInv, PlacesSound, Metered
    <2>2. /\ bucket[KeyOf(r)] \in Bucket /\ bucket[KeyOf(r)].resetAt <= clock + Window(r)
          /\ Reached(KeyOf(r), bucket[KeyOf(r)])
        BY Typing DEF LInv, WindowsAhead, AllReached
    <2>3. UNCHANGED <<clock, asks, bucket, loose>> /\ clock <= clock
        BY <1>0, <1>4 DEF ReadBucket
    <2>4. CASE progress' = [progress EXCEPT ![r] =
                               At("incrementing", clock, bucket[KeyOf(r)], NoBucket)]
        BY <2>1, <2>2, <2>3, <2>4, <1>0, UncountedStep
    <2>5. CASE Answer(r, OnFailure(r), clock, NoBucket)
        <3>1. /\ OnFailure(r) \in {"unmetered", "StoreError"}
              /\ OnFailure(r) = "unmetered" =>
                     RouteOf(r).failureMode = "fail-open" /\ Consistency(r) = "best-effort"
              /\ progress' = [progress EXCEPT ![r] = At(OnFailure(r), clock, NoBucket, NoBucket)]
            BY <2>5 DEF OnFailure, Answer
        <3> QED BY <3>1, <2>1, <2>3, <1>0, UncountedStep
    <2> QED BY <1>4, <2>4, <2>5 DEF ReadBucket
<1>5. ASSUME NEW r \in Requests, WriteBucket(r) PROVE LInv'
    <2> DEFINE now == progress[r].now
               found == progress[r].seen
               b == Incremented(found, now, Window(r))
    <2>1. /\ progress[r].counted = NoBucket /\ Metered(r) /\ now <= clock
          /\ found.resetAt <= now + Window(r)
        BY <1>5 DEF WriteBucket, LInv, PlacesSound
    <2>2. /\ KeyOf(r) \in RateKeys /\ now \in Nat /\ found \in Bucket
          /\ Reached(KeyOf(r), found)
        BY Typing DEF LInv, AllReached
    <2>3. PICK answer \in {Verdict(b.count, Limit(r)), OnFailure(r)} :
             progress' = [progress EXCEPT ![r] = At(answer, now, NoBucket, b)]
        BY <1>5 DEF WriteBucket, Answer
    <2>4. /\ bucket' = [bucket EXCEPT ![KeyOf(r)] = b] /\ UNCHANGED <<clock, asks>>
          /\ loose' \in SUBSET RateKeys /\ loose \subseteq loose'
          /\ found = bucket[KeyOf(r)] \/ KeyOf(r) \in loose'
        BY <1>5, <2>2 DEF WriteBucket, LInv, LTypeOK
    <2> HIDE DEF now, found
    <2> QED BY <2>1, <2>2, <2>3, <2>4, CountedStep
<1>6. ASSUME NEW r \in Requests, WriteFails(r) PROVE LInv'
    <2>1. progress[r].counted = NoBucket
        BY <1>6 DEF WriteFails, LInv, PlacesSound
    <2>2. /\ OnFailure(r) \in {"unmetered", "StoreError"}
          /\ OnFailure(r) = "unmetered" =>
                 RouteOf(r).failureMode = "fail-open" /\ Consistency(r) = "best-effort"
          /\ progress' = [progress EXCEPT ![r] = At(OnFailure(r), clock, NoBucket, NoBucket)]
        BY <1>6 DEF WriteFails, OnFailure, Answer
    <2> QED BY <2>1, <2>2, <1>0, <1>6, UncountedStep DEF WriteFails
<1>7. ASSUME clock' \in Nat, clock <= clock', UNCHANGED <<asks, bucket, loose, progress>>
      PROVE  LInv'
    <2>0. asks' = asks /\ bucket' = bucket /\ loose' = loose /\ progress' = progress
        BY <1>7
    <2>1. (LTypeOK /\ Situated)' /\ AnswersSound' /\ AllReached' /\ Exact'
        BY <2>0, <1>7 DEF LInv, LTypeOK, Situated, AnswersSound, AllReached, Exact, Reached, KeyOf,
              RouteOf, Window, Limit, Consistency, Counted
    <2>2. \A r \in Requests : /\ KeyOf(r) \in RateKeys /\ Window(r) \in Nat
                               /\ bucket[KeyOf(r)].resetAt \in Nat /\ progress[r].now \in Nat
        BY Typing DEF LInv, Bucket
    <2>3. \A r \in Requests : /\ KeyOf(r)' = KeyOf(r) /\ Window(r)' = Window(r)
                               /\ Consistency(r)' = Consistency(r) /\ Metered(r)' = Metered(r)
                               /\ Counted(r)' = Counted(r)
        BY <2>0 DEF KeyOf, Window, RouteOf, Consistency, Metered, Counted
    <2>4. PlacesSound' /\ WindowsAhead'
        BY <2>0, <2>2, <2>3, <1>0, <1>7 DEF LInv, PlacesSound, WindowsAhead
    <2> QED BY <2>1, <2>4 DEF LInv
<1>8. CASE Tick
    BY <1>0, <1>7, <1>8 DEF Tick
<1>9. ASSUME NEW k \in RateKeys, Forget(k) PROVE LInv'
    <2>0. /\ asks' = asks /\ clock' = clock /\ progress' = progress
          /\ loose' = loose \cup {k} /\ bucket' = [bucket EXCEPT ![k] = NoBucket]
        BY <1>9 DEF Forget
    <2>1. /\ bucket' \in [RateKeys -> Bucket] /\ bucket'[k] = NoBucket
          /\ \A j \in RateKeys : j # k => bucket'[j] = bucket[j]
        BY <2>0, <1>0 DEF LInv, LTypeOK
    <2>2. \A r \in Requests : /\ KeyOf(r) \in RateKeys /\ Window(r) \in Nat
                               /\ KeyOf(r)' = KeyOf(r) /\ Window(r)' = Window(r)
                               /\ Counted(r)' = Counted(r)
        BY <2>0, Typing DEF LInv, KeyOf, Window, RouteOf, Counted
    <2>3. (LTypeOK /\ Situated)' /\ AnswersSound' /\ PlacesSound'
        BY <2>0, <2>1 DEF LInv, LTypeOK, Situated, AnswersSound, PlacesSound, KeyOf,
              RouteOf, Window, Limit, Consistency, Counted, Metered
    <2>4. AllReached'
        <3>1. \A j, c : Reached(j, c)' <=> Reached(j, c)
            BY <2>0, <2>2 DEF Reached
        <3>2. ASSUME NEW j \in RateKeys PROVE Reached(j, bucket[j])'
            BY <2>0, <2>1, <2>2 DEF LInv, AllReached, Reached, NoBucket
        <3>3. ASSUME NEW r \in Requests
              PROVE  Reached(KeyOf(r), progress[r].counted)' /\ Reached(KeyOf(r), progress[r].seen)'
            BY <2>0, <2>2 DEF LInv, AllReached, Reached
        <3> QED BY <3>2, <3>3 DEF AllReached
    <2>5. WindowsAhead'
        BY <2>0, <2>1, <2>2, <1>0 DEF LInv, WindowsAhead, NoBucket
    <2>6. Exact'
        BY <2>0, <2>1, <2>2 DEF LInv, Exact
    <2> QED BY <2>3, <2>4, <2>5, <2>6 DEF LInv
<1>10. CASE UNCHANGED lvars
    BY <1>0, <1>7, <1>10 DEF lvars
<1> QED BY <1>1, <1>2, <1>3, <1>4, <1>5, <1>6, <1>8, <1>9, <1>10 DEF LNext

-----------------------------------------------------------------------------
LEMMA Limits == LInv => AdmissionsLimited
<1> SUFFICES ASSUME LInv, NEW r \in Requests, Counted(r), KeyOf(r) \notin loose
             PROVE  /\ Cardinality(Together(r) \cap Admitted) <= Limit(r)
                    /\ \A q \in Requests :
                          Counted(q) /\ KeyOf(q) = KeyOf(r) /\ q \notin Together(r) =>
                              \/ progress[q].counted.resetAt + Window(r)
                                    <= progress[r].counted.resetAt
                              \/ progress[r].counted.resetAt + Window(r)
                                    <= progress[q].counted.resetAt
    BY DEF AdmissionsLimited
<1>1. Limit(r) \in Int /\ Limit(r) > 0
    BY Typing DEF LInv, PlacesSound, Metered
<1>2. Cardinality(Together(r) \cap Admitted) <= Limit(r)
    <2> DEFINE S == Together(r) \cap Admitted
               f == [q \in S |-> progress[q].counted.count]
    <2>1. ASSUME NEW q \in S PROVE progress[q].counted.count \in 1 .. Limit(r)
        <3>1. /\ q \in Requests /\ Counted(q) /\ KeyOf(q) = KeyOf(r)
              /\ progress[q].pc = "admitted"
            BY DEF Together, Admitted
        <3>2. progress[q].counted.count \in Nat /\ Limit(q) = Limit(r)
            BY <3>1, Typing, OneRoute DEF LInv, Bucket
        <3> QED BY <3>1, <3>2, <1>1 DEF LInv, AnswersSound, Counted
    <2>2. ASSUME NEW p \in S, NEW q \in S, p # q
          PROVE  progress[p].counted.count # progress[q].counted.count
        <3>1. /\ p \in Requests /\ Counted(p) /\ KeyOf(p) = KeyOf(r)
              /\ q \in Requests /\ Counted(q) /\ KeyOf(q) = KeyOf(r)
              /\ progress[p].counted.resetAt = progress[q].counted.resetAt
            BY DEF Together
        <3>2. /\ progress[p].counted.resetAt \in Nat /\ Window(p) \in Nat /\ Window(p) > 0
            BY <3>1, Typing DEF LInv, PlacesSound, Metered, Bucket
        <3> QED BY <3>1, <3>2, <2>2 DEF LInv, Exact
    <2> HIDE DEF S
    <2>3. f \in Injection(S, 1 .. Limit(r))
        BY <2>1, <2>2, Fun_IsInj
    <2>4. IsFiniteSet(1 .. Limit(r)) /\ Cardinality(1 .. Limit(r)) = Limit(r)
        BY <1>1, FS_Interval
    <2>5. Cardinality(S) <= Cardinality(1 .. Limit(r))
        BY <2>3, <2>4, FS_Injection
    <2> QED BY <2>4, <2>5 DEF S
<1>3. ASSUME NEW q \in Requests, Counted(q), KeyOf(q) = KeyOf(r), q \notin Together(r)
      PROVE  \/ progress[q].counted.resetAt + Window(r) <= progress[r].counted.resetAt
             \/ progress[r].counted.resetAt + Window(r) <= progress[q].counted.resetAt
    <2>1. RouteOf(q) = RouteOf(r)
        BY <1>3, OneRoute DEF LInv
    <2>2. q # r /\ progress[q].counted.resetAt # progress[r].counted.resetAt
        BY <2>1, <1>3 DEF Together
    <2> QED BY <2>2, <1>3 DEF LInv, Exact
<1> QED BY <1>2, <1>3

LEMMA Refusals == LInv => RefusalsEarned
<1> SUFFICES ASSUME LInv, NEW r \in Requests
             PROVE  /\ progress[r].pc \in {"admitted", "refused"} =>
                          /\ Counted(r)
                          /\ progress[r].counted.resetAt - Window(r) <= progress[r].now
                          /\ progress[r].now < progress[r].counted.resetAt
                    /\ progress[r].pc = "refused" => Cardinality(Together(r)) > Limit(r)
                    /\ progress[r].pc = "unmetered" =>
                          RouteOf(r).failureMode = "fail-open" /\ Consistency(r) = "best-effort"
    BY DEF RefusalsEarned
<1>1. /\ progress[r].counted.resetAt \in Nat /\ progress[r].counted.count \in Nat
      /\ Window(r) \in Nat /\ Limit(r) \in Int /\ progress[r].now \in Nat
    BY Typing DEF LInv, Bucket
<1>2. ASSUME progress[r].pc = "refused" PROVE Cardinality(Together(r)) > Limit(r)
    <2> DEFINE n == progress[r].counted.count
               g == [i \in 1 .. n |-> CHOOSE q \in Requests :
                       /\ KeyOf(q) = KeyOf(r) /\ progress[q].counted.count = i
                       /\ progress[q].counted.resetAt = progress[r].counted.resetAt]
    <2>1. ASSUME NEW i \in 1 .. n
          PROVE  /\ g[i] \in Requests
                 /\ KeyOf(g[i]) = KeyOf(r) /\ progress[g[i]].counted.count = i
                 /\ progress[g[i]].counted.resetAt = progress[r].counted.resetAt
        <3>1. \E q \in Requests :
                 /\ KeyOf(q) = KeyOf(r) /\ progress[q].counted.count = i
                 /\ progress[q].counted.resetAt = progress[r].counted.resetAt
            BY DEF LInv, AllReached, Reached
        <3> QED BY <3>1
    <2> HIDE DEF g
    <2>2. \A i \in 1 .. n : g[i] \in Together(r)
        BY <2>1, <1>1, OneRoute DEF Together, Counted, LInv
    <2>3. g \in [1 .. n -> Together(r)]
        BY <2>2 DEF g
    <2>4. g \in Injection(1 .. n, Together(r))
        BY <2>1, <2>3, Fun_IsInj
    <2>5. IsFiniteSet(Together(r))
        BY RequestsAssumption, FS_Subset DEF Together
    <2>6. Cardinality(1 .. n) <= Cardinality(Together(r)) /\ Cardinality(Together(r)) \in Nat
        BY <2>4, <2>5, FS_Injection, FS_CardinalityType
    <2>7. n > Limit(r)
        BY <1>2 DEF LInv, AnswersSound
    <2>8. Cardinality(1 .. n) = n
        <3>1. n \in Nat
            BY <1>1
        <3> HIDE DEF n
        <3>2. Cardinality(1 .. n) = IF 1 > n THEN 0 ELSE n - 1 + 1
            BY <3>1, FS_Interval
        <3> QED BY <3>1, <3>2
    <2> QED BY <2>6, <2>7, <2>8, <1>1
<1> QED BY <1>1, <1>2 DEF LInv, AnswersSound

-----------------------------------------------------------------------------
\* The limiter's requests, buckets and answers keep their types.
THEOREM LimitsTyped == LSpec => []LTypeOK
<1>1. LInv => LTypeOK
    BY DEF LInv
<1> QED BY <1>1, Start, Next, PTL DEF LSpec

\* However requests, failures and losses interleave (rateLimit.ts over the
\* atomic and the read-modify-write store): a window admits no more than its
\* limit as long as no count was lost, and no one is refused in vain.
THEOREM LimitIsKept == LSpec => []LimitKept
<1>1. LInv => LimitKept
    BY Limits, Refusals DEF LimitKept
<1> QED BY <1>1, Start, Next, PTL DEF LSpec

-----------------------------------------------------------------------------
(* Definitions *)

\* What normalizing does to each part.
LEMMA Replaced ==
    ASSUME NEW f, NEW a, NEW b, NEW c, NEW d, NEW e, NEW g
    PROVE  LET h == [f EXCEPT !.primaryKey = a, !.versionField = b, !.policy = c,
                              !.audit = d, !.cache = e, !.routes = g]
           IN  /\ h = [p \in DOMAIN f |-> h[p]]
               /\ \A p \in DOMAIN f :
                     h[p] = IF p = "primaryKey" THEN a ELSE IF p = "versionField" THEN b
                            ELSE IF p = "policy" THEN c ELSE IF p = "audit" THEN d
                            ELSE IF p = "cache" THEN e ELSE IF p = "routes" THEN g ELSE f[p]
OBVIOUS

PrimaryKeyOf(i) ==
    IF i.primaryKey = "none" /\ "id" \in DOMAIN i.fields THEN "id" ELSE i.primaryKey

\* Nothing else is touched.
LEMMA NormalParts ==
    ASSUME NEW i
    PROVE  /\ Normalized(i) = [p \in DOMAIN i |-> Normalized(i)[p]]
           /\ \A p \in DOMAIN i : Normalized(i)[p] =
                 IF p = "primaryKey" THEN PrimaryKeyOf(i) ELSE IF p = "versionField" THEN VersionFieldOf(i)
                 ELSE IF p = "policy" THEN NormalizeCapabilityPolicy(i.policy) ELSE IF p = "audit" THEN AuditOf(i)
                 ELSE IF p = "cache" THEN CacheOf(i) ELSE IF p = "routes" THEN NormalizeRoutes(i.routes) ELSE i[p]
BY Replaced, Zenon DEF Normalized, PrimaryKeyOf

\* Each part that is replaced would be replaced by itself.
LEMMA CapabilityNormal ==
    ASSUME NEW p, Record(p, {"form", "skip", "key"}), NEW q, q = NormalizeCapabilityPolicy(p)
    PROVE  q.key = p.key /\ NormalizeCapabilityPolicy(q) = q
BY DEF NormalizeCapabilityPolicy, Record

LEMMA NormalRecord ==
    ASSUME NEW i, EntityDefinitionInput(i), NEW d, d = Normalized(i)
    PROVE  /\ d.name = i.name /\ d.fields = i.fields /\ d.primaryKey = PrimaryKeyOf(i)
           /\ d.tenantField = i.tenantField /\ d.versionField = VersionFieldOf(i)
           /\ d.scoping = i.scoping /\ d.policy = NormalizeCapabilityPolicy(i.policy)
           /\ d.concurrency = i.concurrency /\ d.rateLimit = i.rateLimit
           /\ d.audit = AuditOf(i) /\ d.cache = CacheOf(i) /\ d.routes = NormalizeRoutes(i.routes)
<1>1. DOMAIN i = EntityParts
    BY DEF EntityDefinitionInput, Record
<1>2. \A p \in EntityParts :
         p \notin {"primaryKey", "versionField", "policy", "audit", "cache", "routes"} => d[p] = i[p]
    BY <1>1, NormalParts
<1>3. /\ d.primaryKey = PrimaryKeyOf(i) /\ d.versionField = VersionFieldOf(i)
      /\ d.policy = NormalizeCapabilityPolicy(i.policy)
      /\ d.audit = AuditOf(i) /\ d.cache = CacheOf(i) /\ d.routes = NormalizeRoutes(i.routes)
    BY <1>1, NormalParts DEF EntityParts
<1> QED BY <1>2, <1>3 DEF EntityParts

LEMMA TextsStand ==
    ASSUME NEW text, NEW default
    PROVE  Else(Else(text, default), default) = Else(text, default)
BY DEF Else

LEMMA AuditNormal ==
    ASSUME NEW i, EntityDefinitionInput(i), NEW d, d.audit = AuditOf(i), d.name = i.name
    PROVE  /\ AuditOf(d) = d.audit /\ d.audit.guarantee = "none"
           /\ d.audit.enabled = i.audit.enabled
<1>1. /\ d.audit.guarantee = "none" /\ d.audit.resource = Else(i.audit.resource, i.name)
      /\ d.audit.enabled = i.audit.enabled /\ d.audit = [p \in DOMAIN d.audit |-> d.audit[p]]
    BY DEF AuditOf, EntityDefinitionInput, Record
<1> DEFINE v == Else(d.audit.resource, d.name)
<1>2. AuditOf(d) = [d.audit EXCEPT !.resource = v, !.guarantee = "none"]
    BY DEF AuditOf
<1>3. v = d.audit.resource
    BY <1>1, TextsStand
<1> HIDE DEF v
<1>4. [d.audit EXCEPT !.resource = v, !.guarantee = "none"] = [p \in DOMAIN d.audit |-> d.audit[p]]
    BY <1>1, <1>3
<1> QED BY <1>1, <1>2, <1>4

LEMMA CacheNormal ==
    ASSUME NEW i, EntityDefinitionInput(i), NEW d, d.cache = CacheOf(i), d.name = i.name
    PROVE  CacheOf(d) = d.cache
<1>1. /\ d.cache.tag = Else(i.cache.tag, i.name) /\ d.cache.keyPrefix = Else(i.cache.keyPrefix, i.name)
      /\ d.cache = [p \in DOMAIN d.cache |-> d.cache[p]]
    BY DEF CacheOf, EntityDefinitionInput, Record
<1> DEFINE v == Else(d.cache.tag, d.name)
           w == Else(d.cache.keyPrefix, d.name)
<1>2. CacheOf(d) = [d.cache EXCEPT !.tag = v, !.keyPrefix = w]
    BY DEF CacheOf
<1>3. v = d.cache.tag /\ w = d.cache.keyPrefix
    BY <1>1, TextsStand
<1> HIDE DEF v, w
<1>4. [d.cache EXCEPT !.tag = v, !.keyPrefix = w] = [p \in DOMAIN d.cache |-> d.cache[p]]
    BY <1>1, <1>3
<1> QED BY <1>1, <1>2, <1>4

\* What is normalized is normalized.
LEMMA NormalStands ==
    ASSUME NEW i, EntityDefinitionInput(i)
    PROVE  Normalized(Normalized(i)) = Normalized(i)
<1> DEFINE d == Normalized(i)
<1>1. /\ d.name = i.name /\ d.fields = i.fields /\ d.primaryKey = PrimaryKeyOf(i)
      /\ d.versionField = VersionFieldOf(i) /\ d.concurrency = i.concurrency
      /\ d.policy = NormalizeCapabilityPolicy(i.policy) /\ d.audit = AuditOf(i) /\ d.cache = CacheOf(i)
      /\ d.routes = NormalizeRoutes(i.routes)
    BY NormalRecord
<1>2. d = [p \in DOMAIN d |-> d[p]]
    BY NormalParts
<1>3. VersionFieldOf(d) = d.versionField
    BY <1>1 DEF VersionFieldOf
<1>4. PrimaryKeyOf(d) = d.primaryKey
    BY <1>1 DEF PrimaryKeyOf
<1>5. NormalizeCapabilityPolicy(d.policy) = d.policy
    BY <1>1, CapabilityNormal DEF EntityDefinitionInput
<1>6. AuditOf(d) = d.audit /\ CacheOf(d) = d.cache
    BY <1>1, AuditNormal, CacheNormal
<1>7. NormalizeRoutes(d.routes) = d.routes
    <2>1. \A routes : NormalizeRoutes(NormalizeRoutes(routes)) = NormalizeRoutes(routes)
        BY DEF NormalizeRoutes
    <2> QED BY <1>1, <2>1
<1> HIDE DEF d
<1> DEFINE e == Normalized(d)
<1>8. \A p \in DOMAIN d : e[p] = d[p]
    BY <1>3, <1>4, <1>5, <1>6, <1>7, NormalParts
<1>9. e = [p \in DOMAIN d |-> e[p]]
    BY NormalParts
<1> HIDE DEF e
<1>10. e = d
    BY <1>2, <1>8, <1>9
<1> QED BY <1>10 DEF d, e

\* What defineEntity returns passes its own checks again ...
LEMMA DefinedParts ==
    ASSUME NEW i, EntityDefinitionInput(i), Defined(i), NEW d, d = Normalized(i)
    PROVE  /\ Normalized(d) = d /\ ValidateEntity(d, d.routes) /\ ~VersionsConflict(d)
           /\ CapabilityConfigValid(d.policy)
<1>1. Normalized(d) = d
    BY NormalStands
<1>2. ValidateEntity(d, d.routes)
    BY DEF Defined
<1>3. CapabilityConfigValid(d.policy)
    BY <1>2 DEF ValidateEntity, CapabilityValid
<1>4. /\ d.concurrency = i.concurrency /\ d.versionField = VersionFieldOf(i)
      /\ ~VersionsConflict(i)
    BY NormalRecord DEF Defined
<1>5. ~VersionsConflict(d)
    BY <1>4 DEF VersionsConflict, VersionFieldOf
<1> QED BY <1>1, <1>2, <1>3, <1>5

\* ... all of them ...
LEMMA DefinedAgain ==
    ASSUME NEW i, EntityDefinitionInput(i), Defined(i)
    PROVE  Defined(Normalized(i))
BY DefinedParts DEF Defined

\* ... and those of CRUD(), given a sink for what it audits.
LEMMA Constructible ==
    ASSUME NEW i, EntityDefinitionInput(i), Defined(i), NEW runtime,
           i.audit.enabled => "audit" \in runtime
    PROVE  Constructed(Normalized(i), TRUE, runtime)
<1> DEFINE d == Normalized(i)
<1>1. ValidateEntity(d, d.routes) /\ CapabilityConfigValid(d.policy)
    BY DefinedParts
<1>2. d.policy.skip = "yes" <=> d.policy.key = NoText
    BY <1>1 DEF CapabilityConfigValid
<1>3. d.audit = AuditOf(i) /\ d.name = i.name
    BY NormalRecord
<1>4. d.audit.enabled = i.audit.enabled /\ d.audit.guarantee = "none"
    BY <1>3, AuditNormal
<1> HIDE DEF d
<1>5. Constructed(d, TRUE, runtime)
    BY <1>1, <1>2, <1>4 DEF Constructed
<1> QED BY <1>5 DEF d

\* Updates and deletes have a number to compare versions by.
LEMMA MutationsVersioned ==
    ASSUME NEW i, EntityDefinitionInput(i), Defined(i), NEW d, d = Normalized(i),
           Served(d) \cap {"update", "delete"} # {}
    PROVE  Numeric(d, d.versionField)
<1>1. /\ d.versionField = VersionFieldOf(i) /\ d.concurrency = i.concurrency
      /\ DescriptorValid(d) /\ ConcurrencyValid(d, d.routes)
    BY NormalRecord DEF Defined, ValidateEntity
<1>2. d.versionField # "none" \/ d.concurrency.versionField # "none"
    BY <1>1 DEF ConcurrencyValid, Served
<1>3. d.versionField # "none"
    BY <1>1, <1>2 DEF VersionFieldOf
<1> QED BY <1>1, <1>3 DEF DescriptorValid

\* Every field that is named is declared.
LEMMA NamesDeclared ==
    ASSUME NEW d, DescriptorValid(d), QueryColumnsValid(d), AuditValid(d)
    PROVE  FieldsNamed(d) \subseteq DOMAIN d.fields
<1>1. {d.primaryKey, d.tenantField, d.versionField, d.sortColumn} \ {"none"} \subseteq DOMAIN d.fields
    BY DEF DescriptorValid, QueryColumnsValid, Declared, Numeric
<1>0. /\ FieldListValid(d, d.immutable) /\ FieldListValid(d, d.searchable)
      /\ FieldListValid(d, d.filterable) /\ FieldListValid(d, d.sortable)
    BY DEF DescriptorValid, QueryColumnsValid
<1>2. ASSUME NEW names \in {d.immutable, d.searchable, d.filterable, d.sortable}
      PROVE  {names[n] : n \in DOMAIN names} \subseteq DOMAIN d.fields
    <2>1. FieldListValid(d, names)
        BY <1>0
    <2>2. \A n \in DOMAIN names : names[n] \in DOMAIN d.fields
        BY <2>1 DEF FieldListValid, Declared
    <2> QED BY <2>2
<1>3. DOMAIN d.audit.classification \subseteq DOMAIN d.fields
    BY DEF AuditValid, Declared
<1> QED BY <1>1, <1>2, <1>3 DEF FieldsNamed

\* A definition made of an input of its type is fit for use.
LEMMA EveryDefinition ==
    ASSUME NEW i, EntityDefinitionInput(i)
    PROVE  DefinitionUsable(i)
<1> SUFFICES ASSUME Defined(i)
             PROVE  LET d == Normalized(i)
                    IN  /\ Normalized(d) = d /\ Defined(d) /\ Constructed(d, TRUE, {"audit"})
                        /\ Served(d) \cap {"update", "delete"} # {} => Numeric(d, d.versionField)
                        /\ FieldsNamed(d) \subseteq DOMAIN d.fields
                        /\ d.scoping.mode = "scoped" <=> d.tenantField # "none"
                        /\ CapabilityMode(d) = i.policy.key
    BY DEF DefinitionUsable
<1> DEFINE d == Normalized(i)
<1>1. Normalized(d) = d /\ Defined(d) /\ Constructed(d, TRUE, {"audit"})
    BY DefinedParts, DefinedAgain, Constructible
<1>2. Served(d) \cap {"update", "delete"} # {} => Numeric(d, d.versionField)
    BY MutationsVersioned
<1>3. FieldsNamed(d) \subseteq DOMAIN d.fields
    BY NamesDeclared DEF Defined, ValidateEntity
<1>4. d.scoping.mode = "scoped" <=> d.tenantField # "none"
    <2>1. d.scoping = i.scoping /\ TenantScopingValid(d)
        BY NormalRecord DEF Defined, ValidateEntity
    <2>2. d.scoping.mode \in {"none", "scoped"}
        BY <2>1 DEF EntityDefinitionInput
    <2> QED BY <2>1, <2>2 DEF TenantScopingValid
<1>5. CapabilityMode(d) = i.policy.key
    <2>1. d.policy = NormalizeCapabilityPolicy(i.policy) /\ CapabilityConfigValid(d.policy)
        BY NormalRecord, DefinedParts
    <2>2. d.policy.key = i.policy.key
        BY <2>1, CapabilityNormal DEF EntityDefinitionInput
    <2>3. d.policy.key # Empty
        <3>1. Empty # NoText /\ ~CapabilityKeyText(Empty)
            BY DEF CapabilityKeyText, Empty, Worded, NoText
        <3> QED BY <2>1, <3>1 DEF CapabilityConfigValid
    <2> QED BY <2>1, <2>2, <2>3 DEF CapabilityMode, CapabilityConfigValid, Given
<1> QED BY <1>1, <1>2, <1>3, <1>4, <1>5

\* A window that passed is understood when a request arrives.
LEMMA WindowsParsed ==
    ASSUME NEW i, EntityDefinitionInput(i), Defined(i), NEW route \in DOMAIN i.rateLimit
    PROVE  ParseTimeWindowMs(i.rateLimit[route].window) > 0
<1> DEFINE w == i.rateLimit[route].window
<1>1. WindowValid(w)
    <2>1. Normalized(i).rateLimit = i.rateLimit /\ RateLimitsValid(Normalized(i))
        BY NormalRecord DEF Defined, ValidateEntity
    <2> QED BY <2>1 DEF RateLimitsValid
<1>2. w.count \in Int
    BY DEF EntityDefinitionInput
<1> HIDE DEF w
<1>3. ASSUME w.form = "text" PROVE w.count > 0 /\ w.count * UnitLength[w.unit] > 0 /\ w.unit \in DOMAIN UnitLength
    <2>1. w.count > 0 /\ w.unit \in {"second", "minute", "hour"}
        BY <1>1, <1>3 DEF WindowValid, UnitNames
    <2>2. UnitLength[w.unit] \in Nat \ {0} /\ w.unit \in DOMAIN UnitLength
        BY <2>1, UnitsAssumption
    <2>3. ASSUME NEW m \in Nat \ {0}, NEW n \in Nat \ {0} PROVE m * n > 0
        OBVIOUS
    <2> QED BY <1>2, <2>1, <2>2, <2>3
<1>4. ASSUME w.form = "number" PROVE w.count > 0
    BY <1>1, <1>4 DEF WindowValid
<1>5. w.form \in {"number", "text"}
    BY <1>1 DEF WindowValid
<1>6. ParseTimeWindowMs(w) > 0
    BY <1>3, <1>4, <1>5 DEF ParseTimeWindowMs
<1> QED BY <1>6 DEF w



Switched(on) == [r \in CrudRoutes |-> IF r \in on THEN "on" ELSE "off"]

BoundInput(i, on) ==
    EntityDefinitionInput(i) /\ i.audit.enabled = FALSE /\ i.routes = Switched(on)

\* What the bindings have in common makes an input of the type.
LEMMA BindingTyped ==
    ASSUME NEW g, NEW m, NEW on
    PROVE  BoundInput(BindingInput(g, m, on), on)
<1> DEFINE f == PlainInput(m, g.name, g.fields)
           a == IF g.primaryKey = "none" THEN "id" ELSE g.primaryKey
           k == [r \in CrudRoutes |-> IF r \in on THEN "on" ELSE "off"]
           i == BindingInput(g, m, on)
<1>1. /\ Record(f, EntityParts)
      /\ f.scoping.mode = "none" /\ f.rateLimit = <<>> /\ f.audit.enabled = FALSE
    BY DEF PlainInput, Record, EntityParts
<1>2. /\ Record(f.policy, {"form", "skip", "key"}) /\ Record(f.cache, {"enabled", "tag", "keyPrefix"})
    BY DEF PlainInput, Record
<1>3. Record(f.audit, {"enabled", "resource", "guarantee", "classification"})
    BY DEF PlainInput, Record
<1>4. i = [f EXCEPT !.primaryKey = a, !.versionField = g.versionField, !.searchable = g.searchable,
                    !.filterable = g.filterable, !.sortColumn = g.sortColumn,
                    !.validation = g.validation, !.routes = k]
    BY DEF BindingInput
<1> HIDE DEF i
<1>5. i.routes = k
    <2> HIDE DEF a, k
    <2>1. "routes" \in DOMAIN f
        BY <1>1 DEF Record, EntityParts
    <2> HIDE DEF f
    <2> QED BY <1>4, <2>1
<1> HIDE DEF f, a, k
<1>6. Record(i, EntityParts)
    BY <1>1, <1>4 DEF Record
<1>7. /\ i.scoping = f.scoping /\ i.policy = f.policy
      /\ i.audit = f.audit /\ i.cache = f.cache /\ i.rateLimit = f.rateLimit
    BY <1>1, <1>4 DEF Record, EntityParts
<1>8. DOMAIN i.rateLimit = {}
    BY <1>1, <1>7
<1>9. EntityDefinitionInput(i)
    BY <1>1, <1>2, <1>3, <1>6, <1>7, <1>8 DEF EntityDefinitionInput
<1> QED BY <1>1, <1>5, <1>7, <1>9 DEF k, i, Switched, BoundInput

\* Each binding gives defineEntity an input of its type, with the routes it is
\* to serve.
LEMMA FastifyTyped ==
    ASSUME NEW g, NEW i, i = FastifyInput(g)
    PROVE  /\ EntityDefinitionInput(i) /\ i.audit.enabled = FALSE
           /\ i.routes = Switched(g.routes \cap CrudRoutes)
<1> DEFINE on == g.routes \cap CrudRoutes
           f == BindingInput(g, g.moduleKey, on)
           c == [declared |-> g.versionField # "none", versionField |-> g.versionField]
<1>1. /\ EntityDefinitionInput(f) /\ f.audit.enabled = FALSE
      /\ f.routes = Switched(on)
    <2>1. BoundInput(f, on)
        BY BindingTyped
    <2> HIDE DEF f, on
    <2> QED BY <2>1 DEF BoundInput
<1>2. i = [f EXCEPT !.concurrency = c]
    BY DEF FastifyInput
<1> HIDE DEF f, c
<1>3. Record(f, EntityParts)
    BY <1>1 DEF EntityDefinitionInput
<1>4. Record(i, EntityParts)
    BY <1>2, <1>3 DEF Record
<1>5. /\ i.scoping = f.scoping /\ i.policy = f.policy /\ i.audit = f.audit /\ i.cache = f.cache
      /\ i.rateLimit = f.rateLimit /\ i.routes = f.routes
    BY <1>2, <1>3 DEF Record, EntityParts
<1> QED BY <1>1, <1>4, <1>5 DEF EntityDefinitionInput

LEMMA ProjectTyped ==
    ASSUME NEW config, NEW g, NEW i, i = ProjectInput(config, g)
    PROVE  /\ EntityDefinitionInput(i) /\ i.audit.enabled = FALSE
           /\ i.routes = Switched(CrudEnabled(config, g))
<1> DEFINE f == BindingInput(g, ToModuleKey(g.name), CrudEnabled(config, g))
           c == IF config.tenantScoping = "none" THEN f.scoping
                ELSE [mode |-> "scoped", acknowledged |-> FALSE, scopeFilter |-> "none"]
           d == IF config.capabilityKey = NoText THEN f.policy
                ELSE [form |-> "object", skip |-> "unsaid", key |-> config.capabilityKey]
<1>1. /\ EntityDefinitionInput(f) /\ f.audit.enabled = FALSE
      /\ f.routes = Switched(CrudEnabled(config, g))
    <2>1. BoundInput(f, CrudEnabled(config, g))
        BY BindingTyped
    <2> HIDE DEF f
    <2> QED BY <2>1 DEF BoundInput
<1>2. i = [f EXCEPT !.scoping = c, !.policy = d]
    BY DEF ProjectInput
<1>3. c.mode \in {"none", "scoped"}
    <2> HIDE DEF f
    <2> QED BY <1>1 DEF EntityDefinitionInput
<1>4. Record(d, {"form", "skip", "key"})
    <2>1. Record([form |-> "object", skip |-> "unsaid", key |-> config.capabilityKey], {"form", "skip", "key"})
        BY DEF Record
    <2>2. Record(f.policy, {"form", "skip", "key"})
        BY <1>1 DEF EntityDefinitionInput
    <2> HIDE DEF f
    <2> QED BY <2>1, <2>2, Zenon
<1> HIDE DEF f, c, d
<1>5. Record(f, EntityParts)
    BY <1>1 DEF EntityDefinitionInput
<1>6. Record(i, EntityParts)
    BY <1>2, <1>5 DEF Record
<1>7. /\ i.scoping = c /\ i.policy = d /\ i.audit = f.audit /\ i.cache = f.cache
      /\ i.rateLimit = f.rateLimit /\ i.routes = f.routes
    BY <1>2, <1>5 DEF Record, EntityParts
<1> QED BY <1>1, <1>3, <1>4, <1>6, <1>7 DEF EntityDefinitionInput

\* What was defined serves the routes that were on.
LEMMA OnServed ==
    ASSUME NEW i, EntityDefinitionInput(i), NEW on \in SUBSET CrudRoutes,
           i.routes = Switched(on)
    PROVE  Served(Normalized(i)) = on
<1>1. Normalized(i).routes = NormalizeRoutes(i.routes)
    BY NormalRecord
<1>2. \A r \in CrudRoutes : NormalizeRoutes(i.routes)[r] # "off" <=> r \in on
    BY DEF NormalizeRoutes, Switched
<1> QED BY <1>1, <1>2 DEF Served

\* Every operation has a place of its own.
PlaceOf(r) ==
    Endpoint(CASE r = "create" -> "POST" [] r = "update" -> "PUT" [] r = "delete" -> "DELETE"
               [] OTHER -> "GET",
             IF r \in {"list", "create"} THEN "collection" ELSE "row")

BoundAt(r) == [at |-> PlaceOf(r), route |-> r]

\* Operations that share a place are one.
LEMMA PlacesApart ==
    ASSUME NEW q \in CrudRoutes, NEW r \in CrudRoutes, PlaceOf(q) = PlaceOf(r)
    PROVE  q = r
<1>1. PlaceOf(q).method = PlaceOf(r).method /\ PlaceOf(q).of = PlaceOf(r).of
    OBVIOUS
<1> QED BY <1>1 DEF PlaceOf, Endpoint, CrudRoutes

\* The routes that are on are bound, and no others.
LEMMA RoutesResolved ==
    ASSUME NEW on \in SUBSET CrudRoutes
    PROVE  ResolveCrudRoutes(on) = {BoundAt(r) : r \in on}
<1> DEFINE table == {<<Endpoint("GET", "collection"), "list">>, <<Endpoint("GET", "row"), "detail">>,
         <<Endpoint("POST", "collection"), "create">>, <<Endpoint("PUT", "row"), "update">>,
         <<Endpoint("DELETE", "row"), "delete">>}
           places == {<<Endpoint(m, of), r>> : m \in {"GET", "POST", "PUT", "DELETE"}, of \in {"collection", "row"}, r \in on}
<1>1. table = {<<PlaceOf(r), r>> : r \in CrudRoutes}
    BY DEF PlaceOf, CrudRoutes
<1>2. ASSUME NEW r \in CrudRoutes
      PROVE  <<PlaceOf(r), r>> \in places <=> r \in on
    BY DEF PlaceOf, CrudRoutes
<1>3. table \cap places = {<<PlaceOf(r), r>> : r \in on}
    <2> HIDE DEF table, places
    <2> QED BY <1>1, <1>2
<1>4. ResolveCrudRoutes(on) = {[at |-> e[1], route |-> e[2]] : e \in table \cap places}
    BY DEF ResolveCrudRoutes
<1> HIDE DEF table, places
<1>5. \A r : [at |-> <<PlaceOf(r), r>>[1], route |-> <<PlaceOf(r), r>>[2]] = BoundAt(r)
    BY DEF BoundAt
<1>6. {[at |-> e[1], route |-> e[2]] : e \in {<<PlaceOf(r), r>> : r \in on}}
         = {[at |-> <<PlaceOf(r), r>>[1], route |-> <<PlaceOf(r), r>>[2]] : r \in on}
    BY Zenon
<1> QED BY <1>3, <1>4, <1>5, <1>6, Zenon

\* Whatever the options, what is bound is what is served.
LEMMA EveryBinding ==
    ASSUME NEW config, NEW g
    PROVE  BindingUsable(config, g)
<1>1. ASSUME Defined(FastifyInput(g))
      PROVE  /\ DefinitionUsable(FastifyInput(g)) /\ Constructed(Normalized(FastifyInput(g)), TRUE, {})
             /\ Served(Normalized(FastifyInput(g))) = g.routes \cap CrudRoutes
    <2> DEFINE i == FastifyInput(g)
    <2>1. /\ EntityDefinitionInput(i) /\ i.audit.enabled = FALSE
          /\ i.routes = Switched(g.routes \cap CrudRoutes)
        BY FastifyTyped
    <2> HIDE DEF i
    <2>2. DefinitionUsable(i) /\ Served(Normalized(i)) = g.routes \cap CrudRoutes
        <3>1. g.routes \cap CrudRoutes \in SUBSET CrudRoutes
            OBVIOUS
        <3> QED BY <2>1, <3>1, EveryDefinition, OnServed
    <2>3. Constructed(Normalized(i), TRUE, {})
        BY <1>1, <2>1, Constructible DEF i
    <2> QED BY <2>2, <2>3 DEF i
<1>2. ASSUME ProjectDefined(config, g)
      PROVE  LET d == Normalized(ProjectInput(config, g))
                 bound == RegisterCrudRoutes(ResolveCrudRoutes(CrudEnabled(config, g)))
             IN  /\ DefinitionUsable(ProjectInput(config, g)) /\ Constructed(d, TRUE, {})
                 /\ {b.route : b \in bound} = Served(d)
                 /\ Cardinality({b.at : b \in bound}) = Cardinality(Served(d))
                 /\ bound \subseteq NestController
    <2> DEFINE i == ProjectInput(config, g)
               on == CrudEnabled(config, g)
               bound == RegisterCrudRoutes(ResolveCrudRoutes(on))
    <2>1. /\ EntityDefinitionInput(i) /\ i.audit.enabled = FALSE
          /\ i.routes = Switched(on)
        <3>1. i = ProjectInput(config, g)
            OBVIOUS
        <3> HIDE DEF i
        <3> QED BY <3>1, ProjectTyped
    <2>2. on \in SUBSET CrudRoutes
        BY DEF CrudEnabled
    <2>3. Defined(i)
        BY <1>2 DEF ProjectDefined
    <2> HIDE DEF i, on
    <2>4. DefinitionUsable(i) /\ Constructed(Normalized(i), TRUE, {}) /\ Served(Normalized(i)) = on
        BY <2>1, <2>2, <2>3, EveryDefinition, Constructible, OnServed
    <2>5. bound = {BoundAt(r) : r \in on}
        <3>1. \A r : BoundAt(r).route = r
            BY DEF BoundAt
        <3>2. ResolveCrudRoutes(on) = {BoundAt(r) : r \in on}
            BY <2>2, RoutesResolved
        <3> QED BY <2>2, <3>1, <3>2 DEF RegisterCrudRoutes
    <2> HIDE DEF bound
    <2>6. {b.route : b \in bound} = on /\ {b.at : b \in bound} = {PlaceOf(r) : r \in on}
        <3>1. \A r : BoundAt(r).route = r /\ BoundAt(r).at = PlaceOf(r)
            BY DEF BoundAt
        <3> QED BY <2>5, <3>1
    <2>7. Cardinality({PlaceOf(r) : r \in on}) = Cardinality(on)
        <3> DEFINE h == [r \in on |-> PlaceOf(r)]
                   places == {PlaceOf(r) : r \in on}
        <3>1. IsFiniteSet(on)
            <4>1. CrudRoutes = {"list"} \cup ({"detail"} \cup ({"create"} \cup ({"update"} \cup {"delete"})))
                BY DEF CrudRoutes
            <4>2. (\A x : IsFiniteSet({x}))
                  /\ (\A S, T : IsFiniteSet(S) /\ IsFiniteSet(T) => IsFiniteSet(S \cup T))
                BY FS_Singleton, FS_Union
            <4>3. IsFiniteSet(CrudRoutes)
                BY <4>1, <4>2
            <4> QED BY <2>2, <4>3, FS_Subset
        <3>2. h \in Surjection(on, places)
            BY DEF Surjection
        <3>3. h \in Injection(on, places)
            <4>1. h \in [on -> places]
                OBVIOUS
            <4>2. \A q, r \in on : h[q] = h[r] => q = r
                BY <2>2, PlacesApart
            <4> HIDE DEF h, places
            <4> QED BY <4>1, <4>2, Fun_IsInj
        <3> HIDE DEF h, places
        <3>4. Cardinality(places) = Cardinality(on)
            BY <3>1, <3>2, <3>3, FS_Surjection
        <3> QED BY <3>4 DEF places
    <2>8. bound \subseteq NestController
        <3>1. ResolveCrudRoutes(CrudRoutes) = {BoundAt(r) : r \in CrudRoutes}
            BY RoutesResolved
        <3> QED BY <2>2, <2>5, <3>1 DEF NestController
    <2>9. /\ DefinitionUsable(i) /\ Constructed(Normalized(i), TRUE, {})
          /\ {b.route : b \in bound} = Served(Normalized(i))
          /\ Cardinality({b.at : b \in bound}) = Cardinality(Served(Normalized(i)))
          /\ bound \subseteq NestController
        BY <2>4, <2>6, <2>7, <2>8
    <2> QED BY <2>9 DEF i, bound, on
<1> QED BY <1>1, <1>2 DEF BindingUsable

\* Whatever defineEntity or a binding is given: nothing that was accepted is
\* refused by a later check, CRUD()'s or its own, what the routes rely on is
\* there, and what is bound is what is served.
THEOREM EveryDefinitionUsable == DefinitionsSpec => []DefinitionsUsable
<1> DEFINE Asked == question.subject = "definition" => question.input \in EntityInputs
<1>1. question = NoQuestion => Asked
    BY DEF NoQuestion
<1>2. Asked /\ [Define \/ Bind \/ question' = NoQuestion]_question => Asked'
    BY DEF Define, Bind, NoQuestion
<1>3. Asked => DefinitionsUsable
    <2> SUFFICES ASSUME Asked PROVE DefinitionsUsable
        OBVIOUS
    <2>1. ASSUME question.subject = "definition"
          PROVE  /\ DefinitionUsable(question.input)
                 /\ Defined(question.input) =>
                       \A route \in DOMAIN question.input.rateLimit :
                           ParseTimeWindowMs(question.input.rateLimit[route].window) > 0
        BY <2>1, InputsAssumption, EveryDefinition, WindowsParsed
    <2>2. BindingUsable(question.config, question.given)
        BY EveryBinding
    <2> QED BY <2>1, <2>2 DEF DefinitionsUsable
<1> QED BY <1>1, <1>2, <1>3, PTL DEF DefinitionsSpec

-----------------------------------------------------------------------------
(* The stores of jobs and of idempotency keys, on the three databases.         *)
(* PostgreSQL's statements are reasoned about, and D1's and MySQL's compared   *)
(* with them.                                                                  *)

\* The operations of an idempotency store.
KeyOperations ==
    {"acquire", "renew", "markCommitted", "findCommitted", "claimPending", "recover", "ackInvalidations",
     "ackClaimed", "completeClaimed", "complete"}

\* Each database comes with its copy of StoreRows.
USE DEF Pg!Outcome, D1!Outcome, MySql!Outcome, Pg!Nil, D1!Nil, MySql!Nil, Pg!NoTime, D1!NoTime, MySql!NoTime,
        Pg!NoTags, D1!NoTags, MySql!NoTags, Pg!Corrupt, D1!Corrupt, MySql!Corrupt, Pg!Fresh, D1!Fresh, MySql!Fresh,
        Pg!SameKey, D1!SameKey, MySql!SameKey, Pg!Lt, D1!Lt, MySql!Lt

LEMMA SameResolution ==
    ASSUME NEW r, NEW call
    PROVE  /\ D1!ResolveExisting(r, call) = Pg!ResolveExisting(r, call)
           /\ MySql!ResolveExisting(r, call) = Pg!ResolveExisting(r, call)
BY DEF Pg!ResolveExisting, D1!ResolveExisting, MySql!ResolveExisting, Pg!DecodeResourceVersion,
       D1!DecodeResourceVersion, MySql!DecodeResourceVersion

LEMMA SamePoison ==
    ASSUME NEW table, NEW rows
    PROVE  /\ D1!Poison(table, rows) = Pg!Poison(table, rows)
           /\ MySql!Poison(table, rows) = Pg!Poison(table, rows)
BY DEF Pg!Poison, D1!Poison, MySql!Poison, Pg!Update, D1!Update, MySql!Update

LEMMA SameRenewal ==
    ASSUME NEW table, NEW call
    PROVE  /\ D1!RenewKey(table, call) = Pg!RenewKey(table, call)
           /\ MySql!RenewKey(table, call) = Pg!RenewKey(table, call)
BY DEF Pg!RenewKey, D1!RenewKey, MySql!RenewKey, Pg!Updated, D1!Updated, MySql!Updated, Pg!Update, D1!Update,
       MySql!Update, Pg!Rows, D1!Rows, MySql!Rows, Pg!OwnedKey, D1!OwnedKey, MySql!OwnedKey

LEMMA SameRecovery ==
    ASSUME NEW table, NEW call
    PROVE  /\ D1!Recover(table, call) = Pg!Recover(table, call)
           /\ MySql!Recover(table, call) = Pg!Recover(table, call)
BY DEF Pg!Recover, D1!Recover, MySql!Recover, Pg!Updated, D1!Updated, MySql!Updated, Pg!Update, D1!Update,
       MySql!Update, Pg!Rows, D1!Rows, MySql!Rows, Pg!OwnedKey, D1!OwnedKey, MySql!OwnedKey

LEMMA SameAcknowledgement ==
    ASSUME NEW table, NEW call
    PROVE  /\ D1!AckInvalidations(table, call) = Pg!AckInvalidations(table, call)
           /\ MySql!AckInvalidations(table, call) = Pg!AckInvalidations(table, call)
BY DEF Pg!AckInvalidations, D1!AckInvalidations, MySql!AckInvalidations, Pg!Updated, D1!Updated, MySql!Updated,
       Pg!Update, D1!Update, MySql!Update, Pg!Rows, D1!Rows, MySql!Rows, Pg!OwnedKey, D1!OwnedKey, MySql!OwnedKey,
       Pg!Acknowledged, D1!Acknowledged, MySql!Acknowledged

LEMMA SameClaimedAcknowledgement ==
    ASSUME NEW table, NEW call
    PROVE  /\ D1!AckClaimedInvalidation(table, call) = Pg!AckClaimedInvalidation(table, call)
           /\ MySql!AckClaimedInvalidation(table, call) = Pg!AckClaimedInvalidation(table, call)
BY DEF Pg!AckClaimedInvalidation, D1!AckClaimedInvalidation, MySql!AckClaimedInvalidation, Pg!Updated, D1!Updated,
       MySql!Updated, Pg!Update, D1!Update, MySql!Update, Pg!Rows, D1!Rows, MySql!Rows, Pg!OwnedKey, D1!OwnedKey,
       MySql!OwnedKey, Pg!Acknowledged, D1!Acknowledged, MySql!Acknowledged, Pg!ClaimHeld, D1!ClaimHeld,
       MySql!ClaimHeld

LEMMA SameClaimedCompletion ==
    ASSUME NEW table, NEW call
    PROVE  /\ D1!CompleteClaimedInvalidation(table, call) = Pg!CompleteClaimedInvalidation(table, call)
           /\ MySql!CompleteClaimedInvalidation(table, call) = Pg!CompleteClaimedInvalidation(table, call)
BY DEF Pg!CompleteClaimedInvalidation, D1!CompleteClaimedInvalidation, MySql!CompleteClaimedInvalidation,
       Pg!Updated, D1!Updated, MySql!Updated, Pg!Update, D1!Update, MySql!Update, Pg!Rows, D1!Rows, MySql!Rows,
       Pg!OwnedKey, D1!OwnedKey, MySql!OwnedKey, Pg!Acknowledged, D1!Acknowledged, MySql!Acknowledged, Pg!ClaimHeld,
       D1!ClaimHeld, MySql!ClaimHeld, Pg!Completed, D1!Completed, MySql!Completed

LEMMA SameCompletion ==
    ASSUME NEW table, NEW call
    PROVE  /\ D1!Complete(table, call) = Pg!Complete(table, call)
           /\ MySql!Complete(table, call) = Pg!Complete(table, call)
BY DEF Pg!Complete, D1!Complete, MySql!Complete, Pg!Updated, D1!Updated, MySql!Updated, Pg!Update, D1!Update,
       MySql!Update, Pg!Rows, D1!Rows, MySql!Rows, Pg!OwnedKey, D1!OwnedKey, MySql!OwnedKey, Pg!Acknowledged,
       D1!Acknowledged, MySql!Acknowledged, Pg!Completed, D1!Completed, MySql!Completed

LEMMA SameMark ==
    ASSUME NEW table, NEW call, IsTable(table)
    PROVE  /\ D1!MarkCommitted(table, call) = Pg!MarkCommitted(table, call)
           /\ MySql!MarkCommitted(table, call) = Pg!MarkCommitted(table, call)
<1> USE DEF Pg!Rows, D1!Rows, MySql!Rows, Pg!Update, D1!Update, MySql!Update, Pg!OwnedKey, D1!OwnedKey,
            MySql!OwnedKey, Pg!EncodeResourceVersion, D1!EncodeResourceVersion, MySql!EncodeResourceVersion
<1> DEFINE owned(r) == Pg!OwnedKey(r, call) /\ r.status = "in-progress"
           receipt(r) == [r EXCEPT !.status = "business-committed", !.result = Pg!Nil,
                                   !.resource = call.resource,
                                   !.version = Pg!EncodeResourceVersion(call.version), !.pending = call.tags]
           marked == [id \in DOMAIN table |-> IF owned(table[id]) THEN receipt(table[id]) ELSE table[id]]
           found == Pg!Rows(table, owned) # {}
<1>1. MySql!MarkCommitted(table, call) = Pg!MarkCommitted(table, call)
    BY DEF Pg!MarkCommitted, MySql!MarkCommitted, Pg!Updated, MySql!Updated
<1>2. Pg!MarkCommitted(table, call)
        = Pg!Outcome(marked, IF found THEN "committed" ELSE "throws")
    BY DEF Pg!MarkCommitted, Pg!Updated
<1>3. D1!MarkCommitted(table, call)
        = IF found THEN Pg!Outcome(marked, "committed") ELSE Pg!Outcome(table, "throws")
    BY DEF D1!MarkCommitted
<1>4. ~found => marked = table
    BY DEF IsTable
<1> HIDE DEF found, marked
<1> QED BY <1>1, <1>2, <1>3, <1>4

LEMMA SameFound ==
    ASSUME NEW table, NEW call
    PROVE  /\ D1!FindCommitted(table, call) = Pg!FindCommitted(table, call)
           /\ MySql!FindCommitted(table, call) = Pg!FindCommitted(table, call)
<1>1. /\ D1!Rows(table, D1!Pending) = Pg!Rows(table, Pg!Pending)
      /\ MySql!Rows(table, MySql!Pending) = Pg!Rows(table, Pg!Pending)
    BY DEF Pg!Rows, D1!Rows, MySql!Rows, Pg!Pending, D1!Pending, MySql!Pending
<1>2. LET found == Pg!SelectAny(table, Pg!Pending, call.limit)
      IN  /\ D1!SelectAny(table, D1!Pending, call.limit) = found
          /\ MySql!SelectAny(table, MySql!Pending, call.limit) = found
    BY <1>1 DEF Pg!SelectAny, D1!SelectAny, MySql!SelectAny, Pg!Cardinality, D1!Cardinality, MySql!Cardinality
<1> QED BY <1>2, SamePoison DEF Pg!FindCommitted, D1!FindCommitted, MySql!FindCommitted

LEMMA SameClaim ==
    ASSUME NEW table, NEW call
    PROVE  /\ D1!ClaimPending(table, call) = Pg!ClaimPending(table, call)
           /\ MySql!ClaimPending(table, call) = Pg!ClaimPending(table, call)
<1> DEFINE pg(r) == Pg!Unclaimed(r, call)
           d1(r) == D1!Unclaimed(r, call)
           mysql(r) == MySql!Unclaimed(r, call)
<1>1. \A r : d1(r) = pg(r) /\ mysql(r) = pg(r)
    BY DEF Pg!Unclaimed, D1!Unclaimed, MySql!Unclaimed, Pg!Pending, D1!Pending, MySql!Pending, Pg!NoTime, D1!NoTime,
           MySql!NoTime
<1>2. /\ D1!Rows(table, d1) = Pg!Rows(table, pg)
      /\ MySql!Rows(table, mysql) = Pg!Rows(table, pg)
    BY DEF Pg!Rows, D1!Rows, MySql!Rows, Pg!Unclaimed, D1!Unclaimed, MySql!Unclaimed, Pg!Pending, D1!Pending,
           MySql!Pending, Pg!NoTime, D1!NoTime, MySql!NoTime
<1>3. LET found == Pg!SelectAny(table, pg, call.limit)
      IN  /\ D1!SelectAny(table, d1, call.limit) = found
          /\ MySql!SelectAny(table, mysql, call.limit) = found
    BY <1>2 DEF Pg!SelectAny, D1!SelectAny, MySql!SelectAny, Pg!Cardinality, D1!Cardinality, MySql!Cardinality
<1> DEFINE rows == Pg!SelectAny(table, pg, call.limit)
           corrupt == {r \in rows : r.pending = Pg!Corrupt}
           good == rows \ corrupt
           claimed(r) == \E g \in good : r.key = g.key /\ r.token = g.token /\ pg(r)
           held(t) == [id \in DOMAIN t |->
                          IF claimed(t[id])
                          THEN [t[id] EXCEPT !.claimOwner = call.worker, !.claimToken = call.claimToken,
                                             !.claimExpiresAt = call.db + call.lease]
                          ELSE t[id]]
           answer == Pg!Outcome(held(Pg!Poison(table, corrupt)), {r.key : r \in good})
<1>4. Pg!ClaimPending(table, call) = answer
    BY DEF Pg!ClaimPending, Pg!Update
<1>5. D1!ClaimPending(table, call) = answer
    <2> DEFINE itsRows == D1!SelectAny(table, d1, call.limit)
               itsCorrupt == {r \in itsRows : r.pending = D1!Corrupt}
               itsGood == itsRows \ itsCorrupt
               itsClaimed(r) == \E g \in itsGood : r.key = g.key /\ r.token = g.token /\ d1(r)
    <2>1. D1!ClaimPending(table, call)
            = D1!Outcome(D1!Update(D1!Poison(table, itsCorrupt), itsClaimed,
                   LAMBDA r : [r EXCEPT !.claimOwner = call.worker, !.claimToken = call.claimToken,
                                        !.claimExpiresAt = call.db + call.lease]),
                 {r.key : r \in itsGood})
        BY DEF D1!ClaimPending
    <2>2. itsRows = rows /\ itsCorrupt = corrupt /\ itsGood = good
        BY <1>3
    <2>3. \A r : itsClaimed(r) = claimed(r)
        BY <1>1, <2>2
    <2>4. D1!Poison(table, itsCorrupt) = Pg!Poison(table, corrupt)
        BY <2>2, SamePoison
    <2> HIDE DEF itsRows, itsCorrupt, itsGood, rows, corrupt, good, itsClaimed, claimed
    <2> QED BY <2>1, <2>2, <2>3, <2>4 DEF D1!Update
<1>6. MySql!ClaimPending(table, call) = answer
    <2> DEFINE itsRows == MySql!SelectAny(table, mysql, call.limit)
               itsCorrupt == {r \in itsRows : r.pending = MySql!Corrupt}
               itsGood == itsRows \ itsCorrupt
               itsClaimed(r) == \E g \in itsGood : r.key = g.key /\ r.token = g.token /\ mysql(r)
    <2>1. MySql!ClaimPending(table, call)
            = MySql!Outcome(MySql!Update(MySql!Poison(table, itsCorrupt), itsClaimed,
                   LAMBDA r : [r EXCEPT !.claimOwner = call.worker, !.claimToken = call.claimToken,
                                        !.claimExpiresAt = call.db + call.lease]),
                 {r.key : r \in itsGood})
        BY DEF MySql!ClaimPending
    <2>2. itsRows = rows /\ itsCorrupt = corrupt /\ itsGood = good
        BY <1>3
    <2>3. \A r : itsClaimed(r) = claimed(r)
        BY <1>1, <2>2
    <2>4. MySql!Poison(table, itsCorrupt) = Pg!Poison(table, corrupt)
        BY <2>2, SamePoison
    <2> HIDE DEF itsRows, itsCorrupt, itsGood, rows, corrupt, good, itsClaimed, claimed
    <2> QED BY <2>1, <2>2, <2>3, <2>4 DEF MySql!Update
<1> QED BY <1>4, <1>5, <1>6

LEMMA SameAcquisition ==
    ASSUME NEW table, NEW call, IsTable(table)
    PROVE  /\ D1!Acquire(table, call) = Pg!Acquire(table, call)
           /\ MySql!Acquire(table, call) = Pg!Acquire(table, call)
<1> USE DEF Pg!Rows, D1!Rows, MySql!Rows
<1> DEFINE existing == Pg!Rows(table, LAMBDA r : Pg!SameKey(r, call))
           row == CHOOSE r \in existing : TRUE
           resolved == Pg!ResolveExisting(row, call)
           takeable(r) == /\ Pg!SameKey(r, call) /\ r.fingerprint = call.fingerprint
                          /\ r.status = "in-progress" /\ Pg!Lt(r.createdAt, call.db - call.lease)
<1>1. /\ D1!Reserved(call) = Pg!Reserved(call)
      /\ MySql!Reserved(call) = Pg!Reserved(call)
    BY DEF Pg!Reserved, D1!Reserved, MySql!Reserved, Pg!EncodeResourceVersion, D1!EncodeResourceVersion,
           MySql!EncodeResourceVersion, Pg!NoVersion, D1!NoVersion, MySql!NoVersion
<1>2. MySql!TakeoverOrRecheck(table, call) = Pg!TakeoverOrRecheck(table, call)
    BY SameResolution, SamePoison DEF Pg!TakeoverOrRecheck, MySql!TakeoverOrRecheck, Pg!Update, D1!Update,
                                      MySql!Update
<1>3. MySql!Acquire(table, call) = Pg!Acquire(table, call)
    BY <1>1, <1>2, SameResolution, SamePoison DEF Pg!Acquire, MySql!Acquire, Pg!Insert, D1!Insert, MySql!Insert
<1>4. /\ D1!ResolveExisting(row, call) = resolved
      /\ D1!Insert(table, D1!Reserved(call)) = Pg!Insert(table, Pg!Reserved(call))
      /\ D1!Poison(table, {row}) = Pg!Poison(table, {row})
    <2> HIDE DEF row
    <2> QED BY <1>1, SameResolution, SamePoison DEF Pg!Insert, D1!Insert
<1>5. CASE existing = {} \/ resolved.outcome # ""
    <2> DEFINE new == Pg!Outcome(Pg!Insert(table, Pg!Reserved(call)),
                                       [outcome |-> "acquired", token |-> Pg!Fresh(call.id)])
               poisoned == Pg!Outcome(Pg!Poison(table, {row}), resolved)
    <2>1. Pg!Acquire(table, call)
            = IF existing = {} THEN new ELSE IF resolved.outcome = "throws" THEN poisoned
              ELSE IF resolved.outcome = "" THEN Pg!TakeoverOrRecheck(table, call)
              ELSE Pg!Outcome(table, resolved)
        BY DEF Pg!Acquire
    <2>2. \E taken : D1!Acquire(table, call)
            = IF existing = {} THEN new ELSE IF resolved.outcome = "throws" THEN poisoned
              ELSE IF resolved.outcome # "" THEN Pg!Outcome(table, resolved) ELSE taken
        BY <1>4 DEF D1!Acquire
    <2> HIDE DEF existing, row, resolved
    <2> QED BY <2>1, <2>2, <1>3, <1>5
<1>6. CASE existing # {} /\ resolved.outcome = ""
    <2> DEFINE taken == [id \in DOMAIN table |->
                           IF takeable(table[id])
                           THEN [table[id] EXCEPT !.token = Pg!Fresh(call.id), !.createdAt = call.db]
                           ELSE table[id]]
               acquired == [outcome |-> "acquired", token |-> Pg!Fresh(call.id)]
               busy == [outcome |-> "in-progress"]
    <2>1. Pg!Acquire(table, call) = Pg!TakeoverOrRecheck(table, call)
        BY <1>6 DEF Pg!Acquire
    <2>2. Pg!TakeoverOrRecheck(table, call)
            = IF Pg!Rows(table, takeable) # {} THEN Pg!Outcome(taken, acquired)
              ELSE Pg!Outcome(table, busy)
        BY <1>6 DEF Pg!TakeoverOrRecheck, Pg!Update
    <2>3. D1!Acquire(table, call)
            = Pg!Outcome(taken, IF Pg!Rows(table, takeable) # {} THEN acquired ELSE busy)
        BY <1>6, SameResolution DEF D1!Acquire, D1!Updated, D1!Update
    <2>4. ASSUME Pg!Rows(table, takeable) = {} PROVE taken = table
        BY <2>4 DEF IsTable
    <2> QED BY <2>1, <2>2, <2>3, <2>4, <1>3
<1> QED BY <1>5, <1>6

LEMMA SameKeyCall ==
    ASSUME NEW table, IsTable(table), NEW call, call.op \in KeyOperations
    PROVE  /\ D1!KeyCall(table, call) = Pg!KeyCall(table, call)
           /\ MySql!KeyCall(table, call) = Pg!KeyCall(table, call)
<1> USE DEF Pg!KeyCall, D1!KeyCall, MySql!KeyCall
<1>1. CASE call.op = "acquire"
    BY <1>1, SameAcquisition
<1>2. CASE call.op = "renew"
    BY <1>2, SameRenewal
<1>3. CASE call.op = "markCommitted"
    BY <1>3, SameMark
<1>4. CASE call.op = "findCommitted"
    BY <1>4, SameFound
<1>5. CASE call.op = "claimPending"
    BY <1>5, SameClaim
<1>6. CASE call.op = "recover"
    BY <1>6, SameRecovery
<1>7. CASE call.op = "ackInvalidations"
    BY <1>7, SameAcknowledgement
<1>8. CASE call.op = "ackClaimed"
    BY <1>8, SameClaimedAcknowledgement
<1>9. CASE call.op = "completeClaimed"
    BY <1>9, SameClaimedCompletion
<1>10. CASE call.op = "complete"
    BY <1>10, SameCompletion
<1> QED BY <1>1, <1>2, <1>3, <1>4, <1>5, <1>6, <1>7, <1>8, <1>9, <1>10 DEF KeyOperations

\* The three databases give every call of an idempotency store one answer, and
\* leave one table: of acquire, D1's one statement is PostgreSQL's two, and of
\* markCommitted its read and update are PostgreSQL's update.
THEOREM KeyStoresAgree ==
    ASSUME NEW table, IsTable(table), NEW call, call.op \in KeyOperations
    PROVE  KeysAgree(table, call)
BY SameKeyCall DEF KeysAgree

-----------------------------------------------------------------------------
(* What a retry is told *)

\* The only row of the call's key.
Alone(table, i, call) ==
    /\ i \in DOMAIN table /\ KeyColumns \subseteq DOMAIN table[i]
    /\ table[i].key = call.key /\ table[i].fingerprint = call.fingerprint
    /\ \A j \in DOMAIN table : table[j].key = call.key => j = i

LEMMA AskedAgain ==
    ASSUME NEW table, NEW i, NEW call, Alone(table, i, call), NEW asked, asked.key = call.key,
           Pg!ResolveExisting(table[i], asked).outcome \notin {"", "throws"}
    PROVE  Pg!Acquire(table, asked) = Pg!Outcome(table, Pg!ResolveExisting(table[i], asked))
<1> DEFINE existing == Pg!Rows(table, LAMBDA r : Pg!SameKey(r, asked))
           row == CHOOSE r \in existing : TRUE
           resolved == Pg!ResolveExisting(row, asked)
<1>1. existing # {} /\ row = table[i]
    <2>1. existing = {table[i]}
        BY DEF Alone, Pg!Rows
    <2> QED BY <2>1
<1>2. existing # {} /\ resolved.outcome \notin {"", "throws"}
        => Pg!Acquire(table, asked) = Pg!Outcome(table, resolved)
    BY DEF Pg!Acquire
<1> HIDE DEF existing, row
<1> QED BY <1>1, <1>2

LEMMA Resolved ==
    ASSUME NEW r, NEW asked
    PROVE  /\ r.fingerprint # asked.fingerprint => Pg!ResolveExisting(r, asked).outcome = "conflict"
           /\ /\ r.fingerprint = asked.fingerprint /\ r.status = "completed" /\ r.result # Pg!Nil
              => Pg!ResolveExisting(r, asked) = [outcome |-> "replay", result |-> r.result]
           /\ /\ r.fingerprint = asked.fingerprint /\ r.status = "business-committed"
              /\ r.pending # Pg!Corrupt
              => Pg!ResolveExisting(r, asked)
                   = [outcome |-> "business-committed", token |-> r.token, resource |-> r.resource,
                      version |-> Pg!DecodeResourceVersion(r.version), tags |-> r.pending]
BY DEF Pg!ResolveExisting

LEMMA ReceiptTold ==
    ASSUME NEW table, NEW i, NEW call, KeyCallMade(call), Alone(table, i, call),
           table[i].status = "business-committed", table[i].token = call.token,
           table[i].resource = call.resource, table[i].pending = call.tags,
           table[i].version = Pg!EncodeResourceVersion(call.version),
           NEW retry, retry.key = call.key, retry.fingerprint = call.fingerprint
    PROVE  Pg!Acquire(table, retry).answer
             = [outcome |-> "business-committed", token |-> call.token, resource |-> call.resource,
                version |-> call.version, tags |-> call.tags]
<1> DEFINE resolved == Pg!ResolveExisting(table[i], retry)
<1>1. Pg!DecodeResourceVersion(table[i].version) = call.version
    BY DEF Pg!DecodeResourceVersion, Pg!EncodeResourceVersion
<1>2. resolved = [outcome |-> "business-committed", token |-> call.token, resource |-> call.resource,
                  version |-> call.version, tags |-> call.tags]
    BY <1>1, Resolved DEF Alone, KeyCallMade, Corrupt
<1>3. resolved.outcome \notin {"", "throws"}
    BY <1>2
<1>4. Pg!Acquire(table, retry) = Pg!Outcome(table, resolved)
    BY ONLY <1>3, Alone(table, i, call), retry.key = call.key, AskedAgain
<1> HIDE DEF resolved
<1> QED BY <1>2, <1>4

LEMMA AnswerTold ==
    ASSUME NEW table, NEW i, NEW call, KeyCallMade(call), Alone(table, i, call),
           table[i].status = "completed", table[i].result = call.result,
           NEW retry, retry.key = call.key, retry.fingerprint = call.fingerprint
    PROVE  Pg!Acquire(table, retry).answer = [outcome |-> "replay", result |-> call.result]
<1> DEFINE resolved == Pg!ResolveExisting(table[i], retry)
<1>1. resolved = [outcome |-> "replay", result |-> call.result]
    BY Resolved DEF Alone, KeyCallMade, Nil
<1>2. resolved.outcome \notin {"", "throws"}
    BY <1>1
<1>3. Pg!Acquire(table, retry) = Pg!Outcome(table, resolved)
    BY ONLY <1>2, Alone(table, i, call), retry.key = call.key, AskedAgain
<1> HIDE DEF resolved
<1> QED BY <1>1, <1>3

LEMMA OthersRefused ==
    ASSUME NEW table, NEW i, NEW call, KeyCallMade(call), Alone(table, i, call),
           NEW another, another.key = call.key, another.fingerprint = "another"
    PROVE  Pg!Acquire(table, another).answer.outcome = "conflict"
<1> DEFINE resolved == Pg!ResolveExisting(table[i], another)
<1>1. resolved.outcome = "conflict"
    BY Resolved DEF Alone, KeyCallMade
<1>2. resolved.outcome \notin {"", "throws"}
    BY <1>1
<1>3. Pg!Acquire(table, another) = Pg!Outcome(table, resolved)
    BY <1>2, AskedAgain
<1> HIDE DEF resolved
<1> QED BY <1>1, <1>3

\* The row of a mutation that committed.
Receipt(r, call) ==
    [r EXCEPT !.status = "business-committed", !.result = Pg!Nil, !.resource = call.resource,
              !.version = Pg!EncodeResourceVersion(call.version), !.pending = call.tags]

LEMMA Marked ==
    ASSUME NEW table, ReservedKeys(table), NEW call, Pg!MarkCommitted(table, call).answer = "committed"
    PROVE  \E i \in DOMAIN table :
              /\ Alone(table, i, call) /\ table[i].token = call.token
              /\ Pg!MarkCommitted(table, call).table = [table EXCEPT ![i] = Receipt(table[i], call)]
<1> DEFINE owned(r) == Pg!OwnedKey(r, call) /\ r.status = "in-progress"
           marked == [id \in DOMAIN table |-> IF owned(table[id]) THEN Receipt(table[id], call) ELSE table[id]]
<1>1. Pg!MarkCommitted(table, call)
        = Pg!Outcome(marked, IF Pg!Rows(table, owned) # {} THEN "committed" ELSE "throws")
    BY DEF Pg!MarkCommitted, Pg!Updated, Pg!Update, Receipt
<1>2. PICK i \in DOMAIN table : owned(table[i])
    BY <1>1 DEF Pg!Rows
<1>3. Alone(table, i, call) /\ table[i].token = call.token
    BY <1>2 DEF Alone, Pg!OwnedKey, ReservedKeys
<1>4. \A j \in DOMAIN table : owned(table[j]) => j = i
    BY <1>3 DEF Alone, Pg!OwnedKey
<1>5. marked = [table EXCEPT ![i] = Receipt(table[i], call)]
    <2> HIDE DEF owned
    <2> QED BY <1>2, <1>4 DEF ReservedKeys, IsTable
<1> QED BY <1>1, <1>3, <1>5

LEMMA Recorded ==
    ASSUME NEW table, NEW i, NEW call, Alone(table, i, call), table[i].token = call.token,
           table[i].status = "business-committed",
           NEW asked, asked.key = call.key, asked.fingerprint = call.fingerprint, asked.token = call.token
    PROVE  Pg!Complete(table, asked)
             = Pg!Outcome([table EXCEPT ![i] = Pg!Completed(table[i], asked)], "completed")
<1> DEFINE owned(r) == Pg!OwnedKey(r, asked) /\ r.status = "business-committed"
           completed == [id \in DOMAIN table |->
                            IF owned(table[id]) THEN Pg!Completed(table[id], asked) ELSE table[id]]
<1>1. Pg!Complete(table, asked)
        = Pg!Outcome(completed, IF Pg!Rows(table, owned) # {} THEN "completed" ELSE "throws")
    BY DEF Pg!Complete, Pg!Updated, Pg!Update
<1>2. \A j \in DOMAIN table : owned(table[j]) <=> j = i
    BY DEF Alone, Pg!OwnedKey
<1>3. Pg!Rows(table, owned) # {}
    BY <1>2 DEF Alone, Pg!Rows
<1>4. completed = [table EXCEPT ![i] = Pg!Completed(table[i], asked)]
    <2> HIDE DEF owned
    <2> QED BY <1>2
<1> QED BY <1>1, <1>3, <1>4

LEMMA Rewritten ==
    ASSUME NEW table, NEW i, NEW call, Alone(table, i, call), NEW row,
           KeyColumns \subseteq DOMAIN row, row.key = call.key, row.fingerprint = call.fingerprint
    PROVE  Alone([table EXCEPT ![i] = row], i, call)
BY DEF Alone

LEMMA Unfound ==
    ASSUME NEW table, NEW i, NEW call, Alone(table, i, call), table[i].status = "completed",
           NEW asked
    PROVE  call.key \notin Pg!FindCommitted(table, asked).answer
<1> DEFINE rows == Pg!SelectAny(table, Pg!Pending, asked.limit)
           corrupt == {r \in rows : r.pending = Pg!Corrupt}
<1>1. Pg!FindCommitted(table, asked).answer = {r.key : r \in rows \ corrupt}
    BY DEF Pg!FindCommitted
<1>2. \A r \in rows : \E j \in DOMAIN table : r = table[j] /\ r.status = "business-committed"
    BY DEF Pg!SelectAny, Pg!Rows, Pg!Pending
<1>3. \A r \in rows : r.key # call.key
    <2> HIDE DEF rows
    <2> QED BY <1>2 DEF Alone
<1> HIDE DEF rows
<1> QED BY <1>1, <1>3

\* On PostgreSQL, by the rows a retry meets: the receipt, and the answer that
\* completed it.
LEMMA ReceiptIsReturned ==
    ASSUME NEW table, ReservedKeys(table), NEW call, KeyCallMade(call), call.op = "markCommitted"
    PROVE  ReceiptReturned(Pg!KeyCall, table, call)
<1> DEFINE marked == Pg!KeyCall(table, call)
           later == [call EXCEPT !.id = 9, !.db = @ + 100]
           retry == [later EXCEPT !.op = "acquire"]
           complete == [later EXCEPT !.op = "complete"]
           find == [later EXCEPT !.op = "findCommitted"]
           another == [retry EXCEPT !.fingerprint = "another"]
           completed == Pg!KeyCall(marked.table, complete)
           told == [outcome |-> "business-committed", token |-> call.token, resource |-> call.resource,
                    version |-> call.version, tags |-> call.tags]
<1>1. /\ retry.op = "acquire" /\ another.op = "acquire" /\ complete.op = "complete" /\ find.op = "findCommitted"
      /\ retry.key = call.key /\ another.key = call.key /\ complete.key = call.key
      /\ retry.fingerprint = call.fingerprint /\ complete.fingerprint = call.fingerprint
      /\ another.fingerprint = "another"
      /\ complete.token = call.token /\ complete.result = call.result
    BY DEF KeyCallMade
<1> SUFFICES ASSUME marked.answer = "committed"
             PROVE  /\ Pg!KeyCall(marked.table, retry).answer = told
                    /\ completed.answer = "completed"
                    /\ Pg!KeyCall(completed.table, retry).answer
                         = [outcome |-> "replay", result |-> call.result]
                    /\ Pg!KeyCall(marked.table, another).answer.outcome = "conflict"
                    /\ Pg!KeyCall(completed.table, another).answer.outcome = "conflict"
                    /\ call.key \notin Pg!KeyCall(completed.table, find).answer
                    /\ \A i \in DOMAIN table : table[i].key # call.key => completed.table[i] = table[i]
    BY DEF ReceiptReturned
<1>2. /\ marked = Pg!MarkCommitted(table, call)
      /\ \A t : /\ Pg!KeyCall(t, retry) = Pg!Acquire(t, retry)
                /\ Pg!KeyCall(t, another) = Pg!Acquire(t, another)
                /\ Pg!KeyCall(t, complete) = Pg!Complete(t, complete)
                /\ Pg!KeyCall(t, find) = Pg!FindCommitted(t, find)
    <2> HIDE DEF retry, another, complete, find
    <2> QED BY <1>1 DEF Pg!KeyCall
<1> HIDE DEF retry, another, complete, find
<1>3. PICK i \in DOMAIN table :
          /\ Alone(table, i, call) /\ table[i].token = call.token
          /\ marked.table = [table EXCEPT ![i] = Receipt(table[i], call)]
    <2> HIDE DEF marked
    <2> QED BY <1>2, Marked
<1> DEFINE row1 == Receipt(table[i], call)
           table1 == [table EXCEPT ![i] = row1]
           row2 == Pg!Completed(row1, complete)
           table2 == [table1 EXCEPT ![i] = row2]
<1>4. /\ KeyColumns \subseteq DOMAIN row1
      /\ row1.key = call.key /\ row1.fingerprint = call.fingerprint /\ row1.token = call.token
      /\ row1.status = "business-committed" /\ row1.resource = call.resource /\ row1.pending = call.tags
      /\ row1.version = Pg!EncodeResourceVersion(call.version)
    BY <1>3 DEF Alone, Receipt, KeyColumns
<1>5. /\ KeyColumns \subseteq DOMAIN row2
      /\ row2.key = call.key /\ row2.fingerprint = call.fingerprint
      /\ row2.status = "completed" /\ row2.result = call.result
    <2> HIDE DEF row1
    <2> QED BY <1>1, <1>4 DEF Pg!Completed, Pg!Acknowledged, KeyColumns
<1> HIDE DEF row1, row2
<1>6. Alone(table1, i, call) /\ table1[i] = row1
    BY <1>3, <1>4, Rewritten DEF Alone
<1>7. Alone(table2, i, call) /\ table2[i] = row2
    <2> HIDE DEF table1
    <2> QED BY <1>5, <1>6, Rewritten DEF Alone
<1>8. Pg!Complete(table1, complete) = Pg!Outcome(table2, "completed")
    <2> HIDE DEF table1
    <2>1. Pg!Complete(table1, complete)
            = Pg!Outcome([table1 EXCEPT ![i] = Pg!Completed(table1[i], complete)], "completed")
        BY <1>1, <1>4, <1>6, Recorded
    <2>2. Pg!Completed(table1[i], complete) = row2
        BY <1>6 DEF row2
    <2> QED BY <2>1, <2>2
<1>9. marked.table = table1 /\ completed.answer = "completed" /\ completed.table = table2
    <2>1. marked.table = table1
        BY <1>3 DEF row1
    <2>2. completed = Pg!Complete(table1, complete)
        <3> HIDE DEF marked, table1
        <3> QED BY <1>2, <2>1
    <2> HIDE DEF marked, completed, table1, table2
    <2> QED BY <1>8, <2>1, <2>2
<1> HIDE DEF marked, completed, table1, table2
<1>10. Pg!Acquire(table1, retry).answer = told
    BY <1>1, <1>4, <1>6, ReceiptTold
<1>11. Pg!Acquire(table2, retry).answer = [outcome |-> "replay", result |-> call.result]
    BY <1>1, <1>5, <1>7, AnswerTold
<1>12. /\ Pg!Acquire(table1, another).answer.outcome = "conflict"
       /\ Pg!Acquire(table2, another).answer.outcome = "conflict"
    BY <1>1, <1>6, <1>7, OthersRefused
<1>13. call.key \notin Pg!FindCommitted(table2, find).answer
    BY <1>5, <1>7, Unfound
<1>14. \A j \in DOMAIN table : table[j].key # call.key => table2[j] = table[j]
    BY <1>3 DEF Alone, table1, table2
<1> HIDE DEF told
<1> QED BY <1>2, <1>9, <1>10, <1>11, <1>12, <1>13, <1>14

\* D1 and MySQL are asked of the tables PostgreSQL leaves.
LEMMA WrittenTables ==
    ASSUME NEW table, NEW call, call.op \in {"markCommitted", "complete"}
    PROVE  IsTable(Pg!KeyCall(table, call).table)
<1>1. CASE call.op = "markCommitted"
    BY <1>1 DEF Pg!KeyCall, Pg!MarkCommitted, Pg!Updated, Pg!Update, IsTable
<1>2. CASE call.op = "complete"
    BY <1>2 DEF Pg!KeyCall, Pg!Complete, Pg!Updated, Pg!Update, IsTable
<1> QED BY <1>1, <1>2

LEMMA ReceiptsAreReturned ==
    ASSUME NEW table, ReservedKeys(table), NEW call, KeyCallMade(call)
    PROVE  ReceiptsReturned(table, call)
<1> SUFFICES ASSUME call.op = "markCommitted"
             PROVE  /\ ReceiptReturned(Pg!KeyCall, table, call)
                    /\ ReceiptReturned(D1!KeyCall, table, call)
                    /\ ReceiptReturned(MySql!KeyCall, table, call)
    BY DEF ReceiptsReturned
<1> DEFINE marked == Pg!KeyCall(table, call)
           later == [call EXCEPT !.id = 9, !.db = @ + 100]
           retry == [later EXCEPT !.op = "acquire"]
           complete == [later EXCEPT !.op = "complete"]
           find == [later EXCEPT !.op = "findCommitted"]
           another == [retry EXCEPT !.fingerprint = "another"]
           completed == Pg!KeyCall(marked.table, complete)
           SameOn(t, c) == /\ D1!KeyCall(t, c) = Pg!KeyCall(t, c)
                           /\ MySql!KeyCall(t, c) = Pg!KeyCall(t, c)
<1>1. /\ retry.op = "acquire" /\ another.op = "acquire" /\ complete.op = "complete" /\ find.op = "findCommitted"
      /\ {"markCommitted", "acquire", "complete", "findCommitted"} \subseteq KeyOperations
    BY DEF KeyCallMade, KeyOperations
<1>2. ReceiptReturned(Pg!KeyCall, table, call)
    BY ReceiptIsReturned
<1>3. SameOn(table, call)
    BY <1>1, SameKeyCall DEF ReservedKeys
<1> HIDE DEF retry, complete, find, another
<1>4. IsTable(marked.table) /\ IsTable(completed.table)
    BY <1>1, WrittenTables
<1> HIDE DEF marked, completed
<1>5. /\ SameOn(marked.table, retry) /\ SameOn(marked.table, another) /\ SameOn(marked.table, complete)
      /\ SameOn(completed.table, retry) /\ SameOn(completed.table, another) /\ SameOn(completed.table, find)
    BY <1>1, <1>4, SameKeyCall
<1>6. ReceiptReturned(D1!KeyCall, table, call) <=> ReceiptReturned(Pg!KeyCall, table, call)
    BY <1>3, <1>5 DEF ReceiptReturned, marked, completed, retry, another, complete, find
<1>7. ReceiptReturned(MySql!KeyCall, table, call)
        <=> ReceiptReturned(Pg!KeyCall, table, call)
    BY <1>3, <1>5 DEF ReceiptReturned, marked, completed, retry, another, complete, find
<1> QED BY <1>2, <1>6, <1>7

LEMMA SameEnqueue ==
    ASSUME NEW table, NEW call
    PROVE  /\ D1!EnqueueJob(table, call) = Pg!EnqueueJob(table, call)
           /\ MySql!EnqueueJob(table, call) = Pg!EnqueueJob(table, call)
<1> DEFINE job == call.job
           new == Pg!NewJobRow(job, call)
<1>1. D1!NewJobRow(job, call) = new /\ MySql!NewJobRow(job, call) = new
    BY DEF Pg!NewJobRow, D1!NewJobRow, MySql!NewJobRow, Pg!BuildIdempotencyScope, D1!BuildIdempotencyScope,
           MySql!BuildIdempotencyScope, Pg!BuildJobFingerprintInput, D1!BuildJobFingerprintInput,
           MySql!BuildJobFingerprintInput, Pg!Unset, D1!Unset, MySql!Unset
<1>2. /\ D1!AssertDurableJob(job) = Pg!AssertDurableJob(job)
      /\ MySql!AssertDurableJob(job) = Pg!AssertDurableJob(job)
    BY DEF Pg!AssertDurableJob, D1!AssertDurableJob, MySql!AssertDurableJob, Pg!JobScopes, D1!JobScopes,
           MySql!JobScopes, Pg!Blank, D1!Blank, MySql!Blank, Pg!Unset, D1!Unset, MySql!Unset
<1>3. /\ D1!AssertRequesterCanEnqueueScope(call.requester, job.scope, job.tenant)
           = Pg!AssertRequesterCanEnqueueScope(call.requester, job.scope, job.tenant)
      /\ MySql!AssertRequesterCanEnqueueScope(call.requester, job.scope, job.tenant)
           = Pg!AssertRequesterCanEnqueueScope(call.requester, job.scope, job.tenant)
      /\ D1!AssertJobScopeCanEnqueue(job.scope, job.tenant) = Pg!AssertJobScopeCanEnqueue(job.scope, job.tenant)
      /\ MySql!AssertJobScopeCanEnqueue(job.scope, job.tenant)
           = Pg!AssertJobScopeCanEnqueue(job.scope, job.tenant)
    BY DEF Pg!AssertRequesterCanEnqueueScope, D1!AssertRequesterCanEnqueueScope,
           MySql!AssertRequesterCanEnqueueScope, Pg!AssertJobRequesterCanEnqueue, D1!AssertJobRequesterCanEnqueue,
           MySql!AssertJobRequesterCanEnqueue, Pg!AssertJobScopeCanEnqueue, D1!AssertJobScopeCanEnqueue,
           MySql!AssertJobScopeCanEnqueue
<1>4. \A r : /\ D1!Insert(table, r) = Pg!Insert(table, r)
             /\ MySql!Insert(table, r) = Pg!Insert(table, r)
             /\ D1!Accepted(r) = Pg!Accepted(r) /\ MySql!Accepted(r) = Pg!Accepted(r)
             /\ D1!Rejected(r) = Pg!Rejected(r) /\ MySql!Rejected(r) = Pg!Rejected(r)
    BY DEF Pg!Insert, D1!Insert, MySql!Insert, Pg!Accepted, D1!Accepted, MySql!Accepted, Pg!Rejected, D1!Rejected,
           MySql!Rejected
<1> QED BY <1>1, <1>2, <1>3, <1>4 DEF Pg!EnqueueJob, D1!EnqueueJob, MySql!EnqueueJob, Pg!Rows, D1!Rows, MySql!Rows

LEMMA NewJob ==
    ASSUME NEW job, NEW call
    PROVE  LET new == Pg!NewJobRow(job, call)
           IN  /\ new.id = call.id /\ new.scope = job.scope /\ new.tenant = job.tenant /\ new.key = job.key
               /\ new.keyScope = Pg!BuildIdempotencyScope(job.tenant, job.scope)
               /\ new.fingerprint.scope = job.scope /\ new.fingerprint.tenant = job.tenant
               /\ job.runAt # Unset =>
                      new.fingerprint = Pg!BuildJobFingerprintInput(job, job.runAt)
               /\ JobColumns = DOMAIN new
               /\ Pg!AssertDurableJob(job) => AssertStoredJobShape(ToStoredJob(new))
<1> DEFINE new == Pg!NewJobRow(job, call)
<1>1. /\ new.id = call.id /\ new.scope = job.scope /\ new.tenant = job.tenant /\ new.key = job.key
      /\ new.type = job.type /\ new.version = job.version /\ new.attempts = 0
      /\ new.maxAttempts = IF job.maxAttempts = Pg!Unset THEN 3 ELSE job.maxAttempts
      /\ new.keyScope = Pg!BuildIdempotencyScope(job.tenant, job.scope)
      /\ JobColumns = DOMAIN new
    BY DEF Pg!NewJobRow, JobColumns
<1>2. new.fingerprint
        = Pg!BuildJobFingerprintInput(job, IF job.runAt = Pg!Unset THEN call.now ELSE job.runAt)
    BY DEF Pg!NewJobRow
<1>3. new.fingerprint.scope = job.scope /\ new.fingerprint.tenant = job.tenant
    BY <1>2 DEF Pg!BuildJobFingerprintInput
<1> HIDE DEF new
<1>4. ASSUME Pg!AssertDurableJob(job) PROVE AssertStoredJobShape(ToStoredJob(new))
    <2> DEFINE stored == ToStoredJob(new)
    <2>1. /\ stored.type = job.type /\ stored.version = job.version /\ stored.scope = job.scope
          /\ stored.currentAttempt = 0 /\ stored.attemptsCompleted = 0 /\ stored.maxAttempts = new.maxAttempts
        BY <1>1 DEF ToStoredJob
    <2>2. job.type \notin {"", Blank} /\ job.scope \in JobScopes
        BY <1>4 DEF Pg!AssertDurableJob, Pg!Blank, Pg!JobScopes, Blank, JobScopes
    <2>3. new.maxAttempts >= 1
        <3>1. job.maxAttempts = Pg!Unset \/ job.maxAttempts >= 1
            BY <1>4 DEF Pg!AssertDurableJob
        <3> QED BY <1>1, <3>1 DEF Pg!Unset
    <2> HIDE DEF stored
    <2>4. /\ stored.version >= 1 /\ stored.currentAttempt >= 0 /\ stored.attemptsCompleted >= 0
          /\ stored.maxAttempts >= 1
        <3>1. job.version >= 1
            BY <1>4 DEF Pg!AssertDurableJob
        <3> QED BY <2>1, <2>3, <3>1
    <2>5. stored.type \notin {"", Blank} /\ stored.scope \in JobScopes
        BY <2>1, <2>2
    <2> QED BY <2>4, <2>5 DEF AssertStoredJobShape, stored
<1> QED BY <1>1, <1>2, <1>3, <1>4 DEF Unset, Pg!Unset, new

\* The job that answers an enqueue, in the table it leaves: the only one of its
\* key.
AnswersFor(table, i, job) ==
    LET keyScope == Pg!BuildIdempotencyScope(job.tenant, job.scope)
    IN  /\ i \in DOMAIN table /\ JobColumns \subseteq DOMAIN table[i] /\ table[i].id = i
        /\ table[i].scope = job.scope /\ table[i].tenant = job.tenant
        /\ job.runAt # Unset => table[i].fingerprint = Pg!BuildJobFingerprintInput(job, job.runAt)
        /\ job.key # Nil =>
               \A j \in DOMAIN table : table[j].key = job.key /\ table[j].keyScope = keyScope <=> j = i

\* What an enqueue asks of its job and its requester.
Enqueueable(job, requester) ==
    /\ Pg!AssertDurableJob(job)
    /\ Pg!AssertRequesterCanEnqueueScope(requester, job.scope, job.tenant)
    /\ Pg!AssertJobScopeCanEnqueue(job.scope, job.tenant)

LEMMA AcceptedJob ==
    ASSUME NEW table, EnqueuedJobs(table), NEW call, call.id \notin DOMAIN table,
           NEW row \in Pg!EnqueueJob(table, call).answer.jobs
    PROVE  LET kept == Pg!EnqueueJob(table, call).table
           IN  /\ Enqueueable(call.job, call.requester)
               /\ AnswersFor(kept, row.id, call.job) /\ kept[row.id] = row
               /\ AssertStoredJobShape(ToStoredJob(row))
<1> DEFINE job == call.job
           new == Pg!NewJobRow(job, call)
           clash == Pg!Rows(table, LAMBDA r : job.key # Pg!Nil /\ r.key = job.key /\ r.keyScope = new.keyScope)
           existing == CHOOSE r \in clash : TRUE
           result == Pg!EnqueueJob(table, call)
<1>1. /\ Enqueueable(job, call.requester)
      /\ \/ clash = {} /\ result.table = Pg!Insert(table, new) /\ row = new
         \/ clash # {} /\ existing.fingerprint = new.fingerprint /\ result.table = table /\ row = existing
    <2>1. result = IF ~Pg!AssertDurableJob(job) THEN Pg!Outcome(table, Pg!Rejected("invalid"))
                   ELSE IF \/ ~Pg!AssertRequesterCanEnqueueScope(call.requester, job.scope, job.tenant)
                           \/ ~Pg!AssertJobScopeCanEnqueue(job.scope, job.tenant)
                        THEN Pg!Outcome(table, Pg!Rejected("tenant scope"))
                   ELSE IF clash = {} THEN Pg!Outcome(Pg!Insert(table, new), Pg!Accepted(new))
                   ELSE IF existing.fingerprint # new.fingerprint
                        THEN Pg!Outcome(table, Pg!Rejected("conflict"))
                   ELSE Pg!Outcome(table, Pg!Accepted(existing))
        BY DEF Pg!EnqueueJob
    <2>2. row \in result.answer.jobs
        OBVIOUS
    <2> HIDE DEF result, clash, new, existing
    <2> QED BY <2>1, <2>2 DEF Enqueueable, Pg!Rejected, Pg!Accepted
<1>2. /\ new.id = call.id /\ new.scope = job.scope /\ new.tenant = job.tenant /\ new.key = job.key
      /\ new.keyScope = Pg!BuildIdempotencyScope(job.tenant, job.scope)
      /\ new.fingerprint.scope = job.scope /\ new.fingerprint.tenant = job.tenant
      /\ job.runAt # Unset => new.fingerprint = Pg!BuildJobFingerprintInput(job, job.runAt)
      /\ JobColumns = DOMAIN new
      /\ Pg!AssertDurableJob(job) => AssertStoredJobShape(ToStoredJob(new))
    BY NewJob
<1>3. clash = {table[i] : i \in {k \in DOMAIN table : /\ job.key # Nil /\ table[k].key = job.key
                                                      /\ table[k].keyScope = new.keyScope}}
    BY DEF Pg!Rows, Nil
<1> HIDE DEF result, clash, new, existing
<1>4. CASE clash = {} /\ result.table = Pg!Insert(table, new) /\ row = new
    <2> DEFINE kept == [id \in DOMAIN table \cup {call.id} |-> IF id = call.id THEN new ELSE table[id]]
    <2>1. result.table = kept
        BY <1>2, <1>4 DEF Pg!Insert
    <2>2. DOMAIN kept = DOMAIN table \cup {call.id} /\ kept[call.id] = new
          /\ \A j \in DOMAIN table : kept[j] = table[j]
        OBVIOUS
    <2>3. job.key # Nil =>
             \A j \in DOMAIN table : ~(table[j].key = job.key /\ table[j].keyScope = new.keyScope)
        BY <1>3, <1>4
    <2> HIDE DEF kept
    <2>4. AnswersFor(kept, call.id, job)
        BY <1>2, <2>2, <2>3 DEF AnswersFor
    <2> QED BY <1>1, <1>2, <1>4, <2>1, <2>2, <2>4 DEF Enqueueable, result
<1>5. CASE /\ clash # {} /\ existing.fingerprint = new.fingerprint /\ result.table = table /\ row = existing
    <2>1. row \in clash
        BY <1>5 DEF existing
    <2>2. PICK i \in DOMAIN table : /\ row = table[i] /\ job.key # Nil /\ table[i].key = job.key
                                    /\ table[i].keyScope = new.keyScope
        BY <1>3, <2>1
    <2>3. row.id = i /\ AnswersFor(table, i, job) /\ AssertStoredJobShape(ToStoredJob(row))
        BY <1>2, <1>5, <2>2 DEF AnswersFor, EnqueuedJobs
    <2> QED BY <1>1, <1>5, <2>2, <2>3 DEF result
<1> QED BY <1>1, <1>4, <1>5

LEMMA EnqueuedAgain ==
    ASSUME NEW table, NEW i, NEW retry, AnswersFor(table, i, retry.job), Enqueueable(retry.job, retry.requester),
           retry.job.key # Nil, retry.job.runAt # Unset
    PROVE  Pg!EnqueueJob(table, retry) = Outcome(table, Accepted(table[i]))
<1> DEFINE job == retry.job
           new == Pg!NewJobRow(job, retry)
           clash == Pg!Rows(table, LAMBDA r : job.key # Pg!Nil /\ r.key = job.key /\ r.keyScope = new.keyScope)
           existing == CHOOSE r \in clash : TRUE
<1>1. /\ new.keyScope = Pg!BuildIdempotencyScope(job.tenant, job.scope)
      /\ new.fingerprint = Pg!BuildJobFingerprintInput(job, job.runAt)
    BY NewJob
<1>2. clash # {} /\ existing.fingerprint = new.fingerprint
        => Pg!EnqueueJob(table, retry) = Pg!Outcome(table, Pg!Accepted(existing))
    BY DEF Pg!EnqueueJob, Enqueueable
<1>3. clash = {table[i]}
    <2> HIDE DEF new
    <2> QED BY <1>1 DEF AnswersFor, Pg!Rows, Nil
<1>4. existing = table[i]
    <2> HIDE DEF clash
    <2> QED BY <1>3
<1> HIDE DEF clash, existing, new
<1> QED BY <1>1, <1>2, <1>3, <1>4 DEF AnswersFor, Outcome, Pg!Accepted, Accepted

LEMMA JobsAreEnqueuedOnce ==
    ASSUME NEW table, EnqueuedJobs(table), NEW call, JobCallMade(call, {table})
    PROVE  EnqueuesOnce(table, call)
<1> SUFFICES ASSUME call.op = "enqueue"
             PROVE  /\ EnqueuedOnce(Pg!EnqueueJob, table, call)
                    /\ EnqueuedOnce(D1!EnqueueJob, table, call)
                    /\ EnqueuedOnce(MySql!EnqueueJob, table, call)
    BY DEF EnqueuesOnce
<1> DEFINE first == Pg!EnqueueJob(table, call)
           retry == [call EXCEPT !.id = 9, !.now = @ + 1, !.db = @ + 1]
           since(row, status) == [first.table EXCEPT ![row.id].status = status]
           told(row, status) == Outcome(since(row, status), Accepted(since(row, status)[row.id]))
<1>1. ASSUME NEW row \in first.answer.jobs
      PROVE  /\ AssertStoredJobShape(ToStoredJob(row))
             /\ row.scope = call.job.scope /\ row.tenant = call.job.tenant
             /\ call.job.key # Nil /\ call.job.runAt # Unset =>
                   \A status : Pg!EnqueueJob(since(row, status), retry) = told(row, status)
    <2>1. retry.job = call.job /\ retry.requester = call.requester
        BY DEF JobCallMade
    <2> HIDE DEF retry
    <2>2. /\ Enqueueable(call.job, call.requester)
          /\ AnswersFor(first.table, row.id, call.job) /\ first.table[row.id] = row
          /\ AssertStoredJobShape(ToStoredJob(row))
        BY <1>1, AcceptedJob DEF JobCallMade
    <2> HIDE DEF first
    <2>3. ASSUME NEW status PROVE AnswersFor(since(row, status), row.id, call.job)
        BY <2>2 DEF AnswersFor, JobColumns
    <2>4. row.scope = call.job.scope /\ row.tenant = call.job.tenant
        BY <2>2 DEF AnswersFor
    <2> HIDE DEF since
    <2> QED BY <2>1, <2>2, <2>3, <2>4, EnqueuedAgain
<1>2. EnqueuedOnce(D1!EnqueueJob, table, call)
    <2> DEFINE result == D1!EnqueueJob(table, call)
               later(row, status) == [result.table EXCEPT ![row.id].status = status]
    <2> SUFFICES ASSUME NEW row \in result.answer.jobs
                 PROVE  /\ AssertStoredJobShape(ToStoredJob(row))
                        /\ row.scope = call.job.scope /\ row.tenant = call.job.tenant
                        /\ call.job.key # Nil /\ call.job.runAt # Unset =>
                              \A status \in {"running", "succeeded", "cancelled"} :
                                  D1!EnqueueJob(later(row, status), retry)
                                    = Outcome(later(row, status), Accepted(later(row, status)[row.id]))
        BY DEF EnqueuedOnce
    <2>1. result = first
        BY SameEnqueue
    <2> HIDE DEF result, first, retry
    <2>2. \A status : later(row, status) = since(row, status)
        BY <2>1
    <2> HIDE DEF later, since
    <2> QED BY <2>1, <2>2, <1>1, SameEnqueue
<1>3. EnqueuedOnce(MySql!EnqueueJob, table, call)
    <2> DEFINE result == MySql!EnqueueJob(table, call)
               later(row, status) == [result.table EXCEPT ![row.id].status = status]
    <2> SUFFICES ASSUME NEW row \in result.answer.jobs
                 PROVE  /\ AssertStoredJobShape(ToStoredJob(row))
                        /\ row.scope = call.job.scope /\ row.tenant = call.job.tenant
                        /\ call.job.key # Nil /\ call.job.runAt # Unset =>
                              \A status \in {"running", "succeeded", "cancelled"} :
                                  MySql!EnqueueJob(later(row, status), retry)
                                    = Outcome(later(row, status), Accepted(later(row, status)[row.id]))
        BY DEF EnqueuedOnce
    <2>1. result = first
        BY SameEnqueue
    <2> HIDE DEF result, first, retry
    <2>2. \A status : later(row, status) = since(row, status)
        BY <2>1
    <2> HIDE DEF later, since
    <2> QED BY <2>1, <2>2, <1>1, SameEnqueue
<1>4. EnqueuedOnce(Pg!EnqueueJob, table, call)
    <2> DEFINE result == Pg!EnqueueJob(table, call)
               later(row, status) == [result.table EXCEPT ![row.id].status = status]
    <2> SUFFICES ASSUME NEW row \in result.answer.jobs
                 PROVE  /\ AssertStoredJobShape(ToStoredJob(row))
                        /\ row.scope = call.job.scope /\ row.tenant = call.job.tenant
                        /\ call.job.key # Nil /\ call.job.runAt # Unset =>
                              \A status \in {"running", "succeeded", "cancelled"} :
                                  Pg!EnqueueJob(later(row, status), retry)
                                    = Outcome(later(row, status), Accepted(later(row, status)[row.id]))
        BY DEF EnqueuedOnce
    <2>1. result = first
        OBVIOUS
    <2> HIDE DEF result, first, retry
    <2>2. \A status : later(row, status) = since(row, status)
        BY <2>1
    <2> HIDE DEF later, since
    <2> QED BY <2>1, <2>2, <1>1
<1> QED BY <1>2, <1>3, <1>4

\* Whatever tables the stores find and whatever is asked of them, what was
\* accepted or recorded is answered the same when it is asked for again.
THEOREM EveryRetryAnswered ==
    ASSUME CallsAreMade
    PROVE  StoresSpec => []RetriesAnswered
<1> DEFINE Asked == \/ storeCall = Unasked
                    \/ /\ storeCall.subject = "jobs"
                       /\ EnqueuedJobs(storeCall.table) /\ JobCallMade(storeCall.call, {storeCall.table})
                    \/ storeCall.subject = "schedules"
                    \/ /\ storeCall.subject = "keys"
                       /\ ReservedKeys(storeCall.table) /\ KeyCallMade(storeCall.call)
<1>1. storeCall = Unasked => Asked
    OBVIOUS
<1>2. /\ Asked
      /\ [\/ CallJobStore \/ CallScheduleStore \/ CallIdempotencyStore
          \/ storeCall' = Unasked]_storeCall
      => Asked'
    <2> SUFFICES ASSUME Asked,
                        \/ CallJobStore \/ CallScheduleStore \/ CallIdempotencyStore
                        \/ storeCall' = Unasked \/ UNCHANGED storeCall
                 PROVE  Asked'
        OBVIOUS
    <2>1. CASE CallJobStore
        BY <2>1 DEF CallJobStore, CallsAreMade, JobCallMade
    <2>2. CASE CallScheduleStore
        BY <2>2 DEF CallScheduleStore
    <2>3. CASE CallIdempotencyStore
        BY <2>3 DEF CallIdempotencyStore, CallsAreMade
    <2>4. CASE storeCall' = Unasked
        BY <2>4
    <2>5. CASE UNCHANGED storeCall
        BY <2>5
    <2> QED BY <2>1, <2>2, <2>3, <2>4, <2>5
<1>3. Asked => RetriesAnswered
    <2> SUFFICES ASSUME Asked PROVE RetriesAnswered
        OBVIOUS
    <2>1. ASSUME storeCall.subject = "jobs" PROVE EnqueuesOnce(storeCall.table, storeCall.call)
        <3>1. EnqueuedJobs(storeCall.table) /\ JobCallMade(storeCall.call, {storeCall.table})
            BY <2>1 DEF Unasked
        <3> QED BY <3>1, JobsAreEnqueuedOnce
    <2>2. ASSUME storeCall.subject = "keys" PROVE ReceiptsReturned(storeCall.table, storeCall.call)
        <3>1. ReservedKeys(storeCall.table) /\ KeyCallMade(storeCall.call)
            BY <2>2 DEF Unasked
        <3> QED BY <3>1, ReceiptsAreReturned
    <2> QED BY <2>1, <2>2 DEF RetriesAnswered
<1> QED BY <1>1, <1>2, <1>3, PTL DEF StoresSpec
=============================================================================

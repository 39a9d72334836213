---------------------------- MODULE CronCalculator ----------------------------
(***************************************************************************)
(* When a cron expression is due next (packages/core/src/execution/        *)
(* scheduleCalculator.ts): its fields parsed, and local times searched     *)
(* from the one after a given instant on, each translated back to an       *)
(* instant of a timezone whose offset changes, so that some local times    *)
(* come twice and some never.                                              *)
(*                                                                         *)
(* A local time is the number of its minutes since the calendar begins, an *)
(* instant the local time it is at no offset; both carry their date with   *)
(* them, so an invalid date cannot be written.                             *)
(***************************************************************************)
EXTENDS Integers, Sequences, FiniteSets, SequencesExt

CONSTANTS
    MinutesInHour, HoursInDay, DaysInWeek,
    Dates         \* the days of the calendar in their order, each a record
                  \* of its month and its day of the month

MinutesInDay == MinutesInHour * HoursInDay
Horizon == Len(Dates) * MinutesInDay

Smallest(S) == CHOOSE n \in S : \A m \in S : n <= m
Largest(S) == CHOOSE n \in S : \A m \in S : m <= n

MonthsInYear == Largest({Dates[n].month : n \in DOMAIN Dates})
LongestMonth == Largest({Dates[n].day : n \in DOMAIN Dates})

DayNumber(local) == local \div MinutesInDay
DateOf(local) == Dates[DayNumber(local) + 1]
Hour(local) == (local % MinutesInDay) \div MinutesInHour
Minute(local) == local % MinutesInHour
DayOfWeek(local) == DayNumber(local) % DaysInWeek

-----------------------------------------------------------------------------
(* Expressions: five fields, each a sequence of parts *)

NoStep == -1
Star(step) == [form |-> "star", from |-> 0, to |-> 0, step |-> step]
Value(n, step) == [form |-> "value", from |-> n, to |-> n, step |-> step]
Span(a, b, step) == [form |-> "span", from |-> a, to |-> b, step |-> step]
Unreadable == [form |-> "unreadable", from |-> 0, to |-> 0, step |-> NoStep]

\* A value with a step goes on to the end of its field.
PartStart(part, min) == IF part.form = "star" THEN min ELSE part.from
PartEnd(part, max) ==
    IF part.form = "star" \/ (part.form = "value" /\ part.step # NoStep) THEN max ELSE part.to

PartRefused(part, min, max) ==
    \/ part.form = "unreadable"
    \/ part.step # NoStep /\ part.step <= 0
    \/ PartStart(part, min) < min \/ PartEnd(part, max) > max
    \/ PartStart(part, min) > PartEnd(part, max)

PartValues(part, min, max) ==
    LET start == PartStart(part, min)
        step == IF part.step = NoStep THEN 1 ELSE part.step
    IN  {v \in start..PartEnd(part, max) : (v - start) % step = 0}

ParseField(field, min, max) == UNION {PartValues(field[i], min, max) : i \in DOMAIN field}
FieldRefused(field, min, max) == \E i \in DOMAIN field : PartRefused(field[i], min, max)
Starred(field) == \E i \in DOMAIN field : field[i].form = "star"

ExpressionRefused(fields) ==
    \/ Len(fields) # 5
    \/ FieldRefused(fields[1], 0, MinutesInHour - 1) \/ FieldRefused(fields[2], 0, HoursInDay - 1)
    \/ FieldRefused(fields[3], 1, LongestMonth) \/ FieldRefused(fields[4], 1, MonthsInYear)
    \/ FieldRefused(fields[5], 0, DaysInWeek)

\* The last day of the week is also its first.
ParseCronExpression(fields) ==
    [minutes |-> ParseField(fields[1], 0, MinutesInHour - 1),
     hours |-> ParseField(fields[2], 0, HoursInDay - 1),
     daysOfMonth |-> ParseField(fields[3], 1, LongestMonth),
     daysOfMonthWildcard |-> Starred(fields[3]),
     months |-> ParseField(fields[4], 1, MonthsInYear),
     daysOfWeek |-> {d % DaysInWeek : d \in ParseField(fields[5], 0, DaysInWeek)},
     daysOfWeekWildcard |-> Starred(fields[5])]

-----------------------------------------------------------------------------
(* Days and times that match *)

\* A day field with a star restricts nothing, whatever its step; of two that
\* restrict, one has to match.
DayMatches(local, cron) ==
    LET domMatch == DateOf(local).day \in cron.daysOfMonth
        dowMatch == DayOfWeek(local) \in cron.daysOfWeek
    IN  /\ DateOf(local).month \in cron.months
        /\ IF ~cron.daysOfMonthWildcard /\ ~cron.daysOfWeekWildcard THEN domMatch \/ dowMatch
           ELSE IF cron.daysOfMonthWildcard THEN cron.daysOfWeekWildcard \/ dowMatch ELSE domMatch

MatchesLocalCron(local, cron) ==
    DayMatches(local, cron) /\ Hour(local) \in cron.hours /\ Minute(local) \in cron.minutes

\* Some month of the expression has one of its days, in some year.
HasPossibleCalendarDate(cron) ==
    \E n \in DOMAIN Dates : Dates[n].month \in cron.months /\ Dates[n].day \in cron.daysOfMonth

StartOfDay(local) == DayNumber(local) * MinutesInDay
StartOfHour(local) == local - Minute(local)
NextLocalMinute(local) == local + 1
NextLocalDay(local) == StartOfDay(local) + MinutesInDay

\* The first of the next of these months, of the next year when the year has
\* no more of them, or the end of the calendar.
NextLocalMonth(local, months) ==
    LET first == {n \in DayNumber(local) + 1 .. Len(Dates) - 1 : Dates[n + 1].day = 1 /\ Dates[n + 1].month \in months}
    IN  IF first = {} THEN Horizon ELSE Smallest(first) * MinutesInDay

-----------------------------------------------------------------------------
(* Timezones: an offset and its changes, in their order *)

Utc == [known |-> TRUE, first |-> 0, changes |-> <<>>]

OffsetAt(zone, instant) ==
    LET past == {i \in DOMAIN zone.changes : zone.changes[i].at <= instant}
    IN  IF past = {} THEN zone.first ELSE zone.changes[Largest(past)].offset

ToLocalDateTimeParts(instant, zone) == instant + OffsetAt(zone, instant)
GetOffset(instant, zone) == ToLocalDateTimeParts(instant, zone) - instant

NoInstant == -1000
Refused == [outcome |-> "refused", at |-> NoInstant]
None == [outcome |-> "none", at |-> NoInstant]
At(instant) == [outcome |-> "found", at |-> instant]

\* The instants that have this local time, looked for with the offsets of the
\* days around it; which of them is chosen, and what becomes of a local time
\* there is no instant for, is the disambiguation's to say.
LocalToUtc(local, zone, disambiguation) ==
    LET offsets == {GetOffset(local + days * MinutesInDay, zone) : days \in -2..2}
        candidates == {c \in {local - o : o \in offsets} : ToLocalDateTimeParts(c, zone) = local}
    IN  IF disambiguation = "reject" /\ Cardinality(candidates) # 1 THEN Refused
        ELSE IF candidates = {} THEN None
        ELSE At(IF disambiguation = "later" THEN Largest(candidates) ELSE Smallest(candidates))

-----------------------------------------------------------------------------
(* The search *)

\* The local time to look at instead of one that does not match.
Advance(local, cron) ==
    LET hours == {h \in cron.hours : h > Hour(local)}
        minutes == {m \in cron.minutes : m > Minute(local)}
    IN  IF DateOf(local).month \notin cron.months THEN NextLocalMonth(local, cron.months)
        ELSE IF ~DayMatches(local, cron) THEN NextLocalDay(local)
        ELSE IF Hour(local) \notin cron.hours
             THEN IF hours = {} THEN NextLocalDay(local) ELSE StartOfDay(local) + Smallest(hours) * MinutesInHour
        ELSE IF minutes = {} THEN StartOfHour(local) + MinutesInHour ELSE StartOfHour(local) + Smallest(minutes)

\* A bug to be caught: what is found may lie before the instant asked about.
AcceptableEver(candidate, after, zone, local) ==
    candidate # None /\ ToLocalDateTimeParts(candidate.at, zone) = local
Acceptable(candidate, after, zone, local) ==
    candidate # None /\ candidate.at > after /\ ToLocalDateTimeParts(candidate.at, zone) = local

\* The calendar ends where the code gives up (MAX_ITERATIONS).
RECURSIVE Search(_, _, _, _, _)
Search(cron, after, zone, disambiguation, local) ==
    LET candidate == LocalToUtc(local, zone, disambiguation)
        further(next) == Search(cron, after, zone, disambiguation, next)
    IN  IF local >= Horizon THEN None
        ELSE IF ~MatchesLocalCron(local, cron) THEN further(Advance(local, cron))
        ELSE IF candidate = Refused \/ Acceptable(candidate, after, zone, local) THEN candidate
        ELSE further(NextLocalMinute(local))

\* A zone the runtime does not know is refused as an expression is, but not
\* before a local time is asked for.
GetNextLocalOccurrence(cron, after, zone, disambiguation) ==
    IF ~HasPossibleCalendarDate(cron) THEN None
    ELSE IF ~zone.known THEN Refused
    ELSE Search(cron, after, zone, disambiguation, NextLocalMinute(ToLocalDateTimeParts(after, zone)))

GetNextOccurrence(fields, after, zone, disambiguation) ==
    IF ExpressionRefused(fields) THEN Refused
    ELSE GetNextLocalOccurrence(ParseCronExpression(fields), after, zone, disambiguation)

\* The occurrences from the next run on that are due by now, as many as asked
\* for, the next run itself first; or Refused.
RECURSIVE Further(_, _, _, _, _, _)
RECURSIVE FurtherFrom(_, _, _, _, _, _)
FurtherFrom(results, fields, next, now, maxCount, place) ==
    IF next = Refused THEN <<NoInstant>>
    ELSE IF next = None \/ next.at > now THEN results
    ELSE Further(Append(results, next.at), fields, next.at, now, maxCount, place)
Further(results, fields, current, now, maxCount, place) ==
    IF Len(results) >= maxCount THEN results
    ELSE FurtherFrom(results, fields, GetNextOccurrence(fields, current, place.zone, place.disambiguation),
                     now, maxCount, place)
ComputeScheduleOccurrences(fields, nextRunAt, now, maxCount, place) ==
    IF maxCount <= 0 THEN <<>>
    ELSE Further(IF nextRunAt <= now THEN <<nextRunAt>> ELSE <<>>, fields, nextRunAt, now, maxCount, place)

-----------------------------------------------------------------------------
(* What is right *)

\* Other instants with the same local time, before it and after it.
Repeated(instant, zone) ==
    \E t \in instant - MinutesInDay..instant - 1 :
        ToLocalDateTimeParts(t, zone) = ToLocalDateTimeParts(instant, zone)
Repeats(instant, zone) ==
    \E t \in instant + 1..instant + MinutesInDay :
        ToLocalDateTimeParts(t, zone) = ToLocalDateTimeParts(instant, zone)

\* The instants an expression stands for: those whose local time matches, of
\* those that have one local time the one the disambiguation chooses.
Instants(fields, place) ==
    LET cron == ParseCronExpression(fields)
        chosen(t) == IF place.disambiguation = "later" THEN ~Repeats(t, place.zone) ELSE ~Repeated(t, place.zone)
        local(t) == ToLocalDateTimeParts(t, place.zone)
    IN  {t \in -MinutesInDay..Horizon + MinutesInDay :
            local(t) \in 0..Horizon - 1 /\ MatchesLocalCron(local(t), cron) /\ chosen(t)}

\* The next occurrence is the first of the instants there are after the one
\* asked about, and there is none only when there is no such instant: no local
\* time is left out or taken twice where the offset changes.  Asked to reject,
\* it never answers an instant whose local time is not its alone.  Two things
\* are as the code has them: an expression whose days of the month its months
\* never have is due on no weekday either, and the later of two like local
\* times is not found from the earlier on.
FirstOf(fields, after, place, next, later) ==
    IF ExpressionRefused(fields) THEN next = Refused
    ELSE IF ~HasPossibleCalendarDate(ParseCronExpression(fields)) THEN next = None
    ELSE IF ~place.zone.known THEN next = Refused
    ELSE IF place.disambiguation = "later" /\ Repeats(after, place.zone) THEN TRUE
    ELSE IF next = Refused THEN place.disambiguation = "reject" /\ place.zone.changes # <<>>
    ELSE /\ later = {} => next = None
         /\ later # {} => next = At(Smallest(later))
         /\ place.disambiguation = "reject" /\ next # None => ~Repeats(next.at, place.zone)
NextIsFirst(fields, after, place) ==
    FirstOf(fields, after, place, GetNextOccurrence(fields, after, place.zone, place.disambiguation),
            {t \in Instants(fields, place) : t > after})

\* From one of those instants on, the due occurrences are, as ScheduleDispatcher
\* has them, the earliest of a set, in their order.
EarliestOf(fields, nextRunAt, now, maxCount, slots, occurrences) ==
    /\ ~ExpressionRefused(fields) /\ HasPossibleCalendarDate(ParseCronExpression(fields))
    /\ nextRunAt \in slots /\ occurrences # <<NoInstant>>
    => /\ LET due == {o \in slots : nextRunAt <= o /\ o <= now}
           IN  ToSet(occurrences) = {o \in due : Cardinality({p \in due : p < o}) < maxCount}
       /\ \A i, j \in DOMAIN occurrences : i < j => occurrences[i] < occurrences[j]
OccurrencesAreSet(fields, nextRunAt, now, maxCount, place) ==
    EarliestOf(fields, nextRunAt, now, maxCount, Instants(fields, place),
               ComputeScheduleOccurrences(fields, nextRunAt, now, maxCount, place))
=============================================================================

---------------------------- MODULE ServiceHours ----------------------------
(***************************************************************************)
(* Service hours (packages/sla/src/policy.ts): the deadline that lies some *)
(* minutes of service ahead of an instant, and the minutes of service      *)
(* between two instants, on a calendar of working days, a time band and    *)
(* holidays, in a zone whose offset changes once.                          *)
(*                                                                         *)
(* Instants are minutes of UTC from the start of a day 0. The arithmetic   *)
(* runs on the local day and minute and is converted back at the end, as   *)
(* in the code; the seconds of an instant, which the code drops, are left  *)
(* out. A calendar is one parseServiceCalendar accepts (calendar.ts:51):   *)
(* some working day of the week, a band that starts before it ends and     *)
(* ends within its day.                                                    *)
(***************************************************************************)
EXTENDS Integers, FiniteSets

CONSTANTS
    DayLength,    \* minutes of a day
    WeekLength,   \* days of a week
    Calendars,    \* [days, start, end, holidays]
    Zones,        \* [before, after, at]: the offset before and from the instant at
    Moments,      \* the instants asked about
    Spans         \* the minutes asked for

ASSUME HoursAssumption ==
    /\ DayLength \in Nat \ {0} /\ WeekLength \in Nat \ {0}
    /\ \A c \in Calendars : /\ c.days \subseteq 0 .. WeekLength - 1 /\ c.days # {}
                            /\ 0 <= c.start /\ c.start < c.end /\ c.end < DayLength
                            /\ {c.start, c.end} \subseteq Int
                            /\ c.holidays \subseteq Int /\ IsFiniteSet(c.holidays)
    /\ \A z \in Zones : z.at \in Int /\ {z.before, z.after} \subseteq -DayLength .. DayLength
    /\ Moments \subseteq Int /\ Spans \subseteq Nat

-----------------------------------------------------------------------------
\* The local clock.

Offset(z, t) == IF t < z.at THEN z.before ELSE z.after

ToLocal(z, t) == [day |-> (t + Offset(z, t)) \div DayLength, minute |-> (t + Offset(z, t)) % DayLength]

FromLocalMutant(z, l) ==
    LET guess == l.day * DayLength + l.minute IN guess - Offset(z, guess)

\* Back to UTC in two passes: the offset found at the guess is tried again
\* where it leads (zonedTimeToUtc).
FromLocal(z, l) ==
    LET guess == l.day * DayLength + l.minute
    IN  guess - Offset(z, guess - Offset(z, guess))

-----------------------------------------------------------------------------
\* The calendar.

WorkingDay(c, day) == day % WeekLength \in c.days /\ day \notin c.holidays

\* The start of the band of the first working day after this one.
NextStart(c, day) ==
    LET first[d \in Int] == IF WorkingDay(c, d) THEN d ELSE first[d + 1]
    IN  [day |-> first[day + 1], minute |-> c.start]

AdvanceMutant(c, l) ==
    IF ~WorkingDay(c, l.day) \/ l.minute > c.end THEN NextStart(c, l.day)
    ELSE IF l.minute < c.start THEN [l EXCEPT !.minute = c.start] ELSE l

\* The first minute of service from a local time on.
Advance(c, l) ==
    IF ~WorkingDay(c, l.day) \/ l.minute >= c.end THEN NextStart(c, l.day)
    ELSE IF l.minute < c.start THEN [l EXCEPT !.minute = c.start] ELSE l

FullDayMutant(c, rest) == rest >= c.end - c.start

\* More than a whole working day is left.
FullDay(c, rest) == rest > c.end - c.start

\* calculateDeadline: what is left of the first day, then, a working day after
\* the other, whole days while more than one of them is left and the rest.
Deadline(c, z, start, minutes) ==
    LET current == Advance(c, ToLocal(z, start))
        left == c.end - current.minute
        after[s \in [day: Int, rest: Nat]] ==
            LET next == NextStart(c, s.day)
            IN  IF FullDay(c, s.rest) THEN after[[day |-> next.day, rest |-> s.rest - (c.end - c.start)]]
                ELSE [next EXCEPT !.minute = @ + s.rest]
    IN  FromLocal(z, IF minutes <= left THEN [current EXCEPT !.minute = @ + minutes]
                     ELSE after[[day |-> current.day, rest |-> minutes - left]])

OnDayMutant(c, l, end) == IF l.day = end.day THEN end.minute - l.minute ELSE c.end - l.minute

\* The minutes of one working day that are counted, from l on: to the end of
\* the band, or on the last day to the instant asked for.
OnDay(c, l, end) ==
    LET upTo == IF l.day = end.day /\ end.minute < c.end THEN end.minute ELSE c.end
    IN  IF upTo > l.minute THEN upTo - l.minute ELSE 0

Before(l, m) == l.day < m.day \/ (l.day = m.day /\ l.minute < m.minute)

\* businessMinutesBetween, one day at a time.
Between(c, z, from, to) ==
    LET end == ToLocal(z, to)
        count[l \in [day: Int, minute: Int]] ==
            IF ~Before(l, end) THEN 0
            ELSE (IF WorkingDay(c, l.day) THEN OnDay(c, l, end) ELSE 0)
                 + (IF l.day = end.day THEN 0 ELSE count[NextStart(c, l.day)])
    IN  IF to <= from THEN 0 ELSE count[Advance(c, ToLocal(z, from))]

-----------------------------------------------------------------------------
\* What both promise, minute by minute.

Open(c, z, t) ==
    LET l == ToLocal(z, t) IN WorkingDay(c, l.day) /\ c.start <= l.minute /\ l.minute < c.end

OpenMinutes(c, z, from, to) == Cardinality({t \in from .. to - 1 : Open(c, z, t)})

\* The offset changes while nobody is at work: every minute of the band of a
\* working day is shown by the clock once.
Settled(c, z) ==
    \A day \in (z.at - DayLength) \div DayLength .. (z.at + DayLength) \div DayLength :
       WorkingDay(c, day) =>
          \A m \in c.start .. c.end :
             Cardinality({t \in (day - 1) * DayLength .. (day + 2) * DayLength :
                             ToLocal(z, t) = [day |-> day, minute |-> m]}) = 1

Worlds == {w \in {<<c, z>> : c \in Calendars, z \in Zones} : Settled(w[1], w[2])}

\* The deadlines that are wrong: between the start and its deadline lie the
\* minutes of service asked for, the last of them just before the deadline, on
\* whichever side of holidays, of the ends of the band and of a change of the
\* offset the two are; asked for none, it is the next minute of service.
WrongDeadlines ==
    {q \in {<<w, t, n>> : w \in Worlds, t \in Moments, n \in Spans} :
       LET c == q[1][1]  z == q[1][2]  start == q[2]  minutes == q[3]
           d == Deadline(c, z, start, minutes)
       IN  ~ /\ d >= start
             /\ OpenMinutes(c, z, start, d) = minutes
             /\ Open(c, z, IF minutes = 0 THEN d ELSE d - 1)}

\* The counts that are wrong: the minutes counted between two instants are the
\* minutes of service between them.
WrongCounts ==
    {q \in {<<w, t, u>> : w \in Worlds, t \in Moments, u \in Moments} :
       LET c == q[1][1]  z == q[1][2]
       IN  q[2] <= q[3] /\ Between(c, z, q[2], q[3]) # OpenMinutes(c, z, q[2], q[3])}
=============================================================================

----------------------------- MODULE OlaMeasure -----------------------------
(***************************************************************************)
(* The time of a team (apps/api/src/lib/olaAttainment.ts): an OLA contract *)
(* measures how long a ticket has been its team's, over the segments every *)
(* change of team writes (lib/ticketTeamHistory.ts).                       *)
(*                                                                         *)
(* A history is the sequence of the teams an item (a ticket, or the task   *)
(* of a change) was given to, and when; an item adds when it was concluded *)
(* and from when its time may run (the window of a task), either of which  *)
(* may be Never.                                                           *)
(***************************************************************************)
EXTENDS ServiceHours, Sequences, FiniteSetsExt

CONSTANTS
    Teams,
    Histories,    \* sequences of [team, at], in the order of their instants
    Contracts,    \* [team, from, target, service, calendar, zone]
    Conclusions,  \* when a ticket may be concluded
    Windows,      \* when its time may start to run
    Never

ASSUME OlaAssumption ==
    /\ Histories \subseteq Seq([team: Teams, at: Int])
    /\ \A h \in Histories : /\ Len(h) > 0
                            /\ \A i, j \in 1 .. Len(h) : i <= j => h[i].at <= h[j].at
    /\ \A k \in Contracts : /\ k.from \in Int /\ k.target \in Nat
                            /\ k.calendar \in Calendars /\ k.zone \in Zones
    /\ Never \notin Int /\ (Conclusions \cup Windows) \ {Never} \subseteq Int

Tickets == [history: Histories, concluded: Conclusions, starts: Windows]

Later(a, b) == IF a > b THEN a ELSE b
Earlier(a, b) == IF a < b THEN a ELSE b

-----------------------------------------------------------------------------

AssignMutant(segments, team, at) == segments \cup {[team |-> team, from |-> at, to |-> Never]}

\* assignTeamCypher: the open segments of other teams end; the team's own is
\* kept if it has one, or else begins.
Assign(segments, team, at) ==
    LET closed == {IF s.team # team /\ s.to = Never THEN [s EXCEPT !.to = at] ELSE s : s \in segments}
    IN  IF \E s \in closed : s.team = team /\ s.to = Never THEN closed
        ELSE closed \cup {[team |-> team, from |-> at, to |-> Never]}

Segments(history) ==
    LET upTo[i \in 0 .. Len(history)] ==
            IF i = 0 THEN {} ELSE Assign(upTo[i - 1], history[i].team, history[i].at)
    IN  upTo[Len(history)]

CurrentTeam(history) == history[Len(history)].team

Counted24x7(from, to) == IF to > from THEN to - from ELSE 0

\* businessMinutesBetween and calculateDeadline, with and without service hours.
MinutesOf(k, from, to) ==
    IF k.service THEN Between(k.calendar, k.zone, from, to) ELSE Counted24x7(from, to)
DeadlineOf(k, from, minutes) ==
    IF k.service THEN Deadline(k.calendar, k.zone, from, minutes) ELSE from + minutes

Until(item, instant) == IF item.concluded = Never THEN instant ELSE item.concluded

HeldMutant(s, k, until) ==
    [from |-> Later(s.from, k.from), to |-> IF s.to = Never THEN until ELSE s.to]

\* The part of a segment in which the contract exists and the ticket is open.
Held(s, k, until) ==
    [from |-> Later(s.from, k.from), to |-> IF s.to = Never THEN until ELSE Earlier(s.to, until)]

\* olaTeamMeasure.
Measure(item, k, instant) ==
    LET until == Until(item, instant)
        open == item.concluded = Never
        counted == {s \in Segments(item.history) :
                       /\ s.team = k.team
                       /\ LET h == Held(s, k, until)
                          IN  h.to > h.from \/ (s.to = Never /\ open /\ h.from <= instant)}
        runs(s) == LET h == Held(s, k, until)
                   IN  MinutesOf(k, IF item.starts = Never THEN h.from ELSE Later(item.starts, h.from), h.to)
        used == MapThenSumSet(runs, counted)
        state == IF counted = {} THEN "none"
                 ELSE IF used > k.target THEN "breached"
                 ELSE IF ~open THEN "met"
                 ELSE IF CurrentTeam(item.history) # k.team THEN "handed_off"
                 ELSE IF item.starts # Never /\ instant < item.starts THEN "scheduled" ELSE "running"
    IN  [used |-> used, state |-> state,
         deadline |-> CASE state = "running" -> DeadlineOf(k, instant, k.target - used)
                        [] state = "scheduled" -> DeadlineOf(k, item.starts, k.target)
                        [] OTHER -> Never]

-----------------------------------------------------------------------------

\* The team the ticket was given to last, at an instant.
HasAt(history, team, t) ==
    LET given == {i \in DOMAIN history : history[i].at <= t}
    IN  given # {} /\ history[Max(given)].team = team

CountsAt(k, t) == ~k.service \/ Open(k.calendar, k.zone, t)

\* What may be asked: a contract on a ticket to which nothing has happened yet
\* after now, in a zone that suits the calendar of the contract.
Questions ==
    {q \in {<<item, k, t>> : item \in Tickets, k \in Contracts, t \in Moments} :
       /\ \A i \in DOMAIN q[1].history : q[1].history[i].at <= q[3]
       /\ q[2].service => <<q[2].calendar, q[2].zone>> \in Worlds}

\* The minutes the item was the team's and open, since the contract and the window.
TeamMinutes(item, k, instant) ==
    {t \in k.from .. Until(item, instant) - 1 :
       /\ item.starts # Never => t >= item.starts
       /\ HasAt(item.history, k.team, t)
       /\ CountsAt(k, t)}

WrongMeasures ==
    {q \in Questions :
       LET m == Measure(q[1], q[2], q[3])
       IN  ~ /\ m.used = Cardinality(TeamMinutes(q[1], q[2], q[3]))
             /\ m.used > q[2].target <=> m.state = "breached"}

WrongTargets ==
    {q \in Questions :
       LET d == Measure(q[1], q[2], q[3]).deadline
       IN  d # Never /\ Measure(q[1], q[2], d).used # q[2].target}
=============================================================================

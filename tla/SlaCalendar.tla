---------------------------- MODULE SlaCalendar ----------------------------
(***************************************************************************)
(* The clock of an SLA on a calendar. SlaClock counts time as the clock    *)
(* does: its instants are minutes of service since Opening. On a calendar  *)
(* the code has instants of UTC instead, and goes from one to the other    *)
(* with calculateDeadline and businessMinutesBetween (countedMs and        *)
(* extendDeadline, packages/sla/src/status.ts:460-471): here they are      *)
(* asked, on every calendar and in every zone, what SlaClock takes for     *)
(* granted. The time of a team runs whether or not the SLA is paused, and  *)
(* is asked about from the instant of the clock on.                        *)
(***************************************************************************)
EXTENDS SlaClock, OlaMeasure

CONSTANT Opening      \* the instant at which the ticket was opened

ASSUME OpeningAssumption == Opening \in Int

ServiceTime(w, t) == OpenMinutes(w[1], w[2], Opening, t)

\* On any calendar, from any instant at which the clock shows now, open or not,
\* what is left to a running clock ends where its deadline is: the deadline an
\* SLA is given and each extension of it lose no minute and gain none at the
\* ends of a day, on a holiday or when the offset changes (calculateDeadline,
\* packages/sla/src/policy.ts:187).
DeadlineIsRight ==
    Running(status) =>
       \A q \in WrongDeadlines : ~ /\ ServiceTime(q[1], q[2]) = now
                                  /\ q[3] = status.resolve - now

\* On any calendar, the length of the pause the clock is in is what the instants
\* of its ends give: no minute out of service is counted as paused, and no minute
\* of service is lost (businessMinutesBetween, packages/sla/src/policy.ts:235).
PauseIsCounted ==
    Paused(status) =>
       \A q \in WrongCounts : ~ /\ ServiceTime(q[1], q[2]) = status.paused
                               /\ ServiceTime(q[1], q[3]) = now

\* Now and later, a contract counts the minutes the ticket was its team's and
\* open, since the contract and the window, and only those: not the time others
\* had it, however often it came and went ("the time of the team",
\* olaAttainment.ts:12-21); it is breached when they are more than its target.
OlaTimeIsTheTeams == \A q \in WrongMeasures : q[3] < Opening + now

\* The deadline a contract shows is the instant at which its target is used up if
\* the team keeps the ticket (olaAttainment.ts:94): what was counted and what is
\* still to run do not overlap.
OlaDeadlineIsTheTarget == \A q \in WrongTargets : q[3] < Opening + now
=============================================================================

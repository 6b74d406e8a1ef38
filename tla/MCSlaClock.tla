----------------------------- MODULE MCSlaClock -----------------------------
(***************************************************************************)
(* A ticket that is taken in charge, put on hold, concluded and reopened;  *)
(* a high priority leaves less time than a low one. The arithmetic of its  *)
(* calendar and of a team's time is checked over days of five minutes and  *)
(* weeks of three days, with an hour of one minute for the change of the   *)
(* offset.                                                                 *)
(***************************************************************************)
EXTENDS SlaCalendar

CONSTANTS low, high, ops, dev

MCResolve == [t \in {low, high} |-> IF t = low THEN 2 ELSE 1]

MCMoves == {<<"new", "open">>, <<"new", "waiting">>, <<"open", "waiting">>, <<"waiting", "open">>,
            <<"open", "done">>, <<"waiting", "done">>, <<"done", "open">>}

-----------------------------------------------------------------------------

MCCalendars == {[days |-> days, start |-> band[1], end |-> band[2], holidays |-> holidays] :
                   days \in {{0}, {0, 1}, {1, 2}}, band \in {<<1, 3>>, <<0, 4>>, <<2, 3>>},
                   holidays \in {{}, {2}}}

\* One zone that never changes its offset, and those that change it by one, in
\* either direction, east and west of Greenwich.
MCZones == {[before |-> 0, after |-> 0, at |-> 0]}
           \cup {[before |-> offsets[1], after |-> offsets[2], at |-> at] :
                    offsets \in {<<1, 2>>, <<2, 1>>, <<-1, 0>>, <<0, -1>>}, at \in 6 .. 14}

MCMoments == 4 .. 15
MCSpans == 0 .. 7
MCTeams == {ops, dev}

MCHistories == {h \in UNION {[1 .. n -> [team: MCTeams, at: 4 .. 9]] : n \in 1 .. 3} :
                   h[1].at = 4 /\ \A i \in 1 .. Len(h) - 1 : h[i].at <= h[i + 1].at}

MCContracts == {[team |-> ops, from |-> from, target |-> 2, service |-> service,
                 calendar |-> [days |-> {0, 1}, start |-> 1, end |-> 3, holidays |-> {}],
                 zone |-> [before |-> 0, after |-> 0, at |-> 0]] : from \in {0, 6}, service \in BOOLEAN}

MCConclusions == {Never, 7}
MCWindows == {Never, 8}
=============================================================================

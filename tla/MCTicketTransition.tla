------------------------- MODULE MCTicketTransition -------------------------
(***************************************************************************)
(* The factory incident workflow reduced to the arcs that interact, with a *)
(* timed wait as the designer can add one.  Two arcs lead from work to     *)
(* resolved: a guarded one that people take and the one of an SLA breach.  *)
(***************************************************************************)
EXTENDS TicketTransition

CONSTANTS wait, work, resolved, closed

MCSteps == {wait, work, resolved, closed}

A(id, from, to, trigger, guarded) ==
  [id |-> id, from |-> from, to |-> to, trigger |-> trigger, guarded |-> guarded]

MCArcs ==
  { A(2, work, wait, "manual", FALSE),
    A(3, wait, work, "automatic", FALSE),
    A(4, work, resolved, "manual", TRUE),
    A(5, work, resolved, "sla_breach", FALSE),
    A(6, resolved, work, "manual", FALSE),
    A(7, resolved, closed, "timer", FALSE) }

MCOrder == [s \in MCSteps |->
  CASE s = work -> 2 [] s = wait -> 3 [] s = resolved -> 4 [] s = closed -> 5]

\* An SLA breach resolving the ticket, and the timer of the wait or a deadline.
MCSystemMoves == {<<resolved, "sla_breach">>, <<work, "automatic">>, <<closed, "timer">>}
=============================================================================

---------------------------- MODULE MCWaitTimers ----------------------------
(***************************************************************************)
(* A wait as the documentation of waitSteps.ts wants it: the arc out of it *)
(* is automatic, and an operator may also have a manual one (early exit).  *)
(* From work the ticket is sent to wait, or done.                          *)
(***************************************************************************)
EXTENDS WaitTimers

CONSTANTS wait, hold, work, done

MCSteps == {wait, work, done}

A(id, from, to, trigger, guarded) ==
  [id |-> id, from |-> from, to |-> to, trigger |-> trigger, guarded |-> guarded]

MCArcs == { A(1, work, wait, "manual", FALSE),
            A(2, wait, work, "automatic", TRUE),
            A(3, work, done, "manual", FALSE) }

MCArcsEarlyExit == MCArcs \cup {A(4, wait, work, "manual", FALSE)}

\* Two waits, under which NoWaitCutShort is violated: from the first the ticket is
\* sent on to the second by hand.
MCTwoSteps == MCSteps \cup {hold}

MCTwoArcs == MCArcs \cup {A(5, wait, hold, "manual", FALSE), A(6, hold, work, "automatic", FALSE)}

MCOrder == [s \in MCSteps |-> CASE s = work -> 1 [] s = wait -> 2 [] s = done -> 3]

MCTwoOrder == [s \in MCTwoSteps |-> IF s = hold THEN 4 ELSE MCOrder[s]]
=============================================================================

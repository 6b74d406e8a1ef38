--------------------------- MODULE MCStepDeadlines ---------------------------
(***************************************************************************)
(* A ticket in review that its deadline puts on hold, a timed wait from    *)
(* which it comes back; in the second definition the review is itself a    *)
(* timed wait with a deadline.                                             *)
(***************************************************************************)
EXTENDS StepDeadlines

CONSTANTS review, hold

MCSteps == {review, hold}

A(id, from, to, trigger) ==
  [id |-> id, from |-> from, to |-> to, trigger |-> trigger, guarded |-> FALSE]

MCArcs == {A(1, review, hold, "manual"), A(2, hold, review, "automatic")}

MCWaitArcs == {A(1, review, hold, "timer"), A(2, hold, review, "manual")}

MCOrder == [s \in MCSteps |-> IF s = review THEN 1 ELSE 2]

MCTarget == [s \in {review} |-> hold]
=============================================================================

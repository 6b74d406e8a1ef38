--------------------------- MODULE MCStepApproval ---------------------------
(***************************************************************************)
(* The factory workflow of service requests (apps/api scripts/lib          *)
(* workflowDefinitions.ts) up to the work on the request, its approval     *)
(* step asking for an approval.  With MCArcs it has the way back to the    *)
(* approval that a customer may draw, where the request of the new visit   *)
(* may be withdrawn (LiveRequestStands).                                   *)
(***************************************************************************)
EXTENDS StepApproval

CONSTANTS submitted, approval, in_progress, rejected

MCSteps == {submitted, approval, in_progress, rejected}

A(id, from, to) == [id |-> id, from |-> from, to |-> to, trigger |-> "manual", guarded |-> FALSE]

MCFactoryArcs == { A(1, submitted, approval), A(2, submitted, in_progress),
                   A(3, approval, in_progress), A(4, approval, rejected) }

MCArcs == MCFactoryArcs \cup {A(5, in_progress, approval)}

MCOrder == [s \in MCSteps |->
  CASE s = submitted -> 1 [] s = approval -> 2 [] s = in_progress -> 3 [] s = rejected -> 6]

MCSystemMoves == MCSteps \X {"manual"}
=============================================================================

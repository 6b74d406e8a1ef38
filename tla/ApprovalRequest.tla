--------------------------- MODULE ApprovalRequest ---------------------------
(***************************************************************************)
(* The decision of one approval request (apps/api resolvers/approval.ts).  *)
(* A decider loads the request, is refused unless it is pending, and then  *)
(* writes the outcome without looking again; when the request is decided   *)
(* the entity it is about follows.  For a knowledge article that could not *)
(* follow, the decision is given back; the request of a ticket moved by    *)
(* somebody else is withdrawn (lib/ticketApprovalGate.ts).                 *)
(***************************************************************************)
EXTENDS Naturals, FiniteSets

CONSTANTS Approvers,  \* the people the request names
          Askers,     \* who asked for it: they never approve
          Others,     \* people move the entity without a decision
          Nobody      \* null

ASSUME ApproversAssumption ==
  /\ IsFiniteSet(Approvers)
  /\ Others \in BOOLEAN
  /\ Nobody \notin Approvers

VARIABLES
  request,  \* its approval_type, whether it is about a knowledge article (else
            \* a ticket), status, approved_by and rejected_by
  place,    \* where the entity is: the approval step, on from it, or back
  leaving,  \* the entity has left the step; the request is not withdrawn yet
  decider,  \* what each approver's call is doing, and what it knows
  canceller \* a call that cancels the request has loaded it

vars == <<request, place, leaving, decider, canceller>>

Statuses == {"pending", "approved", "rejected", "cancelled"}
Kinds == {"any", "all", "majority"}
Idle == [pc |-> "idle", verb |-> "approve", before |-> {}]

\* The types of the request and of the calls deciding it (approval.ts 366-640);
\* the entity is only ever in the step, on from it or back.
TypeOK ==
  /\ request \in [kind: Kinds, article: BOOLEAN, status: Statuses,
                  approvedBy: SUBSET Approvers, rejectedBy: Approvers \cup {Nobody}]
  /\ place \in {"step", "forward", "back"}
  /\ leaving \in BOOLEAN /\ canceller \in BOOLEAN
  /\ decider \in [Approvers -> [pc: {"idle", "loaded", "decided", "refused"},
                                verb: {"approve", "reject"}, before: SUBSET Approvers]]

Init ==
  /\ request \in [kind: Kinds, article: BOOLEAN, status: {"pending"},
                  approvedBy: {{}}, rejectedBy: {Nobody}]
  /\ place = "step"
  /\ leaving = FALSE /\ canceller = FALSE
  /\ decider = [u \in Approvers |-> Idle]

-----------------------------------------------------------------------------
\* Mutant: an asker counts as if they had approved.
SatisfiedMutant(approvals) ==
  CASE request.kind = "any" -> Cardinality(approvals) >= 1
    [] request.kind = "all" -> Cardinality(approvals) >= Cardinality(Approvers \ Askers)
    [] request.kind = "majority" -> 2 * Cardinality(approvals) > Cardinality(Approvers)

\* isApprovalSatisfied.
Satisfied(approvals) ==
  CASE request.kind = "any" -> Cardinality(approvals) >= 1
    [] request.kind = "all" -> Cardinality(approvals) >= Cardinality(Approvers)
    [] request.kind = "majority" -> 2 * Cardinality(approvals) > Cardinality(Approvers)

\* Who may decide a request, as it was loaded; rejecting asks only that the
\* person is an approver.
MayDecide(u, verb) ==
  /\ request.status = "pending"
  /\ verb = "approve" => u \notin Askers \cup request.approvedBy

Load(u, verb) ==
  /\ decider[u].pc = "idle"
  /\ MayDecide(u, verb)
  /\ decider' = [decider EXCEPT ![u] = [pc |-> "loaded", verb |-> verb, before |-> request.approvedBy]]
  /\ UNCHANGED <<request, place, leaving, canceller>>

\* approveRequest writes the approvals it loaded and its own, and the status.
Approve(u) ==
  LET approvals == decider[u].before \cup {u}
  IN /\ decider[u].pc = "loaded" /\ decider[u].verb = "approve"
     /\ request' = [request EXCEPT !.approvedBy = approvals,
                                   !.status = IF Satisfied(approvals) THEN "approved" ELSE "pending"]
     /\ decider' = [decider EXCEPT ![u].pc = IF Satisfied(approvals) THEN "decided" ELSE "idle"]
     /\ UNCHANGED <<place, leaving, canceller>>

Reject(u) ==
  /\ decider[u].pc = "loaded" /\ decider[u].verb = "reject"
  /\ request' = [request EXCEPT !.status = "rejected", !.rejectedBy = u]
  /\ decider' = [decider EXCEPT ![u].pc = "decided"]
  /\ UNCHANGED <<place, leaving, canceller>>

\* Mutant: the entity is sent to the verb.
TargetMutant(verb) == verb

Target(verb) == IF verb = "approve" THEN "forward" ELSE "back"

\* The entity follows the decision from the step of the request; a published
\* article also goes back (tr-unpublish).  The hook of a ticket's move
\* withdraws what is pending.
Follow(u) ==
  /\ decider[u].pc = "decided"
  /\ place = "step" \/ (request.article /\ place = "forward" /\ decider[u].verb = "reject")
  /\ place' = Target(decider[u].verb)
  /\ leaving' = ~request.article
  /\ decider' = [decider EXCEPT ![u] = Idle]
  /\ UNCHANGED <<request, canceller>>

\* An article people archived: its workflow is over, and nothing is moved.
Archived == request.article /\ Others /\ place # "step"

\* The move is refused, or there is no (single) way: the decision on a ticket
\* stands, the one on an article is given back.
StayPut(u) ==
  /\ decider[u].pc = "decided"
  /\ \/ request.article /\ decider' = [decider EXCEPT ![u].pc = "refused"]
     \/ (~request.article \/ Archived) /\ decider' = [decider EXCEPT ![u] = Idle]
  /\ UNCHANGED <<request, place, leaving, canceller>>

\* giveBackDecision: pending, with the approvals loaded before.
GiveBack(u) ==
  /\ decider[u].pc = "refused"
  /\ request' = [request EXCEPT !.status = "pending", !.approvedBy = decider[u].before, !.rejectedBy = Nobody]
  /\ decider' = [decider EXCEPT ![u] = Idle]
  /\ UNCHANGED <<place, leaving, canceller>>

\* The entity is moved by another path.
Leave ==
  /\ Others /\ place = "step"
  /\ place' \in {"forward", "back"}
  /\ leaving' = ~request.article
  /\ UNCHANGED <<request, decider, canceller>>

\* withdrawApprovalsOfStep.
Withdraw ==
  /\ leaving /\ leaving' = FALSE
  /\ request' = [request EXCEPT !.status = IF @ = "pending" THEN "cancelled" ELSE @]
  /\ UNCHANGED <<place, decider, canceller>>

\* cancelApprovalRequest, by the requester or with approval.override: loaded,
\* refused unless pending, and written without looking again.
LoadToCancel ==
  /\ request.status = "pending" /\ ~canceller
  /\ canceller' = TRUE
  /\ UNCHANGED <<request, place, leaving, decider>>

Cancel ==
  /\ canceller /\ canceller' = FALSE
  /\ request' = [request EXCEPT !.status = "cancelled"]
  /\ UNCHANGED <<place, leaving, decider>>

Next ==
  \/ \E u \in Approvers :
       \/ \E verb \in {"approve", "reject"} : Load(u, verb)
       \/ Approve(u) \/ Reject(u) \/ Follow(u) \/ StayPut(u) \/ GiveBack(u)
  \/ Leave \/ Withdraw
  \/ LoadToCancel \/ Cancel

Spec == Init /\ [][Next]_vars

-----------------------------------------------------------------------------
(***************************************************************************)
(* Properties.                                                             *)
(***************************************************************************)

\* What an approval_type asks for.
Quorum(kind, approvals) ==
  CASE kind = "any" -> approvals # {}
    [] kind = "all" -> approvals = Approvers
    [] kind = "majority" -> Cardinality(approvals) > Cardinality(Approvers \ approvals)

\* However decisions overlap, a request shown as approved carries the
\* approvals its type asks for, and an asker's is never among them.
ApprovedByQuorum ==
  /\ request.status = "approved" => Quorum(request.kind, request.approvedBy)
  /\ request.approvedBy \cap Askers = {}

\* A decision that stands moves nothing twice: "cannot approve a request with
\* status ..." - a ticket's request that is no longer pending never changes.
DecisionIsFinal ==
  [][~request.article /\ request.status # "pending" => request'.status = request.status]_vars

\* A published article is not under decision: where only decisions move it,
\* its request is approved, or cancelled, once the calls are over ("the
\* decision is given back when the article could not follow it").  The code does
\* not keep it: with Others FALSE and two approvers of an article of type any,
\* the second, whose move comes too late, gives back the decision of the first.
PublishedIsApproved ==
  request.article /\ ~Others /\ place = "forward" /\ (\A u \in Approvers : decider[u].pc = "idle")
    => request.status \in {"approved", "cancelled"}
=============================================================================

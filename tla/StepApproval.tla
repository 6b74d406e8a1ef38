---------------------------- MODULE StepApproval ----------------------------
(***************************************************************************)
(* "The approver decides" (lib/ticketApprovalGate.ts), for incidents,      *)
(* problems and requests: entering an approval step creates a request      *)
(* (lib/stepApprovalRequest.ts), a guard of the pipeline holds the ticket  *)
(* there while the request is pending or rejected, the hook of a move      *)
(* withdraws what is pending in the step left, and a decision moves the    *)
(* ticket by itself when there is one way (resolvers/approval.ts).         *)
(* The pipeline is TicketTransition, of which this is an implementation:   *)
(* the request is created between the commit and the hook, by the call     *)
(* that moved the ticket, while any other call may run.                    *)
(*                                                                         *)
(* A decision is one action here; how decisions race is ApprovalRequest.   *)
(***************************************************************************)
EXTENDS TicketTransition

CONSTANTS ApprovalSteps, \* the steps whose entry asks for an approval
          Failed,        \* the terminal steps of category "failed"
          Overriders,    \* the persons that hold approval.override
          Decision       \* the call that moves the ticket after a decision

ASSUME ApprovalAssumption ==
  /\ ApprovalSteps \subseteq Steps \ {Initial}
  /\ Failed \subseteq Terminal
  /\ Overriders \subseteq Persons
  /\ Decision \in Systems
  /\ Steps \X {"manual"} \subseteq SystemMoves

VARIABLES
  requests,  \* the ApprovalRequests of the ticket, in order of creation
  decided    \* the request just decided, whose decision the ticket is to follow, or 0

approvalVars == <<requests, decided>>
allVars == <<vars, approvalVars>>

\* step is step_name; visit is the entry that created it, which it does not
\* store.  withdrawn is cancelled with the note that the ticket left the step.
ApprovalRequest == [step: ApprovalSteps, visit: Nat,
                    status: {"pending", "approved", "rejected", "cancelled", "withdrawn"}]

\* The types of the pipeline and of the requests an entry creates
\* (stepApprovalRequest.ts); a decision concerns a request that exists.
ApprovalTypeOK ==
  /\ TypeOK
  /\ requests \in Seq(ApprovalRequest)
  /\ decided \in 0..Len(requests)

ApprovalInit == Init /\ requests = <<>> /\ decided = 0

-----------------------------------------------------------------------------
\* The last request of the step the ticket is in, none before there is one.
Latest ==
  LET here == {i \in DOMAIN requests : requests[i].step = Current}
  IN {i \in here : \A j \in here : j <= i}

\* Mutant: a rejected request holds nothing.
HeldMutantPending(c) ==
  /\ c \notin Overriders
  /\ \E i \in Latest : requests[i].status = "pending"
  /\ ~ \E a \in Candidates(Current, call[c].to) : a.to \in Terminal

\* ticketApprovalRefusal.
Held(c) ==
  /\ c \notin Overriders
  /\ \E i \in Latest : requests[i].status \in {"pending", "rejected"}
  /\ ~ \E a \in Candidates(Current, call[c].to) : a.to \in Terminal

Guards(c) ==
  /\ CheckGuards(c)
  /\ Held(c) => call'[c].pc = "refused"
  /\ UNCHANGED approvalVars

\* The enter action create_approval_request; when it fails the move stands.
CreateRequest(c) ==
  /\ RunActions(c)
  /\ \/ /\ call[c].to \in ApprovalSteps
        /\ requests' = Append(requests, [step |-> call[c].to, visit |-> call[c].visit,
                                         status |-> "pending"])
     \/ (call[c].to \in ApprovalSteps => Failures) /\ UNCHANGED requests
  /\ UNCHANGED decided

\* Mutant: nothing is withdrawn.
WithdrawnMutantNone(step) == requests

\* Mutant: every pending request is withdrawn.
WithdrawnMutantAll(step) ==
  [i \in DOMAIN requests |->
     IF requests[i].status = "pending"
     THEN [requests[i] EXCEPT !.status = "withdrawn"] ELSE requests[i]]

\* The hook withdraws what is pending in the step left; a failure is logged.
Withdrawn(step) ==
  [i \in DOMAIN requests |->
     IF requests[i].step = step /\ requests[i].status = "pending"
     THEN [requests[i] EXCEPT !.status = "withdrawn"] ELSE requests[i]]

AnnounceAndWithdraw(c) ==
  /\ Announce(c)
  /\ LET from == call[c].arc.from
     IN \/ requests' = IF from # call[c].to THEN Withdrawn(from) ELSE requests
        \/ Failures /\ UNCHANGED requests
  /\ UNCHANGED decided

OtherSteps(c) ==
  /\ \/ EngineRead(c) \/ LoseRace(c) \/ EngineFails(c) \/ CommitMove(c)
     \/ RemoveTimer(c) \/ AddTimer(c) \/ ForgetRefusal(c) \/ NoteRefusal(c)
     \/ Return(c) \/ Abandon(c)
  /\ UNCHANGED approvalVars

-----------------------------------------------------------------------------
\* An approver decides a pending request.
Decide(i) ==
  /\ requests[i].status = "pending"
  /\ decided = 0 /\ call[Decision].pc = "idle"
  /\ \E verdict \in {"approved", "rejected"} : requests' = [requests EXCEPT ![i].status = verdict]
  /\ decided' = i
  /\ UNCHANGED vars

\* The requester, or who may override, cancels a pending request.
Cancel(i) ==
  /\ requests[i].status = "pending"
  /\ requests' = [requests EXCEPT ![i].status = "cancelled"]
  /\ UNCHANGED <<vars, decided>>

\* decidedTarget: the ways a decision may send the ticket.
Ways(verdict) ==
  {a \in Arcs :
     /\ a.from = Current /\ a.trigger = "manual"
     /\ IF verdict = "approved" THEN a.to \notin Terminal \cup ApprovalSteps ELSE a.to \in Failed}

\* moveTicketAfterDecision: the ticket follows if it is still in the step of
\* the request and there is a single way.
Follow(a) ==
  /\ decided # 0 /\ requests[decided].step = Current /\ wi.status = "active"
  /\ Ways(requests[decided].status) = {a}
  /\ decided' = 0

\* Mutant: a decided move skips the guards.
AskDecidedMoveMutant(to) ==
  /\ call[Decision].pc = "idle"
  /\ call' = [call EXCEPT ![Decision] = [Idle EXCEPT !.pc = "guarded", !.to = to, !.noted = noted]]
  /\ UNCHANGED <<ticketVars, jobs, noted>>

AskDecidedMove(to) == Request(Decision, to, "manual")

FollowDecision ==
  /\ \E a \in Arcs : Follow(a) /\ AskDecidedMove(a.to)
  /\ UNCHANGED requests

\* Nothing to follow: a person moves the ticket.
LeaveDecision ==
  /\ decided # 0
  /\ ~ \E a \in Arcs : requests[decided].step = Current /\ wi.status = "active"
                       /\ Ways(requests[decided].status) = {a}
  /\ decided' = 0
  /\ UNCHANGED <<vars, requests>>

-----------------------------------------------------------------------------
Ask(c) ==
  /\ \/ c \in Persons /\ \E to \in Steps : Request(c, to, "manual")
     \/ c \in Systems \ {Decision} /\ \E move \in SystemMoves : Request(c, move[1], move[2])
  /\ UNCHANGED approvalVars

ApprovalNext ==
  \/ \E c \in Callers : Ask(c) \/ Guards(c) \/ CreateRequest(c) \/ AnnounceAndWithdraw(c) \/ OtherSteps(c)
  \/ \E i \in DOMAIN requests : Decide(i) \/ Cancel(i)
  \/ FollowDecision
  \/ LeaveDecision

ApprovalSpec == ApprovalInit /\ [][ApprovalNext]_allVars

-----------------------------------------------------------------------------
(***************************************************************************)
(* Properties.                                                             *)
(***************************************************************************)

\* Moving a ticket with approvals is moving it along the pipeline.
Pipeline == Spec

WritesMove(c) == call[c].pc = "read" /\ call'[c].pc = "committed"

\* "While the request of the step the ticket is in is PENDING or REJECTED, the
\* ticket does not move forward": no call without the override leaves a visit
\* whose request is, except towards a terminal step.
GateHolds ==
  [][\A c \in Callers \ Overriders :
       WritesMove(c) /\ call[c].to \notin Terminal =>
         \A i \in DOMAIN requests :
           requests[i].visit = Len(history) => requests[i].status \notin {"pending", "rejected"}]_allVars

\* A request still pending when its ticket left the step is withdrawn: it is
\* of the step the ticket is in, unless the call that left has yet to come to it.
NoOrphanRequest ==
  \A i \in DOMAIN requests :
    requests[i].status = "pending" =>
      \/ requests[i].visit = Len(history)
      \/ \E c \in Callers : /\ call[c].pc \in {"committed", "acted", "removed", "scheduled"}
                            /\ call[c].arc.from = requests[i].step

\* Only the request of a step that was left is withdrawn.
LiveRequestStands ==
  \A i \in DOMAIN requests : requests[i].visit = Len(history) => requests[i].status # "withdrawn"
=============================================================================

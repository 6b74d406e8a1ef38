-------------------------- MODULE StepApprovalProofs --------------------------
(***************************************************************************)
(* Moving a ticket with approvals implements the pipeline, so what is      *)
(* proved of the pipeline holds of a ticket with approvals.  Then of its   *)
(* requests: their types; that only one of a step left is withdrawn, where *)
(* no way leads back to an approval step; and, where one person moves the  *)
(* ticket, that none is left behind and that the gate holds.               *)
(***************************************************************************)
EXTENDS StepApproval, TicketTransitionProofs

LEMMA StepsImplement == ASSUME [ApprovalNext]_allVars PROVE [Next]_vars
<1>1. CASE UNCHANGED allVars
  BY <1>1 DEF allVars
<1>2. ASSUME NEW c \in Callers, Ask(c) PROVE Next
  BY <1>2 DEF Ask, Next
<1>3. ASSUME NEW c \in Callers, Guards(c) PROVE Next
  BY <1>3 DEF Guards, Next, PipelineStep, BeforeCommit
<1>4. ASSUME NEW c \in Callers, CreateRequest(c) PROVE Next
  BY <1>4 DEF CreateRequest, Next, PipelineStep, AfterCommit
<1>5. ASSUME NEW c \in Callers, AnnounceAndWithdraw(c) PROVE Next
  BY <1>5 DEF AnnounceAndWithdraw, Next, PipelineStep, AfterCommit
<1>6. ASSUME NEW c \in Callers, OtherSteps(c) PROVE Next
  BY <1>6 DEF OtherSteps, Next, PipelineStep, BeforeCommit, AfterCommit
<1>7. ASSUME NEW i \in DOMAIN requests, Decide(i) PROVE UNCHANGED vars
  BY <1>7 DEF Decide
<1>8. CASE FollowDecision
  <2>1. PICK a \in Arcs : AskDecidedMove(a.to)
    BY <1>8 DEF FollowDecision
  <2>2. a.to \in Steps
    BY GraphAssumption DEF GraphAssumption, ArcType
  <2>3. Decision \in Systems /\ <<a.to, "manual">> \in SystemMoves
    BY <2>2, ApprovalAssumption DEF ApprovalAssumption
  <2>4. Request(Decision, a.to, "manual")
    BY <2>1 DEF AskDecidedMove
  <2>5. \E c \in Systems, move \in SystemMoves : Request(c, move[1], move[2])
    <3>1. <<a.to, "manual">>[1] = a.to /\ <<a.to, "manual">>[2] = "manual"
      OBVIOUS
    <3> QED BY <2>3, <2>4, <3>1
  <2> QED BY <2>5 DEF Next
<1>9. CASE LeaveDecision
  BY <1>9 DEF LeaveDecision
<1>10. ASSUME NEW i \in DOMAIN requests, Cancel(i) PROVE UNCHANGED vars
  BY <1>10 DEF Cancel
<1> QED BY <1>1, <1>2, <1>3, <1>4, <1>5, <1>6, <1>7, <1>8, <1>9, <1>10 DEF ApprovalNext

\* Every behaviour of a ticket with approvals is one of the pipeline: requests,
\* decisions and withdrawals only choose among its steps.
THEOREM ImplementsPipeline == ApprovalSpec => Pipeline
<1>1. ApprovalInit => Init
  BY DEF ApprovalInit
<1>2. [ApprovalNext]_allVars => [Next]_vars
  BY StepsImplement
<1> QED BY <1>1, <1>2, PTL DEF ApprovalSpec, Pipeline, Spec

\* The places where the step of a ticket is written agree on a ticket with
\* approvals too, and each of its moves has its event.
THEOREM ApprovalsKeepTheStep == ApprovalSpec => [](OneCurrentStep /\ EventIffMove)
BY ImplementsPipeline, StepWrittenOnce, OneEventPerMove, PTL DEF Pipeline

-----------------------------------------------------------------------------
(***************************************************************************)
(* The requests of a ticket, whatever moves it: what a step does to them.  *)
(***************************************************************************)
RequestsTyped == requests \in Seq(ApprovalRequest) /\ decided \in 0..Len(requests)

\* The requests stay where they are; only what became of them may change.
SameRequests ==
  /\ requests' \in Seq(ApprovalRequest) /\ Len(requests') = Len(requests)
  /\ \A i \in 1..Len(requests) :
       requests'[i].step = requests[i].step /\ requests'[i].visit = requests[i].visit

\* A request is created for the visit of the call that asks for it.
Creates(c) ==
  /\ call[c].to \in ApprovalSteps
  /\ requests' = Append(requests, [step |-> call[c].to, visit |-> call[c].visit, status |-> "pending"])

Statuses == {"pending", "approved", "rejected", "cancelled", "withdrawn"}

\* The requests when the status of one is written.
Written(q, i, status) == [q EXCEPT ![i].status = status]

LEMMA StatusSet ==
  ASSUME NEW q \in Seq(ApprovalRequest), NEW i \in 1..Len(q),
         NEW status \in Statuses
  PROVE  /\ Written(q, i, status) \in Seq(ApprovalRequest)
         /\ Len(Written(q, i, status)) = Len(q)
         /\ Written(q, i, status)[i].status = status
         /\ \A j \in 1..Len(q) :
              /\ Written(q, i, status)[j].step = q[j].step
              /\ Written(q, i, status)[j].visit = q[j].visit
              /\ j # i => Written(q, i, status)[j] = q[j]
<1> DEFINE new(j) == IF j = i THEN [q[i] EXCEPT !.status = status] ELSE q[j]
           p == Written(q, i, status)
<1>1. DOMAIN q = 1..Len(q) /\ Len(q) \in Nat /\ \A j \in 1..Len(q) : q[j] \in ApprovalRequest
  OBVIOUS
<1>2. /\ [q[i] EXCEPT !.status = status] \in ApprovalRequest
      /\ [q[i] EXCEPT !.status = status].step = q[i].step
      /\ [q[i] EXCEPT !.status = status].visit = q[i].visit
      /\ [q[i] EXCEPT !.status = status].status = status
  BY <1>1 DEF ApprovalRequest, Statuses
<1>3. p = [j \in 1..Len(q) |-> new(j)]
  BY <1>1 DEF Written
<1>4. /\ \A j \in 1..Len(q) :
           /\ new(j) \in ApprovalRequest
           /\ new(j).step = q[j].step /\ new(j).visit = q[j].visit
           /\ j # i => new(j) = q[j]
      /\ new(i).status = status
  BY <1>1, <1>2
<1> HIDE DEF new, p
<1>5. p \in Seq(ApprovalRequest) /\ Len(p) = Len(q)
  BY <1>1, <1>3, <1>4
<1>6. \A j \in 1..Len(q) : p[j] = new(j)
  BY <1>3
<1> QED BY <1>4, <1>5, <1>6 DEF p

LEMMA StatusChanges ==
  ASSUME RequestsTyped, NEW i \in DOMAIN requests,
         NEW status \in Statuses,
         requests' = [requests EXCEPT ![i].status = status]
  PROVE  /\ SameRequests
         /\ requests'[i].status = status
         /\ \A j \in 1..Len(requests) : j # i => requests'[j] = requests[j]
<1>1. requests \in Seq(ApprovalRequest) /\ i \in 1..Len(requests)
  BY DEF RequestsTyped
<1>2. requests' = Written(requests, i, status)
  BY DEF Written
<1> DEFINE w == Written(requests, i, status)
<1>3. /\ w \in Seq(ApprovalRequest)
      /\ Len(w) = Len(requests)
      /\ w[i].status = status
      /\ \A j \in 1..Len(requests) :
           /\ w[j].step = requests[j].step
           /\ w[j].visit = requests[j].visit
           /\ j # i => w[j] = requests[j]
  BY <1>1, StatusSet, Zenon
<1> HIDE DEF w
<1>4. requests' = w
  BY <1>2 DEF w
<1>5. SameRequests
  BY <1>3, <1>4, Zenon DEF SameRequests
<1> QED BY <1>3, <1>4, <1>5

LEMMA WithdrawnChanges ==
  ASSUME RequestsTyped, NEW step, requests' = Withdrawn(step)
  PROVE  /\ SameRequests
         /\ \A i \in 1..Len(requests) :
              \/ requests'[i] = requests[i] /\ ~(requests[i].step = step /\ requests[i].status = "pending")
              \/ /\ requests[i].step = step /\ requests[i].status = "pending"
                 /\ requests'[i].status = "withdrawn"
<1> DEFINE new(i) == IF requests[i].step = step /\ requests[i].status = "pending"
                     THEN [requests[i] EXCEPT !.status = "withdrawn"] ELSE requests[i]
<1>1. DOMAIN requests = 1..Len(requests) /\ Len(requests) \in Nat
      /\ \A j \in 1..Len(requests) : requests[j] \in ApprovalRequest
  BY DEF RequestsTyped
<1>2. \A i \in 1..Len(requests) :
        /\ new(i) \in ApprovalRequest
        /\ new(i).step = requests[i].step /\ new(i).visit = requests[i].visit
        /\ \/ new(i) = requests[i] /\ ~(requests[i].step = step /\ requests[i].status = "pending")
           \/ /\ requests[i].step = step /\ requests[i].status = "pending"
              /\ new(i).status = "withdrawn"
  BY <1>1 DEF ApprovalRequest
<1>3. requests' = [i \in 1..Len(requests) |-> new(i)]
  BY <1>1 DEF Withdrawn
<1> HIDE DEF new
<1>4. requests' \in Seq(ApprovalRequest) /\ Len(requests') = Len(requests)
  BY <1>1, <1>2, <1>3
<1> QED BY <1>1, <1>2, <1>3, <1>4 DEF SameRequests

\* A step keeps the requests or adds one, and a decision is of one of them.
LEMMA RequestsMove ==
  ASSUME TypeOK, RequestsTyped, [ApprovalNext]_allVars
  PROVE  /\ RequestsTyped'
         /\ \/ SameRequests
            \/ \E c \in Callers : CreateRequest(c) /\ Creates(c)
<1>0. Len(requests) \in Nat /\ decided \in 0..Len(requests) /\ requests \in Seq(ApprovalRequest)
  BY DEF RequestsTyped
<1>1. ASSUME SameRequests, decided' \in {0, decided} \cup (1..Len(requests))
      PROVE  RequestsTyped' /\ SameRequests
  BY <1>0, <1>1 DEF SameRequests, RequestsTyped
<1>2. ASSUME UNCHANGED requests PROVE SameRequests
  BY <1>0, <1>2 DEF SameRequests
<1>3. ASSUME NEW c \in Callers, CreateRequest(c), Creates(c)
      PROVE  RequestsTyped'
  <2>1. [step |-> call[c].to, visit |-> call[c].visit, status |-> "pending"] \in ApprovalRequest
    BY <1>3 DEF Creates, TypeOK, Call, ApprovalRequest
  <2>2. decided' = decided
    BY <1>3 DEF CreateRequest
  <2> QED BY <1>0, <1>3, <2>1, <2>2 DEF RequestsTyped, Creates
<1>4. ASSUME NEW c \in Callers, Ask(c) \/ Guards(c) \/ OtherSteps(c)
      PROVE  SameRequests /\ RequestsTyped'
  BY <1>1, <1>2, <1>4 DEF Ask, Guards, OtherSteps, approvalVars
<1>5. ASSUME NEW c \in Callers, CreateRequest(c)
      PROVE  RequestsTyped' /\ (SameRequests \/ Creates(c))
  BY <1>1, <1>2, <1>3, <1>5 DEF CreateRequest, Creates
<1>6. ASSUME NEW c \in Callers, AnnounceAndWithdraw(c) PROVE SameRequests /\ RequestsTyped'
  BY <1>1, <1>2, <1>6, WithdrawnChanges DEF AnnounceAndWithdraw
<1>7. ASSUME NEW i \in DOMAIN requests, Decide(i) PROVE SameRequests /\ RequestsTyped'
  <2>1. i \in 1..Len(requests)
    BY <1>0
  <2>2. SameRequests
    BY <1>7, StatusChanges DEF Decide, Statuses
  <2> QED BY <1>1, <1>7, <2>1, <2>2 DEF Decide
<1>8. ASSUME NEW i \in DOMAIN requests, Cancel(i) PROVE SameRequests /\ RequestsTyped'
  <2>1. SameRequests
    BY <1>8, StatusChanges DEF Cancel, Statuses
  <2> QED BY <1>1, <1>8, <2>1 DEF Cancel
<1>9. CASE FollowDecision \/ LeaveDecision \/ UNCHANGED allVars
  BY <1>1, <1>2, <1>9 DEF FollowDecision, Follow, LeaveDecision, allVars, approvalVars
<1> QED BY <1>4, <1>5, <1>6, <1>7, <1>8, <1>9 DEF ApprovalNext

LEMMA ApprovalInvariance == ApprovalSpec => [](IInv /\ RequestsTyped)
<1>1. ApprovalInit => RequestsTyped
  BY DEF ApprovalInit, RequestsTyped
<1>2. IInv /\ RequestsTyped /\ [ApprovalNext]_allVars => RequestsTyped'
  BY RequestsMove DEF IInv
<1>3. ApprovalSpec => []IInv
  BY ImplementsPipeline, Invariance, PTL DEF Pipeline
<1> QED BY <1>1, <1>2, <1>3, PTL DEF ApprovalSpec

\* ApprovalTypeOK: the types of the pipeline and of the requests, for every
\* definition, any callers and failures; what is decided is a request there is.
THEOREM ApprovalTypesHold == ApprovalSpec => []ApprovalTypeOK
<1>1. IInv /\ RequestsTyped => ApprovalTypeOK
  BY DEF IInv, RequestsTyped, ApprovalTypeOK
<1> QED BY ApprovalInvariance, <1>1, PTL

-----------------------------------------------------------------------------
(***************************************************************************)
(* How a call comes to the phases in which it acts on the requests.        *)
(***************************************************************************)
Moving == {"committed", "acted", "removed", "scheduled"}

SameMove(d) ==
  call'[d].to = call[d].to /\ call'[d].arc = call[d].arc /\ call'[d].visit = call[d].visit

PassesGuards(d) == Guards(d) /\ ~Held(d) /\ call'[d].pc = "guarded" /\ call'[d].to = call[d].to

Reads(d) ==
  /\ call[d].pc = "guarded" /\ call'[d].pc = "read" /\ call'[d].to = call[d].to
  /\ UNCHANGED <<ticketVars, approvalVars>>

Enters(d) ==
  /\ CommitMove(d) /\ UNCHANGED approvalVars
  /\ call'[d].pc = "committed" /\ call'[d].visit = Len(history) + 1
  /\ call'[d].to = call[d].to /\ call'[d].arc = call[d].arc

GoesOn(d) == call[d].pc \in Moving /\ call'[d].pc \in Moving \ {"committed"} /\ SameMove(d)

LEMMA CallActs ==
  ASSUME TypeOK, NEW c \in Callers, NEW d \in Callers, NEW r, call' = [call EXCEPT ![c] = r]
  PROVE  call'[d] = IF d = c THEN r ELSE call[d]
BY DEF TypeOK

LEMMA CallSteps ==
  ASSUME TypeOK, NEW c \in Callers, NEW d \in Callers, NEW pc, call' = [call EXCEPT ![c].pc = pc]
  PROVE  /\ d # c => call'[d] = call[d]
         /\ d = c => call'[d].pc = pc /\ SameMove(d)
BY DEF TypeOK, Call, SameMove

LEMMA CallProgress ==
  ASSUME TypeOK, [ApprovalNext]_allVars, NEW d \in Callers,
         call'[d].pc \in {"guarded", "read"} \cup Moving
  PROVE  \/ call'[d] = call[d]
         \/ PassesGuards(d) \/ Reads(d) \/ Enters(d) \/ GoesOn(d)
<1> USE DEF Moving
<1>1. ASSUME NEW c \in Callers, NEW to, NEW trigger, Request(c, to, trigger) PROVE call'[d] = call[d]
  BY <1>1, CallActs DEF Request, Idle
<1>2. ASSUME NEW c \in Callers, NEW why, Refuse(c, why) PROVE call'[d] = call[d]
  BY <1>2, CallActs DEF Refuse, Idle
<1>3. ASSUME NEW c \in Callers, Guards(c) PROVE call'[d] = call[d] \/ PassesGuards(d)
  <2>1. CASE Refuse(c, "guard")
    BY <1>2, <2>1
  <2>2. CASE call' = [call EXCEPT ![c].pc = "guarded"]
    <3>1. /\ d # c => call'[d] = call[d]
          /\ d = c => call'[d].pc = "guarded" /\ SameMove(d)
      BY <2>2, CallSteps
    <3>2. call'[d].pc = "guarded" /\ d = c => ~Held(d)
      BY <1>3 DEF Guards
    <3> QED BY <1>3, <3>1, <3>2 DEF PassesGuards, SameMove
  <2> QED BY <1>3, <2>1, <2>2 DEF Guards, CheckGuards
<1>4. ASSUME NEW c \in Callers, CreateRequest(c) \/ AnnounceAndWithdraw(c)
      PROVE  call'[d] = call[d] \/ GoesOn(d)
  <2>1. CASE CreateRequest(c)
    <3>1. call[c].pc = "committed" /\ call' = [call EXCEPT ![c].pc = "acted"]
      BY <2>1 DEF CreateRequest, RunActions
    <3>2. /\ d # c => call'[d] = call[d]
          /\ d = c => call'[d].pc = "acted" /\ SameMove(d)
      BY <3>1, CallSteps
    <3> QED BY <3>1, <3>2 DEF GoesOn
  <2>2. CASE AnnounceAndWithdraw(c)
    BY <2>2, CallSteps DEF AnnounceAndWithdraw, Announce
  <2> QED BY <1>4, <2>1, <2>2
<1>5. ASSUME NEW c \in Callers, EngineRead(c), UNCHANGED approvalVars PROVE call'[d] = call[d] \/ Reads(d)
  <2>1. CASE Refuse(c, "workflow")
    BY <1>2, <2>1
  <2>2. CASE \E arc \in Arcs, i \in OpenVisits : Knows(c, arc, i)
    <3>1. PICK arc \in Arcs, i \in OpenVisits : Knows(c, arc, i)
      BY <2>2
    <3>2. d # c => call'[d] = call[d]
      BY <3>1, CallActs DEF Knows
    <3>3. d = c => call'[d].pc = "read" /\ call'[d].to = call[d].to
      BY <3>1 DEF Knows, TypeOK, Call
    <3> QED BY <1>5, <3>2, <3>3 DEF Reads, EngineRead
  <2> QED BY <1>5, <2>1, <2>2, EngineReadChooses
<1>6. ASSUME NEW c \in Callers, CommitMove(c), UNCHANGED approvalVars PROVE call'[d] = call[d] \/ Enters(d)
  <2>1. call' = [call EXCEPT ![c] = [call[c] EXCEPT !.pc = "committed", !.visit = Len(history) + 1]]
    BY <1>6 DEF CommitMove
  <2>2. d # c => call'[d] = call[d]
    BY <2>1, CallActs
  <2>3. d = c => /\ call'[d].pc = "committed" /\ call'[d].visit = Len(history) + 1
                 /\ call'[d].to = call[d].to /\ call'[d].arc = call[d].arc
    BY <2>1 DEF TypeOK, Call
  <2> QED BY <1>6, <2>2, <2>3 DEF Enters
<1>7. ASSUME NEW c \in Callers, RemoveTimer(c) \/ AddTimer(c) PROVE call'[d] = call[d] \/ GoesOn(d)
  BY <1>7, CallSteps DEF RemoveTimer, AddTimer, GoesOn
<1>8. ASSUME NEW c \in Callers, LoseRace(c) \/ EngineFails(c) PROVE call'[d] = call[d]
  BY <1>2, <1>8 DEF LoseRace, EngineFails
<1>9. ASSUME NEW c \in Callers, ForgetRefusal(c) \/ NoteRefusal(c) \/ Return(c) \/ Abandon(c)
      PROVE  call'[d] = call[d]
  <2>1. ASSUME NEW r, r.pc \in {"moved", "answered", "idle"}, call' = [call EXCEPT ![c] = r]
        PROVE  call'[d] = call[d]
    BY <2>1, CallActs
  <2>2. CASE ForgetRefusal(c)
    BY <2>1, <2>2 DEF ForgetRefusal, Idle
  <2>3. CASE NoteRefusal(c)
    BY <2>1, <2>3 DEF NoteRefusal, Idle
  <2>4. CASE Return(c) \/ Abandon(c)
    <3>1. Idle.pc = "idle" /\ call' = [call EXCEPT ![c] = Idle]
      BY <2>4 DEF Return, Abandon, Idle
    <3> QED BY <2>1, <3>1
  <2> QED BY <1>9, <2>2, <2>3, <2>4
<1>10. ASSUME NEW c \in Callers, OtherSteps(c)
       PROVE  call'[d] = call[d] \/ Reads(d) \/ Enters(d) \/ GoesOn(d)
  BY <1>5, <1>6, <1>7, <1>8, <1>9, <1>10 DEF OtherSteps
<1>11. ASSUME NEW c \in Callers, Ask(c) PROVE call'[d] = call[d]
  BY <1>1, <1>11 DEF Ask
<1>12. CASE \E i \in DOMAIN requests : Decide(i) \/ Cancel(i)
  BY <1>12 DEF Decide, Cancel, vars
<1>13. CASE FollowDecision
  BY <1>1, <1>13, ApprovalAssumption DEF FollowDecision, AskDecidedMove, Callers
<1>14. CASE LeaveDecision \/ UNCHANGED allVars
  BY <1>14 DEF LeaveDecision, allVars, vars
<1> QED BY <1>3, <1>4, <1>10, <1>11, <1>12, <1>13, <1>14 DEF ApprovalNext

-----------------------------------------------------------------------------
(***************************************************************************)
(* An approval step is entered once when no arc leads back to one.         *)
(***************************************************************************)

\* After holds every step an approval step leads to, and no approval step: the
\* factory definitions have such a set, a definition with a way back has none.
NoWayBack(After) ==
  /\ After \cap ApprovalSteps = {}
  /\ \A a \in Arcs : a.from \in ApprovalSteps \cup After => a.to \in After

\* What follows an approval step is after it.
Once(After) ==
  \A i, j \in 1..Len(history) :
    i < j /\ history[i].step \in ApprovalSteps \cup After => history[j].step \in After

\* A call that moved the ticket knows the visit it made and the step it left.
CallsKnow ==
  \A c \in Callers : call[c].pc \in Moving =>
    /\ call[c].arc \in Arcs
    /\ call[c].arc.to = call[c].to
    /\ call[c].visit \in 2..Len(history)
    /\ history[call[c].visit].step = call[c].to
    /\ history[call[c].visit - 1].step = call[c].arc.from

\* A request is of the step of the visit that created it.
RequestsKnow ==
  \A i \in 1..Len(requests) :
    /\ requests[i].visit \in 1..Len(history)
    /\ history[requests[i].visit].step = requests[i].step

\* The inductive invariant of the requests.
RequestsInv(After) ==
  IInv /\ RequestsTyped /\ Once(After) /\ CallsKnow /\ RequestsKnow

\* Only a commit writes on the ticket, and it writes no request.
LEMMA OnlyCommitsEnter ==
  ASSUME [ApprovalNext]_allVars, ~UNCHANGED ticketVars
  PROVE  \E c \in Callers : CommitMove(c) /\ UNCHANGED approvalVars
BY DEF ApprovalNext, Ask, Guards, CreateRequest, AnnounceAndWithdraw, OtherSteps, Decide, Cancel,
       FollowDecision, AskDecidedMove, LeaveDecision, allVars, vars, Request, CheckGuards, EngineRead,
       LoseRace, EngineFails, RunActions, RemoveTimer, AddTimer, Announce, ForgetRefusal, NoteRefusal,
       Return, Abandon, ticketVars

\* The visits stay, each in its step.
LEMMA VisitsStay ==
  ASSUME IInv, [ApprovalNext]_allVars
  PROVE  /\ Len(history) \in Nat \ {0} /\ Len(history') \in {Len(history), Len(history) + 1}
         /\ \A i \in 1..Len(history) : history'[i].step = history[i].step
<1>1. Len(history) \in Nat \ {0}
  BY DEF IInv, TypeOK, OneCurrentStep
<1>2. CASE UNCHANGED ticketVars
  BY <1>1, <1>2 DEF ticketVars
<1>3. CASE ~UNCHANGED ticketVars
  <2>1. PICK c \in Callers : CommitMove(c)
    BY <1>3, OnlyCommitsEnter
  <2>2. Commits(call[c].arc, call[c].trigger, Len(history))
    BY <2>1, CommitFacts
  <2> QED BY <1>1, <2>2 DEF Commits
<1> QED BY <1>2, <1>3

LEMMA OnceKept ==
  ASSUME NEW After, NoWayBack(After), RequestsInv(After), [ApprovalNext]_allVars
  PROVE  Once(After)'
<1>1. CASE UNCHANGED ticketVars
  BY <1>1 DEF RequestsInv, Once, ticketVars
<1>2. ASSUME NEW c \in Callers, CommitMove(c) PROVE Once(After)'
  <2> DEFINE last == Len(history)
             arc == call[c].arc
  <2>1. IInv /\ Once(After)
    BY DEF RequestsInv
  <2>2. Commits(arc, call[c].trigger, last)
    BY <1>2, <2>1, CommitFacts
  <2>3. arc.from = history[last].step
    <3>1. arc.from = wi.current
      BY <1>2 DEF CommitMove, StepUnchanged, Current
    <3> QED BY <2>1, <3>1 DEF IInv, OneCurrentStep
  <2> HIDE DEF last, arc
  <2>4. /\ last \in Nat \ {0} /\ Len(history') = last + 1 /\ arc \in Arcs
        /\ \A i \in 1..last : history'[i].step = history[i].step
        /\ history'[last + 1].step = arc.to
    BY <2>2 DEF Commits
  <2>5. \A i, j \in 1..last :
          i < j /\ history[i].step \in ApprovalSteps \cup After => history[j].step \in After
    BY <2>1 DEF Once, last
  <2>6. ASSUME NEW i \in 1..last, history[i].step \in ApprovalSteps \cup After
        PROVE  arc.to \in After
    <3>1. history[last].step \in ApprovalSteps \cup After
      BY <2>4, <2>5, <2>6
    <3> QED BY <2>3, <2>4, <3>1 DEF NoWayBack
  <2>7. ASSUME NEW i \in 1..(last + 1), NEW j \in 1..(last + 1), i < j,
               history'[i].step \in ApprovalSteps \cup After
        PROVE  history'[j].step \in After
    <3>1. i \in 1..last /\ (j \in 1..last \/ j = last + 1)
      BY <2>4, <2>7
    <3> QED BY <2>4, <2>5, <2>6, <2>7, <3>1
  <2> QED BY <2>4, <2>7 DEF Once
<1> QED BY <1>1, <1>2, OnlyCommitsEnter

LEMMA CallsKnowKept ==
  ASSUME NEW After, RequestsInv(After), [ApprovalNext]_allVars
  PROVE  CallsKnow'
<1>1. IInv /\ TypeOK /\ CallsKnow
  BY DEF RequestsInv, IInv
<1>2. SUFFICES ASSUME NEW d \in Callers, call'[d].pc \in Moving
      PROVE  /\ call'[d].arc \in Arcs /\ call'[d].arc.to = call'[d].to
             /\ call'[d].visit \in 2..Len(history')
             /\ history'[call'[d].visit].step = call'[d].to
             /\ history'[call'[d].visit - 1].step = call'[d].arc.from
  BY DEF CallsKnow
<1>3. CASE call[d].pc \in Moving /\ SameMove(d)
  <2> DEFINE v == call[d].visit
  <2>1. /\ call[d].arc \in Arcs /\ call[d].arc.to = call[d].to
        /\ v \in 2..Len(history)
        /\ history[v].step = call[d].to
        /\ history[v - 1].step = call[d].arc.from
    BY <1>1, <1>3 DEF CallsKnow
  <2>2. call'[d].visit = v /\ call'[d].arc = call[d].arc /\ call'[d].to = call[d].to
    BY <1>3 DEF SameMove
  <2> HIDE DEF v
  <2>3. v \in 1..Len(history) /\ v - 1 \in 1..Len(history) /\ v \in 2..Len(history')
    BY <1>1, <2>1, VisitsStay
  <2> QED BY <1>1, <2>1, <2>2, <2>3, VisitsStay
<1>4. CASE Enters(d)
  <2>1. Commits(call[d].arc, call[d].trigger, Len(history))
    BY <1>1, <1>4, CommitFacts DEF Enters
  <2>2. /\ call'[d].visit = Len(history) + 1
        /\ call'[d].to = call[d].to /\ call'[d].arc = call[d].arc
    BY <1>4 DEF Enters
  <2>3. call[d].arc.to = call[d].to /\ call[d].arc.from = history[Len(history)].step
    BY <1>1, <1>4 DEF Enters, CommitMove, StepUnchanged, Current, IInv, CallsReadOneVisit, OneCurrentStep
  <2>4. Len(history) \in 1..Len(history)
    BY <1>1, VisitsStay
  <2> QED BY <2>1, <2>2, <2>3, <2>4 DEF Commits
<1>5. CASE call'[d] = call[d]
  BY <1>2, <1>3, <1>5 DEF SameMove
<1>6. CASE GoesOn(d)
  BY <1>3, <1>6 DEF GoesOn
<1> QED BY <1>1, <1>2, <1>4, <1>5, <1>6, CallProgress DEF PassesGuards, Reads, Moving

LEMMA RequestsKnowKept ==
  ASSUME NEW After, RequestsInv(After), [ApprovalNext]_allVars
  PROVE  RequestsKnow'
<1>1. IInv /\ TypeOK /\ RequestsTyped /\ RequestsKnow /\ CallsKnow /\ Len(requests) \in Nat
  BY DEF RequestsInv, IInv, RequestsTyped
<1>2. ASSUME NEW i \in 1..Len(requests), NEW r,
             r.step = requests[i].step, r.visit = requests[i].visit
      PROVE  r.visit \in 1..Len(history') /\ history'[r.visit].step = r.step
  <2>1. requests[i].visit \in 1..Len(history) /\ history[requests[i].visit].step = requests[i].step
    BY <1>1 DEF RequestsKnow
  <2>2. 1..Len(history) \subseteq 1..Len(history')
    BY <1>1, VisitsStay
  <2> QED BY <1>1, <1>2, <2>1, <2>2, VisitsStay
<1>3. CASE SameRequests
  BY <1>2, <1>3 DEF SameRequests, RequestsKnow
<1>4. ASSUME NEW c \in Callers, CreateRequest(c), Creates(c) PROVE RequestsKnow'
  <2> DEFINE n == Len(requests)
             new == [step |-> call[c].to, visit |-> call[c].visit, status |-> "pending"]
  <2>1. Len(requests') = n + 1 /\ requests'[n + 1] = new /\ \A i \in 1..n : requests'[i] = requests[i]
    BY <1>1, <1>4 DEF Creates, RequestsTyped
  <2>2. call[c].visit \in 2..Len(history) /\ history[call[c].visit].step = call[c].to /\ history' = history
    BY <1>1, <1>4 DEF CreateRequest, RunActions, CallsKnow, Moving, ticketVars
  <2>3. new.visit \in 1..Len(history') /\ history'[new.visit].step = new.step
    BY <1>1, <2>2, VisitsStay
  <2> HIDE DEF n, new
  <2>4. \A i \in 1..(n + 1) : i \in 1..n \/ i = n + 1
    BY <1>1 DEF n
  <2>5. \A i \in 1..n : /\ requests'[i].visit \in 1..Len(history')
                        /\ history'[requests'[i].visit].step = requests'[i].step
    BY <1>2, <2>1 DEF n
  <2> QED BY <2>1, <2>3, <2>4, <2>5 DEF RequestsKnow
<1> QED BY <1>1, <1>3, <1>4, RequestsMove

-----------------------------------------------------------------------------
(***************************************************************************)
(* Only the request of a step that was left is withdrawn.                  *)
(***************************************************************************)

\* What becomes of a request in one step.
Withdraws(c, i) ==
  /\ AnnounceAndWithdraw(c) /\ call[c].arc.from = requests[i].step
  /\ requests'[i].status = "withdrawn"

Becomes(i) ==
  \/ requests'[i] = requests[i]
  \/ /\ requests[i].status = "pending"
     /\ \/ requests'[i].status \in {"approved", "rejected", "cancelled"}
        \/ \E c \in Callers : Withdraws(c, i)

LEMMA StatusMoves ==
  ASSUME TypeOK, RequestsTyped, [ApprovalNext]_allVars
  PROVE  \A i \in 1..Len(requests) : Becomes(i)
<1> SUFFICES ASSUME NEW i \in 1..Len(requests) PROVE Becomes(i)
  OBVIOUS
<1>1. CASE UNCHANGED requests
  BY <1>1 DEF Becomes
<1>2. ASSUME NEW c \in Callers, CreateRequest(c) PROVE Becomes(i)
  BY <1>1, <1>2 DEF CreateRequest, RequestsTyped, Becomes
<1>3. ASSUME NEW c \in Callers, AnnounceAndWithdraw(c) PROVE Becomes(i)
  <2>1. CASE requests' = Withdrawn(call[c].arc.from)
    <3>1. \/ requests'[i] = requests[i]
          \/ /\ requests[i].step = call[c].arc.from /\ requests[i].status = "pending"
             /\ requests'[i].status = "withdrawn"
      BY <2>1, WithdrawnChanges
    <3> QED BY <1>3, <3>1 DEF Becomes, Withdraws
  <2> QED BY <1>1, <1>3, <2>1 DEF AnnounceAndWithdraw
<1>4. ASSUME NEW j \in DOMAIN requests, requests[j].status = "pending",
             NEW status \in {"approved", "rejected", "cancelled"},
             requests' = [requests EXCEPT ![j].status = status]
      PROVE  Becomes(i)
  <2>1. status \in Statuses
    BY DEF Statuses
  <2>2. /\ requests'[j].status = status
        /\ \A k \in 1..Len(requests) : k # j => requests'[k] = requests[k]
    BY <1>4, <2>1, StatusChanges
  <2> QED BY <1>4, <2>2 DEF Becomes
<1>5. ASSUME NEW j \in DOMAIN requests, Decide(j) \/ Cancel(j) PROVE Becomes(i)
  BY <1>4, <1>5 DEF Decide, Cancel
<1>6. ASSUME NEW c \in Callers, Ask(c) \/ Guards(c) \/ OtherSteps(c) PROVE UNCHANGED requests
  BY <1>6 DEF Ask, Guards, OtherSteps, approvalVars
<1>7. CASE FollowDecision \/ LeaveDecision \/ UNCHANGED allVars
  BY <1>1, <1>7 DEF FollowDecision, LeaveDecision, allVars, approvalVars
<1> QED BY <1>1, <1>2, <1>3, <1>5, <1>6, <1>7 DEF ApprovalNext

\* The step a call has left is not the one the ticket is in, if it asks for
\* approvals: it was entered once.
LEMMA LeftForGood ==
  ASSUME NEW After, NoWayBack(After), RequestsInv(After),
         NEW c \in Callers, call[c].pc \in Moving, call[c].arc.from \in ApprovalSteps
  PROVE  call[c].arc.from # history[Len(history)].step /\ call[c].arc.from # call[c].to
<1> DEFINE v == call[c].visit
           from == call[c].arc.from
           last == Len(history)
<1>1. /\ v \in 2..last /\ history[v].step = call[c].to /\ history[v - 1].step = from
  BY DEF RequestsInv, CallsKnow
<1>2. last \in Nat
  BY DEF RequestsInv, IInv, TypeOK
<1>3. \A i, j \in 1..last :
        i < j /\ history[i].step \in ApprovalSteps \cup After => history[j].step \in After
  BY DEF RequestsInv, Once
<1>4. from \in ApprovalSteps /\ from \notin After
  BY DEF NoWayBack
<1> HIDE DEF v, from, last
<1>5. v - 1 \in 1..last /\ v \in 1..last /\ last \in 1..last /\ v - 1 < v /\ v - 1 < last
  BY <1>1, <1>2
<1>6. history[v].step \in After /\ history[last].step \in After
  BY <1>1, <1>3, <1>4, <1>5
<1> QED BY <1>1, <1>4, <1>6 DEF from, last

LEMMA LiveKept ==
  ASSUME NEW After, NoWayBack(After), RequestsInv(After), LiveRequestStands, [ApprovalNext]_allVars
  PROVE  LiveRequestStands'
<1>1. TypeOK /\ IInv /\ RequestsTyped /\ RequestsKnow /\ Len(requests) \in Nat
      /\ DOMAIN requests = 1..Len(requests)
  BY DEF RequestsInv, IInv, RequestsTyped
<1>2. Len(history) \in Nat \ {0} /\ Len(history') \in {Len(history), Len(history) + 1}
  BY <1>1, VisitsStay
<1>3. ASSUME NEW i \in 1..Len(requests), requests'[i].visit = requests[i].visit,
             requests'[i].visit = Len(history'), requests'[i].status = "withdrawn"
      PROVE  FALSE
  <2>1. requests[i].visit \in 1..Len(history) /\ history[requests[i].visit].step = requests[i].step
    BY <1>1 DEF RequestsKnow
  <2>2. requests[i].visit = Len(history)
    BY <1>2, <1>3, <2>1
  <2>3. requests[i].status # "withdrawn"
    BY <1>1, <2>2 DEF LiveRequestStands
  <2>4. PICK c \in Callers : Withdraws(c, i)
    BY <1>1, <1>3, <2>3, StatusMoves DEF Becomes
  <2>5. call[c].pc \in Moving /\ call[c].arc.from = history[Len(history)].step
    BY <2>1, <2>2, <2>4 DEF Withdraws, AnnounceAndWithdraw, Announce, Moving
  <2>6. requests[i].step \in ApprovalSteps
    <3>1. requests[i] \in ApprovalRequest
      BY <1>1 DEF RequestsTyped
    <3> QED BY <3>1 DEF ApprovalRequest
  <2> QED BY <2>1, <2>2, <2>5, <2>6, LeftForGood
<1>4. CASE SameRequests
  <2>1. DOMAIN requests' = 1..Len(requests)
    BY <1>1, <1>4 DEF SameRequests
  <2> QED BY <1>3, <1>4, <2>1 DEF SameRequests, LiveRequestStands
<1>5. ASSUME NEW c \in Callers, CreateRequest(c), Creates(c) PROVE LiveRequestStands'
  <2> DEFINE n == Len(requests)
  <2>1. /\ DOMAIN requests' = 1..(n + 1) /\ requests'[n + 1].status = "pending"
        /\ \A i \in 1..n : requests'[i] = requests[i]
    BY <1>1, <1>5 DEF Creates, RequestsTyped
  <2>2. \A i \in 1..n : requests'[i].visit = Len(history') => requests'[i].status # "withdrawn"
    BY <1>3, <2>1
  <2>3. \A i \in 1..(n + 1) : i \in 1..n \/ i = n + 1
    BY <1>1
  <2> HIDE DEF n
  <2> QED BY <2>1, <2>2, <2>3 DEF LiveRequestStands
<1> QED BY <1>1, <1>4, <1>5, RequestsMove

LEMMA RequestsInvariance ==
  ASSUME NEW After, NoWayBack(After)
  PROVE  ApprovalSpec => [](RequestsInv(After) /\ LiveRequestStands)
<1>1. ApprovalInit => RequestsInv(After) /\ LiveRequestStands
  <2> SUFFICES ASSUME ApprovalInit PROVE RequestsInv(After) /\ LiveRequestStands
    OBVIOUS
  <2>1. IInv
    BY InitIInv DEF ApprovalInit
  <2>2. Len(history) = 1 /\ requests = <<>> /\ \A c \in Callers : call[c].pc = "idle"
    BY DEF ApprovalInit, Init, Idle
  <2>3. Once(After) /\ CallsKnow
    BY <2>2 DEF Once, CallsKnow, Moving
  <2>4. RequestsKnow /\ RequestsTyped /\ LiveRequestStands
    BY <2>2 DEF ApprovalInit, RequestsKnow, RequestsTyped, LiveRequestStands
  <2> QED BY <2>1, <2>3, <2>4 DEF RequestsInv
<1>2. RequestsInv(After) /\ LiveRequestStands /\ [ApprovalNext]_allVars
        => (RequestsInv(After) /\ LiveRequestStands)'
  <2> SUFFICES ASSUME RequestsInv(After), LiveRequestStands, [ApprovalNext]_allVars
               PROVE  RequestsInv(After)' /\ LiveRequestStands'
    OBVIOUS
  <2>1. TypeOK /\ IInv /\ RequestsTyped
    BY DEF RequestsInv, IInv
  <2>2. IInv'
    BY <2>1, StepsImplement, NextTypeOK, NextOneCurrentStep, NextHistoryIsAWalk, NextEventIffMove,
       NextCallsReadOneVisit DEF IInv
  <2> QED BY <2>1, <2>2, RequestsMove, OnceKept, CallsKnowKept, RequestsKnowKept, LiveKept DEF RequestsInv
<1> QED BY <1>1, <1>2, PTL DEF ApprovalSpec

\* LiveRequestStands, whoever moves the ticket and whatever fails, for every
\* definition in which no way leads from an approval step back to one.  With a
\* way back the hook of the call that left may come after the next entry of the
\* same step, and withdraws the new request.
THEOREM LiveRequestsStand ==
  ASSUME NEW After, NoWayBack(After)
  PROVE  ApprovalSpec => []LiveRequestStands
BY RequestsInvariance, PTL

-----------------------------------------------------------------------------
(***************************************************************************)
(* One person, the decisions, and nothing that fails: nothing comes        *)
(* between an entry and its request.                                       *)
(***************************************************************************)

\* At most one person moves the ticket, the only system path is the move after
\* a decision, and no process stops.
LoneMover ==
  /\ \A c, d \in Persons : c = d
  /\ Systems = {Decision}
  /\ ~Failures

\* Before the request there is no decision to follow.
DecisionWaits == requests = <<>> => decided = 0 /\ call[Decision].pc = "idle"

\* A call that entered an approval step and has yet to create the request is
\* in the last visit, and no request was created before.
EntryIsLast ==
  \A c \in Callers : call[c].pc = "committed" /\ call[c].to \in ApprovalSteps =>
    requests = <<>> /\ call[c].visit = Len(history)

\* A call whose guards let it go on has no request to wait for.
GateLetsGo ==
  \A c \in Callers \ Overriders :
    call[c].pc \in {"guarded", "read"} /\ call[c].to \notin Terminal =>
      \A i \in 1..Len(requests) :
        requests[i].visit = Len(history) => requests[i].status \notin {"pending", "rejected"}

LoneInv(After) ==
  /\ RequestsInv(After)
  /\ Len(requests) <= 1
  /\ DecisionWaits
  /\ EntryIsLast
  /\ NoOrphanRequest
  /\ GateLetsGo

\* Before the request only the person acts.
LEMMA OnlyThePerson ==
  ASSUME LoneMover, DecisionWaits, requests = <<>>, NEW c \in Callers, NEW d \in Callers,
         call[c].pc # "idle", call[d].pc # "idle"
  PROVE  c = d
BY DEF LoneMover, DecisionWaits, Callers

LEMMA DecisionWaitsKept ==
  ASSUME NEW After, LoneMover, LoneInv(After), [ApprovalNext]_allVars
  PROVE  DecisionWaits'
<1>1. TypeOK /\ IInv /\ RequestsTyped /\ DecisionWaits /\ Len(requests) \in Nat
  BY DEF LoneInv, RequestsInv, IInv, RequestsTyped
<1>2. SUFFICES ASSUME requests' = <<>> PROVE decided' = 0 /\ call'[Decision].pc = "idle"
  BY DEF DecisionWaits
<1>3. requests = <<>> /\ UNCHANGED requests
  <2>1. CASE SameRequests
    <3>1. Len(requests) = 0
      BY <1>1, <1>2, <2>1 DEF SameRequests
    <3> QED BY <1>1, <1>2, <3>1 DEF RequestsTyped
  <2>2. ASSUME NEW c \in Callers, Creates(c) PROVE FALSE
    BY <1>1, <1>2, <2>2 DEF Creates, RequestsTyped
  <2> QED BY <1>1, <2>1, <2>2, RequestsMove
<1>4. decided = 0 /\ call[Decision].pc = "idle" /\ Decision \in Callers
  BY <1>1, <1>3, ApprovalAssumption DEF DecisionWaits, Callers
<1>5. ASSUME NEW c \in Callers, Ask(c) PROVE call'[Decision] = call[Decision] /\ decided' = decided
  <2>1. ASSUME NEW to, NEW trigger, Request(c, to, trigger), c # Decision
        PROVE  call'[Decision] = call[Decision]
    BY <1>1, <1>4, <2>1, CallActs DEF Request
  <2>2. c # Decision
    <3>1. Decision \notin Persons
      BY CallerAssumption, ApprovalAssumption
    <3> QED BY <1>5, <3>1 DEF Ask
  <2> QED BY <1>5, <2>1, <2>2 DEF Ask, approvalVars
<1>6. ASSUME NEW c \in Callers,
             Guards(c) \/ CreateRequest(c) \/ AnnounceAndWithdraw(c) \/ OtherSteps(c)
      PROVE  call'[Decision] = call[Decision] /\ decided' = decided
  <2>1. call[c].pc # "idle"
    BY <1>6 DEF Guards, CreateRequest, AnnounceAndWithdraw, OtherSteps, CheckGuards, EngineRead, LoseRace,
       EngineFails, CommitMove, RunActions, RemoveTimer, AddTimer, Announce, ForgetRefusal, NoteRefusal,
       Return, Abandon
  <2>2. c # Decision
    BY <1>4, <2>1
  <2>3. \E r : call' = [call EXCEPT ![c] = r]
    BY <1>6 DEF Guards, CreateRequest, AnnounceAndWithdraw, OtherSteps, CheckGuards, EngineRead, LoseRace,
       EngineFails, CommitMove, RunActions, RemoveTimer, AddTimer, Announce, ForgetRefusal, NoteRefusal,
       Return, Abandon, Refuse
  <2>4. decided' = decided
    BY <1>6 DEF Guards, CreateRequest, AnnounceAndWithdraw, OtherSteps, approvalVars
  <2> QED BY <1>1, <1>4, <2>2, <2>3, <2>4, CallActs
<1>7. ASSUME NEW i \in DOMAIN requests, Decide(i) \/ Cancel(i) PROVE FALSE
  BY <1>3, <1>7
<1>8. CASE FollowDecision \/ LeaveDecision
  BY <1>4, <1>8 DEF FollowDecision, Follow, LeaveDecision
<1>9. CASE UNCHANGED allVars
  BY <1>4, <1>9 DEF allVars, vars, approvalVars
<1> QED BY <1>4, <1>5, <1>6, <1>7, <1>8, <1>9 DEF ApprovalNext

\* The ticket enters no approval step a second time.
LEMMA NoSecondEntry ==
  ASSUME NEW After, NoWayBack(After), LoneInv(After), [ApprovalNext]_allVars,
         NEW c \in Callers, Enters(c), call[c].to \in ApprovalSteps
  PROVE  requests = <<>>
<1>1. IInv /\ RequestsTyped /\ RequestsKnow /\ Once(After)'
  BY OnceKept DEF LoneInv, RequestsInv
<1>2. SUFFICES ASSUME requests # <<>> PROVE FALSE
  OBVIOUS
<1>3. 1 \in 1..Len(requests)
  BY <1>1, <1>2 DEF RequestsTyped
<1> DEFINE v == requests[1].visit
           last == Len(history)
<1>4. v \in 1..last /\ history[v].step = requests[1].step /\ requests[1].step \in ApprovalSteps
  <2>1. requests[1] \in ApprovalRequest
    BY <1>1, <1>3 DEF RequestsTyped
  <2> QED BY <1>1, <1>3, <2>1 DEF RequestsKnow, ApprovalRequest
<1>5. last \in Nat /\ Len(history') = last + 1 /\ history'[v].step = history[v].step
      /\ history'[last + 1].step = call[c].to
  <2>1. Commits(call[c].arc, call[c].trigger, last)
    BY <1>1, CommitFacts DEF Enters
  <2>2. call[c].arc.to = call[c].to
    BY <1>1 DEF Enters, CommitMove, IInv, CallsReadOneVisit
  <2> QED BY <1>4, <2>1, <2>2 DEF Commits
<1> HIDE DEF v, last
<1>6. v \in 1..(last + 1) /\ last + 1 \in 1..(last + 1) /\ v < last + 1
  BY <1>4, <1>5
<1>7. call[c].to \in After
  BY <1>1, <1>4, <1>5, <1>6 DEF Once
<1> QED BY <1>7 DEF NoWayBack

LEMMA EntryIsLastKept ==
  ASSUME NEW After, NoWayBack(After), LoneMover, LoneInv(After), [ApprovalNext]_allVars
  PROVE  EntryIsLast'
<1>1. TypeOK /\ IInv /\ RequestsTyped /\ DecisionWaits /\ EntryIsLast
  BY DEF LoneInv, RequestsInv, IInv
<1>2. SUFFICES ASSUME NEW d \in Callers, call'[d].pc = "committed", call'[d].to \in ApprovalSteps
      PROVE  requests' = <<>> /\ call'[d].visit = Len(history')
  BY DEF EntryIsLast
<1>3. CASE Enters(d)
  <2>1. requests' = requests /\ call'[d].visit = Len(history) + 1 /\ call[d].to \in ApprovalSteps
    BY <1>2, <1>3 DEF Enters, approvalVars
  <2>2. Len(history') = Len(history) + 1
    BY <1>1, <1>3, CommitFacts DEF Enters, Commits
  <2> QED BY <1>3, <2>1, <2>2, NoSecondEntry
<1>4. CASE call'[d] = call[d]
  <2>1. requests = <<>> /\ call[d].visit = Len(history) /\ call[d].pc = "committed"
    BY <1>1, <1>2, <1>4 DEF EntryIsLast
  <2>2. ASSUME NEW c \in Callers, CreateRequest(c) PROVE FALSE
    <3>1. call[c].pc = "committed" /\ call' = [call EXCEPT ![c].pc = "acted"]
      BY <2>2 DEF CreateRequest, RunActions
    <3>2. c = d
      BY <1>1, <2>1, <3>1, OnlyThePerson
    <3>3. /\ d # c => call'[d] = call[d]
          /\ d = c => call'[d].pc = "acted" /\ SameMove(d)
      BY <1>1, <3>1, CallSteps
    <3> QED BY <1>2, <3>2, <3>3
  <2>3. requests' = <<>>
    BY <1>1, <2>1, <2>2, RequestsMove DEF SameRequests
  <2>4. ASSUME NEW c \in Callers, CommitMove(c) PROVE FALSE
    BY <1>1, <2>1, <2>4, OnlyThePerson DEF CommitMove
  <2>5. history' = history
    BY <2>4, OnlyCommitsEnter DEF ticketVars
  <2> QED BY <1>4, <2>1, <2>3, <2>5
<1> QED BY <1>1, <1>2, <1>3, <1>4, CallProgress DEF PassesGuards, Reads, GoesOn, Moving

LEMMA OneRequestKept ==
  ASSUME NEW After, LoneMover, LoneInv(After), [ApprovalNext]_allVars
  PROVE  Len(requests') <= 1
<1>1. TypeOK /\ RequestsTyped /\ EntryIsLast /\ Len(requests) <= 1
  BY DEF LoneInv, RequestsInv, IInv
<1>2. ASSUME NEW c \in Callers, CreateRequest(c), Creates(c) PROVE Len(requests') <= 1
  <2>1. requests = <<>>
    BY <1>1, <1>2 DEF EntryIsLast, CreateRequest, RunActions, Creates
  <2> QED BY <1>2, <2>1 DEF Creates
<1> QED BY <1>1, <1>2, RequestsMove DEF SameRequests

\* A call that moved the ticket goes on until it withdraws, or stops.
LEMMA MovingGoesOn ==
  ASSUME TypeOK, [ApprovalNext]_allVars, NEW d \in Callers, call[d].pc \in Moving
  PROVE  \/ call'[d].pc \in Moving /\ call'[d].arc = call[d].arc
         \/ AnnounceAndWithdraw(d)
         \/ Failures
<1> DEFINE Goes == call'[d].pc \in Moving /\ call'[d].arc = call[d].arc
<1>1. ASSUME NEW c \in Callers, c # d, NEW r, call' = [call EXCEPT ![c] = r] PROVE Goes
  <2>1. call'[d] = call[d]
    BY <1>1, CallActs
  <2> QED BY <2>1
<1>2. ASSUME NEW c \in Callers, NEW pc \in Moving, call' = [call EXCEPT ![c].pc = pc] PROVE Goes
  <2>1. /\ d # c => call'[d] = call[d]
        /\ d = c => call'[d].pc = pc /\ SameMove(d)
    BY <1>2, CallSteps
  <2> QED BY <2>1 DEF SameMove
<1> HIDE DEF Goes
<1>3. ASSUME NEW c \in Callers, NEW to, NEW trigger, Request(c, to, trigger) PROVE Goes
  BY <1>1, <1>3 DEF Request, Moving
<1>4. ASSUME NEW c \in Callers, Guards(c) PROVE Goes
  BY <1>1, <1>4 DEF Guards, CheckGuards, Refuse, Moving
<1>5. ASSUME NEW c \in Callers, CreateRequest(c) PROVE Goes
  BY <1>2, <1>5 DEF CreateRequest, RunActions, Moving
<1>6. ASSUME NEW c \in Callers, AnnounceAndWithdraw(c) PROVE Goes \/ AnnounceAndWithdraw(d)
  BY <1>1, <1>6 DEF AnnounceAndWithdraw, Announce
<1>7. ASSUME NEW c \in Callers, EngineRead(c) \/ LoseRace(c) \/ EngineFails(c) \/ CommitMove(c) PROVE Goes
  <2>1. c # d
    BY <1>7 DEF EngineRead, LoseRace, EngineFails, CommitMove, Moving
  <2>2. \E r : call' = [call EXCEPT ![c] = r]
    BY <1>7 DEF EngineRead, LoseRace, EngineFails, CommitMove, Refuse
  <2> QED BY <1>1, <2>1, <2>2
<1>8. ASSUME NEW c \in Callers, RemoveTimer(c) \/ AddTimer(c) PROVE Goes
  BY <1>2, <1>8 DEF RemoveTimer, AddTimer, Moving
<1>9. ASSUME NEW c \in Callers, ForgetRefusal(c) \/ NoteRefusal(c) \/ Return(c) PROVE Goes
  BY <1>1, <1>9 DEF ForgetRefusal, NoteRefusal, Return, Moving
<1>10. ASSUME NEW c \in Callers, Abandon(c) PROVE Failures
  BY <1>10 DEF Abandon
<1>11. ASSUME NEW c \in Callers, OtherSteps(c) PROVE Goes \/ Failures
  BY <1>7, <1>8, <1>9, <1>10, <1>11 DEF OtherSteps
<1>12. ASSUME NEW c \in Callers, Ask(c) PROVE Goes
  BY <1>3, <1>12 DEF Ask
<1>13. CASE UNCHANGED call
  BY <1>13 DEF Goes
<1>14. CASE FollowDecision
  <2>1. PICK a \in Arcs : Request(Decision, a.to, "manual")
    BY <1>14 DEF FollowDecision, AskDecidedMove
  <2>2. Decision \in Callers
    BY ApprovalAssumption DEF Callers
  <2> QED BY <1>1, <2>1, <2>2 DEF Request, Moving
<1>15. CASE (\E i \in DOMAIN requests : Decide(i) \/ Cancel(i)) \/ LeaveDecision \/ UNCHANGED allVars
  BY <1>13, <1>15 DEF Decide, Cancel, LeaveDecision, allVars, vars
<1> QED BY <1>4, <1>5, <1>6, <1>11, <1>12, <1>14, <1>15 DEF ApprovalNext, Goes

LEMMA NoOrphanKept ==
  ASSUME NEW After, NoWayBack(After), LoneMover, LoneInv(After), [ApprovalNext]_allVars
  PROVE  NoOrphanRequest'
<1>1. /\ TypeOK /\ IInv /\ RequestsTyped /\ RequestsInv(After) /\ RequestsKnow /\ CallsKnow
      /\ NoOrphanRequest /\ EntryIsLast
      /\ Len(requests) \in Nat /\ DOMAIN requests = 1..Len(requests)
  BY DEF LoneInv, RequestsInv, IInv, RequestsTyped
<1> DEFINE Witness(i) == \E c \in Callers : call'[c].pc \in Moving /\ call'[c].arc.from = requests[i].step
<1>2. ASSUME NEW i \in 1..Len(requests), requests[i].visit = Len(history)
      PROVE  requests[i].visit = Len(history') \/ Witness(i)
  <2>1. CASE UNCHANGED ticketVars
    BY <1>2, <2>1 DEF ticketVars
  <2>2. ASSUME NEW c \in Callers, CommitMove(c) PROVE Witness(i)
    <3>1. call[c].arc.from = history[Len(history)].step
      BY <1>1, <2>2 DEF CommitMove, StepUnchanged, Current, IInv, OneCurrentStep
    <3>2. history[Len(history)].step = requests[i].step
      BY <1>1, <1>2 DEF RequestsKnow
    <3>3. call'[c].pc = "committed" /\ call'[c].arc = call[c].arc
      BY <1>1, <2>2 DEF CommitMove, TypeOK, Call
    <3> QED BY <3>1, <3>2, <3>3 DEF Moving
  <2> QED BY <2>1, <2>2, OnlyCommitsEnter
<1>3. ASSUME NEW i \in 1..Len(requests), requests[i].status = "pending", requests'[i].status = "pending",
             NEW c \in Callers, call[c].pc \in Moving, call[c].arc.from = requests[i].step
      PROVE  Witness(i)
  <2>1. CASE call'[c].pc \in Moving /\ call'[c].arc = call[c].arc
    BY <1>3, <2>1
  <2>2. CASE AnnounceAndWithdraw(c)
    <3>1. call[c].arc.from \in ApprovalSteps
      <4>1. requests[i] \in ApprovalRequest
        BY <1>1 DEF RequestsTyped
      <4> QED BY <1>3, <4>1 DEF ApprovalRequest
    <3>2. call[c].arc.from # call[c].to
      BY <1>1, <1>3, <3>1, LeftForGood
    <3>3. requests' = Withdrawn(call[c].arc.from)
      BY <2>2, <3>2 DEF AnnounceAndWithdraw, LoneMover
    <3>4. \/ requests'[i] = requests[i] /\ ~(requests[i].step = call[c].arc.from /\ requests[i].status = "pending")
          \/ requests'[i].status = "withdrawn"
      BY <1>1, <3>3, WithdrawnChanges
    <3> QED BY <1>3, <3>4
  <2> QED BY <1>1, <1>3, <2>1, <2>2, MovingGoesOn DEF LoneMover
<1>4. ASSUME NEW i \in 1..Len(requests), requests[i].status = "pending", requests'[i].status = "pending"
      PROVE  requests[i].visit = Len(history') \/ Witness(i)
  <2>1. \/ requests[i].visit = Len(history)
        \/ \E c \in Callers : call[c].pc \in Moving /\ call[c].arc.from = requests[i].step
    BY <1>1, <1>4 DEF NoOrphanRequest, Moving
  <2> HIDE DEF Witness
  <2> QED BY <1>2, <1>3, <1>4, <2>1
<1>5. CASE SameRequests
  <2>1. SUFFICES ASSUME NEW i \in 1..Len(requests), requests'[i].status = "pending"
        PROVE  \/ requests'[i].visit = Len(history')
               \/ \E c \in Callers : call'[c].pc \in Moving /\ call'[c].arc.from = requests'[i].step
    <3>1. DOMAIN requests' = 1..Len(requests)
      BY <1>1, <1>5 DEF SameRequests
    <3> QED BY <3>1 DEF NoOrphanRequest, Moving
  <2>2. Becomes(i)
    BY <1>1, StatusMoves
  <2>3. requests[i].status = "pending"
    BY <2>1, <2>2 DEF Becomes
  <2>4. requests'[i].visit = requests[i].visit /\ requests'[i].step = requests[i].step
    BY <1>5 DEF SameRequests
  <2> QED BY <1>4, <2>1, <2>3, <2>4
<1>6. ASSUME NEW c \in Callers, CreateRequest(c), Creates(c) PROVE NoOrphanRequest'
  <2>1. requests = <<>> /\ call[c].visit = Len(history) /\ history' = history
    BY <1>1, <1>6 DEF EntryIsLast, CreateRequest, RunActions, Creates, ticketVars
  <2>2. requests' = <<[step |-> call[c].to, visit |-> call[c].visit, status |-> "pending"]>>
    BY <1>6, <2>1 DEF Creates
  <2>3. DOMAIN requests' = {1} /\ requests'[1].visit = Len(history')
    BY <2>1, <2>2
  <2> QED BY <2>3 DEF NoOrphanRequest
<1> QED BY <1>1, <1>5, <1>6, RequestsMove

LEMMA GateLetsGoKept ==
  ASSUME NEW After, NoWayBack(After), LoneMover, LoneInv(After), [ApprovalNext]_allVars
  PROVE  GateLetsGo'
<1>1. /\ TypeOK /\ IInv /\ RequestsTyped /\ RequestsKnow /\ DecisionWaits /\ EntryIsLast /\ GateLetsGo
      /\ Len(requests) \in Nat /\ DOMAIN requests = 1..Len(requests) /\ Len(requests) <= 1
  BY DEF LoneInv, RequestsInv, IInv, RequestsTyped
<1>2. SUFFICES ASSUME NEW d \in Callers \ Overriders, call'[d].pc \in {"guarded", "read"},
                      call'[d].to \notin Terminal,
                      NEW i \in 1..Len(requests'), requests'[i].visit = Len(history')
               PROVE  requests'[i].status \notin {"pending", "rejected"}
  BY DEF GateLetsGo
<1>3. ASSUME NEW c \in Callers, CommitMove(c), UNCHANGED approvalVars PROVE FALSE
  <2>1. Len(history') = Len(history) + 1 /\ Len(history) \in Nat
    BY <1>1, <1>3, CommitFacts DEF Commits
  <2>2. requests'[i].visit \in 1..Len(history)
    BY <1>1, <1>2, <1>3 DEF RequestsKnow, approvalVars
  <2> QED BY <1>2, <2>1, <2>2
<1>4. UNCHANGED ticketVars
  BY <1>3, OnlyCommitsEnter
<1>5. CASE PassesGuards(d)
  <2>1. requests' = requests /\ ~Held(d) /\ call'[d].to = call[d].to
    BY <1>5 DEF PassesGuards, Guards, approvalVars
  <2>2. i \in Latest
    <3>1. requests[i].step = Current
      BY <1>1, <1>2, <1>4, <2>1 DEF RequestsKnow, IInv, OneCurrentStep, Current, ticketVars
    <3>2. \A j \in DOMAIN requests : j <= i
      BY <1>1, <1>2, <2>1
    <3>3. i \in DOMAIN requests
      BY <1>1, <1>2, <2>1
    <3> QED BY <3>1, <3>2, <3>3 DEF Latest
  <2>3. ~ \E a \in Candidates(Current, call[d].to) : a.to \in Terminal
    BY <1>2, <2>1 DEF Candidates
  <2> QED BY <2>1, <2>2, <2>3 DEF Held
<1>6. CASE call[d].pc \in {"guarded", "read"} /\ call'[d].to = call[d].to
  <2>1. CASE SameRequests
    <3>1. i \in 1..Len(requests) /\ requests[i].visit = Len(history)
      BY <1>2, <1>4, <2>1 DEF SameRequests, ticketVars
    <3>2. requests[i].status \notin {"pending", "rejected"}
      BY <1>1, <1>2, <1>6, <3>1 DEF GateLetsGo
    <3>3. Becomes(i)
      BY <1>1, <3>1, StatusMoves
    <3> QED BY <3>2, <3>3 DEF Becomes
  <2>2. ASSUME NEW c \in Callers, CreateRequest(c), Creates(c) PROVE FALSE
    <3>1. call[c].pc = "committed" /\ requests = <<>>
      BY <1>1, <2>2 DEF EntryIsLast, CreateRequest, RunActions, Creates
    <3>2. c = d
      BY <1>1, <1>6, <3>1, OnlyThePerson
    <3> QED BY <1>6, <3>1, <3>2
  <2> QED BY <1>1, <2>1, <2>2, RequestsMove
<1> QED BY <1>1, <1>2, <1>5, <1>6, CallProgress DEF Reads, Enters, GoesOn, Moving

LEMMA LoneInvariance ==
  ASSUME NEW After, NoWayBack(After), LoneMover
  PROVE  ApprovalSpec => []LoneInv(After)
<1>1. ApprovalInit /\ RequestsInv(After) => LoneInv(After)
  <2> SUFFICES ASSUME ApprovalInit, RequestsInv(After) PROVE LoneInv(After)
    OBVIOUS
  <2>1. requests = <<>> /\ decided = 0 /\ \A c \in Callers : call[c].pc = "idle"
    BY DEF ApprovalInit, Init, Idle
  <2>2. Decision \in Callers
    BY ApprovalAssumption DEF Callers
  <2>3. Len(requests) <= 1 /\ DecisionWaits /\ EntryIsLast /\ NoOrphanRequest /\ GateLetsGo
    BY <2>1, <2>2 DEF DecisionWaits, EntryIsLast, NoOrphanRequest, GateLetsGo
  <2> QED BY <2>3 DEF LoneInv
<1>2. LoneInv(After) /\ RequestsInv(After)' /\ [ApprovalNext]_allVars => LoneInv(After)'
  BY DecisionWaitsKept, EntryIsLastKept, OneRequestKept, NoOrphanKept, GateLetsGoKept DEF LoneInv
<1>3. ApprovalSpec => []RequestsInv(After)
  BY RequestsInvariance, PTL
<1> QED BY <1>1, <1>2, <1>3, PTL DEF ApprovalSpec

\* NoOrphanRequest, where one person moves the ticket, nothing fails and no way
\* leads back to an approval step: a second person may leave the step before
\* the request of its entry is created, and a hook that fails withdraws nothing.
THEOREM NoOrphanRequests ==
  ASSUME NEW After, NoWayBack(After), LoneMover
  PROVE  ApprovalSpec => []NoOrphanRequest
<1>1. LoneInv(After) => NoOrphanRequest
  BY DEF LoneInv
<1> QED BY LoneInvariance, <1>1, PTL

\* GateHolds under the same hypotheses: with a second person the finding of
\* MCStepApprovalGate is the counterexample.
THEOREM TheGateHolds ==
  ASSUME NEW After, NoWayBack(After), LoneMover
  PROVE  ApprovalSpec => GateHolds
<1>1. LoneInv(After) /\ [ApprovalNext]_allVars =>
        [\A c \in Callers \ Overriders :
           WritesMove(c) /\ call[c].to \notin Terminal =>
             \A i \in DOMAIN requests :
               requests[i].visit = Len(history) => requests[i].status \notin {"pending", "rejected"}]_allVars
  BY DEF LoneInv, GateLetsGo, WritesMove, RequestsInv, RequestsTyped
<1> QED BY LoneInvariance, <1>1, PTL DEF ApprovalSpec, GateHolds
=============================================================================

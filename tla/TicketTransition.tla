-------------------------- MODULE TicketTransition --------------------------
(***************************************************************************)
(* The one pipeline that moves a ticket along its workflow                 *)
(* (apps/api services/ticketTransition.ts on top of packages/workflow      *)
(* engine.ts), called concurrently by people and by system paths.          *)
(*                                                                         *)
(* A call is a chain of awaits, each an action here: it loads the ticket,  *)
(* asks the guards, reads the current step and the arc with its condition, *)
(* commits the move in one write transaction that checks the step is still *)
(* the one it read, and after the commit runs the actions of the step,     *)
(* replaces the wait timer, announces the entry and forgets the refusal    *)
(* noted before.  Between two awaits any other call may run, and the       *)
(* process may stop.                                                       *)
(*                                                                         *)
(* One ticket: every query of the pipeline is scoped by the instance id    *)
(* and every timer job carries it in its id, so tickets do not interact.   *)
(* What guards and conditions look at (fields, tasks, approvals, windows)  *)
(* is outside: each may answer either way (StepApproval adds one guard).   *)
(***************************************************************************)
EXTENDS WorkflowGraph, Sequences, FiniteSets

CONSTANTS SystemMoves, \* the moves system paths ask for: <<step, trigger>>
          Concludes,   \* the ticket is a request or a change: it has a completed_at
          Persons,     \* calls of people
          Systems,     \* calls of system paths (timers, deadlines, rules, ...)
          None,        \* null
          Failures,    \* processes may stop, Redis and the database may fail
          MaxVisits    \* bound: executions in the history of the ticket

Callers == Persons \cup Systems

ASSUME CallerAssumption ==
  /\ SystemMoves \subseteq Steps \X Triggers
  /\ Concludes \in BOOLEAN /\ Failures \in BOOLEAN
  /\ Persons \cap Systems = {}
  /\ None \notin Steps \cup Arcs
  /\ MaxVisits \in Nat \ {0}

VARIABLES
  wi,       \* the WorkflowInstance: its CURRENT_STEP, current_step and status
  entity,   \* the ticket: its status, and the dates that are set on it
  history,  \* the WorkflowStepExecutions, in order of entry
  outbox,   \* the step_entered events recorded in the outbox
  jobs,     \* the timer_wait job of each wait step of this instance
  noted,    \* refusal_noted: the reason of the last refusal written on the ticket
  call      \* the calls in flight

ticketVars == <<wi, entity, history, outbox>>
vars == <<wi, entity, history, outbox, jobs, noted, call>>

-----------------------------------------------------------------------------
\* A refusal as refusal_noted names it.
Refusals == [to: Steps, why: {"guard", "workflow"}]

\* An execution; exited is the visit whose entry closed it, 0 while it is open.
Execution == [step: Steps, from: Steps \cup {None}, trigger: Triggers, exited: Nat]

Event == [visit: Nat, from: Steps, to: Steps]

\* A timer job: which visit scheduled it, and where BullMQ has it.
Job == [state: {"none", "delayed", "waiting", "active", "failed"}, visit: Nat]
NoJob == [state |-> "none", visit |-> 0]

Phases == {"idle", "loaded", "guarded", "read",
           "committed", "acted", "removed", "scheduled", "announced", "moved",
           "refused", "answered"}

\* What a call knows: what it asked, the refusal noted when it loaded the
\* ticket, the arc and the visit it read (once moved: the visit it made), and
\* why it was refused.
Call == [pc: Phases, to: Steps, trigger: Triggers, noted: Refusals \cup {None},
         arc: Arcs \cup {None}, visit: Nat,
         why: {"none", "guard", "workflow", "concurrent"}]

Idle == [pc |-> "idle", to |-> Initial, trigger |-> "manual", noted |-> None,
         arc |-> None, visit |-> 0, why |-> "none"]

Current == wi.current
OpenVisits == {i \in 1..Len(history) : history[i].exited = 0}

\* Every variable keeps its type, through calls that race, fail or stop
\* (engine.ts 158-860, ticketTransition.ts 354-442).
TypeOK ==
  /\ wi \in [current: Steps, current_step: Steps, status: {"active", "completed"}]
  /\ entity \in [status: Steps, dates: SUBSET {"resolved", "completed", "published"}]
  /\ history \in Seq(Execution)
  /\ outbox \in SUBSET Event
  /\ jobs \in [WaitSteps -> Job]
  /\ noted \in Refusals \cup {None}
  /\ call \in [Callers -> Call]

\* createInstance: the ticket enters the initial step with one open execution.
Init ==
  /\ wi = [current |-> Initial, current_step |-> Initial, status |-> "active"]
  /\ entity = [status |-> Initial, dates |-> {}]
  /\ history = <<[step |-> Initial, from |-> None, trigger |-> "automatic", exited |-> 0]>>
  /\ outbox = {}
  /\ jobs = [s \in WaitSteps |-> NoJob]
  /\ noted = None
  /\ call = [c \in Callers |-> Idle]

-----------------------------------------------------------------------------
\* transitionTicket: load the ticket, with the refusal noted on it.
Request(c, to, trigger) ==
  /\ call[c].pc = "idle"
  /\ call' = [call EXCEPT ![c] = [Idle EXCEPT !.pc = "loaded", !.to = to,
                                              !.trigger = trigger, !.noted = noted]]
  /\ UNCHANGED <<ticketVars, jobs, noted>>

Refuse(c, why) ==
  call' = [call EXCEPT ![c] = [Idle EXCEPT !.pc = "refused", !.to = call[c].to,
                                           !.noted = call[c].noted, !.why = why]]

\* guardRefusal: the guards are read before the move, outside its transaction.
CheckGuards(c) ==
  /\ call[c].pc = "loaded"
  /\ \/ Refuse(c, "guard")
     \/ call' = [call EXCEPT ![c].pc = "guarded"]
  /\ UNCHANGED <<ticketVars, jobs, noted>>

\* Mutant: any call follows any arc.
FollowsMutant(trigger, arc) == TRUE

\* A person follows manual arcs only; a system path any arc.
Follows(trigger, arc) == trigger = "manual" => arc.trigger = "manual"

\* The engine's read: current step, arc, open execution; then the condition of
\* the arc, which may refuse.
EngineRead(c) ==
  /\ call[c].pc = "guarded"
  /\ LET first == EngineArcs(Current, call[c].to, call[c].trigger)
     IN \/ /\ \A arc \in first : Follows(call[c].trigger, arc) => arc.guarded
           /\ Refuse(c, "workflow")
        \/ \E arc \in first, i \in OpenVisits :
             /\ Follows(call[c].trigger, arc)
             /\ call' = [call EXCEPT ![c] = [@ EXCEPT !.pc = "read", !.arc = arc, !.visit = i]]
  /\ UNCHANGED <<ticketVars, jobs, noted>>

\* Mutant: the write does not look at the step again.
StepUnchangedMutant(arc) == TRUE

\* What one write transaction writes.  It writes only if the step of the
\* instance, which it locks first, is still the one read.
StepUnchanged(arc) == Current = arc.from

\* Mutant: the execution left stays open.
CloseOpenMutantNone(h, visit) == h

\* Mutant: every execution is closed anew.
CloseOpenMutantAll(h, visit) == [i \in DOMAIN h |-> [h[i] EXCEPT !.exited = visit]]

\* The executions still open are closed.
CloseOpen(h, visit) ==
  [i \in DOMAIN h |-> IF h[i].exited = 0 THEN [h[i] EXCEPT !.exited = visit] ELSE h[i]]

\* Mutant: the step is written as status.
InstanceStatusMutant(step) == step

\* The instance of a ticket in a terminal step is completed.
InstanceStatus(step) == IF step \in Terminal THEN "completed" ELSE "active"

\* Mutant: a reopened ticket keeps its resolution.
DatesAfterMutantReopen(from, to, dates) ==
  IF to \in Resolving THEN dates \cup {"resolved"}
  ELSE IF to \in Terminal /\ Concludes THEN dates \cup {"completed"}
  ELSE IF to \in Publishing THEN dates \cup {"published"}
  ELSE dates

\* Mutant: leaving a resolving step comes before concluding.
DatesAfterMutantOrder(from, to, dates) ==
  IF to \in Resolving THEN dates \cup {"resolved"}
  ELSE IF from \in Resolving THEN dates \ {"resolved"}
  ELSE IF to \in Terminal /\ Concludes THEN dates \cup {"completed"}
  ELSE dates

\* The dates of the ticket follow the flags of the two steps, by the first rule
\* that applies.
DatesAfter(from, to, dates) ==
  IF to \in Resolving THEN dates \cup {"resolved"}
  ELSE IF to \in Terminal /\ Concludes THEN dates \cup {"completed"}
  ELSE IF to \in Publishing THEN dates \cup {"published"}
  ELSE IF from \in Resolving /\ to \notin Terminal THEN dates \ {"resolved"}
  ELSE dates

\* Mutant: the event is not recorded with the move.
RecordEventMutant(visit, arc) == outbox

\* The event of the entry is recorded in the same transaction.
RecordEvent(visit, arc) == outbox \cup {[visit |-> visit, from |-> arc.from, to |-> arc.to]}

CommitMove(c) ==
  LET arc == call[c].arc
      visit == Len(history) + 1
  IN /\ call[c].pc = "read"
     /\ StepUnchanged(arc)
     /\ visit <= MaxVisits
     /\ wi' = [current |-> arc.to, current_step |-> arc.to,
               status |-> InstanceStatus(arc.to)]
     /\ entity' = [status |-> arc.to, dates |-> DatesAfter(arc.from, arc.to, entity.dates)]
     /\ history' = Append(CloseOpen(history, visit),
                          [step |-> arc.to, from |-> arc.from,
                           trigger |-> call[c].trigger, exited |-> 0])
     /\ outbox' = RecordEvent(visit, arc)
     /\ call' = [call EXCEPT ![c] = [@ EXCEPT !.pc = "committed", !.visit = visit]]
     /\ UNCHANGED <<jobs, noted>>

\* The step is no longer the one read: ConcurrentTransitionError.
LoseRace(c) ==
  /\ call[c].pc = "read"
  /\ ~StepUnchanged(call[c].arc)
  /\ Refuse(c, "concurrent")
  /\ UNCHANGED <<ticketVars, jobs, noted>>

\* A failure of the database before the commit: answered without a reason, so
\* not final, as a lost race.
EngineFails(c) ==
  /\ Failures
  /\ call[c].pc \in {"guarded", "read"}
  /\ Refuse(c, "concurrent")
  /\ UNCHANGED <<ticketVars, jobs, noted>>

-----------------------------------------------------------------------------
(* After the commit: nothing here can undo the move. *)

\* The exit actions of the step left and the enter actions of the step
\* entered; their effects are outside (StepApproval adds one).
RunActions(c) ==
  /\ call[c].pc = "committed"
  /\ call' = [call EXCEPT ![c].pc = "acted"]
  /\ UNCHANGED <<ticketVars, jobs, noted>>

\* Mutant: the earlier job is left in the queue.
RemoveTimerMutant(c) ==
  /\ call[c].pc = "acted"
  /\ call' = [call EXCEPT ![c].pc =
                IF call[c].to \in WaitSteps /\ WaitExits(call[c].to) # {} THEN "removed" ELSE "scheduled"]
  /\ UNCHANGED <<ticketVars, jobs, noted>>

\* scheduleTimerWait, first half: the earlier visit's job goes.  BullMQ does
\* not remove a job a worker is running.
RemoveTimer(c) ==
  /\ call[c].pc = "acted"
  /\ IF call[c].to \in WaitSteps /\ WaitExits(call[c].to) # {}
     THEN /\ jobs' = [jobs EXCEPT ![call[c].to] = IF @.state = "active" THEN @ ELSE NoJob]
          /\ call' = [call EXCEPT ![c].pc = "removed"]
     ELSE /\ call' = [call EXCEPT ![c].pc = "scheduled"]
          /\ UNCHANGED jobs
  /\ UNCHANGED <<ticketVars, noted>>

\* Second half: BullMQ ignores an add whose id it still holds; an add may fail,
\* and is then an action error of the move.
AddTimer(c) ==
  /\ call[c].pc = "removed"
  /\ \/ jobs' = [jobs EXCEPT ![call[c].to] =
                   IF @.state = "none" THEN [state |-> "delayed", visit |-> call[c].visit] ELSE @]
     \/ Failures /\ UNCHANGED jobs
  /\ call' = [call EXCEPT ![c].pc = "scheduled"]
  /\ UNCHANGED <<ticketVars, noted>>

\* The step-entered hook: the event is published (EventOutbox), and the rest
\* of what an entry brings is done outside (StepApproval adds one).
Announce(c) ==
  /\ call[c].pc = "scheduled"
  /\ call' = [call EXCEPT ![c].pc = "announced"]
  /\ UNCHANGED <<ticketVars, jobs, noted>>

\* The refusal noted when the call began is forgotten.
ForgetRefusal(c) ==
  /\ call[c].pc = "announced"
  /\ noted' = IF call[c].noted # None THEN None ELSE noted
  /\ call' = [call EXCEPT ![c] = [Idle EXCEPT !.pc = "moved"]]
  /\ UNCHANGED <<ticketVars, jobs>>

\* A refusal that a retry does not change: all but a concurrent move or a
\* failure of the database.
Final(c) == call[c].why \in {"guard", "workflow"}

TheRefusal(c) == [to |-> call[c].to, why |-> call[c].why]

\* afterRefusal: a final refusal of a system path is noted on the ticket, with
\* an internal comment, unless it is the one already noted when the call began.
NoteRefusal(c) ==
  /\ call[c].pc = "refused"
  /\ noted' = IF c \in Systems /\ Final(c) /\ call[c].noted # TheRefusal(c)
              THEN TheRefusal(c) ELSE noted
  /\ call' = [call EXCEPT ![c] = [Idle EXCEPT !.pc = "answered", !.why = call[c].why]]
  /\ UNCHANGED <<ticketVars, jobs>>

Return(c) ==
  /\ call[c].pc \in {"moved", "answered"}
  /\ call' = [call EXCEPT ![c] = Idle]
  /\ UNCHANGED <<ticketVars, jobs, noted>>

\* The call throws, or its process stops: what it wrote stays.
Abandon(c) ==
  /\ Failures
  /\ call[c].pc \notin {"idle", "moved", "answered"}
  /\ call' = [call EXCEPT ![c] = Idle]
  /\ UNCHANGED <<ticketVars, jobs, noted>>

BeforeCommit(c) == CheckGuards(c) \/ EngineRead(c) \/ LoseRace(c) \/ EngineFails(c)
AfterCommit(c) == RunActions(c) \/ RemoveTimer(c) \/ AddTimer(c) \/ Announce(c) \/ ForgetRefusal(c)
PipelineStep(c) == BeforeCommit(c) \/ CommitMove(c) \/ AfterCommit(c) \/ NoteRefusal(c)

Next ==
  \/ \E c \in Persons, to \in Steps : Request(c, to, "manual")
  \/ \E c \in Systems, move \in SystemMoves : Request(c, move[1], move[2])
  \/ \E c \in Callers : PipelineStep(c) \/ Return(c) \/ Abandon(c)

Spec == Init /\ [][Next]_vars

-----------------------------------------------------------------------------
(***************************************************************************)
(* Properties.                                                             *)
(***************************************************************************)

\* The places where the step of a ticket is written agree, whatever calls
\* race: CURRENT_STEP, current_step and the status of the instance, the status
\* of the ticket and the open execution, which is one and the last.
OneCurrentStep ==
  LET last == Len(history)
  IN /\ wi.current_step = wi.current
     /\ entity.status = wi.current
     /\ wi.status = "completed" <=> wi.current \in Terminal
     /\ last > 0 /\ history[last].step = wi.current
     /\ OpenVisits = {last}

\* The history is one unbroken walk of the definition: each execution starts
\* where the one before it was, along an arc, and an entry asked by a person
\* along a manual one.
HistoryIsAWalk ==
  \A i \in 2..Len(history) :
    /\ history[i].from = history[i - 1].step
    /\ \E a \in Arcs : /\ a.from = history[i].from
                       /\ a.to = history[i].step
                       /\ history[i].trigger = "manual" => a.trigger = "manual"

\* The outbox holds the event of every move, and of no other: an event exists
\* if and only if its move does, through lost races, failures and crashes.
EventIffMove ==
  outbox = {[visit |-> i, from |-> history[i].from, to |-> history[i].step] :
              i \in 2..Len(history)}

\* The past is not rewritten: a step adds at most one execution, and the ones
\* already closed stay as they are.
HistoryOnlyGrows ==
  [][/\ Len(history') \in {Len(history), Len(history) + 1}
     /\ \A i \in 1..Len(history) : history[i].exited # 0 => history'[i] = history[i]]_vars

\* A ticket in a resolving step shows its date of resolution.  Where a closed
\* ticket can only stay closed, a ticket back to work never shows the date of
\* an earlier resolution.
ClosedStaysClosed == \A a \in Arcs : a.from \in Terminal \ Resolving => a.to \in Terminal

ResolutionFollowsStep ==
  /\ wi.current \in Resolving => "resolved" \in entity.dates
  /\ ClosedStaysClosed /\ wi.current \notin Resolving \cup Terminal \cup Publishing
       => "resolved" \notin entity.dates

\* A request or a change in a terminal step has its completion date.
TerminalIsCompleted == Concludes /\ wi.current \in Terminal => "completed" \in entity.dates

\* A call about to commit was decided on one snapshot: the arc it follows
\* leads where it asked, by a trigger it may use, from the step of the visit
\* it read.
CallsReadOneVisit ==
  \A c \in Callers : call[c].pc = "read" =>
    /\ call[c].arc # None
    /\ call[c].arc.to = call[c].to
    /\ call[c].trigger = "manual" => call[c].arc.trigger = "manual"
    /\ call[c].visit \in 1..Len(history)
    /\ history[call[c].visit].step = call[c].arc.from
=============================================================================

----------------------- MODULE TicketTransitionProofs -----------------------
(***************************************************************************)
(* The safety of TicketTransition, for every workflow definition, every    *)
(* set of callers and every length of the history; and first, that the two *)
(* selections of WorkflowGraph are functions of the definition: among arcs *)
(* that compete one is first, and only one.                                *)
(***************************************************************************)
EXTENDS TicketTransition, FiniteSetTheorems, WellFoundedInduction, TLAPS

\* Every set of numbers that is not empty has a least one.
LEMMA Smallest ==
  ASSUME NEW T, T \subseteq Nat, T # {}
  PROVE  \E x \in T : \A y \in T : x <= y
<1> DEFINE below == {0..x : x \in T}
<1>1. below \subseteq FiniteSubsetsOf(Nat)
  <2>1. ASSUME NEW x \in T PROVE IsFiniteSet(0..x) /\ 0..x \in SUBSET Nat
    <3>1. 0 \in Int /\ x \in Int
      OBVIOUS
    <3> QED BY <3>1, FS_Interval
  <2> QED BY <2>1 DEF FiniteSubsetsOf
<1>2. PICK B \in below : \A C \in below : ~(<<C, B>> \in StrictSubsetOrdering(Nat))
  <2>1. below # {}
    OBVIOUS
  <2>2. IsWellFoundedOn(StrictSubsetOrdering(Nat), FiniteSubsetsOf(Nat))
    BY FS_StrictSubsetOrderingWellFounded
  <2> HIDE DEF below
  <2> QED BY <1>1, <2>1, <2>2, WFMin, Zenon
<1>3. PICK x \in T : B = 0..x
  OBVIOUS
<1>4. ASSUME NEW y \in T PROVE x <= y
  <2>1. x \in Nat /\ y \in Nat
    OBVIOUS
  <2>2. SUFFICES ASSUME y < x PROVE FALSE
    BY <2>1
  <2>3. 0..y \subseteq 0..x /\ 0..y # 0..x
    BY <2>1, <2>2
  <2>4. <<0..y, 0..x>> \in StrictSubsetOrdering(Nat)
    BY <2>1, <2>3 DEF StrictSubsetOrdering
  <2> QED BY <1>2, <1>3, <2>4
<1> QED BY <1>3, <1>4

\* Whatever the trigger asked, the arcs between two steps have one first, and
\* only one: the preference of the engine is a total order.
THEOREM OneEngineArc ==
  ASSUME NEW s \in Steps, NEW t \in Steps, NEW trigger \in Triggers,
         Candidates(s, t) # {}
  PROVE  \E a \in Arcs : EngineArcs(s, t, trigger) = {a}
<1> DEFINE C == Candidates(s, t)
           ranks == {Rank(a, trigger) : a \in C}
<1>1. C \subseteq Arcs /\ \A a \in C : a.id \in Nat /\ Rank(a, trigger) \in Nat
  BY GraphAssumption DEF Candidates, ArcType, Rank
<1>2. PICK r \in ranks : \A q \in ranks : r <= q
  BY <1>1, Smallest
<1> DEFINE best == {a \in C : Rank(a, trigger) = r}
           ids == {a.id : a \in best}
<1>3. PICK i \in ids : \A j \in ids : i <= j
  BY <1>1, <1>2, Smallest
<1>4. PICK a \in best : a.id = i
  BY <1>3
<1>5. a \in EngineArcs(s, t, trigger)
  <2>1. ASSUME NEW b \in C PROVE Precedes(a, b, trigger)
    <3>1. CASE b \in best
      BY <1>1, <1>3, <1>4, <3>1 DEF Precedes
    <3>2. CASE b \notin best
      BY <1>1, <1>2, <1>4, <3>2 DEF Precedes
    <3> QED BY <3>1, <3>2
  <2> QED BY <2>1, <1>4 DEF EngineArcs
<1>6. ASSUME NEW b \in EngineArcs(s, t, trigger) PROVE b = a
  <2>1. b \in C /\ Precedes(a, b, trigger) /\ Precedes(b, a, trigger)
    BY <1>5, <1>6 DEF EngineArcs
  <2>2. a.id = b.id
    BY <1>1, <1>4, <2>1 DEF Precedes
  <2> QED BY <1>1, <1>4, <2>1, <2>2, GraphAssumption
<1> QED BY <1>1, <1>4, <1>5, <1>6

\* A step with an exit for its timer has one step the timer goes to.
THEOREM OneWaitTarget ==
  ASSUME NEW s \in Steps, WaitExits(s) # {}
  PROVE  \E t \in Steps : WaitTargets(s) = {t}
<1> DEFINE orders == {Order[a.to] : a \in WaitExits(s)}
<1>1. \A a \in WaitExits(s) : a.to \in Steps /\ Order[a.to] \in Nat
  BY GraphAssumption DEF WaitExits, ArcType
<1>2. PICK n \in orders : \A m \in orders : n <= m
  BY <1>1, Smallest
<1>3. PICK a \in WaitExits(s) : Order[a.to] = n
  BY <1>2
<1>4. a.to \in WaitTargets(s)
  BY <1>2, <1>3 DEF WaitTargets
<1>5. ASSUME NEW t \in WaitTargets(s) PROVE t = a.to
  <2>1. PICK b \in WaitExits(s) : b.to = t /\ Order[t] <= Order[a.to]
    BY <1>5 DEF WaitTargets
  <2>2. Order[t] = Order[a.to]
    BY <1>1, <1>2, <1>3, <2>1
  <2> QED BY <1>1, <2>1, <2>2, GraphAssumption
<1> QED BY <1>1, <1>4, <1>5

-----------------------------------------------------------------------------

\* The inductive invariant.  What the ticket shows follows from the compare
\* and swap of the commit only together with what the calls know: the arc of a
\* call about to commit starts from the step the compare looks at.
IInv ==
  /\ TypeOK
  /\ OneCurrentStep
  /\ HistoryIsAWalk
  /\ EventIffMove
  /\ CallsReadOneVisit

-----------------------------------------------------------------------------
\* Closing the open executions changes nothing else of the history.
LEMMA CloseOpenKeeps ==
  ASSUME NEW h \in Seq(Execution), NEW visit \in Nat
  PROVE  /\ CloseOpen(h, visit) \in Seq(Execution)
         /\ Len(CloseOpen(h, visit)) = Len(h)
         /\ \A i \in 1..Len(h) :
              /\ CloseOpen(h, visit)[i] = IF h[i].exited = 0 THEN [h[i] EXCEPT !.exited = visit] ELSE h[i]
              /\ CloseOpen(h, visit)[i].step = h[i].step
              /\ CloseOpen(h, visit)[i].from = h[i].from
              /\ CloseOpen(h, visit)[i].trigger = h[i].trigger
              /\ visit # 0 => CloseOpen(h, visit)[i].exited # 0
<1> DEFINE new(i) == IF h[i].exited = 0 THEN [h[i] EXCEPT !.exited = visit] ELSE h[i]
<1>1. DOMAIN h = 1..Len(h) /\ Len(h) \in Nat
  OBVIOUS
<1>2. \A i \in 1..Len(h) : h[i] \in Execution
  OBVIOUS
<1>3. \A i \in 1..Len(h) : /\ new(i) \in Execution
                           /\ new(i).step = h[i].step /\ new(i).from = h[i].from
                           /\ new(i).trigger = h[i].trigger
                           /\ visit # 0 => new(i).exited # 0
  BY <1>2 DEF Execution
<1>4. CloseOpen(h, visit) = [i \in 1..Len(h) |-> new(i)]
  BY <1>1 DEF CloseOpen
<1> HIDE DEF new
<1>5. CloseOpen(h, visit) \in Seq(Execution) /\ Len(CloseOpen(h, visit)) = Len(h)
  BY <1>1, <1>3, <1>4
<1>6. \A i \in 1..Len(h) : CloseOpen(h, visit)[i] = new(i)
  BY <1>4
<1> QED BY <1>3, <1>5, <1>6 DEF new

\* The initial state satisfies the invariant.
LEMMA InitIInv == Init => IInv
<1> SUFFICES ASSUME Init PROVE IInv
  OBVIOUS
<1> USE DEF Init
<1>1. Len(history) = 1 /\ history[1] = [step |-> Initial, from |-> None, trigger |-> "automatic", exited |-> 0]
  OBVIOUS
<1>2. TypeOK
  <2>1. history \in Seq(Execution)
    BY GraphAssumption DEF Execution, Triggers
  <2>2. Idle \in Call
    BY GraphAssumption DEF Idle, Call, Phases, Triggers
  <2>3. jobs \in [WaitSteps -> Job]
    BY DEF NoJob, Job
  <2> QED BY <2>1, <2>2, <2>3, GraphAssumption DEF TypeOK
<1>3. OneCurrentStep
  BY <1>1, GraphAssumption DEF OneCurrentStep, OpenVisits
<1>4. HistoryIsAWalk
  BY <1>1 DEF HistoryIsAWalk
<1>5. EventIffMove
  BY <1>1 DEF EventIffMove
<1>6. CallsReadOneVisit
  BY DEF CallsReadOneVisit, Idle
<1> QED BY <1>2, <1>3, <1>4, <1>5, <1>6 DEF IInv

-----------------------------------------------------------------------------
\* The calls stay well-typed when one moves on, learns something or restarts.
LEMMA CallMoves ==
  ASSUME TypeOK, NEW c \in Callers, NEW pc \in Phases, call' = [call EXCEPT ![c].pc = pc]
  PROVE  call' \in [Callers -> Call]
<1>1. call \in [Callers -> Call]
  BY DEF TypeOK
<1> QED BY <1>1 DEF Call

LEMMA CallBecomes ==
  ASSUME TypeOK, NEW c \in Callers, NEW r \in Call, call' = [call EXCEPT ![c] = r]
  PROVE  call' \in [Callers -> Call]
BY DEF TypeOK

LEMMA CallLearns ==
  ASSUME NEW r \in Call, NEW pc \in Phases
  PROVE  /\ \A visit \in Nat : [r EXCEPT !.pc = pc, !.visit = visit] \in Call
         /\ \A arc \in Arcs, visit \in Nat :
              [r EXCEPT !.pc = pc, !.arc = arc, !.visit = visit] \in Call
         /\ \A to \in Steps, trigger \in Triggers, refusal \in Refusals \cup {None} :
              [r EXCEPT !.pc = pc, !.to = to, !.trigger = trigger, !.noted = refusal] \in Call
         /\ \A why \in {"none", "guard", "workflow", "concurrent"} :
              [r EXCEPT !.pc = pc, !.why = why] \in Call
         /\ \A to \in Steps, refusal \in Refusals \cup {None}, why \in {"none", "guard", "workflow", "concurrent"} :
              [r EXCEPT !.pc = pc, !.to = to, !.noted = refusal, !.why = why] \in Call
BY DEF Call

LEMMA IdleIsACall ==
  /\ Idle \in Call
  /\ \A pc \in Phases : [Idle EXCEPT !.pc = pc] \in Call
BY GraphAssumption DEF Idle, Call, Phases, Triggers

LEMMA CallRefused ==
  ASSUME TypeOK, NEW c \in Callers, NEW why \in {"guard", "workflow", "concurrent"}, Refuse(c, why)
  PROVE  call' \in [Callers -> Call]
<1>1. call[c].to \in Steps /\ call[c].noted \in Refusals \cup {None}
  BY DEF TypeOK, Call
<1>2. [Idle EXCEPT !.pc = "refused", !.to = call[c].to, !.noted = call[c].noted, !.why = why] \in Call
  <2>1. "refused" \in Phases /\ why \in {"none", "guard", "workflow", "concurrent"}
    BY DEF Phases
  <2> QED BY <1>1, <2>1, IdleIsACall, CallLearns
<1> QED BY <1>2, CallBecomes DEF Refuse

\* What a call knows after a read that found an arc.
Knows(c, arc, i) ==
  /\ arc.from = Current /\ arc.to = call[c].to
  /\ call[c].trigger = "manual" => arc.trigger = "manual"
  /\ call' = [call EXCEPT ![c] = [call[c] EXCEPT !.pc = "read", !.arc = arc, !.visit = i]]

LEMMA EngineReadChooses ==
  ASSUME NEW c \in Callers, EngineRead(c)
  PROVE  Refuse(c, "workflow") \/ \E arc \in Arcs, i \in OpenVisits : Knows(c, arc, i)
<1> DEFINE first == EngineArcs(Current, call[c].to, call[c].trigger)
<1>1. \A arc \in first : arc \in Arcs /\ arc.from = Current /\ arc.to = call[c].to
  BY DEF EngineArcs, Candidates
<1> HIDE DEF first
<1>2. SUFFICES ASSUME ~Refuse(c, "workflow")
               PROVE  \E arc \in Arcs, i \in OpenVisits : Knows(c, arc, i)
  OBVIOUS
<1>3. PICK arc \in first, i \in OpenVisits :
         /\ Follows(call[c].trigger, arc)
         /\ call' = [call EXCEPT ![c] = [call[c] EXCEPT !.pc = "read", !.arc = arc, !.visit = i]]
  BY <1>2 DEF EngineRead, first
<1>4. Knows(c, arc, i)
  BY <1>1, <1>3 DEF Knows, Follows
<1> QED BY <1>1, <1>4

\* Every action keeps the types.
LEMMA NextTypeOK == IInv /\ [Next]_vars => TypeOK'
<1> SUFFICES ASSUME IInv, [Next]_vars PROVE TypeOK'
  OBVIOUS
<1>0. TypeOK
  BY DEF IInv
<1>1. ASSUME UNCHANGED <<ticketVars, jobs, noted>>, call' \in [Callers -> Call] PROVE TypeOK'
  BY <1>0, <1>1 DEF TypeOK, ticketVars
<1>2. ASSUME NEW c \in Callers, NEW to \in Steps, NEW trigger \in Triggers, Request(c, to, trigger)
      PROVE  TypeOK'
  <2>1. [Idle EXCEPT !.pc = "loaded", !.to = to, !.trigger = trigger, !.noted = noted] \in Call
    BY <1>0, IdleIsACall, CallLearns DEF TypeOK, Phases
  <2> QED BY <1>0, <1>1, <1>2, <2>1, CallBecomes DEF Request
<1>3. ASSUME NEW c \in Callers, CheckGuards(c) PROVE TypeOK'
  BY <1>0, <1>1, <1>3, CallRefused, CallMoves DEF CheckGuards, Phases
<1>4. ASSUME NEW c \in Callers, EngineRead(c) PROVE TypeOK'
  <2>1. CASE Refuse(c, "workflow")
    BY <1>0, <1>1, <1>4, <2>1, CallRefused DEF EngineRead
  <2>2. ASSUME NEW arc \in Arcs, NEW i \in OpenVisits, Knows(c, arc, i) PROVE TypeOK'
    <3>1. [call[c] EXCEPT !.pc = "read", !.arc = arc, !.visit = i] \in Call
      <4>1. i \in Nat /\ call[c] \in Call /\ "read" \in Phases
        BY <1>0 DEF TypeOK, Phases, OpenVisits
      <4> QED BY <4>1, CallLearns
    <3>2. call' \in [Callers -> Call]
      BY <1>0, <2>2, <3>1, CallBecomes DEF Knows
    <3> QED BY <1>1, <1>4, <3>2 DEF EngineRead
  <2> QED BY <1>4, <2>1, <2>2, EngineReadChooses
<1>5. ASSUME NEW c \in Callers, CommitMove(c) PROVE TypeOK'
  <2> DEFINE arc == call[c].arc
             visit == Len(history) + 1
             entered == [step |-> arc.to, from |-> arc.from, trigger |-> call[c].trigger, exited |-> 0]
  <2>1. arc \in Arcs /\ arc.from \in Steps /\ arc.to \in Steps /\ call[c].trigger \in Triggers
    BY <1>0, <1>5, GraphAssumption DEF CommitMove, IInv, CallsReadOneVisit, TypeOK, Call, ArcType
  <2>2. history \in Seq(Execution) /\ visit \in Nat
    BY <1>0 DEF TypeOK
  <2>3. wi' \in [current: Steps, current_step: Steps, status: {"active", "completed"}]
    BY <1>5, <2>1 DEF CommitMove, InstanceStatus
  <2>4. entity' \in [status: Steps, dates: SUBSET {"resolved", "completed", "published"}]
    <3>1. entity.dates \subseteq {"resolved", "completed", "published"}
      BY <1>0 DEF TypeOK
    <3>2. DatesAfter(arc.from, arc.to, entity.dates) \subseteq {"resolved", "completed", "published"}
      BY <3>1 DEF DatesAfter
    <3> QED BY <1>5, <2>1, <3>2 DEF CommitMove
  <2>5. history' \in Seq(Execution)
    <3>1. entered \in Execution
      BY <2>1 DEF Execution
    <3>2. CloseOpen(history, visit) \in Seq(Execution)
      BY <2>2, CloseOpenKeeps
    <3>3. history' = Append(CloseOpen(history, visit), entered)
      BY <1>5 DEF CommitMove
    <3> QED BY <3>1, <3>2, <3>3
  <2>6. outbox' \in SUBSET Event
    BY <1>0, <1>5, <2>1, <2>2 DEF CommitMove, RecordEvent, TypeOK, Event
  <2>7. call' \in [Callers -> Call]
    <3>1. [call[c] EXCEPT !.pc = "committed", !.visit = visit] \in Call
      BY <1>0, <2>2, CallLearns DEF TypeOK, Phases
    <3> QED BY <1>0, <1>5, <3>1, CallBecomes DEF CommitMove
  <2> QED BY <1>0, <1>5, <2>3, <2>4, <2>5, <2>6, <2>7 DEF CommitMove, TypeOK
<1>6. ASSUME NEW c \in Callers, LoseRace(c) PROVE TypeOK'
  BY <1>0, <1>1, <1>6, CallRefused DEF LoseRace
<1>7. ASSUME NEW c \in Callers, EngineFails(c) PROVE TypeOK'
  BY <1>0, <1>1, <1>7, CallRefused DEF EngineFails
<1>8. ASSUME NEW c \in Callers, RunActions(c) PROVE TypeOK'
  BY <1>0, <1>1, <1>8, CallMoves DEF RunActions, Phases
<1>9. ASSUME NEW c \in Callers, RemoveTimer(c) PROVE TypeOK'
  <2>1. call' \in [Callers -> Call]
    BY <1>0, <1>9, CallMoves DEF RemoveTimer, Phases
  <2>2. jobs' \in [WaitSteps -> Job]
    BY <1>0, <1>9 DEF RemoveTimer, TypeOK, Job, NoJob
  <2> QED BY <1>0, <1>9, <2>1, <2>2 DEF RemoveTimer, TypeOK, ticketVars
<1>10. ASSUME NEW c \in Callers, AddTimer(c) PROVE TypeOK'
  <2>1. call' \in [Callers -> Call]
    BY <1>0, <1>10, CallMoves DEF AddTimer, Phases
  <2>2. jobs' \in [WaitSteps -> Job]
    <3>1. [state |-> "delayed", visit |-> call[c].visit] \in Job
      BY <1>0 DEF TypeOK, Call, Job
    <3> QED BY <1>0, <1>10, <3>1 DEF AddTimer, TypeOK
  <2> QED BY <1>0, <1>10, <2>1, <2>2 DEF AddTimer, TypeOK, ticketVars
<1>11. ASSUME NEW c \in Callers, Announce(c) PROVE TypeOK'
  BY <1>0, <1>1, <1>11, CallMoves DEF Announce, Phases
<1>12. ASSUME NEW c \in Callers, ForgetRefusal(c) PROVE TypeOK'
  <2>1. call' \in [Callers -> Call]
    BY <1>0, <1>12, IdleIsACall, CallBecomes DEF ForgetRefusal, Phases
  <2> QED BY <1>0, <1>12, <2>1 DEF ForgetRefusal, TypeOK, ticketVars
<1>13. ASSUME NEW c \in Callers, NoteRefusal(c) PROVE TypeOK'
  <2>1. [Idle EXCEPT !.pc = "answered", !.why = call[c].why] \in Call
    <3>1. call[c].why \in {"none", "guard", "workflow", "concurrent"}
      BY <1>0 DEF TypeOK, Call
    <3> QED BY <3>1, IdleIsACall, CallLearns DEF Phases
  <2>2. call' \in [Callers -> Call]
    BY <1>0, <1>13, <2>1, CallBecomes DEF NoteRefusal
  <2>3. noted' \in Refusals \cup {None}
    BY <1>0, <1>13 DEF NoteRefusal, Final, TheRefusal, TypeOK, Call, Refusals
  <2> QED BY <1>0, <1>13, <2>2, <2>3 DEF NoteRefusal, TypeOK, ticketVars
<1>14. ASSUME NEW c \in Callers, Return(c) \/ Abandon(c) PROVE TypeOK'
  BY <1>0, <1>1, <1>14, IdleIsACall, CallBecomes DEF Return, Abandon
<1>15. ASSUME UNCHANGED vars PROVE TypeOK'
  BY <1>0, <1>15 DEF vars, TypeOK
<1> QED
  BY <1>0, <1>2, <1>3, <1>4, <1>5, <1>6, <1>7, <1>8, <1>9, <1>10, <1>11, <1>12, <1>13, <1>14, <1>15,
     CallerAssumption DEF Next, PipelineStep, BeforeCommit, AfterCommit, Callers, Triggers

-----------------------------------------------------------------------------
\* A commit, with what the compare and swap and the read gave it: the arc
\* starts from the step the ticket is in, and the history grows by one.
Commits(arc, trigger, last) ==
  /\ last \in Nat \ {0} /\ last = Len(history) /\ Len(history') = last + 1
  /\ arc \in Arcs /\ arc.from = wi.current /\ arc.to \in Steps
  /\ trigger = "manual" => arc.trigger = "manual"
  /\ \A i \in 1..last :
       /\ history'[i].step = history[i].step
       /\ history'[i].from = history[i].from
       /\ history'[i].trigger = history[i].trigger
       /\ history'[i].exited # 0
       /\ history[i].exited # 0 => history'[i] = history[i]
  /\ history'[last + 1] = [step |-> arc.to, from |-> arc.from, trigger |-> trigger, exited |-> 0]

LEMMA CommitFacts ==
  ASSUME IInv, NEW c \in Callers, CommitMove(c)
  PROVE  Commits(call[c].arc, call[c].trigger, Len(history))
<1> DEFINE arc == call[c].arc
           last == Len(history)
           closed == CloseOpen(history, last + 1)
           entered == [step |-> arc.to, from |-> arc.from, trigger |-> call[c].trigger, exited |-> 0]
<1>1. history \in Seq(Execution) /\ last \in Nat \ {0}
  BY DEF IInv, TypeOK, OneCurrentStep
<1>2. /\ arc \in Arcs /\ arc.to \in Steps
      /\ call[c].trigger = "manual" => arc.trigger = "manual"
  BY GraphAssumption DEF CommitMove, IInv, CallsReadOneVisit, TypeOK, Call, ArcType
<1>3. arc.from = wi.current
  BY DEF CommitMove, StepUnchanged, Current
<1>4. history' = Append(closed, entered)
  BY DEF CommitMove
<1>5. closed \in Seq(Execution) /\ Len(closed) = last
  BY <1>1, CloseOpenKeeps
<1>6. \A i \in 1..last :
        /\ closed[i].step = history[i].step
        /\ closed[i].from = history[i].from
        /\ closed[i].trigger = history[i].trigger
        /\ closed[i].exited # 0
        /\ history[i].exited # 0 => closed[i] = history[i]
  <2>1. last + 1 \in Nat /\ last + 1 # 0
    BY <1>1
  <2> QED BY <1>1, <2>1, CloseOpenKeeps
<1> HIDE DEF closed, entered
<1>7. Len(history') = last + 1 /\ history'[last + 1] = entered /\ \A i \in 1..last : history'[i] = closed[i]
  BY <1>1, <1>4, <1>5
<1> QED BY <1>1, <1>2, <1>3, <1>6, <1>7 DEF entered, Commits

\* A step that writes nothing on the ticket keeps what depends on it alone.
LEMMA QuietSteps ==
  ASSUME IInv, UNCHANGED ticketVars
  PROVE  OneCurrentStep' /\ HistoryIsAWalk' /\ EventIffMove'
BY DEF IInv, ticketVars, OneCurrentStep, OpenVisits, HistoryIsAWalk, EventIffMove

\* Every other step than a commit is quiet.
LEMMA OnlyCommitsWrite ==
  ASSUME [Next]_vars, ~UNCHANGED ticketVars
  PROVE  \E c \in Callers : CommitMove(c)
BY DEF Next, PipelineStep, BeforeCommit, AfterCommit, Request, CheckGuards, EngineRead, LoseRace, EngineFails, RunActions,
       RemoveTimer, AddTimer, Announce, ForgetRefusal, NoteRefusal, Return, Abandon,
       vars, ticketVars

LEMMA NextOneCurrentStep == IInv /\ [Next]_vars => OneCurrentStep'
<1> SUFFICES ASSUME IInv, NEW c \in Callers, CommitMove(c) PROVE OneCurrentStep'
  BY QuietSteps, OnlyCommitsWrite
<1> DEFINE arc == call[c].arc
           last == Len(history)
<1>0. Commits(arc, call[c].trigger, last)
  BY CommitFacts
<1> HIDE DEF arc, last
<1>1. /\ wi' = [current |-> arc.to, current_step |-> arc.to, status |-> InstanceStatus(arc.to)]
      /\ entity'.status = arc.to
  BY DEF CommitMove, arc
<1>2. OpenVisits' = {last + 1}
  <2>1. 1..Len(history') = (1..last) \cup {last + 1} /\ last + 1 \notin 1..last
    BY <1>0 DEF Commits
  <2>2. \A i \in 1..last : history'[i].exited # 0
    BY <1>0 DEF Commits
  <2>3. history'[last + 1].exited = 0
    BY <1>0 DEF Commits
  <2> QED BY <2>1, <2>2, <2>3 DEF OpenVisits
<1>3. wi'.status = "completed" <=> wi'.current \in Terminal
  BY <1>1 DEF InstanceStatus
<1> QED BY <1>0, <1>1, <1>2, <1>3 DEF OneCurrentStep, Commits

LEMMA NextHistoryIsAWalk == IInv /\ [Next]_vars => HistoryIsAWalk'
<1> SUFFICES ASSUME IInv, NEW c \in Callers, CommitMove(c) PROVE HistoryIsAWalk'
  BY QuietSteps, OnlyCommitsWrite
<1> DEFINE arc == call[c].arc
           last == Len(history)
<1>0. Commits(arc, call[c].trigger, last)
  BY CommitFacts
<1> HIDE DEF arc, last
<1>1. history[last].step = wi.current
  BY DEF IInv, OneCurrentStep, last
<1>2. ASSUME NEW i \in 2..last
      PROVE  /\ history'[i].from = history'[i - 1].step
             /\ \E a \in Arcs : /\ a.from = history'[i].from
                                /\ a.to = history'[i].step
                                /\ history'[i].trigger = "manual" => a.trigger = "manual"
  <2>1. i \in 1..last /\ i - 1 \in 1..last
    BY <1>0 DEF Commits
  <2>2. /\ history[i].from = history[i - 1].step
        /\ \E a \in Arcs : /\ a.from = history[i].from
                           /\ a.to = history[i].step
                           /\ history[i].trigger = "manual" => a.trigger = "manual"
    BY DEF IInv, HistoryIsAWalk, last
  <2>3. /\ history'[i].step = history[i].step /\ history'[i].from = history[i].from
        /\ history'[i].trigger = history[i].trigger /\ history'[i - 1].step = history[i - 1].step
    BY <1>0, <2>1 DEF Commits
  <2> QED BY <2>2, <2>3
<1>3. /\ history'[last + 1].from = history'[last].step
      /\ arc \in Arcs
      /\ arc.from = history'[last + 1].from
      /\ arc.to = history'[last + 1].step
      /\ history'[last + 1].trigger = "manual" => arc.trigger = "manual"
  <2>1. last \in 1..last
    BY <1>0 DEF Commits
  <2> QED BY <1>0, <1>1, <2>1 DEF Commits
<1>4. 2..Len(history') \subseteq (2..last) \cup {last + 1} /\ (last + 1) - 1 = last
  BY <1>0 DEF Commits
<1> QED BY <1>2, <1>3, <1>4 DEF HistoryIsAWalk

LEMMA NextEventIffMove == IInv /\ [Next]_vars => EventIffMove'
<1> SUFFICES ASSUME IInv, NEW c \in Callers, CommitMove(c) PROVE EventIffMove'
  BY QuietSteps, OnlyCommitsWrite
<1> DEFINE arc == call[c].arc
           last == Len(history)
           moves(h, n) == {[visit |-> i, from |-> h[i].from, to |-> h[i].step] : i \in 2..n}
<1>0. Commits(arc, call[c].trigger, last)
  BY CommitFacts
<1> HIDE DEF arc, last
<1>1. outbox' = outbox \cup {[visit |-> last + 1, from |-> arc.from, to |-> arc.to]}
  BY DEF CommitMove, RecordEvent, arc, last
<1>2. outbox = moves(history, last)
  BY DEF IInv, EventIffMove, last
<1>3. moves(history', last) = moves(history, last)
  <2>1. \A i \in 2..last : i \in 1..last
    BY <1>0 DEF Commits
  <2>2. \A i \in 2..last : history'[i].from = history[i].from /\ history'[i].step = history[i].step
    BY <1>0, <2>1 DEF Commits
  <2> QED BY <2>2
<1>4. 2..(last + 1) = (2..last) \cup {last + 1}
  BY <1>0 DEF Commits
<1>5. moves(history', last + 1) = moves(history', last) \cup
        {[visit |-> last + 1, from |-> history'[last + 1].from, to |-> history'[last + 1].step]}
  BY <1>4
<1>6. moves(history', Len(history')) = outbox'
  <2>1. Len(history') = last + 1 /\ history'[last + 1].from = arc.from /\ history'[last + 1].step = arc.to
    BY <1>0 DEF Commits
  <2> HIDE DEF moves
  <2> QED BY <1>1, <1>2, <1>3, <1>5, <2>1
<1> QED BY <1>6 DEF EventIffMove

\* Only the engine's read brings a call to the point of committing.
LEMMA OnlyReadsLearn ==
  ASSUME IInv, [Next]_vars, NEW d \in Callers, call'[d].pc = "read"
  PROVE  \/ call'[d] = call[d]
         \/ EngineRead(d) /\ \E arc \in Arcs, i \in OpenVisits : Knows(d, arc, i)
<1>1. call \in [Callers -> Call]
  BY DEF IInv, TypeOK
<1>2. ASSUME NEW c \in Callers, NEW why \in {"guard", "workflow", "concurrent"}, Refuse(c, why)
      PROVE  call'[d] = call[d]
  BY <1>1, <1>2 DEF Refuse, Idle
<1>3. ASSUME NEW c \in Callers, NEW to \in Steps, NEW trigger \in Triggers, Request(c, to, trigger)
      PROVE  call'[d] = call[d]
  BY <1>1, <1>3 DEF Request, Idle
<1>4. ASSUME NEW c \in Callers, EngineRead(c), ~Refuse(c, "workflow")
      PROVE  \/ call'[d] = call[d]
             \/ EngineRead(d) /\ \E arc \in Arcs, i \in OpenVisits : Knows(d, arc, i)
  <2>1. PICK arc \in Arcs, i \in OpenVisits : Knows(c, arc, i)
    BY <1>4, EngineReadChooses
  <2>2. CASE c = d
    BY <1>4, <2>1, <2>2
  <2>3. CASE c # d
    BY <1>1, <2>1, <2>3 DEF Knows
  <2> QED BY <2>2, <2>3
<1>5. ASSUME NEW c \in Callers, CommitMove(c) PROVE call'[d] = call[d]
  BY <1>1, <1>5 DEF CommitMove
<1>6. ASSUME NEW c \in Callers, NEW pc \in Phases \ {"read"}, call' = [call EXCEPT ![c].pc = pc]
      PROVE  call'[d] = call[d]
  <2>1. c # d \/ call'[d].pc = pc
    BY <1>1, <1>6 DEF Call
  <2> QED BY <1>1, <1>6, <2>1
<1>7. ASSUME NEW c \in Callers,
             \/ CheckGuards(c) \/ LoseRace(c) \/ EngineFails(c) \/ RunActions(c)
             \/ RemoveTimer(c) \/ AddTimer(c) \/ Announce(c)
      PROVE  call'[d] = call[d]
  <2>1. CASE CheckGuards(c)
    BY <1>2, <1>6, <2>1 DEF CheckGuards, Phases
  <2>2. CASE LoseRace(c) \/ EngineFails(c)
    BY <1>2, <2>2 DEF LoseRace, EngineFails
  <2>3. CASE RunActions(c) \/ AddTimer(c) \/ Announce(c)
    BY <1>6, <2>3 DEF RunActions, AddTimer, Announce, Phases
  <2>4. CASE RemoveTimer(c)
    BY <1>6, <2>4 DEF RemoveTimer, Phases
  <2> QED BY <1>7, <2>1, <2>2, <2>3, <2>4
<1>8. ASSUME NEW c \in Callers, ForgetRefusal(c) \/ NoteRefusal(c) \/ Return(c) \/ Abandon(c)
      PROVE  call'[d] = call[d]
  <2>1. ASSUME NEW r, r.pc # "read", call' = [call EXCEPT ![c] = r] PROVE call'[d] = call[d]
    BY <1>1, <2>1
  <2>2. CASE ForgetRefusal(c)
    BY <2>1, <2>2 DEF ForgetRefusal, Idle
  <2>3. CASE NoteRefusal(c)
    BY <2>1, <2>3 DEF NoteRefusal, Idle
  <2>4. CASE Return(c) \/ Abandon(c)
    BY <2>1, <2>4 DEF Return, Abandon, Idle
  <2> QED BY <1>8, <2>2, <2>3, <2>4
<1>9. CASE UNCHANGED vars
  BY <1>9 DEF vars
<1>10. CASE \E c \in Callers : PipelineStep(c) \/ Return(c) \/ Abandon(c)
  BY <1>2, <1>4, <1>5, <1>7, <1>8, <1>10 DEF PipelineStep, BeforeCommit, AfterCommit
<1> QED BY <1>3, <1>9, <1>10, CallerAssumption DEF Next, Callers, Triggers

LEMMA NextCallsReadOneVisit == IInv /\ [Next]_vars => CallsReadOneVisit'
<1> SUFFICES ASSUME IInv, [Next]_vars, NEW d \in Callers, call'[d].pc = "read"
             PROVE  /\ call'[d].arc # None
                    /\ call'[d].arc.to = call'[d].to
                    /\ call'[d].trigger = "manual" => call'[d].arc.trigger = "manual"
                    /\ call'[d].visit \in 1..Len(history')
                    /\ history'[call'[d].visit].step = call'[d].arc.from
  BY DEF CallsReadOneVisit
<1>1. CASE call'[d] = call[d]
  <2>1. /\ call[d].arc # None
        /\ call[d].arc.to = call[d].to
        /\ call[d].trigger = "manual" => call[d].arc.trigger = "manual"
        /\ call[d].visit \in 1..Len(history)
        /\ history[call[d].visit].step = call[d].arc.from
    BY <1>1 DEF IInv, CallsReadOneVisit
  <2>2. call[d].visit \in 1..Len(history') /\ history'[call[d].visit].step = history[call[d].visit].step
    <3>1. CASE UNCHANGED ticketVars
      BY <2>1, <3>1 DEF ticketVars
    <3>2. ASSUME NEW c \in Callers, CommitMove(c)
          PROVE  call[d].visit \in 1..Len(history') /\ history'[call[d].visit].step = history[call[d].visit].step
      <4>1. Commits(call[c].arc, call[c].trigger, Len(history))
        BY <3>2, CommitFacts
      <4>2. 1..Len(history) \subseteq 1..Len(history')
        BY <4>1 DEF Commits
      <4> QED BY <2>1, <4>1, <4>2 DEF Commits
    <3> QED BY <3>1, <3>2, OnlyCommitsWrite
  <2> QED BY <1>1, <2>1, <2>2
<1>2. CASE EngineRead(d) /\ \E arc \in Arcs, i \in OpenVisits : Knows(d, arc, i)
  <2>1. PICK arc \in Arcs, i \in OpenVisits : Knows(d, arc, i)
    BY <1>2
  <2>2. call'[d].arc = arc /\ call'[d].visit = i /\ call'[d].to = call[d].to /\ call'[d].trigger = call[d].trigger
    BY <2>1 DEF Knows, IInv, TypeOK, Call
  <2>3. history' = history
    BY <1>2 DEF EngineRead, ticketVars
  <2>4. i \in 1..Len(history) /\ history[i].step = Current
    BY DEF IInv, OneCurrentStep, Current, OpenVisits
  <2> QED BY <2>1, <2>2, <2>3, <2>4, CallerAssumption DEF Knows
<1> QED BY <1>1, <1>2, OnlyReadsLearn

-----------------------------------------------------------------------------
(***************************************************************************)
(* Theorems.                                                               *)
(***************************************************************************)

\* The inductive invariant holds in every reachable state.
THEOREM Invariance == Spec => []IInv
<1>1. IInv /\ [Next]_vars => IInv'
  BY NextTypeOK, NextOneCurrentStep, NextHistoryIsAWalk, NextEventIffMove, NextCallsReadOneVisit DEF IInv
<1> QED BY InitIInv, <1>1, PTL DEF Spec

\* Types, for every definition and any number of callers.
THEOREM TypesHold == Spec => []TypeOK
<1>1. IInv => TypeOK
  BY DEF IInv
<1> QED BY Invariance, <1>1, PTL

\* However calls race, fail or stop, the step written on the instance, the
\* status of the ticket and the open execution agree.
THEOREM StepWrittenOnce == Spec => []OneCurrentStep
<1>1. IInv => OneCurrentStep
  BY DEF IInv
<1> QED BY Invariance, <1>1, PTL

\* The history is a walk of the definition.
THEOREM HistoryWalks == Spec => []HistoryIsAWalk
<1>1. IInv => HistoryIsAWalk
  BY DEF IInv
<1> QED BY Invariance, <1>1, PTL

\* The outbox holds the event of every move, and of no other.
THEOREM OneEventPerMove == Spec => []EventIffMove
<1>1. IInv => EventIffMove
  BY DEF IInv
<1> QED BY Invariance, <1>1, PTL

\* The executions already closed are never rewritten, and a step adds at most
\* one.
THEOREM PastIsKept == Spec => HistoryOnlyGrows
<1>1. IInv /\ [Next]_vars =>
        [/\ Len(history') \in {Len(history), Len(history) + 1}
         /\ \A i \in 1..Len(history) : history[i].exited # 0 => history'[i] = history[i]]_vars
  <2> SUFFICES ASSUME IInv, [Next]_vars
               PROVE  /\ Len(history') \in {Len(history), Len(history) + 1}
                      /\ \A i \in 1..Len(history) : history[i].exited # 0 => history'[i] = history[i]
    OBVIOUS
  <2>1. CASE UNCHANGED ticketVars
    BY <2>1 DEF ticketVars
  <2>2. ASSUME NEW c \in Callers, CommitMove(c)
        PROVE  /\ Len(history') \in {Len(history), Len(history) + 1}
               /\ \A i \in 1..Len(history) : history[i].exited # 0 => history'[i] = history[i]
    BY <2>2, CommitFacts DEF Commits
  <2> QED BY <2>1, <2>2, OnlyCommitsWrite
<1> QED BY Invariance, <1>1, PTL DEF Spec, HistoryOnlyGrows

\* A call about to commit was decided on one snapshot of the ticket.
THEOREM DecidedOnOneVisit == Spec => []CallsReadOneVisit
<1>1. IInv => CallsReadOneVisit
  BY DEF IInv
<1> QED BY Invariance, <1>1, PTL

-----------------------------------------------------------------------------
\* What a step does to the step and the dates of the ticket.
LEMMA DatesFollowMoves ==
  ASSUME IInv, [Next]_vars
  PROVE  \/ wi'.current = wi.current /\ entity'.dates = entity.dates
         \/ \E arc \in Arcs : /\ arc.from = wi.current /\ wi'.current = arc.to
                              /\ entity'.dates = DatesAfter(arc.from, arc.to, entity.dates)
<1>1. CASE UNCHANGED ticketVars
  BY <1>1 DEF ticketVars
<1>2. ASSUME NEW c \in Callers, CommitMove(c)
      PROVE  \E arc \in Arcs : /\ arc.from = wi.current /\ wi'.current = arc.to
                               /\ entity'.dates = DatesAfter(arc.from, arc.to, entity.dates)
  <2>1. call[c].arc \in Arcs /\ call[c].arc.from = wi.current
    BY <1>2, CommitFacts DEF Commits
  <2> QED BY <1>2, <2>1 DEF CommitMove
<1> QED BY <1>1, <1>2, OnlyCommitsWrite

\* A concluded request or change has its completion date, when no step both
\* resolves and closes.
THEOREM ConclusionIsDated ==
  ASSUME Resolving \cap Terminal = {}
  PROVE  Spec => []TerminalIsCompleted
<1>1. Init => TerminalIsCompleted
  BY GraphAssumption DEF Init, TerminalIsCompleted
<1>2. IInv /\ TerminalIsCompleted /\ [Next]_vars => TerminalIsCompleted'
  <2> SUFFICES ASSUME IInv, TerminalIsCompleted, [Next]_vars, Concludes, wi'.current \in Terminal
               PROVE  "completed" \in entity'.dates
    BY DEF TerminalIsCompleted
  <2>1. CASE wi'.current = wi.current /\ entity'.dates = entity.dates
    BY <2>1 DEF TerminalIsCompleted
  <2>2. ASSUME NEW arc \in Arcs, wi'.current = arc.to,
               entity'.dates = DatesAfter(arc.from, arc.to, entity.dates)
        PROVE  "completed" \in entity'.dates
    BY <2>2 DEF DatesAfter
  <2> QED BY <2>1, <2>2, DatesFollowMoves
<1> QED BY Invariance, <1>1, <1>2, PTL DEF Spec

\* The date of resolution follows the step, when a ticket does not start
\* resolved and a step that publishes also resolves or closes: a publication
\* keeps the date, so that a move out of it to open work would show it.
THEOREM ResolutionIsDated ==
  ASSUME Initial \notin Resolving, Publishing \subseteq Resolving \cup Terminal
  PROVE  Spec => []ResolutionFollowsStep
<1>1. Init => ResolutionFollowsStep
  BY DEF Init, ResolutionFollowsStep
<1>2. IInv /\ ResolutionFollowsStep /\ [Next]_vars => ResolutionFollowsStep'
  <2> SUFFICES ASSUME IInv, ResolutionFollowsStep, [Next]_vars PROVE ResolutionFollowsStep'
    OBVIOUS
  <2>1. CASE wi'.current = wi.current /\ entity'.dates = entity.dates
    BY <2>1 DEF ResolutionFollowsStep, ClosedStaysClosed
  <2>2. ASSUME NEW arc \in Arcs, arc.from = wi.current, wi'.current = arc.to,
               entity'.dates = DatesAfter(arc.from, arc.to, entity.dates)
        PROVE  ResolutionFollowsStep'
    <3>1. wi'.current \in Resolving => "resolved" \in entity'.dates
      BY <2>2 DEF DatesAfter
    <3>2. ASSUME ClosedStaysClosed, wi'.current \notin Resolving \cup Terminal \cup Publishing
          PROVE  "resolved" \notin entity'.dates
      <4>1. arc.to \notin Resolving /\ arc.to \notin Terminal /\ arc.to \notin Publishing
        BY <2>2, <3>2
      <4>2. CASE arc.from \in Resolving
        BY <2>2, <4>1, <4>2 DEF DatesAfter
      <4>3. CASE arc.from \notin Resolving
        <5>1. arc.from \notin Terminal
          BY <2>2, <3>2, <4>1, <4>3 DEF ClosedStaysClosed
        <5>2. "resolved" \notin entity.dates
          BY <2>2, <3>2, <4>3, <5>1 DEF ResolutionFollowsStep
        <5> QED BY <2>2, <4>1, <4>3, <5>2 DEF DatesAfter
      <4> QED BY <4>2, <4>3
    <3> QED BY <3>1, <3>2 DEF ResolutionFollowsStep, ClosedStaysClosed
  <2> QED BY <2>1, <2>2, DatesFollowMoves
<1> QED BY Invariance, <1>1, <1>2, PTL DEF Spec
=============================================================================

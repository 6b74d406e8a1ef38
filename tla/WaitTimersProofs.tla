--------------------------- MODULE WaitTimersProofs ---------------------------
(***************************************************************************)
(* The types of WaitTimers and what the pipeline guarantees with timers,   *)
(* in general; and that no job of an earlier visit ends a wait, when one   *)
(* person sends the ticket to wait.                                        *)
(***************************************************************************)
EXTENDS WaitTimers, TicketTransitionProofs

-----------------------------------------------------------------------------
\* The history never passes its bound.
HistoryBounded == Len(history) <= MaxVisits

\* A step that writes on calls and jobs only, and leaves no call about to
\* commit that was not, keeps the invariant of the pipeline.
LEMMA CallsOnly ==
  ASSUME IInv, UNCHANGED <<ticketVars, noted>>,
         jobs' \in [WaitSteps -> Job], call' \in [Callers -> Call],
         \A d \in Callers : call'[d] = call[d] \/ call'[d].pc # "read"
  PROVE  IInv'
<1>1. TypeOK'
  BY DEF IInv, TypeOK, ticketVars
<1>2. OneCurrentStep' /\ HistoryIsAWalk' /\ EventIffMove'
  BY QuietSteps
<1>3. CallsReadOneVisit'
  BY DEF IInv, CallsReadOneVisit, ticketVars
<1> QED BY <1>1, <1>2, <1>3 DEF IInv

LEMMA NextIInv == IInv /\ [Next]_vars => IInv'
BY NextTypeOK, NextOneCurrentStep, NextHistoryIsAWalk, NextEventIffMove, NextCallsReadOneVisit DEF IInv

\* A job goes from one state of BullMQ to another, or goes.
LEMMA JobsStay ==
  ASSUME TypeOK, NEW s \in WaitSteps
  PROVE  /\ \A state \in {"none", "delayed", "waiting", "active", "failed"} :
              SetJob(s, state) => jobs' \in [WaitSteps -> Job]
         /\ DropJob(s) => jobs' \in [WaitSteps -> Job]
<1>1. jobs \in [WaitSteps -> Job] /\ jobs[s].visit \in Nat
  BY DEF TypeOK, Job
<1>2. ASSUME NEW state \in {"none", "delayed", "waiting", "active", "failed"}, SetJob(s, state)
      PROVE  jobs' \in [WaitSteps -> Job]
  <2>1. [jobs[s] EXCEPT !.state = state] \in Job
    BY <1>1 DEF Job
  <2> QED BY <1>1, <1>2, <2>1 DEF SetJob
<1>3. ASSUME DropJob(s) PROVE jobs' \in [WaitSteps -> Job]
  BY <1>1, <1>3 DEF DropJob, Job, NoJob
<1> QED BY <1>2, <1>3

\* A request is a call, whatever asks for it.
LEMMA RequestIsACall ==
  ASSUME TypeOK, NEW c \in Callers, NEW to \in Steps, NEW trigger \in Triggers,
         Request(c, to, trigger)
  PROVE  /\ call' = [call EXCEPT ![c] = [Idle EXCEPT !.pc = "loaded", !.to = to,
                                              !.trigger = trigger, !.noted = noted]]
         /\ call' \in [Callers -> Call]
<1>1. [Idle EXCEPT !.pc = "loaded", !.to = to, !.trigger = trigger, !.noted = noted] \in Call
  BY IdleIsACall, CallLearns DEF TypeOK, Phases
<1> QED BY <1>1, CallBecomes DEF Request

\* Every step of the timers keeps the invariant of the pipeline.
LEMMA TimersNextIInv ==
  ASSUME IInv, TimersTypeOK, [TimersNext]_allVars
  PROVE  IInv'
<1>0. TypeOK /\ call \in [Callers -> Call] /\ jobs \in [WaitSteps -> Job]
  BY DEF IInv, TypeOK
<1>1. CASE UNCHANGED vars
  BY <1>1, NextIInv
<1>2. ASSUME NEW c \in Callers, NEW to \in Steps, NEW trigger \in Triggers, Request(c, to, trigger)
      PROVE  IInv'
  <2>1. \A d \in Callers : call'[d] = call[d] \/ call'[d].pc # "read"
    <3>1. call' = [call EXCEPT ![c] = [Idle EXCEPT !.pc = "loaded", !.to = to,
                                                   !.trigger = trigger, !.noted = noted]]
      BY <1>2 DEF Request
    <3>2. \A d \in Callers \ {c} : call'[d] = call[d]
      BY <1>0, <3>1
    <3>3. call'[c].pc = "loaded"
      BY <1>0, <3>1 DEF Idle
    <3> QED BY <3>2, <3>3
  <2>2. call' \in [Callers -> Call]
    BY <1>0, <1>2, RequestIsACall
  <2>3. UNCHANGED <<ticketVars, noted>> /\ jobs' \in [WaitSteps -> Job]
    BY <1>0, <1>2 DEF Request
  <2> QED BY <2>1, <2>2, <2>3, CallsOnly
<1>3. ASSUME NEW c \in Callers, PipelineStep(c) \/ Return(c) \/ Abandon(c) PROVE IInv'
  <2>1. Next
    BY <1>3 DEF Next
  <2> QED BY <2>1, NextIInv
<1>4. ASSUME NEW c \in Callers, Hangs(c), jobs' \in [WaitSteps -> Job], UNCHANGED <<ticketVars, noted>>
      PROVE  IInv'
  <2>1. call' \in [Callers -> Call]
    BY <1>0, <1>4, IdleIsACall, CallBecomes DEF Hangs
  <2>2. \A d \in Callers : call'[d] = call[d] \/ call'[d].pc # "read"
    BY <1>0, <1>4 DEF Hangs, Idle
  <2> QED BY <1>4, <2>1, <2>2, CallsOnly
<1>5. ASSUME jobs' \in [WaitSteps -> Job], UNCHANGED <<ticketVars, noted, call>> PROVE IInv'
  BY <1>0, <1>5, CallsOnly
<1>6. CASE TimerWorker /\ Timer \in Systems
  <2>0. Timer \in Callers /\ (worker # None => worker \in WaitSteps)
    BY <1>6 DEF Callers, TimersTypeOK
  <2>1. ASSUME NEW s \in WaitSteps, TimerElapses(s) \/ TakeTimer(s) \/ TimerStalls(s) PROVE IInv'
    BY <1>0, <1>5, <2>1, JobsStay DEF TimerElapses, TakeTimer, TimerStalls
  <2>2. CASE ResolveExit
    <3>1. \A to \in WaitTargets(Current) : to \in Steps
      BY GraphAssumption DEF WaitTargets, WaitExits, ArcType
    <3> QED BY <1>2, <2>0, <2>2, <3>1 DEF ResolveExit, Triggers
  <2>3. CASE NoExit
    BY <1>0, <1>5, <2>0, <2>3, JobsStay DEF NoExit
  <2>4. CASE TimerMoved \/ TimerRefused \/ TimerFails
    BY <1>0, <1>4, <2>0, <2>4, JobsStay DEF TimerMoved, TimerRefused, TimerFails
  <2>5. CASE TimerStops
    BY <1>0, <1>4, <2>0, <2>5 DEF TimerStops
  <2> QED BY <1>6, <2>1, <2>2, <2>3, <2>4, <2>5 DEF TimerWorker
<1>7. CASE ResumePass /\ Resume \in Systems
  <2>1. CASE FindCandidate \/ ResumeSkips
    BY <1>1, <2>1 DEF FindCandidate, ResumeSkips
  <2>2. CASE ResumeRequest
    BY <1>2, <1>7, <2>2 DEF ResumeRequest, TimersTypeOK, Callers, Triggers
  <2>3. CASE ResumeEnds
    BY <1>3, <1>7, <2>3 DEF ResumeEnds, Callers
  <2> QED BY <1>7, <2>1, <2>2, <2>3 DEF ResumePass
<1>8. ASSUME NEW c \in Persons, People(c) PROVE IInv'
  BY <1>2, <1>3, <1>8 DEF People, Callers, Triggers
<1>9. ASSUME NEW c \in Callers, Pipeline(c) PROVE IInv'
  BY <1>3, <1>9 DEF Pipeline, PipelineStep
<1>10. CASE TimePasses \/ UNCHANGED allVars
  BY <1>1, <1>10 DEF TimePasses, allVars
<1> QED BY <1>6, <1>7, <1>8, <1>9, <1>10 DEF TimersNext
\* A commit is the only step that makes the history longer, and it stops at
\* the bound.
LEMMA HistoryStops ==
  ASSUME IInv, HistoryBounded, [TimersNext]_allVars
  PROVE  HistoryBounded'
<1>1. CASE history' = history
  BY <1>1 DEF HistoryBounded
<1>2. ASSUME NEW c \in Callers, CommitMove(c) PROVE HistoryBounded'
  <2>1. Len(history') = Len(history) + 1
    BY <1>2, CommitFacts DEF Commits
  <2> QED BY <1>2, <2>1 DEF CommitMove, HistoryBounded
<1>3. ASSUME NEW c \in Callers, Pipeline(c) PROVE HistoryBounded'
  <2>1. CASE CommitMove(c)
    BY <1>2, <2>1
  <2>2. CASE PipelineStep(c) /\ ~CommitMove(c)
    BY <1>1, <2>2 DEF PipelineStep, BeforeCommit, AfterCommit, CheckGuards, EngineRead, LoseRace,
       EngineFails, RunActions, RemoveTimer, AddTimer, Announce, ForgetRefusal, NoteRefusal, ticketVars
  <2> QED BY <1>3, <2>1, <2>2 DEF Pipeline
<1>4. ASSUME ~(\E c \in Callers : Pipeline(c)), TimersNext PROVE history' = history
  BY <1>4 DEF TimersNext, People, Request, Return, Abandon, TimePasses, TimerWorker, TimerElapses, TakeTimer,
     TimerStalls, ResolveExit, NoExit, TimerMoved, TimerRefused, TimerFails, TimerStops, ResumePass,
     FindCandidate, ResumeRequest, ResumeSkips, ResumeEnds, vars, ticketVars
<1> QED BY <1>1, <1>3, <1>4 DEF allVars, vars

\* The worker and the pass keep their types.
LEMMA TimersNextTypeOK ==
  ASSUME IInv, HistoryBounded, TimersTypeOK, [TimersNext]_allVars
  PROVE  TimersTypeOK'
<1> DEFINE Kept == /\ age' \in {"young", "over", "lost"}
                   /\ worker' \in WaitSteps \cup {None}
                   /\ candidate' \in Steps \cup {None}
                   /\ blocked' \subseteq 1..MaxVisits
<1>1. SUFFICES Kept
  BY TimersNextIInv DEF IInv, TimersTypeOK
<1>2. CASE UNCHANGED <<worker, candidate, blocked>> /\ age' \in {age, "young", "over", "lost"}
  BY <1>2 DEF TimersTypeOK
<1>3. ASSUME NEW c \in Callers, Pipeline(c) PROVE Kept
  BY <1>2, <1>3 DEF Pipeline, timerVars
<1>4. ASSUME NEW c \in Persons, People(c) PROVE Kept
  BY <1>2, <1>4 DEF People, timerVars
<1>5. CASE TimePasses
  BY <1>2, <1>5 DEF TimePasses
<1>6. CASE TimerWorker
  <2>1. CASE worker' \in WaitSteps \cup {None} /\ UNCHANGED <<age, candidate, blocked>>
    BY <2>1 DEF TimersTypeOK
  <2>2. CASE TimerRefused
    <3>1. OpenVisits \subseteq 1..MaxVisits
      BY CallerAssumption DEF OpenVisits, HistoryBounded, IInv, TypeOK
    <3> QED BY <2>2, <3>1 DEF TimerRefused, TimersTypeOK
  <2>3. ASSUME ~TimerRefused PROVE worker' \in WaitSteps \cup {None} /\ UNCHANGED <<age, candidate, blocked>>
    BY <1>6, <2>3 DEF TimerWorker, TimerElapses, TakeTimer, TimerStalls, ResolveExit, NoExit, TimerMoved,
       TimerFails, TimerStops, timerVars, TimersTypeOK
  <2> QED BY <2>1, <2>2, <2>3
<1>7. CASE ResumePass
  <2>1. CASE FindCandidate
    <3>1. \A a \in OpenPaths : a.to \in Steps
      BY GraphAssumption DEF OpenPaths, WaitExits, ArcType
    <3> QED BY <2>1, <3>1 DEF FindCandidate, TimersTypeOK
  <2>2. CASE ResumeRequest \/ ResumeSkips \/ ResumeEnds
    BY <2>2 DEF ResumeRequest, ResumeSkips, ResumeEnds, TimersTypeOK, timerVars
  <2> QED BY <1>7, <2>1, <2>2 DEF ResumePass
<1>8. CASE UNCHANGED allVars
  BY <1>2, <1>8 DEF allVars, timerVars
<1> QED BY <1>3, <1>4, <1>5, <1>6, <1>7, <1>8 DEF TimersNext

TimersInv == IInv /\ HistoryBounded /\ TimersTypeOK

LEMMA TimersInitInv == TimersInit => TimersInv
<1> SUFFICES ASSUME TimersInit PROVE TimersInv
  OBVIOUS
<1>1. IInv
  BY InitIInv DEF TimersInit
<1>2. HistoryBounded
  BY CallerAssumption DEF TimersInit, Init, HistoryBounded
<1>3. TimersTypeOK
  BY <1>1 DEF TimersInit, TimersTypeOK, IInv
<1> QED BY <1>1, <1>2, <1>3 DEF TimersInv

LEMMA TimersInvariance == TimersSpec => []TimersInv
<1>1. TimersInv /\ [TimersNext]_allVars => TimersInv'
  BY TimersNextIInv, HistoryStops, TimersNextTypeOK DEF TimersInv
<1> QED BY TimersInitInv, <1>1, PTL DEF TimersSpec

\* Types of the pipeline, the timer worker and the resume pass, for every
\* definition, any number of persons and any failures.
THEOREM TimersTypesHold == TimersSpec => []TimersTypeOK
<1>1. TimersInv => TimersTypeOK
  BY DEF TimersInv
<1> QED BY TimersInvariance, <1>1, PTL

\* What holds of the pipeline holds with its timers: the worker and the pass
\* only ask, and the step of the ticket is still written once.
THEOREM TimersKeepTheStep ==
  TimersSpec => [](OneCurrentStep /\ HistoryIsAWalk /\ EventIffMove)
<1>1. TimersInv => OneCurrentStep /\ HistoryIsAWalk /\ EventIffMove
  BY DEF TimersInv, IInv
<1> QED BY TimersInvariance, <1>1, PTL

-----------------------------------------------------------------------------
(***************************************************************************)
(* The wait and its job.  One person sends the ticket to wait, so the      *)
(* visits of a wait are entered one after the other, each by a call that   *)
(* removes the job of the one before; the worker and the pass only lead    *)
(* out of waits.  Two calls entering the same wait may each remove before  *)
(* either adds, and the add that comes first may be of the older visit: a  *)
(* second person, or an automatic arc into a wait, breaks the property.    *)
(* So does a call or a worker that stops half way.                         *)
(***************************************************************************)
OneMover ==
  /\ \A c, d \in Persons : c = d
  /\ ~Failures
  /\ \A a \in Arcs : a.trigger # "manual" => a.to \notin WaitSteps

Live == {"delayed", "waiting"}        \* a job that will still run
Entering == {"committed", "acted"}    \* a call that has yet to remove the older job
Resting == {"idle", "moved", "answered"}

\* The system paths ask for no wait, so they enter none and add no job.
SystemsEnterNoWait ==
  /\ candidate \notin WaitSteps
  /\ \A c \in Systems : /\ call[c].pc \notin Resting => call[c].to \notin WaitSteps
                        /\ call[c].pc # "removed"

\* An entry whose job is yet to be added is of the last visit to any wait, and
\* once it has removed the job of its step none will run.
EntriesUnderWay ==
  \A c \in Persons :
    /\ call[c].pc \in Entering \cup {"removed"} =>
         /\ call[c].visit \in 1..Len(history) /\ history[call[c].visit].step = call[c].to
         /\ \A i \in 1..Len(history) : i > call[c].visit => history[i].step \notin WaitSteps
    /\ call[c].pc = "removed" =>
         /\ call[c].to \in WaitSteps /\ WaitExits(call[c].to) # {}
         /\ jobs[call[c].to].state \notin Live

\* A job that runs is the worker's.  One that will run is of the last visit to
\* its step, or the call that made a later one has yet to remove it.
JobsFollowEntries ==
  \A s \in WaitSteps :
    /\ jobs[s].state = "active" => worker = s
    /\ jobs[s].state \in Live =>
         /\ WaitExits(s) # {}
         /\ jobs[s].visit \in 1..Len(history)
         /\ \A i \in 1..Len(history) : i > jobs[s].visit /\ history[i].step = s =>
              \E c \in Persons : call[c].visit = i /\ call[c].pc \in Entering

WaitInv == SystemsEnterNoWait /\ EntriesUnderWay /\ JobsFollowEntries

LEMMA InitWaitInv == TimersInit => WaitInv
<1> SUFFICES ASSUME TimersInit PROVE WaitInv
  OBVIOUS
<1>1. SystemsEnterNoWait
  BY GraphAssumption, CallerAssumption
     DEF TimersInit, Init, Idle, SystemsEnterNoWait, Resting, Callers
<1>2. EntriesUnderWay
  BY DEF TimersInit, Init, Idle, EntriesUnderWay, Entering, Callers
<1>3. JobsFollowEntries
  BY DEF TimersInit, Init, NoJob, JobsFollowEntries, Live
<1> QED BY <1>1, <1>2, <1>3 DEF WaitInv

\* A step that writes no execution keeps the invariant when no call of a person
\* is entering before or after it, and no job that would not run will.
LEMMA WaitKept ==
  ASSUME TimersInv, WaitInv, history' = history, candidate' \notin WaitSteps,
         \A s \in WaitSteps : jobs'[s].state = "active" => worker' = s,
         \A s \in WaitSteps : jobs'[s].state \in Live =>
           jobs[s].state \in Live /\ jobs'[s].visit = jobs[s].visit,
         \A c \in Persons : \/ call'[c] = call[c]
                            \/ /\ call[c].pc \notin Entering
                               /\ call'[c].pc \notin Entering \cup {"removed"},
         \A c \in Systems : \/ call'[c] = call[c]
                            \/ call'[c].pc \in Resting
                            \/ call'[c].to \notin WaitSteps /\ call'[c].pc # "removed"
  PROVE  WaitInv'
<1>1. SystemsEnterNoWait'
  BY DEF WaitInv, SystemsEnterNoWait, Resting
<1>2. EntriesUnderWay'
  <2> SUFFICES ASSUME NEW c \in Persons, call'[c].pc \in Entering \cup {"removed"}
               PROVE  /\ call'[c].visit \in 1..Len(history) /\ history[call'[c].visit].step = call'[c].to
                      /\ \A i \in 1..Len(history) : i > call'[c].visit => history[i].step \notin WaitSteps
                      /\ call'[c].pc = "removed" =>
                           /\ call'[c].to \in WaitSteps /\ WaitExits(call'[c].to) # {}
                           /\ jobs'[call'[c].to].state \notin Live
    BY DEF EntriesUnderWay
  <2>1. call'[c] = call[c]
    OBVIOUS
  <2> QED BY <2>1 DEF WaitInv, EntriesUnderWay
<1>3. JobsFollowEntries'
  <2> SUFFICES ASSUME NEW s \in WaitSteps, jobs'[s].state \in Live
               PROVE  /\ WaitExits(s) # {}
                      /\ jobs'[s].visit \in 1..Len(history)
                      /\ \A i \in 1..Len(history) : i > jobs'[s].visit /\ history[i].step = s =>
                           \E c \in Persons : call'[c].visit = i /\ call'[c].pc \in Entering
    BY DEF JobsFollowEntries
  <2>1. jobs[s].state \in Live /\ jobs'[s].visit = jobs[s].visit
    OBVIOUS
  <2>2. ASSUME NEW c \in Persons, call[c].pc \in Entering PROVE call'[c] = call[c]
    BY <2>2
  <2> QED BY <2>1, <2>2 DEF WaitInv, JobsFollowEntries
<1> QED BY <1>1, <1>2, <1>3 DEF WaitInv

\* A call that goes on without entering, asks or ends.
LEMMA CallGoesOn ==
  ASSUME TimersInv, WaitInv, NEW c \in Callers, NEW r, call' = [call EXCEPT ![c] = r],
         UNCHANGED <<history, jobs, worker, candidate>>,
         c \in Persons => call[c].pc \notin Entering /\ r.pc \notin Entering \cup {"removed"},
         c \in Systems => r.pc \in Resting \/ (r.to \notin WaitSteps /\ r.pc # "removed")
  PROVE  WaitInv'
<1>1. call \in [Callers -> Call]
  BY DEF TimersInv, IInv, TypeOK
<1>2. call'[c] = r /\ \A d \in Callers \ {c} : call'[d] = call[d]
  BY <1>1
<1>3. \A d \in Persons : \/ call'[d] = call[d]
                         \/ /\ call[d].pc \notin Entering
                            /\ call'[d].pc \notin Entering \cup {"removed"}
  BY <1>2 DEF Callers
<1>4. \A d \in Systems : \/ call'[d] = call[d]
                         \/ call'[d].pc \in Resting
                         \/ call'[d].to \notin WaitSteps /\ call'[d].pc # "removed"
  BY <1>2 DEF Callers
<1>5. candidate \notin WaitSteps /\ \A s \in WaitSteps : jobs[s].state = "active" => worker = s
  BY DEF WaitInv, SystemsEnterNoWait, JobsFollowEntries
<1> QED BY <1>3, <1>4, <1>5, WaitKept

\* The steps of the pipeline that neither enter nor schedule.
LEMMA QuietCallSteps ==
  ASSUME TimersInv, WaitInv, OneMover, NEW c \in Callers, UNCHANGED <<worker, candidate>>,
         \/ BeforeCommit(c) \/ Announce(c) \/ ForgetRefusal(c) \/ NoteRefusal(c)
         \/ Return(c) \/ Abandon(c)
         \/ c \in Systems /\ RunActions(c)
  PROVE  WaitInv'
<1>0. call \in [Callers -> Call]
  BY DEF TimersInv, IInv, TypeOK
<1>1. c \in Systems => /\ call[c].pc \notin Resting => call[c].to \notin WaitSteps
                       /\ call[c].pc # "removed"
  BY DEF WaitInv, SystemsEnterNoWait
<1>2. UNCHANGED <<history, jobs>>
  BY DEF BeforeCommit, CheckGuards, EngineRead, LoseRace, EngineFails, Announce, ForgetRefusal,
         NoteRefusal, Return, Abandon, RunActions, ticketVars
<1>3. ASSUME NEW r, call' = [call EXCEPT ![c] = r], call[c].pc \notin Entering,
             r.pc \notin Entering \cup {"removed"},
             r.pc \in Resting \/ (r.to = call[c].to /\ call[c].pc \notin Resting)
      PROVE  WaitInv'
  BY <1>1, <1>2, <1>3, CallGoesOn
<1>4. ASSUME NEW why, Refuse(c, why), call[c].pc \notin Entering, call[c].pc \notin Resting PROVE WaitInv'
  <2> DEFINE r == [Idle EXCEPT !.pc = "refused", !.to = call[c].to, !.noted = call[c].noted, !.why = why]
  <2>1. r.pc = "refused" /\ r.to = call[c].to
    BY DEF Idle
  <2>2. call' = [call EXCEPT ![c] = r]
    BY <1>4 DEF Refuse
  <2> HIDE DEF r
  <2> QED BY <1>3, <1>4, <2>1, <2>2 DEF Entering
<1>5. CASE CheckGuards(c)
  <2>1. CASE call' = [call EXCEPT ![c].pc = "guarded"]
    <3> DEFINE r == [call[c] EXCEPT !.pc = "guarded"]
    <3>1. r.pc = "guarded" /\ r.to = call[c].to /\ call' = [call EXCEPT ![c] = r]
      BY <1>0, <2>1 DEF Call
    <3> HIDE DEF r
    <3> QED BY <1>3, <1>5, <3>1 DEF CheckGuards, Entering, Resting
  <2> QED BY <1>4, <1>5, <2>1 DEF CheckGuards, Entering, Resting
<1>6. CASE EngineRead(c)
  <2>1. ASSUME NEW arc \in Arcs, NEW i \in OpenVisits, Knows(c, arc, i) PROVE WaitInv'
    <3> DEFINE r == [call[c] EXCEPT !.pc = "read", !.arc = arc, !.visit = i]
    <3>1. r.pc = "read" /\ r.to = call[c].to /\ call' = [call EXCEPT ![c] = r]
      BY <1>0, <2>1 DEF Call, Knows
    <3> HIDE DEF r
    <3> QED BY <1>3, <1>6, <3>1 DEF EngineRead, Entering, Resting
  <2> QED BY <1>4, <1>6, <2>1, EngineReadChooses DEF EngineRead, Entering, Resting
<1>7. CASE LoseRace(c) \/ EngineFails(c)
  BY <1>4, <1>7 DEF LoseRace, EngineFails, Entering, Resting
<1>8. CASE Announce(c)
  <2> DEFINE r == [call[c] EXCEPT !.pc = "announced"]
  <2>1. r.pc = "announced" /\ r.to = call[c].to /\ call' = [call EXCEPT ![c] = r]
    BY <1>0, <1>8 DEF Call, Announce
  <2> HIDE DEF r
  <2> QED BY <1>3, <1>8, <2>1 DEF Announce, Entering, Resting
<1>9. CASE ForgetRefusal(c) \/ NoteRefusal(c) \/ Return(c)
  <2>1. ASSUME NEW r, call' = [call EXCEPT ![c] = r], r.pc \in Resting, call[c].pc \notin Entering
        PROVE  WaitInv'
    BY <1>3, <2>1 DEF Resting, Entering
  <2>2. CASE ForgetRefusal(c)
    BY <2>1, <2>2 DEF ForgetRefusal, Idle, Resting, Entering
  <2>3. CASE NoteRefusal(c)
    BY <2>1, <2>3 DEF NoteRefusal, Idle, Resting, Entering
  <2>4. CASE Return(c)
    BY <2>1, <2>4 DEF Return, Idle, Resting, Entering
  <2> QED BY <1>9, <2>2, <2>3, <2>4
<1>10. CASE c \in Systems /\ RunActions(c)
  <2> DEFINE r == [call[c] EXCEPT !.pc = "acted"]
  <2>1. r.pc = "acted" /\ r.to = call[c].to /\ call' = [call EXCEPT ![c] = r]
    BY <1>0, <1>10 DEF Call, RunActions
  <2>2. c \notin Persons /\ call[c].to \notin WaitSteps
    BY <1>1, <1>10, CallerAssumption DEF RunActions, Resting
  <2> HIDE DEF r
  <2> QED BY <1>2, <2>1, <2>2, CallGoesOn
<1>11. CASE Abandon(c)
  BY <1>11 DEF Abandon, OneMover
<1> QED BY <1>5, <1>6, <1>7, <1>8, <1>9, <1>10, <1>11 DEF BeforeCommit

\* A commit of a person enters a wait with the older job still there; one of a
\* system path enters no wait.
LEMMA CommitEnters ==
  ASSUME TimersInv, WaitInv, OneMover, NEW c \in Callers, CommitMove(c), UNCHANGED <<worker, candidate>>
  PROVE  WaitInv'
<1> DEFINE arc == call[c].arc
           last == Len(history)
           r == [call[c] EXCEPT !.pc = "committed", !.visit = last + 1]
<1>1. Commits(arc, call[c].trigger, last)
  BY CommitFacts DEF TimersInv
<1>2. /\ call \in [Callers -> Call] /\ call' = [call EXCEPT ![c] = r] /\ call[c].pc = "read"
      /\ r.pc = "committed" /\ r.visit = last + 1 /\ r.to = call[c].to /\ arc.to = call[c].to
      /\ jobs' = jobs
  BY DEF TimersInv, IInv, TypeOK, CommitMove, CallsReadOneVisit, Call
<1> HIDE DEF arc, last, r
<1>3. /\ last \in Nat /\ last = Len(history) /\ Len(history') = last + 1
      /\ \A i \in 1..last : i # last + 1 /\ history'[i].step = history[i].step
      /\ history'[last + 1].step = call[c].to
  BY <1>1, <1>2 DEF Commits
<1>4. \A i \in 1..(last + 1) : i = last + 1 \/ i \in 1..last
  BY <1>3
<1>5. call'[c] = r /\ \A d \in Callers \ {c} : call'[d] = call[d]
  BY <1>2
<1>6. c \in Systems => call[c].to \notin WaitSteps
  BY <1>2 DEF WaitInv, SystemsEnterNoWait, Resting
<1>7. SystemsEnterNoWait'
  BY <1>2, <1>5, <1>6 DEF WaitInv, SystemsEnterNoWait, Callers
<1>8. EntriesUnderWay'
  <2> SUFFICES ASSUME NEW d \in Persons, call'[d].pc \in Entering \cup {"removed"}
               PROVE  /\ call'[d].visit \in 1..(last + 1) /\ history'[call'[d].visit].step = call'[d].to
                      /\ \A i \in 1..(last + 1) : i > call'[d].visit => history'[i].step \notin WaitSteps
                      /\ call'[d].pc = "removed" =>
                           /\ call'[d].to \in WaitSteps /\ WaitExits(call'[d].to) # {}
                           /\ jobs'[call'[d].to].state \notin Live
    BY <1>3 DEF EntriesUnderWay
  <2>1. CASE d = c
    BY <1>2, <1>3, <1>4, <1>5, <2>1
  <2>2. CASE d # c
    <3>1. c \in Systems
      BY <2>2 DEF OneMover, Callers
    <3>2. call'[d] = call[d]
      BY <1>5, <2>2 DEF Callers
    <3>3. /\ call[d].visit \in 1..last /\ history[call[d].visit].step = call[d].to
          /\ \A i \in 1..last : i > call[d].visit => history[i].step \notin WaitSteps
          /\ call[d].pc = "removed" =>
                           /\ call[d].to \in WaitSteps /\ WaitExits(call[d].to) # {}
                           /\ jobs[call[d].to].state \notin Live
      BY <1>3, <3>2 DEF WaitInv, EntriesUnderWay
    <3>4. call[d].visit \in 1..(last + 1)
      BY <1>3, <3>3
    <3> QED BY <1>2, <1>3, <1>4, <1>6, <3>1, <3>2, <3>3, <3>4
  <2> QED BY <2>1, <2>2
<1>9. JobsFollowEntries'
  <2> SUFFICES ASSUME NEW s \in WaitSteps, jobs[s].state \in Live
               PROVE  /\ WaitExits(s) # {}
                      /\ jobs[s].visit \in 1..(last + 1)
                      /\ \A i \in 1..(last + 1) : i > jobs[s].visit /\ history'[i].step = s =>
                           \E d \in Persons : call'[d].visit = i /\ call'[d].pc \in Entering
    BY <1>2, <1>3 DEF WaitInv, JobsFollowEntries
  <2>1. /\ WaitExits(s) # {} /\ jobs[s].visit \in 1..last
        /\ \A i \in 1..last : i > jobs[s].visit /\ history[i].step = s =>
             \E d \in Persons : call[d].visit = i /\ call[d].pc \in Entering
    BY <1>3 DEF WaitInv, JobsFollowEntries
  <2>2. jobs[s].visit \in 1..(last + 1)
    BY <1>3, <2>1
  <2>3. ASSUME NEW i \in 1..last, i > jobs[s].visit, history'[i].step = s
        PROVE  \E d \in Persons : call'[d].visit = i /\ call'[d].pc \in Entering
    <3>1. PICK d \in Persons : call[d].visit = i /\ call[d].pc \in Entering
      BY <1>3, <2>1, <2>3
    <3>2. d # c
      BY <1>2, <3>1 DEF Entering
    <3> QED BY <1>5, <3>1, <3>2 DEF Callers
  <2>4. ASSUME history'[last + 1].step = s
        PROVE  \E d \in Persons : call'[d].visit = last + 1 /\ call'[d].pc \in Entering
    BY <1>2, <1>3, <1>5, <1>6, <2>4 DEF Entering, Callers
  <2> QED BY <1>4, <2>1, <2>2, <2>3, <2>4
<1> QED BY <1>7, <1>8, <1>9 DEF WaitInv

\* The entering call of a person runs the actions of the step.
LEMMA ActionsRun ==
  ASSUME TimersInv, WaitInv, NEW c \in Persons, RunActions(c), UNCHANGED <<worker, candidate>>
  PROVE  WaitInv'
<1> DEFINE r == [call[c] EXCEPT !.pc = "acted"]
<1>1. /\ call \in [Callers -> Call] /\ call' = [call EXCEPT ![c] = r] /\ call[c].pc = "committed"
      /\ r.pc = "acted" /\ r.visit = call[c].visit /\ r.to = call[c].to
      /\ jobs' = jobs /\ history' = history
  BY DEF TimersInv, IInv, TypeOK, RunActions, Call, Callers, ticketVars
<1> HIDE DEF r
<1>2. call'[c] = r /\ \A d \in Callers \ {c} : call'[d] = call[d]
  BY <1>1 DEF Callers
<1>3. \A d \in Systems : call'[d] = call[d]
  BY <1>2, CallerAssumption DEF Callers
<1>4. \A d \in Persons : /\ call'[d].visit = call[d].visit /\ call'[d].to = call[d].to
                         /\ call'[d].pc \in Entering <=> call[d].pc \in Entering
                         /\ call'[d].pc = "removed" <=> call[d].pc = "removed"
  BY <1>1, <1>2 DEF Callers, Entering
<1>5. SystemsEnterNoWait'
  BY <1>3 DEF WaitInv, SystemsEnterNoWait
<1>6. EntriesUnderWay'
  <2> SUFFICES ASSUME NEW d \in Persons, call'[d].pc \in Entering \cup {"removed"}
               PROVE  /\ call[d].visit \in 1..Len(history) /\ history[call[d].visit].step = call[d].to
                      /\ \A i \in 1..Len(history) : i > call[d].visit => history[i].step \notin WaitSteps
                      /\ call[d].pc = "removed" =>
                           /\ call[d].to \in WaitSteps /\ WaitExits(call[d].to) # {}
                           /\ jobs[call[d].to].state \notin Live
    BY <1>1, <1>4 DEF EntriesUnderWay
  <2>1. call[d].pc \in Entering \cup {"removed"}
    BY <1>4
  <2> QED BY <2>1 DEF WaitInv, EntriesUnderWay
<1>7. JobsFollowEntries'
  <2> SUFFICES ASSUME NEW s \in WaitSteps, jobs[s].state \in Live
               PROVE  /\ WaitExits(s) # {}
                      /\ jobs[s].visit \in 1..Len(history)
                      /\ \A i \in 1..Len(history) : i > jobs[s].visit /\ history[i].step = s =>
                           \E d \in Persons : call'[d].visit = i /\ call'[d].pc \in Entering
    BY <1>1 DEF WaitInv, JobsFollowEntries
  <2> QED BY <1>4 DEF WaitInv, JobsFollowEntries
<1> QED BY <1>5, <1>6, <1>7 DEF WaitInv

\* Removing the older job: from here on none of the step entered will run.
LEMMA TimerIsRemoved ==
  ASSUME TimersInv, WaitInv, OneMover, NEW c \in Callers, RemoveTimer(c), UNCHANGED <<worker, candidate>>
  PROVE  WaitInv'
<1>0. /\ call \in [Callers -> Call] /\ jobs \in [WaitSteps -> Job]
      /\ call[c].pc = "acted" /\ history' = history
  BY DEF TimersInv, IInv, TypeOK, RemoveTimer, ticketVars
<1> DEFINE step == call[c].to
           waits == step \in WaitSteps /\ WaitExits(step) # {}
           r == [call[c] EXCEPT !.pc = IF waits THEN "removed" ELSE "scheduled"]
<1>1. /\ call' = [call EXCEPT ![c] = r] /\ r.pc = IF waits THEN "removed" ELSE "scheduled"
      /\ r.visit = call[c].visit /\ r.to = step
      /\ ~waits => jobs' = jobs
      /\ waits => jobs' = [jobs EXCEPT ![step] = IF jobs[step].state = "active" THEN jobs[step] ELSE NoJob]
  BY <1>0 DEF RemoveTimer, Call
<1>2. c \in Systems => step \notin WaitSteps
  BY <1>0 DEF WaitInv, SystemsEnterNoWait, Resting
<1> HIDE DEF step, waits, r
<1>3. call'[c] = r /\ \A d \in Callers \ {c} : call'[d] = call[d]
  BY <1>0, <1>1
<1>4. CASE c \in Systems
  <2>1. r.pc = "scheduled" /\ jobs' = jobs /\ r.to \notin WaitSteps
    BY <1>1, <1>2, <1>4 DEF waits
  <2> QED BY <1>0, <1>1, <1>4, <2>1, CallGoesOn, CallerAssumption
<1>5. CASE c \in Persons
  <2>0. \A d \in Persons : d = c
    BY <1>5 DEF OneMover
  <2>1. /\ call[c].visit \in 1..Len(history) /\ history[call[c].visit].step = step
        /\ \A i \in 1..Len(history) : i > call[c].visit => history[i].step \notin WaitSteps
    BY <1>0, <1>5 DEF WaitInv, EntriesUnderWay, Entering, step
  <2>2. \A s \in WaitSteps \ {step} : jobs'[s] = jobs[s]
    BY <1>0, <1>1
  <2>3. waits => step \in WaitSteps /\ jobs'[step].state \notin Live
    BY <1>0, <1>1 DEF waits, Live, NoJob
  <2>3a. waits => jobs'[step] = jobs[step] \/ jobs'[step].state = "none"
    BY <1>0, <1>1 DEF waits, NoJob
  <2>4. SystemsEnterNoWait'
    BY <1>3, <1>5, CallerAssumption DEF WaitInv, SystemsEnterNoWait, Callers
  <2>5. EntriesUnderWay'
    BY <1>0, <1>1, <1>3, <2>0, <2>1, <2>3 DEF EntriesUnderWay, waits, Entering
  <2>6. JobsFollowEntries'
    <3>1. ASSUME NEW s \in WaitSteps, jobs'[s].state = "active" PROVE worker = s
      <4>1. jobs[s].state = "active"
        BY <1>1, <2>2, <2>3a, <3>1
      <4> QED BY <4>1 DEF WaitInv, JobsFollowEntries
    <3>2. ASSUME NEW s \in WaitSteps, jobs'[s].state \in Live
          PROVE  /\ WaitExits(s) # {} /\ jobs'[s].visit \in 1..Len(history)
                 /\ \A i \in 1..Len(history) : ~(i > jobs'[s].visit /\ history[i].step = s)
      <4>1. jobs'[s] = jobs[s]
        BY <1>1, <2>2, <2>3, <3>2
      <4>2. s # step
        <5>1. SUFFICES ASSUME s = step, ~waits PROVE FALSE
          BY <2>3, <3>2
        <5>2. WaitExits(s) # {}
          BY <3>2, <4>1 DEF WaitInv, JobsFollowEntries
        <5> QED BY <5>1, <5>2 DEF waits
      <4>3. ASSUME NEW i \in 1..Len(history), i > jobs[s].visit, history[i].step = s PROVE FALSE
        <5>1. PICK d \in Persons : call[d].visit = i
          BY <3>2, <4>1, <4>3 DEF WaitInv, JobsFollowEntries
        <5> QED BY <2>0, <2>1, <4>2, <4>3, <5>1
      <4>4. WaitExits(s) # {} /\ jobs[s].visit \in 1..Len(history)
        BY <3>2, <4>1 DEF WaitInv, JobsFollowEntries
      <4> QED BY <4>1, <4>3, <4>4
    <3> QED BY <1>0, <3>1, <3>2 DEF JobsFollowEntries
  <2> QED BY <2>4, <2>5, <2>6 DEF WaitInv
<1> QED BY <1>4, <1>5 DEF Callers

\* The new job is of the last visit to a wait.
LEMMA TimerIsAdded ==
  ASSUME TimersInv, WaitInv, OneMover, NEW c \in Callers, AddTimer(c), UNCHANGED <<worker, candidate>>
  PROVE  WaitInv'
<1> DEFINE step == call[c].to
           r == [call[c] EXCEPT !.pc = "scheduled"]
<1>0. /\ call \in [Callers -> Call] /\ jobs \in [WaitSteps -> Job]
      /\ call[c].pc = "removed" /\ history' = history
      /\ call' = [call EXCEPT ![c] = r] /\ r.pc = "scheduled"
  BY DEF TimersInv, IInv, TypeOK, AddTimer, ticketVars, Call
<1>1. jobs' = [jobs EXCEPT ![step] = IF jobs[step].state = "none"
                 THEN [state |-> "delayed", visit |-> call[c].visit] ELSE jobs[step]]
  BY DEF AddTimer, OneMover
<1>2. c \in Persons
  BY <1>0 DEF WaitInv, SystemsEnterNoWait, Callers
<1>3. /\ call[c].visit \in 1..Len(history)
      /\ \A i \in 1..Len(history) : i > call[c].visit => history[i].step \notin WaitSteps
      /\ step \in WaitSteps /\ WaitExits(step) # {}
  BY <1>0, <1>2 DEF WaitInv, EntriesUnderWay
<1> HIDE DEF step, r
<1>4. call'[c] = r /\ \A d \in Callers \ {c} : call'[d] = call[d]
  BY <1>0
<1>5. \A d \in Persons : d = c
  BY <1>2 DEF OneMover
<1>6. /\ \A s \in WaitSteps \ {step} : jobs'[s] = jobs[s]
      /\ jobs'[step] = jobs[step] \/ jobs'[step] = [state |-> "delayed", visit |-> call[c].visit]
  BY <1>0, <1>1, <1>3
<1>7. SystemsEnterNoWait'
  BY <1>2, <1>4, CallerAssumption DEF WaitInv, SystemsEnterNoWait, Callers
<1>8. EntriesUnderWay'
  BY <1>0, <1>4, <1>5 DEF EntriesUnderWay, Entering
<1>9. JobsFollowEntries'
  <2>1. ASSUME NEW s \in WaitSteps, jobs'[s] = jobs[s]
        PROVE  /\ jobs'[s].state = "active" => worker = s
               /\ jobs'[s].state \in Live =>
                    /\ WaitExits(s) # {}
                    /\ jobs'[s].visit \in 1..Len(history)
                    /\ \A i \in 1..Len(history) : ~(i > jobs'[s].visit /\ history[i].step = s)
    <3>1. call[c].pc \notin Entering
      BY <1>0 DEF Entering
    <3> QED BY <1>5, <2>1, <3>1 DEF WaitInv, JobsFollowEntries
  <2>2. CASE jobs'[step] = [state |-> "delayed", visit |-> call[c].visit]
    <3>1. jobs'[step].state # "active" /\ jobs'[step].visit = call[c].visit
      BY <2>2
    <3> QED BY <1>0, <1>3, <1>6, <2>1, <3>1 DEF JobsFollowEntries
  <2>3. CASE jobs'[step] = jobs[step]
    BY <1>0, <1>6, <2>1, <2>3 DEF JobsFollowEntries
  <2> QED BY <1>6, <2>2, <2>3
<1> QED BY <1>7, <1>8, <1>9 DEF WaitInv

\* The worker only takes jobs, ends them, and asks for the way out of a step.
LEMMA WorkerKeeps ==
  ASSUME TimersInv, WaitInv, OneMover, Timer \in Systems, TimerWorker
  PROVE  WaitInv'
<1>0. /\ call \in [Callers -> Call] /\ jobs \in [WaitSteps -> Job]
      /\ worker # None => worker \in WaitSteps
      /\ None \notin WaitSteps /\ Timer \in Callers /\ Timer \notin Persons
  BY GraphAssumption, CallerAssumption DEF TimersInv, IInv, TypeOK, TimersTypeOK, Callers
<1>1. /\ candidate \notin WaitSteps
      /\ \A s \in WaitSteps : jobs[s].state = "active" => worker = s
  BY DEF WaitInv, SystemsEnterNoWait, JobsFollowEntries
<1> DEFINE CallsRest == /\ \A c \in Persons : call'[c] = call[c]
                        /\ \A c \in Systems : call'[c] = call[c] \/ call'[c].pc \in Resting
<1>2. ASSUME history' = history, candidate' = candidate, CallsRest,
             \A s \in WaitSteps : jobs'[s].state = "active" => worker' = s,
             \A s \in WaitSteps : jobs'[s].state \in Live =>
               jobs[s].state \in Live /\ jobs'[s].visit = jobs[s].visit
      PROVE  WaitInv'
  BY <1>1, <1>2, WaitKept
<1>3. ASSUME NEW s \in WaitSteps, NEW state, SetJob(s, state)
      PROVE  /\ jobs'[s].state = state /\ jobs'[s].visit = jobs[s].visit
             /\ \A t \in WaitSteps \ {s} : jobs'[t] = jobs[t]
  BY <1>0, <1>3 DEF SetJob, Job
<1>4. ASSUME NEW s \in WaitSteps, DropJob(s)
      PROVE  /\ jobs'[s].state = "none"
             /\ \A t \in WaitSteps \ {s} : jobs'[t] = jobs[t]
  BY <1>0, <1>4 DEF DropJob, NoJob
<1>5. Hangs(Timer) => CallsRest
  BY <1>0 DEF Hangs, Idle, Resting, Callers
<1>6. ASSUME NEW s \in WaitSteps, TimerElapses(s) PROVE WaitInv'
  <2>1. jobs'[s].state = "waiting" /\ jobs[s].state \in Live /\ jobs'[s].visit = jobs[s].visit
    BY <1>3, <1>6 DEF TimerElapses, Live
  <2>2. \A t \in WaitSteps \ {s} : jobs'[t] = jobs[t]
    BY <1>3, <1>6 DEF TimerElapses
  <2>3. history' = history /\ candidate' = candidate /\ worker' = worker /\ CallsRest
    BY <1>6 DEF TimerElapses, ticketVars, timerVars
  <2> HIDE DEF CallsRest
  <2> QED BY <1>1, <1>2, <2>1, <2>2, <2>3
<1>7. ASSUME NEW s \in WaitSteps, TakeTimer(s) PROVE WaitInv'
  <2>1. jobs'[s].state = "active" /\ worker = None /\ worker' = s
    BY <1>3, <1>7 DEF TakeTimer
  <2>2. \A t \in WaitSteps \ {s} : jobs'[t] = jobs[t]
    BY <1>3, <1>7 DEF TakeTimer
  <2>3. history' = history /\ candidate' = candidate /\ CallsRest
    BY <1>7 DEF TakeTimer, ticketVars
  <2>4. \A t \in WaitSteps : jobs[t].state # "active"
    BY <1>0, <1>1, <2>1
  <2> HIDE DEF CallsRest
  <2> QED BY <1>2, <2>1, <2>2, <2>3, <2>4 DEF Live
<1>8. ASSUME NEW s \in WaitSteps, TimerStalls(s) PROVE WaitInv'
  BY <1>1, <1>8 DEF TimerStalls
<1>9. CASE ResolveExit
  <2>1. PICK to \in WaitTargets(Current) : Request(Timer, to, "automatic")
    BY <1>9 DEF ResolveExit
  <2>2. to \notin WaitSteps
    BY DEF WaitTargets, WaitExits, WaitExitTriggers, OneMover
  <2> DEFINE r == [Idle EXCEPT !.pc = "loaded", !.to = to, !.trigger = "automatic", !.noted = noted]
  <2>3. /\ call' = [call EXCEPT ![Timer] = r] /\ r.pc = "loaded" /\ r.to = to
        /\ UNCHANGED <<history, jobs, worker, candidate>>
    BY <1>9, <2>1 DEF Request, Idle, ResolveExit, ticketVars, timerVars
  <2> HIDE DEF r
  <2> QED BY <1>0, <2>2, <2>3, CallGoesOn
<1>10. ASSUME worker # None, worker' = None, history' = history, candidate' = candidate, CallsRest,
              SetJob(worker, "failed") \/ DropJob(worker)
       PROVE  WaitInv'
  <2>1. worker \in WaitSteps
    BY <1>0, <1>10
  <2>2. jobs'[worker].state \in {"failed", "none"} /\ \A t \in WaitSteps \ {worker} : jobs'[t] = jobs[t]
    BY <1>3, <1>4, <1>10, <2>1
  <2> HIDE DEF CallsRest
  <2>3. \A t \in WaitSteps : jobs'[t].state # "active"
    BY <1>1, <2>2
  <2>4. \A t \in WaitSteps : jobs'[t].state \in Live => jobs'[t] = jobs[t]
    BY <2>2 DEF Live
  <2> QED BY <1>2, <1>10, <2>3, <2>4
<1>11. CASE NoExit
  BY <1>10, <1>11 DEF NoExit, ticketVars
<1>12. CASE TimerMoved \/ TimerRefused \/ TimerFails
  <2>1. CallsRest
    BY <1>5, <1>12 DEF TimerMoved, TimerRefused, TimerFails
  <2> HIDE DEF CallsRest
  <2> QED BY <1>10, <1>12, <2>1 DEF TimerMoved, TimerRefused, TimerFails, ticketVars
<1>13. CASE TimerStops
  BY <1>13 DEF TimerStops, OneMover
<1> QED BY <1>6, <1>7, <1>8, <1>9, <1>11, <1>12, <1>13 DEF TimerWorker

\* The pass asks only for the automatic ways out.
LEMMA PassKeeps ==
  ASSUME TimersInv, WaitInv, OneMover, Resume \in Systems, ResumePass
  PROVE  WaitInv'
<1>0. /\ call \in [Callers -> Call]
      /\ None \notin WaitSteps /\ Resume \in Callers /\ Resume \notin Persons
  BY GraphAssumption, CallerAssumption DEF TimersInv, IInv, TypeOK, Callers
<1>1. /\ candidate \notin WaitSteps
      /\ \A s \in WaitSteps : jobs[s].state = "active" => worker = s
  BY DEF WaitInv, SystemsEnterNoWait, JobsFollowEntries
<1>2. ASSUME UNCHANGED <<history, jobs, call, worker>>, candidate' \notin WaitSteps PROVE WaitInv'
  BY <1>1, <1>2, WaitKept
<1>3. CASE FindCandidate
  <2>1. \A a \in OpenPaths : a.to \notin WaitSteps
    BY DEF OpenPaths, WaitExits, WaitExitTriggers, OneMover
  <2> QED BY <1>2, <1>3, <2>1 DEF FindCandidate, vars
<1>4. CASE ResumeSkips
  BY <1>0, <1>2, <1>4 DEF ResumeSkips, vars
<1>5. CASE ResumeRequest
  <2> DEFINE r == [Idle EXCEPT !.pc = "loaded", !.to = candidate, !.trigger = "automatic", !.noted = noted]
  <2>1. /\ call' = [call EXCEPT ![Resume] = r] /\ r.pc = "loaded" /\ r.to = candidate
        /\ UNCHANGED <<history, jobs, worker>> /\ candidate' = None
    BY <1>5 DEF ResumeRequest, Request, Idle, ticketVars
  <2> HIDE DEF r
  <2>2. call'[Resume] = r /\ \A d \in Callers \ {Resume} : call'[d] = call[d]
    BY <1>0, <2>1
  <2>3. \A d \in Persons : call'[d] = call[d]
    BY <1>0, <2>2 DEF Callers
  <2>4. \A d \in Systems : \/ call'[d] = call[d]
                           \/ call'[d].to \notin WaitSteps /\ call'[d].pc # "removed"
    BY <1>1, <2>1, <2>2 DEF Callers
  <2>5. candidate' \notin WaitSteps
    BY <1>0, <2>1
  <2> QED BY <1>1, <2>1, <2>3, <2>4, <2>5, WaitKept
<1>6. CASE ResumeEnds
  BY <1>0, <1>6, QuietCallSteps DEF ResumeEnds, timerVars
<1> QED BY <1>3, <1>4, <1>5, <1>6 DEF ResumePass

\* A person asks, and takes the answer.
LEMMA PeopleKeep ==
  ASSUME TimersInv, WaitInv, OneMover, NEW c \in Persons, People(c)
  PROVE  WaitInv'
<1>1. CASE Return(c) \/ Abandon(c)
  BY <1>1, QuietCallSteps DEF People, Callers, timerVars
<1>2. ASSUME NEW to \in Steps, Request(c, to, "manual") PROVE WaitInv'
  <2> DEFINE r == [Idle EXCEPT !.pc = "loaded", !.to = to, !.trigger = "manual", !.noted = noted]
  <2>1. /\ call' = [call EXCEPT ![c] = r] /\ r.pc = "loaded" /\ call[c].pc = "idle"
        /\ UNCHANGED <<history, jobs, worker, candidate>>
    BY <1>2 DEF Request, Idle, People, ticketVars, timerVars
  <2> HIDE DEF r
  <2> QED BY <2>1, CallGoesOn, CallerAssumption DEF Callers, Entering
<1> QED BY <1>1, <1>2 DEF People

LEMMA NextWaitInv == TimersInv /\ WaitInv /\ OneMover /\ [TimersNext]_allVars => WaitInv'
<1> SUFFICES ASSUME TimersInv, WaitInv, OneMover, [TimersNext]_allVars PROVE WaitInv'
  OBVIOUS
<1>1. ASSUME UNCHANGED <<vars, worker, candidate>> PROVE WaitInv'
  BY <1>1, WaitKept DEF vars, WaitInv, SystemsEnterNoWait, JobsFollowEntries
<1>2. ASSUME NEW c \in Callers, Pipeline(c) PROVE WaitInv'
  <2>1. UNCHANGED <<worker, candidate>>
    BY <1>2 DEF Pipeline, timerVars
  <2>2. CASE BeforeCommit(c) \/ Announce(c) \/ ForgetRefusal(c) \/ NoteRefusal(c)
    BY <2>1, <2>2, QuietCallSteps
  <2>3. CASE CommitMove(c)
    BY <2>1, <2>3, CommitEnters
  <2>4. CASE RunActions(c)
    BY <2>1, <2>4, ActionsRun, QuietCallSteps DEF Callers
  <2>5. CASE RemoveTimer(c)
    BY <2>1, <2>5, TimerIsRemoved
  <2>6. CASE AddTimer(c)
    BY <2>1, <2>6, TimerIsAdded
  <2> QED BY <1>2, <2>2, <2>3, <2>4, <2>5, <2>6 DEF Pipeline, PipelineStep, AfterCommit
<1>3. CASE TimePasses \/ UNCHANGED allVars
  BY <1>1, <1>3 DEF TimePasses, allVars, timerVars
<1> QED BY <1>2, <1>3, PeopleKeep, WorkerKeeps, PassKeeps DEF TimersNext

\* With one person moving the ticket and no failure, the job that will still
\* run for the wait the ticket is in is of this visit: for every definition in
\* which people send tickets to wait, with early exits and passes, and any
\* number of waits, no job of an earlier visit comes back.
THEOREM NoStaleTimerHolds ==
  ASSUME OneMover
  PROVE  TimersSpec => []NoStaleTimer
<1>1. TimersInv /\ WaitInv => NoStaleTimer
  <2> SUFFICES ASSUME TimersInv, WaitInv, NEW s \in WaitSteps, Current = s, jobs[s].state \in Live,
                      \A c \in Callers : call[c].visit = Len(history) => call[c].pc \notin Entering
               PROVE  jobs[s].visit = Len(history)
    BY DEF NoStaleTimer, Live, Entering
  <2>1. Len(history) \in 1..Len(history) /\ history[Len(history)].step = s
    BY DEF TimersInv, IInv, TypeOK, OneCurrentStep, Current
  <2>2. jobs[s].visit \in 1..Len(history) /\ ~(Len(history) > jobs[s].visit)
    BY <2>1 DEF WaitInv, JobsFollowEntries, Callers
  <2> QED BY <2>1, <2>2
<1>2. TimersInv /\ WaitInv /\ [TimersNext]_allVars => WaitInv'
  BY NextWaitInv
<1> QED BY TimersInvariance, InitWaitInv, <1>1, <1>2, PTL DEF TimersSpec
=============================================================================

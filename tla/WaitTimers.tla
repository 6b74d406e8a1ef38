----------------------------- MODULE WaitTimers -----------------------------
(***************************************************************************)
(* How a timed wait ends.  The pipeline (TicketTransition) schedules one   *)
(* BullMQ job per instance and wait step; a worker takes it when its delay *)
(* is over and asks the pipeline for the exit of the step the ticket is in *)
(* by then (jobs/workflowJobWorker.ts, case timer_wait).  For changes a    *)
(* periodic pass moves on the ones that lost their timer or their          *)
(* automatic arc (lib/changesStuck.ts, lib/riprendiTransizioni.ts).        *)
(*                                                                         *)
(* Time is the age of the current visit: whether the delay of its step has *)
(* passed, and then the grace after which its timer counts as lost.        *)
(***************************************************************************)
EXTENDS TicketTransition

CONSTANTS Timer,   \* the call of the worker that runs timer jobs
          Resume   \* the call of the resume pass

ASSUME SystemAssumption ==
  /\ Timer # Resume
  /\ Systems \subseteq {Timer, Resume}

VARIABLES
  age,        \* of the current visit: young, over (its delay), lost (and the grace)
  worker,     \* the wait step whose job the worker runs, or None
  candidate,  \* the move the resume pass found possible, or None
  blocked     \* the visits whose execution carries deadline_outcome "refused"

timerVars == <<age, worker, candidate, blocked>>
allVars == <<vars, timerVars>>

\* The types of the pipeline, the timer worker and the resume pass; a job is one
\* of BullMQ's states (workflowJobWorker.ts 295-378, changesStuck.ts 92-191).
TimersTypeOK ==
  /\ TypeOK
  /\ age \in {"young", "over", "lost"}
  /\ worker \in WaitSteps \cup {None}
  /\ candidate \in Steps \cup {None}
  /\ blocked \subseteq 1..MaxVisits

TimersInit ==
  /\ Init
  /\ age = "young"
  /\ worker = None
  /\ candidate = None
  /\ blocked = {}

-----------------------------------------------------------------------------
\* The pipeline, for every caller; a move starts a new visit.
Pipeline(c) ==
  \/ PipelineStep(c) /\ ~CommitMove(c) /\ UNCHANGED timerVars
  \/ CommitMove(c) /\ age' = "young" /\ UNCHANGED <<worker, candidate, blocked>>

People(c) ==
  /\ \/ \E to \in Steps : Request(c, to, "manual")
     \/ Return(c) \/ Abandon(c)
  /\ UNCHANGED timerVars

TimePasses ==
  /\ \/ age = "young" /\ age' = "over"
     \/ age = "over" /\ age' = "lost"
  /\ UNCHANGED <<vars, worker, candidate, blocked>>

-----------------------------------------------------------------------------
SetJob(s, state) == jobs' = [jobs EXCEPT ![s].state = state]
DropJob(s) == jobs' = [jobs EXCEPT ![s] = NoJob]
Hangs(c) == call' = [call EXCEPT ![c] = Idle]

\* BullMQ: the delay of a job is over, not before that of the visit it is for.
TimerElapses(s) ==
  /\ jobs[s].state = "delayed"
  /\ jobs[s].visit = Len(history) => age # "young"
  /\ SetJob(s, "waiting")
  /\ UNCHANGED <<ticketVars, noted, call, timerVars>>

TakeTimer(s) ==
  /\ jobs[s].state = "waiting" /\ worker = None
  /\ worker' = s
  /\ SetJob(s, "active")
  /\ UNCHANGED <<ticketVars, noted, call, age, candidate, blocked>>

\* The exit is that of the step the ticket is in now (B-18).
ResolveExit ==
  /\ worker # None
  /\ \E to \in WaitTargets(Current) : Request(Timer, to, "automatic")
  /\ UNCHANGED timerVars

\* No exit leaves the step the ticket is in: the job fails, its one attempt.
NoExit ==
  /\ worker # None /\ call[Timer].pc = "idle"
  /\ WaitTargets(Current) = {}
  /\ SetJob(worker, "failed") /\ worker' = None
  /\ UNCHANGED <<ticketVars, noted, call, age, candidate, blocked>>

\* The pipeline answered.  Moved: the job is completed and removed.
TimerMoved ==
  /\ worker # None /\ call[Timer].pc = "moved"
  /\ DropJob(worker) /\ worker' = None /\ Hangs(Timer)
  /\ UNCHANGED <<ticketVars, noted, age, candidate, blocked>>

\* Refused for good: it is written on the execution that is open.
TimerRefused ==
  /\ worker # None /\ call[Timer].pc = "answered" /\ Final(Timer)
  /\ blocked' = blocked \cup OpenVisits
  /\ DropJob(worker) /\ worker' = None /\ Hangs(Timer)
  /\ UNCHANGED <<ticketVars, noted, age, candidate>>

\* Not a refusal, or the pipeline threw: the job fails, its one attempt.
TimerFails ==
  /\ worker # None
  /\ \/ call[Timer].pc = "answered" /\ ~Final(Timer)
     \/ Failures /\ call[Timer].pc \notin {"moved", "answered"}
  /\ SetJob(worker, "failed") /\ worker' = None /\ Hangs(Timer)
  /\ UNCHANGED <<ticketVars, noted, age, candidate, blocked>>

\* The process of the worker stops; BullMQ finds the job stalled later, and
\* gives it to a worker again (or, the second time, fails it).
TimerStops ==
  /\ Failures /\ worker # None
  /\ worker' = None /\ Hangs(Timer)
  /\ UNCHANGED <<ticketVars, jobs, noted, age, candidate, blocked>>

TimerStalls(s) ==
  /\ jobs[s].state = "active" /\ worker # s
  /\ SetJob(s, "waiting") \/ SetJob(s, "failed")
  /\ UNCHANGED <<ticketVars, noted, call, timerVars>>

TimerWorker ==
  \/ \E s \in WaitSteps : TimerElapses(s) \/ TakeTimer(s) \/ TimerStalls(s)
  \/ ResolveExit \/ NoExit \/ TimerMoved \/ TimerRefused \/ TimerFails \/ TimerStops

-----------------------------------------------------------------------------
\* Mutant: a wait is never resumed.
OpenPathsMutantNoWait == {a \in Arcs : a.from = Current /\ a.from \notin WaitSteps /\ a.trigger = "automatic"}

\* The arcs that should already have moved a change on: out of a wait its
\* exits, once the timer is lost; elsewhere the automatic ones.
OpenPaths ==
  IF Current \in WaitSteps THEN {a \in WaitExits(Current) : age = "lost"}
                           ELSE {a \in Arcs : a.from = Current /\ a.trigger = "automatic"}

\* changeChePossonoMuoversi: a change still active, an open path whose
\* condition holds and which the release window lets through.
FindCandidate ==
  /\ Concludes /\ wi.status = "active"
  /\ candidate = None /\ call[Resume].pc = "idle"
  /\ \E a \in OpenPaths : candidate' = a.to
  /\ UNCHANGED <<vars, age, worker, blocked>>

ResumeRequest ==
  /\ candidate # None
  /\ Request(Resume, candidate, "automatic")
  /\ candidate' = None
  /\ UNCHANGED <<age, worker, blocked>>

\* The window, asked again before the request, refuses; or the pass stops.
ResumeSkips ==
  /\ candidate # None
  /\ candidate' = None
  /\ UNCHANGED <<vars, age, worker, blocked>>

ResumeEnds ==
  /\ Return(Resume) \/ Abandon(Resume)
  /\ UNCHANGED timerVars

ResumePass == FindCandidate \/ ResumeRequest \/ ResumeSkips \/ ResumeEnds

-----------------------------------------------------------------------------
TimersNext ==
  \/ \E c \in Callers : Pipeline(c)
  \/ \E c \in Persons : People(c)
  \/ TimePasses
  \/ Timer \in Systems /\ TimerWorker
  \/ Resume \in Systems /\ ResumePass

TimersSpec == TimersInit /\ [][TimersNext]_allVars

\* Time passes, the pass runs every five minutes and its calls advance.  That
\* the guards let it through, the database answers and the process lives long
\* enough happens again and again (strong fairness), not always.
PassGuards(c) == CheckGuards(c) /\ call'[c].pc = "guarded" /\ UNCHANGED timerVars
PassRead(c) == EngineRead(c) /\ call'[c].pc = "read" /\ UNCHANGED timerVars
Commit(c) == CommitMove(c) /\ Pipeline(c)

Fairness ==
  /\ WF_allVars(TimePasses)
  /\ WF_allVars(FindCandidate) /\ SF_allVars(ResumeRequest) /\ WF_allVars(ResumeEnds)
  /\ WF_allVars(Pipeline(Resume))
  /\ SF_allVars(PassGuards(Resume)) /\ SF_allVars(PassRead(Resume)) /\ SF_allVars(Commit(Resume))

TimersFairSpec == TimersSpec /\ Fairness

-----------------------------------------------------------------------------
(***************************************************************************)
(* Properties.                                                             *)
(***************************************************************************)

\* A job that will still run for the step the ticket waits in is that of this
\* visit: once the entry has removed the job of an earlier visit, that job
\* never comes back to end this wait (one person moving the ticket; a worker
\* that stops can break it, see NoWaitCutShort).
NoStaleTimer ==
  \A s \in WaitSteps :
    /\ Current = s
    /\ jobs[s].state \in {"delayed", "waiting"}
    /\ \A c \in Callers : call[c].visit = Len(history) => call[c].pc \notin {"committed", "acted"}
    => jobs[s].visit = Len(history)

\* "A wait is never cut short" (changesStuck.ts), "nothing else may take a
\* ticket out of a wait early" (waitSteps.ts): no automatic path takes a ticket
\* out of a wait before the delay of that visit is over.  The code does not keep
\* it: with two waits and a manual arc between them (MCTwoSteps, MCTwoArcs,
\* MCTwoOrder), the job of the first ends the second.
NoWaitCutShort ==
  [][\A c \in Systems :
       call[c].pc = "read" /\ call'[c].pc = "committed" /\ Current \in WaitSteps => age # "young"]_allVars

\* A change never stays in a wait for ever, whatever became of its timer
\* (below the bound on visits).
WaitEnds ==
  (Current \in WaitSteps /\ Len(history) < MaxVisits) ~> (Current \notin WaitSteps)
=============================================================================

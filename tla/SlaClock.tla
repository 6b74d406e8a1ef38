------------------------------ MODULE SlaClock ------------------------------
(***************************************************************************)
(* The SLA of one ticket (packages/sla: engine.ts, status.ts,              *)
(* scheduler.ts, sweep.ts).  A consumer of the domain events keeps the     *)
(* SLAStatus of the ticket: it starts the clock, stops it while the ticket *)
(* waits, closes it when the ticket concludes, starts it again when it is  *)
(* reopened, and moves it to another tier when the priority changes.       *)
(* A delayed job, and a sweep that makes good the ones Redis lost, record  *)
(* and tell a breach of the deadline.                                      *)
(*                                                                         *)
(* The consumer runs several events of a tenant at once, each a chain of   *)
(* reads, writes and calls to the queue; a job that fails is tried again   *)
(* later.  Time is a number.  Left out: the service calendar, which        *)
(* stretches it; the timers of the warning and of the response; the pause  *)
(* of one clock alone by an action of a step.                              *)
(*                                                                         *)
(* A job Redis lost is one that never fires: nothing makes a job fire.     *)
(***************************************************************************)
EXTENDS Integers, Sequences

CONSTANTS Handlers,   \* calls of the consumer that may run at once
          Tiers,
          Resolve,    \* [Tiers -> Nat]: the time a tier gives to resolve
          FirstTier,  \* the tier of the priority the ticket is born with
          Moves,      \* <<from, to>>: the categories of steps the workflow joins
          MaxMoves,   \* bound: moves and changes of priority
          MaxTime,    \* bound: of the clock
          MaxFaults   \* bound: calls that fail

Categories == {"new", "open", "waiting", "done"}

ASSUME SlaAssumption ==
  /\ Resolve \in [Tiers -> Nat]
  /\ FirstTier \in Tiers
  /\ Moves \subseteq (Categories \X (Categories \ {"new"}))
  /\ MaxMoves \in Nat /\ MaxTime \in Nat /\ MaxFaults \in Nat

VARIABLES
  now,
  ticket,   \* the category of its step, its priority's tier, how much it changed
  off,      \* the time the ticket has spent waiting or concluded
  queue,    \* the events the consumer has yet to take
  handler,  \* what each call of the consumer is doing
  status,   \* the SLAStatus
  jobs,     \* the delayed jobs of the ticket's breach
  firing,   \* what the worker of the jobs and the sweep are doing
  told,     \* the event of the breach was published
  faults,   \* how many calls have failed
  inOrder   \* every event so far was handled once and alone, in order

world == <<now, ticket, off>>
consumer == <<queue, handler, inOrder>>
timers == <<jobs, firing, told>>
vars == <<world, consumer, status, timers, faults>>

-----------------------------------------------------------------------------
None == -1
Instants == Nat \cup {None}
Agents == {"job", "sweep"}

Event == [kind: {"created", "entered", "priority"},
          cat: Categories, initial: BOOLEAN, tier: Tiers, at: Nat]

Status == [exists: BOOLEAN, tier: Tiers, resolve: Nat, total: Nat,
           paused: Instants, resolved: Instants,
           responded: BOOLEAN, met: BOOLEAN, breached: BOOLEAN]

\* createSLAStatus: the clock starts with the ticket, at 0.
Started(tier) ==
  [exists |-> TRUE, tier |-> tier, resolve |-> Resolve[tier], total |-> 0,
   paused |-> None, resolved |-> None, responded |-> FALSE, met |-> FALSE, breached |-> FALSE]
NoStatus == [Started(FirstTier) EXCEPT !.exists = FALSE]

Operations == {"start", "pause", "resume", "reopen", "conclude", "repolicy"}

\* read is the status as the operation read it, then as it returned it.
Handler == [pc: {"idle", "respond", "read", "write", "jobs"},
            event: Event, todo: Operations \cup {"none"}, read: Status]

Created(tier) == [kind |-> "created", cat |-> "new", initial |-> FALSE, tier |-> tier, at |-> 0]
Idle == [pc |-> "idle", event |-> Created(FirstTier), todo |-> "none", read |-> NoStatus]

\* A job whose name was taken by a running one has a name of its own (re).
Job == [re: BOOLEAN, at: Nat]

\* The sweep first has a row; re is of the job.
Firing == [pc: {"idle", "row", "relevant", "marked"}, re: BOOLEAN]
Still == [pc |-> "idle", re |-> FALSE]

\* The types of the SLAStatus, of the events, of the jobs and of their calls
\* (status.ts, types of the package).
SlaTypeOK ==
  /\ now \in Nat /\ off \in Nat /\ faults \in Nat
  /\ ticket \in [cat: Categories, tier: Tiers, moves: Nat]
  /\ queue \in Seq(Event)
  /\ handler \in [Handlers -> Handler]
  /\ status \in Status
  /\ jobs \subseteq Job
  /\ firing \in [Agents -> Firing]
  /\ told \in BOOLEAN
  /\ inOrder \in BOOLEAN

Init ==
  /\ now = 0 /\ off = 0 /\ faults = 0
  /\ ticket = [cat |-> "new", tier |-> FirstTier, moves |-> 0]
  /\ queue = <<Created(FirstTier)>>
  /\ handler = [h \in Handlers |-> Idle]
  /\ status = NoStatus
  /\ jobs = {}
  /\ firing = [a \in Agents |-> Still]
  /\ told = FALSE
  /\ inOrder = TRUE

-----------------------------------------------------------------------------
(* The ticket and the time. *)

Tick ==
  /\ now < MaxTime
  /\ now' = now + 1
  /\ off' = IF ticket.cat \in {"waiting", "done"} THEN off + 1 ELSE off
  /\ UNCHANGED <<ticket, consumer, status, timers, faults>>

\* A ticket that enters a step tells it (the second event of a conclusion,
\* incident.resolved, asks nothing more).
Move(to) ==
  /\ ticket.moves < MaxMoves
  /\ <<ticket.cat, to>> \in Moves
  /\ ticket' = [ticket EXCEPT !.cat = to, !.moves = @ + 1]
  /\ queue' = Append(queue, [kind |-> "entered", cat |-> to, initial |-> ticket.cat = "new",
                             tier |-> ticket.tier, at |-> now])
  /\ UNCHANGED <<now, off, handler, inOrder, status, timers, faults>>

SetPriority(tier) ==
  /\ ticket.moves < MaxMoves
  /\ tier # ticket.tier
  /\ ticket' = [ticket EXCEPT !.tier = tier, !.moves = @ + 1]
  /\ queue' = Append(queue, [kind |-> "priority", cat |-> ticket.cat, initial |-> FALSE,
                             tier |-> tier, at |-> now])
  /\ UNCHANGED <<now, off, handler, inOrder, status, timers, faults>>

-----------------------------------------------------------------------------
(* The consumer. *)

Paused(s) == s.paused # None
Resolved(s) == s.resolved # None
Running(s) == s.exists /\ ~Paused(s) /\ ~Resolved(s) /\ ~s.met

\* What an event asks of the status it finds.
Plan(e, s) ==
  LET enters(cats) == e.kind = "entered" /\ s.exists /\ e.cat \in cats
  IN CASE e.kind = "created" \/ (e.kind = "priority" /\ ~s.exists) -> "start"
       [] e.kind = "priority" /\ s.exists /\ ~Resolved(s) /\ s.tier # ticket.tier -> "repolicy"
       [] enters({"done"}) /\ ~Resolved(s) -> "conclude"
       [] enters({"new", "open", "waiting"}) /\ Resolved(s) -> "reopen"
       [] enters({"waiting"}) /\ ~Resolved(s) /\ ~Paused(s) -> "pause"
       [] enters({"open"}) /\ ~Resolved(s) /\ Paused(s) -> "resume"
       [] OTHER -> "none"

\* Leaving the initial step is the response.
Responds(e, s) == e.kind = "entered" /\ e.initial /\ s.exists /\ ~s.responded

Goes(h, pc) == handler' = [handler EXCEPT ![h].pc = pc]
Ends(h) == handler' = [handler EXCEPT ![h] = Idle]

\* A call takes the next event and reads the status; the tier is the one of the
\* event when the ticket is born, else that of the ticket by then.
Take(h) ==
  /\ handler[h].pc = "idle" /\ queue # <<>>
  /\ LET e == Head(queue)
         plan == Plan(e, status)
         taken == IF e.kind = "priority" THEN [e EXCEPT !.tier = ticket.tier] ELSE e
     IN handler' =
          [handler EXCEPT ![h] =
             IF Responds(e, status) THEN [Idle EXCEPT !.pc = "respond", !.event = taken, !.todo = plan]
             ELSE IF plan # "none" THEN [Idle EXCEPT !.pc = "read", !.event = taken, !.todo = plan]
             ELSE Idle]
  /\ queue' = Tail(queue)
  /\ inOrder' = (inOrder /\ \A g \in Handlers : handler[g].pc = "idle")
  /\ UNCHANGED <<world, status, timers, faults>>

Respond(h) ==
  /\ handler[h].pc = "respond"
  /\ status' = [status EXCEPT !.responded = TRUE]
  /\ IF handler[h].todo = "none" THEN Ends(h) ELSE Goes(h, "read")
  /\ UNCHANGED <<world, queue, inOrder, timers, faults>>

\* Each operation reads the status again before it writes.
Holds(op, s, tier) ==
  CASE op = "pause"    -> ~Paused(s) /\ ~Resolved(s) /\ ~s.met
    [] op = "resume"   -> Paused(s)
    [] op = "reopen"   -> Resolved(s)
    [] op = "repolicy" -> ~Resolved(s) /\ s.tier # tier
    [] OTHER           -> TRUE

Read(h) ==
  /\ handler[h].pc = "read"
  /\ IF Holds(handler[h].todo, status, handler[h].event.tier)
       THEN handler' = [handler EXCEPT ![h].pc = "write", ![h].read = status]
       ELSE Ends(h)
  /\ UNCHANGED <<world, queue, inOrder, status, timers, faults>>

\* Mutant: an event older than the last stop takes time away.
CountedMutant(from, to) == IF from = None THEN 0 ELSE to - from

\* countedMs: never negative.
Counted(from, to) == IF from = None \/ to <= from THEN 0 ELSE to - from

\* Mutant: a conclusion in time clears the breach.
ConcludedMutantClears(s, read, at) ==
  LET shift == Counted(read.paused, at)
      met   == at <= read.resolve + shift
  IN [s EXCEPT !.met = met, !.breached = ~met, !.resolved = at,
               !.resolve = read.resolve + shift, !.total = @ + shift, !.paused = None]

\* Mutant: the pause still open at the conclusion is counted.
ConcludedMutantPause(s, read, at) ==
  LET met == at <= read.resolve
  IN [s EXCEPT !.met = met, !.breached = @ \/ ~met, !.resolved = at, !.paused = None]

\* markResolveMet: a pause still open is closed first.
Concluded(s, read, at) ==
  LET shift == Counted(read.paused, at)
      met   == at <= read.resolve + shift
  IN [s EXCEPT !.met = met, !.breached = @ \/ ~met, !.resolved = at,
               !.resolve = read.resolve + shift, !.total = @ + shift, !.paused = None]

\* What an operation writes on the status s, computed from what it read.
Written(op, s, read, e) ==
  CASE op = "start" -> IF s.exists THEN s ELSE Started(e.tier)
    [] op = "pause" -> [s EXCEPT !.paused = e.at]
    [] op = "resume" ->
         LET shift == Counted(read.paused, e.at)
         IN [s EXCEPT !.resolve = read.resolve + shift, !.total = @ + shift, !.paused = None]
    [] op = "reopen" ->
         LET shift == Counted(read.resolved, e.at)
         IN [s EXCEPT !.resolve = read.resolve + shift, !.total = @ + shift,
                      !.resolved = None, !.met = FALSE]
    [] op = "conclude" -> Concluded(s, read, e.at)
    [] op = "repolicy" ->
         [s EXCEPT !.tier = e.tier, !.resolve = Resolve[e.tier] + read.total]

\* A resume returns what it read, with the new deadline; the others the status
\* they wrote.
Returned(op, read, after) ==
  IF op = "resume" THEN [read EXCEPT !.resolve = after.resolve, !.paused = None] ELSE after

Write(h) ==
  LET op    == handler[h].todo
      after == Written(op, status, handler[h].read, handler[h].event)
  IN /\ handler[h].pc = "write"
     /\ status' = after
     /\ handler' = [handler EXCEPT ![h].pc = "jobs", ![h].read = Returned(op, @, after)]
     /\ UNCHANGED <<world, queue, inOrder, timers, faults>>

\* Whether an operation arms the timer again, from the status it returned.
Arms(op, s) ==
  \/ op = "start"
  \/ op = "resume" /\ ~s.met
  \/ op = "reopen" /\ ~s.breached
  \/ op = "repolicy" /\ ~Paused(s) /\ ~s.breached

Cancels(op) == op \in {"pause", "conclude"}

\* The job with the name of the ticket is running: it cannot be removed.
Active == firing["job"].pc # "idle" /\ ~firing["job"].re

\* Mutant: what cannot replace a running job is dropped.
ScheduledMutant(deadline) ==
  IF Active THEN jobs ELSE {j \in jobs : j.re} \cup {[re |-> FALSE, at |-> deadline]}

\* scheduleJob: the job of the same name is replaced; while it runs, the new one is
\* queued beside it, and beside any other queued so before, which nothing removes.
Scheduled(deadline) ==
  IF Active THEN jobs \cup {[re |-> TRUE, at |-> deadline]}
  ELSE {j \in jobs : j.re} \cup {[re |-> FALSE, at |-> deadline]}

\* The event comes back later, behind the others.
Redelivered(h) ==
  /\ queue' = Append(queue, handler[h].event)
  /\ Ends(h)
  /\ inOrder' = FALSE

\* The timer is armed or cancelled; cancelling it throws while it runs.
Timer(h) ==
  LET op == handler[h].todo
      s  == handler[h].read
  IN /\ handler[h].pc = "jobs"
     /\ IF Cancels(op) /\ Active
          THEN Redelivered(h) /\ UNCHANGED jobs
          ELSE /\ jobs' = IF Cancels(op) THEN {j \in jobs : j.re}
                          ELSE IF Arms(op, s) THEN Scheduled(s.resolve)
                          ELSE jobs
               /\ Ends(h)
               /\ UNCHANGED <<queue, inOrder>>
     /\ UNCHANGED <<world, status, firing, told, faults>>

\* An await throws, or the process stops: the event is delivered again (the
\* last attempt of a consumer is EventQueue's matter).
HandlerFails(h) ==
  /\ faults < MaxFaults
  /\ handler[h].pc # "idle"
  /\ Redelivered(h)
  /\ faults' = faults + 1
  /\ UNCHANGED <<world, status, timers>>

HandlerStep(h) ==
  \/ Take(h) \/ Respond(h) \/ Read(h) \/ Write(h) \/ Timer(h)

-----------------------------------------------------------------------------
(* The timer, whoever fires it. *)

\* statusIfStillRelevant, read when the timer fires.
Fires(a, re) ==
  firing' = [firing EXCEPT ![a] = IF Running(status) THEN [pc |-> "relevant", re |-> re] ELSE Still]

JobFires(j) ==
  /\ j.at <= now
  /\ firing["job"].pc = "idle"
  /\ jobs' = jobs \ {j}
  /\ Fires("job", j.re)
  /\ UNCHANGED <<world, consumer, status, told, faults>>

\* The sweep waits a grace past the deadline.
Late(deadline) == deadline < now

\* Mutant: the sweep looks only at tickets taken in charge.
SweptMutant == Running(status) /\ ~status.breached /\ Late(status.resolve) /\ status.responded

\* The query of the sweep.
Swept == Running(status) /\ ~status.breached /\ Late(status.resolve)

SweepReads ==
  /\ firing["sweep"].pc = "idle"
  /\ Swept
  /\ firing' = [firing EXCEPT !["sweep"].pc = "row"]
  /\ UNCHANGED <<world, consumer, status, jobs, told, faults>>

SweepFires ==
  /\ firing["sweep"].pc = "row"
  /\ Fires("sweep", FALSE)
  /\ UNCHANGED <<world, consumer, status, jobs, told, faults>>

\* "State first, event second".
MarkBreached(a) ==
  /\ firing[a].pc = "relevant"
  /\ status' = [status EXCEPT !.breached = TRUE]
  /\ firing' = [firing EXCEPT ![a].pc = "marked"]
  /\ UNCHANGED <<world, consumer, jobs, told, faults>>

TellBreach(a) ==
  /\ firing[a].pc = "marked"
  /\ told' = TRUE
  /\ firing' = [firing EXCEPT ![a] = Still]
  /\ UNCHANGED <<world, consumer, status, jobs, faults>>

\* An await throws.  A job has one attempt; the sweep comes again a minute later.
FiringFails(a) ==
  /\ faults < MaxFaults
  /\ firing[a].pc # "idle"
  /\ firing' = [firing EXCEPT ![a] = Still]
  /\ faults' = faults + 1
  /\ UNCHANGED <<world, consumer, status, jobs, told>>

FiringStep(a) == MarkBreached(a) \/ TellBreach(a)

Next ==
  \/ Tick
  \/ \E to \in Categories : Move(to)
  \/ \E tier \in Tiers : SetPriority(tier)
  \/ \E h \in Handlers : HandlerStep(h) \/ HandlerFails(h)
  \/ \E j \in jobs : JobFires(j)
  \/ SweepReads \/ SweepFires
  \/ \E a \in Agents : FiringStep(a) \/ FiringFails(a)

Spec == Init /\ [][Next]_vars

\* The sweep runs every minute, the consumer and the timers' calls go on.  The
\* jobs are not relied upon.
Fairness ==
  /\ WF_vars(SweepReads) /\ WF_vars(SweepFires)
  /\ \A h \in Handlers : WF_vars(HandlerStep(h))
  /\ \A a \in Agents : WF_vars(FiringStep(a))

FairSpec == Spec /\ Fairness

-----------------------------------------------------------------------------
(***************************************************************************)
(* Properties.                                                             *)
(***************************************************************************)

Quiet == queue = <<>> /\ \A h \in Handlers : handler[h].pc = "idle"

\* The time the clock must count.
Worked == now - off

\* How long the clock has stood still since its last stop.
Stopped == IF Resolved(status) THEN now - status.resolved
           ELSE IF Paused(status) THEN now - status.paused ELSE 0

\* Once the events of a ticket were handled in order, whatever the timers did
\* meanwhile, the clock stands still when the ticket waits or is concluded and
\* only then, the deadline leaves the ticket exactly the time of its tier to be
\* worked on, and the conclusion is judged by that time.
ClockIsRight ==
  inOrder /\ Quiet =>
    /\ status.exists
    /\ Paused(status) <=> ticket.cat = "waiting"
    /\ Resolved(status) <=> ticket.cat = "done"
    /\ status.responded <=> ticket.cat # "new"
    /\ status.resolve + Stopped = Resolve[status.tier] + off
    /\ Resolved(status) => (status.met <=> Worked <= Resolve[status.tier])

\* "Timers are cancelled on met/resolve/pause" (scheduler.ts 45), and "the new one
\* is queued" when the one to replace is running (scheduler.ts 216-235): once the
\* events were handled in order, and until the breach is recorded, the job of the
\* ticket's name waits only on a running clock, at its deadline, and a clock that
\* runs towards its deadline has a job that waits for it, of that name or queued
\* beside a running one.
TimersFollowClock ==
  inOrder /\ Quiet /\ ~status.breached =>
    /\ \A j \in jobs : ~j.re => Running(status) /\ j.at = status.resolve
    /\ Running(status) /\ now < status.resolve => \E j \in jobs : j.at = status.resolve

\* Cancelled, a timer does not tell of a breach before its time.  The code does not
\* keep it: a job queued beside a running one (re) is not among those cancelSLAJobs
\* removes, and fireSLATimer does not compare its deadline with the status, so after
\* a pause and a resume it tells early.
NoTimerTellsEarly ==
  inOrder /\ Quiet /\ Running(status) /\ ~status.breached =>
    \A j \in jobs : j.at >= status.resolve

\* "breached is never cleared" (markResolveMet): whatever order the events, the
\* jobs and the sweep come in, a breach that was told stands in the record.
BreachStands == told => status.breached

\* "It only recovers what the jobs lost" (sweep.ts): a running SLA past its
\* deadline is in the end recorded as breached, or its clock stops or moves,
\* without any job.
OverdueIsBreached ==
  (Running(status) /\ Late(status.resolve)) ~>
    (status.breached \/ ~Running(status) \/ ~Late(status.resolve))

\* "A met target never produces a breach" (statusIfStillRelevant).  The code does
\* not keep it: a timer that has read the clock as running tells of the breach of
\* a target met in between.
MetIsNeverBreached == status.met => ~told

\* "If the publish fails and the job is retried" (fireSLATimer): a breach a
\* timer recorded is in the end told.  The code does not keep it: the jobs have
\* one attempt, and what marks the breach makes it irrelevant to the next timer.
BreachIsTold == (\E a \in Agents : firing[a].pc = "marked") ~> told
=============================================================================

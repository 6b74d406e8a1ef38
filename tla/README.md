# OpenGraphity in TLA+

OpenGraphity is an ITSM product: incidents, problems, requests, changes and
knowledge articles ("tickets") live in Neo4j, each moves along a workflow that a
tenant draws, and what happens to it leaves as domain events over BullMQ queues
in Redis. This directory models the part of it where several processes write the
same state: the engine that moves a ticket; the timers, approvals and deadlines that
move it by themselves; the clock of its SLA and the time of its teams; the alarms that
open incidents; and the outbox its events leave through.

Paths are those of the repository. Comments in the modules quote the sentence of
the code or its documentation that a property is about.

## The system and what is modelled

| Component | State it keeps | Who calls it, what is hard | Modelled in |
|---|---|---|---|
| Workflow engine, `packages/workflow` | the `WorkflowInstance` with its `CURRENT_STEP`, the executions of its steps, status and dates of the ticket | the pipeline below; one write transaction, decided on reads made before it | `WorkflowGraph`, `TicketTransition` |
| Transition pipeline, `services/ticketTransition.ts` | `refusal_noted` of the instance | people, timers, deadlines, rules, approvals, passes - all at once | `TicketTransition` |
| Timed waits, `jobs/workflowJobWorker.ts` | one BullMQ job per instance and wait step | jobs outlive the visit they were made for, are lost, fail, stall | `WaitTimers` |
| Resume pass of changes, `lib/changesStuck.ts`, `lib/riprendiTransizioni.ts` | none | must finish a lost wait and never cut one short | `WaitTimers` |
| Approval requests, `resolvers/approval.ts` | the `ApprovalRequest` | deciders, cancellation and withdrawal over one record, read and written apart | `ApprovalRequest` |
| Step approvals, `lib/ticketApprovalGate.ts`, `lib/stepApprovalRequest.ts` | the requests of a ticket | requests created and withdrawn after the move that needs them | `StepApproval` |
| Publisher and outbox, `packages/events`, `lib/outbox.ts` | the `OutboxEvent` nodes | five queues, webhooks and a mark, none atomic with another | `EventOutbox`, `EventDelivery` |
| Consumers, `packages/events/src/consumer.ts` | the jobs, the markers in Redis | at-least-once delivery, retries, stalls | `EventQueue` |
| Step deadlines, `lib/stepDeadlines.ts` | `deadline_*` of the open execution | overlapping passes, claims that grow stale, fields written before the move | `StepDeadlines` |
| SLA clock, `packages/sla` | the `SLAStatus`, its BullMQ jobs | events handled beside jobs and sweep, each a chain of awaits; arithmetic of calendars and zones | `SlaClock`, `ServiceHours`, `SlaCalendar` (partly) |
| OLA, `lib/olaAttainment.ts`, `lib/ticketTeamHistory.ts` | the segments of a ticket's teams | tickets that come and go, contracts and windows that begin in the middle | `OlaMeasure` (partly) |
| Event management, `services/events`, `lib/redisLock.ts` | alarms, their incidents, the lock of a group | find-or-open under a lock that expires, payloads in any order | `EventGrouping` (partly) |
| Change approvals, release window | `ChangeApproval`s, windows | asked before the move; recreated by calls nothing serialises | a guard that may answer either way |
| Notification delivery, per-tenant queues | markers per channel; queues | once per channel across retries | no |
| Service impact, automation and rules, escalation | impact of services; rules | cycles, storms of events | no |
| Discovery, metamodel and schema generator, scripting, API, user interfaces, reports | - | data transformation, generated code, I/O | no |

`PROJECT.json` has the full list with the sources, and under `hazards` every place
where this code can go wrong in a way a test would hardly reach, with the
property that watches it or the reason there is none.

Components interact in four ways. The pipeline is *called*, by people's
requests, timer jobs, passes and approval decisions. It *calls back* after its
commit: the actions of the step (which create approval requests), the timer, and
the step-entered hook (which withdraws requests and publishes the event). And
the move and the event *share a transaction*, which is what makes the event exist
if and only if the move does. And what follows a move *consumes* that event: the
SLA clock is a consumer, fed by the moves of the ticket.

## Modules

**`WorkflowGraph`** - one workflow definition as constants: steps, arcs, flags.
Two selections are defined, as the engine's queries make them: the arc that
stands for a move (requested trigger, then an arc with a condition, then the id)
and the exit of a wait (lowest step order). Editing a workflow in the designer
while tickets move is not modelled.

**`TicketTransition`** - one ticket, any number of calls moving it. A call is a
chain of awaits; each is an action and the value of `call[c].pc` is where it is:

    Request -> CheckGuards -> EngineRead -> CommitMove -> RunActions -> RemoveTimer
       -> AddTimer -> Announce -> ForgetRefusal -> Return
    a refusal (guard, engine, lost race, failure): NoteRefusal -> Return

`CommitMove` is the engine's whole write transaction; Neo4j takes the lock of the
instance when it sets `updated_at`, so transactions on one instance are serial.
The guards and the arc's condition read data that is outside the model, so each
may answer either way. `Abandon` is a throw or the process stopping at any await.

**`WaitTimers`** - extends it with the BullMQ job of each wait step, the worker
that runs it and the resume pass of changes. Time is the age of the current
visit: `young`, `over` (its delay), `lost` (its delay and the 15 minutes of grace). Each
wait step has a positive delay.

**`ApprovalRequest`** - one request from creation to its end, of each type, for a
ticket or a knowledge article; each decider's load and write are separate steps.

**`StepApproval`** - the pipeline with the approvals of its steps: the enter action
creates a request, the guard holds, the hook withdraws, the decision moves. It
conjoins the pipeline's actions with what they do to the requests, and
implements `TicketTransition!Spec`, which is checked and proved.

**`EventQueue`**, **`EventOutbox`** - the consumers' queues with their handler; the
publisher, the outbox node, the repeater, the purge. Every await may fail and every
process may stop. **`EventDelivery`** is what the outbox promises, without
senders, passes or failures: owed once, given to all, then settled.
A handler looks at the marker, works, writes the marker and returns, each a step; a
failure is counted (`Exhausted`) as `handleFailure` counts it, and a job BullMQ fails for
its stalls (`stalled`) is kept apart from one that used up its attempts (`failed`).
`EventOutbox` implements it with `owed` the pending nodes, `settled` the sent
(and purged) ones and `given` the jobs that exist or existed.

**`StepDeadlines`** - extends `WorkflowGraph`: passes over one ticket whose step has a
deadline. The moves of the other paths are one action (`OtherMove`); a pass is a chain:

    FindDue -> Claim -> Reread -> FindArc -> CheckGuards -> WriteFields -> Move
       -> RecordOutcome            (a deadline no longer there: -> ReleaseClaim)

`Throws` is an exception at any await (the code records it as a failure, even when the
move was made), `Stops` a process that ends and leaves its claim. The claim carries
the time at which its *pass* began, so it may be stale as soon as it is written:
`SlowPasses` says whether passes may take longer than the ten minutes of a claim.
`WriteTimerRefusal` is the other writer of the same fields, the worker of timed waits.

**`SlaClock`** - one ticket and its `SLAStatus`. People move the ticket between
categories of steps and change its priority, each change queueing the event that a
handler turns into reads and writes of the status and calls to the queue, one await a
step; the breach job and the sweep read, mark and tell beside it. Time is the minutes
of service. **`ServiceHours`** is the arithmetic those minutes stand for: the deadline
some minutes ahead of an instant, and the minutes between two, over days, bands,
holidays and a zone whose offset changes. **`OlaMeasure`** is the time of a team, from
the assignments that write its segments to the measure of a contract.
**`SlaCalendar`** composes them: at each state of the clock, what the clock takes for
granted is asked of every calendar and every history of teams.

**`EventGrouping`** - the alarms of one CI. A payload is a job that writes its alarm in
one statement, then waits for the lock of the group and, in its section, finds, opens,
joins or reopens the incident, or resolves those whose alarms are over; `TakeUp` is the
periodic pass, `OpenByHand` and `MoveByHand` are people. A call that fails is tried
again or given up, one that stops keeps its lock until it expires and its job is
delivered again, holding up no other meanwhile; with `Slow` a section may outlive its
lock. An incident is committed, linked to its alarm and written as the alarm's outcome
in three steps (`Create`, `Link`, `Opened`), as in `openIncidentFromEvent`.

`MC*.tla` only give names to the values of the constants. Operators called
`...Mutant...` are wrong versions of the definition below them; each property of a
passing run is violated when one of them takes the place of the right one.

## Runs

Passing:

| Run | Instance | Shows |
|---|---|---|
| `MCTicketTransition` | a person and a system path, 4 steps with a wait, 3 visits, all failures (322 360 states) | the step of a ticket agrees everywhere it is written, the history is a walk, events are exactly the moves, dates follow the steps, a commit is decided on one visit |
| `MCWaitTimers` | a person who may leave the wait early, the worker, 6 visits | the job left for a visit is its own |
| `MCWaitTimersLiveness` | person, worker, resume pass, failures, 3 visits | every wait of a change ends |
| `MCApprovalRequest` | 3 approvers, one of them the asker, all types (313 900 states) | approved means quorum |
| `MCStepApproval` | the factory workflow of requests, a person and the decision's path, 4 visits | the gate holds, requests left behind are withdrawn and no other, the pipeline is implemented |
| `MCEventOutbox` | 2 events, 2 consumers, all failures and crashes, 2 attempts and no stalls (1 675 787 states) | nothing is lost, a loss is thrown, an event sent again or tried again is handled once, `EventDelivery` is implemented |
| `MCEventOutboxLiveness` | 2 events recorded by `publish`, one that always fails, batch 2; jobs that fail, are tried twice and stall, markers that fail (135 260 states) | no job completes with its work undone, the last failure of a job is counted and no other, markers are earned, the other event is sent, what is written down reaches its consumer |
| `MCStepDeadlines` | 2 passes, one that fails and stops, 4 visits to a step with a deadline and a wait (377 509 states) | one pass at work on a visit, one move a deadline, what is recorded as moved was, no failure keeps a deadline for ever |
| `MCSlaClock` | 2 tiers, 3 moves or changes of priority, 1 failure, 1 handler; 18 calendars, 37 zones, every history of 3 assignments (1 074 595 states) | the clock counts the time worked, a job waits at the deadline of a running clock, beside the running job if need be, and the ticket's own job nowhere else, a told breach stands, an overdue ticket is recorded without any job, deadlines, pauses and the time of a team are right on each calendar |
| `MCEventGrouping` | 2 alarms, 2 payloads, the pass, a person, 1 fault of any kind (432 364 states) | the lock excludes, a group has one incident, no firing alarm is left without an outcome |

Violated, each a disagreement between the code and what it says of itself (see
`findings` in `PROJECT.json` for the quotes):

| Run | Shows |
|---|---|
| `MCApprovalRequestFinal` | two deciders load a pending request of a ticket and the second replaces the first's decision: the status is not tested again by the write |
| `MCStepApprovalGate` | a call that asked the guards before the request existed leaves the approval step while it is pending |

`GateHolds` therefore holds for one person at a time (`MCStepApproval`, where the
hook, the decision and cancellation still interleave) and not for two
(`MCStepApprovalGate`).

**Known not to hold.** Properties the modules define and no run checks, because the
code does not keep them. To see one, name it in a copy of the run's cfg changed as said.

| Property | Instance | What happens |
|---|---|---|
| `WaitTimers!NoWaitCutShort` | `MCWaitTimers` with `MCTwoSteps`, `MCTwoArcs`, `MCTwoOrder`, `WaitSteps = {wait, hold}` | the job of a wait left by hand ends the next wait before its delay: it is not removed on leaving, and the worker takes the exit of whatever step it finds |
| `ApprovalRequest!PublishedIsApproved` | `MCApprovalRequest` with two approvers, no asker, `Others = FALSE` | the second approver's move comes too late, and giving the decision back makes the published article's request pending |
| `StepApproval!LiveRequestStands` | `MCStepApproval` with `MCArcs` | the ticket comes back to the approval step while the hook of the call that left it is still to run: the withdrawal goes by the name of the step and takes the new request |
| `StepDeadlines!RefusalIsRetried` | `MCStepDeadlines` with `MCWaitArcs`, `WaitSteps = {review}` | the refusal of a timer is written on the step's deadline without the date of a next attempt |
| `StepDeadlines!MovesOnce`, `OnePassAtWork` | `MCStepDeadlines` with `SlowPasses = TRUE` | a pass over ten minutes long takes claims that are stale at once, and the next pass takes them again |
| `EventQueue!HandledOnce` | `MCEventOutbox` with `MaxStalls = 1` | the job stalls after its work and before its marker, and the call that takes it next does the work again; `consumer.ts` 119-122 says that "a stalled/redelivered job whose first attempt already succeeded must not fire the side effects again" |
| `EventQueue!LossIsCounted` | `MCEventOutboxLiveness` | a job BullMQ fails for its stalls has attempts left, and `handleFailure` counts only a job that has none |
| `SlaClock!NoTimerTellsEarly` | `MCSlaClock` | a job queued beside a running one (`:re`) is not among those `cancelSLAJobs` removes and `fireSLATimer` does not compare deadlines: after a pause and a resume, or another priority, it tells early |
| `SlaClock!MetIsNeverBreached` | `MCSlaClock` | the timer has read the clock as running, the ticket is concluded in time, the breach is told |
| `SlaClock!BreachIsTold` | `MCSlaClock` | the breach is marked, telling it fails, and what is marked is no longer looked for |
| `EventGrouping!NoneIsLeftAlone` | `MCEventGrouping` | a call fails or stops between `createIncident` and `attachEventToIncident`: the incident has no alarm, no search of the group finds it, and the next call opens another, though `grouping.ts` 167-169 and 293 say never two. `OneIncidentPerGroup` is of the incidents linked to an alarm |
| `EventGrouping!FiringKeepsItOpen` | `MCEventGrouping` with three payloads | an alarm fires, and may join, between the resolver's look and its write |
| `EventGrouping!LastPayloadStands` | `MCEventGrouping` with `Attempts = 2` | a resolution tried again after a newer firing payload is applied over it |

`DeadlineIsKept` makes an exception of `RefusalIsRetried`: a deadline a timer's refusal left
without its date is not promised to be kept.

**Bounds.** `MaxVisits` bounds the history of a ticket and only guards its moves;
three visits are a move, a move back and a race over either; six let a wait be
entered three times. Two calls are enough for every race of the pipeline, which is
pairwise (one transaction wins), and the proofs hold for any number. Two events and
two consumers show partial sends and order; `handled` stops counting at 2.
`Attempts` is 4 in the code and 2 in the runs of the outbox, so that a job is both tried again
and exhausted (it is 1 in `MCEventGrouping`, where the attempts of a job are not the subject).
`MaxStalls` is BullMQ's 1 in `MCEventOutboxLiveness`, so that a job stalls once and goes
on, or twice and is failed; it is 0 in `MCEventOutbox`, because of what "Known not to
hold" says of `HandledOnce`. In `StepDeadlines` four visits are a
deadline moved, the step entered again and its deadline moved again. In
`SlaClock` three moves are a pause with its end, or a conclusion with its reopening, and
a change of tier; the clock runs to 2, past the deadline of the higher tier (1);
`MaxFaults` stops one chain at any await. Its calendars have days of five minutes and
weeks of three days, with bands that touch the ends of the day, a holiday, and offsets
that change by one minute within the instants asked about: every boundary of the code
is met. Entries of a history are in the order of their instants: the clocks of the processes
that date them (`TEAM_NOW_PARAM`) are taken as one. A ticket no team was ever given has
no segment and is left out. In `EventGrouping` two payloads are two alarms that race, or one that fires and is
resolved; `MaxIncidents` guards opening, and `AlarmIsTakenUp` is stated below it.

**Deadlock** is checked in `MCTicketTransition`, `MCStepApproval`, `MCStepDeadlines` and
`MCWaitTimersLiveness`. It is not where the system may really stop: in the
`MCWaitTimers` run without failures the bound on visits leaves a call of the worker
waiting for a commit it cannot make; in `MCApprovalRequest` a decided
request is over; in `MCEventOutbox` everything is sent and purged; in `MCSlaClock` a
conclusion is the end of the clock; in `MCEventGrouping` all the payloads are handled.
The violated runs say FALSE so that the property is what is found; in
`MCStepApprovalGate` the same bound could stop two calls.

**Fairness.** `WaitEnds`: time passes, and the resume pass, a job scheduled every five
minutes, and the steps of its call are weakly fair. Its guards, the read and the
commit are strongly fair in their successful form: guards that say no for ever are
somebody's decision, and the property is about lost timers, not about those. Nothing
is assumed of people or of the timer's worker. `EachOnItsOwn`, `EveryConsumerReached`:
an event ages, the repeater's job (every thirty seconds) and its steps are weakly
fair, and the successful form of each step for each event is strongly fair, since
Redis and Neo4j, asked again and again, answer again and again; workers take the jobs of
the events their consumer treats. `EachOnItsOwn` is of fewer stuck events than a batch holds;
`EveryConsumerReached` ends with the work done or with the job failed, by its attempts
(counted) or by its stalls (not).
Nothing is assumed of the publish calls. This run has no crashes: a process that
stops in every pass starves any repeater. `DeadlineIsKept`: the hour of a refusal
and the ten minutes of a claim pass; a pass that began goes on or stops; and since a
pass begins every minute, one in which nothing fails begins again and again, claims, and
is let through by the guards again and again (strong fairness for the passes outside
`Failing` only). `OverdueIsBreached`: the sweep runs every minute and the
handlers of the consumer and the steps of a timer go on; no job is assumed to fire, which
is what the property is about; failures are bounded by `MaxFaults`. `AlarmIsTakenUp`:
workers and calls go on, the periodic pass comes, and the lock of a call that is gone
expires, as Redis does it; nothing is assumed of people or of new payloads. All the
properties of tickets are stated below their bound (`Len(history) < MaxVisits`).

## Proofs

Checked by TLAPS for every value of the constants that meets the named assumptions
of the modules (`GraphAssumption`, `CallerAssumption`, `ApprovalAssumption`,
`ApproversAssumption`, `QueueAssumption`, `OutboxAssumption`, `DeadlineAssumption`,
`SlaAssumption`, `HoursAssumption`, `OlaAssumption`, `OpeningAssumption`,
`GroupingAssumption`).

- `TicketTransitionProofs` - `OneEngineArc`, `OneWaitTarget`: the two selections of
  `WorkflowGraph` name at most one arc and one target, so `LIMIT 1` is never a choice of
  the query planner. Then `TypesHold`, `StepWrittenOnce`, `HistoryWalks`,
  `OneEventPerMove`, `PastIsKept`, `DecidedOnOneVisit`, `ConclusionIsDated`,
  `ResolutionIsDated`. One inductive invariant, `IInv`, is proved by `Invariance`:
  `OneCurrentStep` alone is not inductive, since a commit writes what a call read
  several steps earlier; the strengthening, `CallsReadOneVisit`, says of each call in
  `read` that its arc is one of the definition, allowed to its trigger. Then a commit
  whose `StepUnchanged` holds extends the walk by an arc from the last step. The two
  theorems on dates state what they need of the definition: no step both resolves and
  closes (the first rule of the dates would win and the completion never be written);
  no ticket starts resolved, and a publishing step also resolves or closes (the rule
  that publishes comes before the one that clears the resolution).
- `WaitTimersProofs` - `TimersTypesHold`, `TimersKeepTheStep` in general;
  `NoStaleTimerHolds` under `OneMover`: at most one person, no failure, no automatic arc
  into a wait. The strengthening, `WaitInv`, orders the entries: a call that has yet to
  add its job is of the last visit to any wait, once it removed the older job none in
  its step will run, and a job that will run is of the last visit to its step unless the
  call that made a later one has yet to remove it. Two movers may each remove before
  either adds, and a call or a worker that stops leaves the older job: each clause of
  `OneMover` is needed.
- `ApprovalRequestProofs` - `TypesHold`, `ApprovedMeansQuorum`. The strengthening
  speaks of the deciders: what a call loaded (`before`) has no asker in it and the
  caller of an approval is none, so whatever it writes over, it writes a quorum
  or a pending request.
- `StepApprovalProofs` - `ImplementsPipeline`: initial states map to initial
  states, and each step of the approvals is a step of the pipeline or leaves it
  unchanged; hence `ApprovalsKeepTheStep`. `ApprovalTypesHold` in general.
  `LiveRequestsStand` for any callers and failures under `NoWayBack`: some set of steps
  holds all that an approval step leads to and no approval step, as in the factory
  definitions. Its invariant says that an approval step is entered once (`Once`), and
  that a call past its commit and a request know the visit they are of; the withdrawal goes
  by the name of the step, and the step left is then not the one the ticket is in. With
  a way back it does not hold (see "Known not to hold"). `NoOrphanRequests` and
  `TheGateHolds` add `LoneMover`: one person and the decisions, no failure. Nothing then
  comes between an entry and its request (`EntryIsLast`): there is no decision to follow
  before a request exists (`DecisionWaits`), so the guard read by a call (`GateLetsGo`) is
  not overtaken by the creation of the request. With two persons it is: `MCStepApprovalGate`.
- `EventOutboxProofs` - `NothingIsLost`, `LossIsAlwaysLoud`, `KeepsPromise`. The
  invariant ties the program counters to what has been given: a publish call, or a pass,
  past its sends has given its event to every queue, and past the extras has hooked
  it. `given` only grows, so a sent event stays delivered. `OutboxTypesHold` in general.
  Then `NoEventUnaccounted` and `MarkersAreEarned`, of the consumers behind it: `QueueInv`
  ties what a handler is doing to the work done and to the state of its job, for any attempts
  and stalls, and `QueueTyped` says that an active job has an attempt left, a failed one
  none, and that those counted are those failed.
  `EventsHandledOnce` under `NoRedelivery`, no stall and a marker that Redis writes: an event
  handled has its marker, or the handler at work is about to write it and its job is the
  only one of the event, so what is sent again finds one of the two.
- `StepDeadlinesProofs` - `TypesHold`; `MovedHappened`, from a move being made with the
  visit it came from and the history only growing; `OneAtWork` and `DeadlineMovesOnce`
  under `Prompt`: no slow pass, and no deadline step that is also a timed wait. The invariant
  `WorkInv` says that whoever is at work on a visit holds its claim, fresh; a visit whose
  deadline moved the ticket is over, and a pass still at work on it has only its
  outcome to record. The two hypotheses are needed: see "Known not to hold".
- `SlaClockProofs` - `TypesHold`, `ToldStands`: a step never takes back `breached`, and
  what a timer is about to tell it has marked, for any number of handlers and any order
  of events, which the run, with one handler, does not have. `ClockHolds` and
  `TimersHold` under `ReopenedFirst`, no move from `done` to `waiting` (such a move reopens
  the clock and does not pause it), of events handled in order: the invariant says that what
  the handler at work is about to leave (`ResultOf`) is the clock of the events taken, which
  is the clock itself when nobody is at work (`ClockInv`), that the job of the ticket's name is
  for the deadline the clock shows unless a handler is about to replace it, and that a
  clock running towards its deadline has a job at it unless a handler is about to arm one
  (`ArmedInv`); a job that fires meanwhile is one whose time has come.
  Then the arithmetic, for any calendar, zone, instants, contracts and histories of teams:
  `DeadlinesHold`, `PausesHold`, `TeamTimeHolds`, `TargetsHold`. They rest on four results
  about the functions of the code, none of which is an invariant of the steps:
  - `DeadlinesAreRight` and `CountsAreRight`: `calculateDeadline` and
    `businessMinutesBetween` agree with the minutes of service counted one by one, in a
    zone whose offset changes outside the working bands (`Settled`, what `Worlds` holds: a
    change inside a band shows some of its minutes twice or never).
    `BandIsShownOnce` makes of this that every minute of a band is shown at one instant,
    `LocalTimeComesBack` that the two passes of `zonedTimeToUtc` find it, `NightIsClosed`
    that nothing of service lies from the end of a band to `NextStart`. `NextWorkingDay`
    says what the search of the next day finds, and that it ends: holidays are finitely many.
  - `SegmentsTell`: after every entry of a history, whoever has the ticket at an instant has
    one segment that holds it, segments do not overlap, and only the last team's is open
    (`Tells`, inductive over the entries; `NextSegment` is its step).
  - `TeamTimeIsCounted`: what `olaTeamMeasure` adds up is the number of minutes of the team,
    since its segments tell and no minute is in two of them; `TargetIsUsedUp`: at the
    deadline shown, the measure is the target.

  What a recursive function of the code computes is proved by hand at each of its uses: a
  function that satisfies the recursion exists (a witness), and the one `CHOOSE`n has the
  values meant, since the least argument at which it had not would follow from smaller
  ones (`Smallest`).
- `EventGroupingProofs` - `TypesHold`; `OneSectionAtATime`: a call in the section has the
  lock, and only its holder's token removes it; `OneIncident`: who is about to open by
  itself is alone in the section and has found no incident, and nobody outside makes
  one the group's.

Proved and in no run: the types of `TicketTransition` and its `HistoryOnlyGrows`, of
`ApprovalRequest`, `SlaClock` and `EventGrouping`. Every safety property of the passing
runs is a theorem, some under the named condition told above. Liveness (`WaitEnds`,
`EachOnItsOwn`, `EveryConsumerReached`, `DeadlineIsKept`, `OverdueIsBreached`,
`AlarmIsTakenUp`) is only model-checked: fairness and ENABLED are out of the prover's reach. `MCStepApproval`,
`MCWaitTimers` and the run of the outbox check on small instances what the conditional
theorems prove of all.

## What the models leave out

- Neo4j, Redis and BullMQ are external. A write transaction is atomic and may fail;
  a job id is held once by its queue until the job is removed; a job a worker is
  running cannot be removed. A failed job is not one of those evicted beyond the hundred a
  queue keeps, and the marker's 24 hours are longer than any behaviour.
- The five adds of an event are one step that any subset of them survives.
  Looking at the marker is one step with taking the job, and does not fail. An event is purged only when no
  call of it is left (the code waits a week).
- One ticket and, in `ApprovalRequest`, one request: every query is scoped by its id.
- `HandledOnce` is about events sent again and jobs tried again. A job that stalls between its
  work and its marker, whether its handler goes on or dies, is handled twice.
- An event not recorded with its change is lost if the process stops before
  `publish` records it.
- Which actions a step runs, what guards look at, and what consumers do.
- `SlaClock`: the timers of the warning and of the response, the pause of one clock alone,
  the choice of the policy, seconds (which `toLocal` drops). `ClockIsRight` and
  `TimersFollowClock` are of events handled one at a time in order: the consumer runs
  several at once, and a ticket's events may overtake each other. The workflow of
  its run has no way back from `done` to `waiting`: such a reopening starts
  the clock without pausing it. A priority changed while the ticket is concluded is not
  taken into account when it is reopened, and the model says so.
- A job queued beside a running one (`:re`) is not among those `cancelSLAJobs` removes:
  `TimersFollowClock` counts it as a timer that waits for its deadline, and does not
  say that it waits nowhere else. Nor does it speak of a clock whose breach is recorded,
  which `reopen` and `repolicy` do not arm again.
- `OlaMeasure` is the measure, not the pass that tells of a breach: a ticket concluded
  between its breach and the next pass is never told of.
- `EventGrouping`: storms, suppression by a change, flapping, the delay of opening, alarms
  without a CI or below the threshold; the times a job may stall before BullMQ fails it.

## Not modelled

- **Change approvals and the release window.** Their writes are chains of calls nothing
  serialises; what can go wrong is listed under `hazards`, and no invariant was found
  that the code keeps and that says more than one of its writes.
- **Notification delivery, escalation, automation.** Consumers of `EventQueue`. Their
  markers and delayed jobs are of the same kind as those modelled; the rules and the
  texts are data.
- **Service impact.** A computation over the service map, repeated whole at each event.
- **Per-tenant queues.** Every module takes its queues as open.
- **Discovery, metamodel, schema generator, scripting, API, reports, user interfaces.**
  Transformations of records, generated code and I/O: most of the lines of the
  repository, with no protocol between processes of their own.

## What remains

The conditions of `NoStaleTimerHolds`, `NoOrphanRequests` and `TheGateHolds` on who moves a
ticket may be weakened: several persons, of whom one at a time enters a wait or an
approval step. The resume pass with several changes and a small
`MAX_PER_GIRO`, and storms over `EventGrouping`, are the next extensions.

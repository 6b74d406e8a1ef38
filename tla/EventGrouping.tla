--------------------------- MODULE EventGrouping ---------------------------
(***************************************************************************)
(* The alarms of one CI and their incidents (apps/api services/events).    *)
(* Each payload of a monitoring source is a job: it writes the state of    *)
(* its alarm, then, under a Redis lock of the group (lib/redisLock.ts),    *)
(* either finds the incident of the group and opens, joins or reopens it,  *)
(* or resolves the incidents none of whose alarms fires any more.  A pass  *)
(* takes up the firing alarms nobody has correlated, and a person may open *)
(* an incident by hand under the same lock.                                *)
(*                                                                         *)
(* The worker runs four jobs of a tenant at a time and tries a failed one  *)
(* again, so payloads are written in any order.  Left out: storms,         *)
(* suppression, flapping, delay of opening, alarms without a CI or below   *)
(* the threshold.  The transitions of an incident are TicketTransition's;  *)
(* here each is one step, that a guard may refuse.                         *)
(***************************************************************************)
EXTENDS Integers, Sequences, FiniteSets

CONSTANTS Alarms,       \* the alarms raised on the CI
          Concurrency,  \* jobs a worker runs at a time
          Attempts,     \* attempts of a job
          Slow,         \* a section may outlive its lock
          MaxPayloads,  \* bound: payloads received
          MaxIncidents, \* bound: incidents opened
          MaxMoves,     \* bound: what people do
          MaxFaults     \* bound: calls that fail, stops of a process, expired locks

ASSUME GroupingAssumption ==
  /\ Alarms # {}
  /\ Concurrency \in Nat \ {0} /\ Attempts \in Nat \ {0}
  /\ Slow \in BOOLEAN
  /\ MaxPayloads \in Nat /\ MaxIncidents \in Nat \ {0} /\ MaxMoves \in Nat /\ MaxFaults \in Nat

\* A call is a payload's job, named by the order of reception, the periodic
\* pass, or a person's request.
Pass == 0
Person == MaxPayloads + 1
Jobs == 1..MaxPayloads
Calls == Pass..Person
None == -1

VARIABLES
  payload,   \* the payloads received, in order
  alarm,     \* the Event of each alarm
  incident,  \* the incidents, in order of creation
  lock,      \* who holds the lock of the group
  call,      \* what each call is doing
  moves,     \* how much people have done
  faults,    \* how much has gone wrong
  outlived   \* some section has outlived its lock

graph == <<alarm, incident>>
bounds == <<moves, faults>>
vars == <<payload, graph, lock, call, bounds, outlived>>

-----------------------------------------------------------------------------
Payload == [alarm: Alarms, status: {"firing", "resolved"}]

\* seen is last_received_at; correlated, that the cycle has an outcome.
Alarm == [status: {"unknown", "firing", "resolved"}, seen: 0..MaxPayloads, correlated: BOOLEAN]

Incident == [step: {"new", "active", "resolved", "closed"}, alarms: SUBSET Alarms, auto: BOOLEAN]

\* stalled: the job of a process that stopped, to be delivered again.
Waits == {"queued", "stalled"}
Phases == Waits \cup {"idle", "waiting", "reopen", "create", "link", "opened", "join", "walk", "mark"}

\* section: inside its lock, inside after its lock expired, or outside.
Call == [pc: Phases, alarm: Alarms, mode: {"firing", "resolved", "manual"}, tries: 0..Attempts - 1,
         section: {"out", "in", "late"}, incident: 0..MaxIncidents, todo: SUBSET (1..MaxIncidents)]

Idle == [pc |-> "idle", alarm |-> CHOOSE a \in Alarms : TRUE, mode |-> "firing", tries |-> 0,
         section |-> "out", incident |-> 0, todo |-> {}]

\* The types of the events, of the incidents and of the calls
\* (services/events/types.ts).
GroupingTypeOK ==
  /\ payload \in Seq(Payload) /\ Len(payload) <= MaxPayloads
  /\ alarm \in [Alarms -> Alarm]
  /\ incident \in Seq(Incident) /\ Len(incident) <= MaxIncidents
  /\ lock \in Calls \cup {None}
  /\ call \in [Calls -> Call]
  /\ moves \in 0..MaxMoves /\ faults \in 0..MaxFaults /\ outlived \in BOOLEAN

\* Nothing happened yet, or the alarms are over and so is their incident.
Init ==
  /\ payload = <<>>
  /\ \/ /\ alarm = [a \in Alarms |-> [status |-> "unknown", seen |-> 0, correlated |-> FALSE]]
        /\ incident = <<>>
     \/ /\ alarm = [a \in Alarms |-> [status |-> "resolved", seen |-> 0, correlated |-> TRUE]]
        /\ incident = <<[step |-> "resolved", alarms |-> Alarms, auto |-> TRUE]>>
  /\ lock = None
  /\ call = [c \in Calls |-> Idle]
  /\ moves = 0 /\ faults = 0 /\ outlived = FALSE

Goes(c, pc) == call' = [call EXCEPT ![c].pc = pc]
Latest(S) == CHOOSE i \in S : \A j \in S : j <= i
Ids == 1..Len(incident)
Its(c) == call[c].alarm

-----------------------------------------------------------------------------
(* The source and the ingest. *)

\* A source sends an alarm again and again while it fires, and once when it is
\* over.
Send(a, s) ==
  /\ Len(payload) < MaxPayloads
  /\ s = "resolved" =>
       \E n \in 1..Len(payload) :
         /\ payload[n] = [alarm |-> a, status |-> "firing"]
         /\ \A m \in n + 1 .. Len(payload) : payload[m].alarm # a
  /\ payload' = Append(payload, [alarm |-> a, status |-> s])
  /\ call' = [call EXCEPT ![Len(payload) + 1] = [Idle EXCEPT !.pc = "queued", !.alarm = a]]
  /\ UNCHANGED <<graph, lock, bounds, outlived>>

\* ingestMergeCypher: an older payload is applied too when its status differs.
Applies(n, x) == x.seen < n \/ (x.seen > n /\ payload[n].status # x.status)

\* A new cycle has no outcome yet.
Written(n, x) ==
  IF ~Applies(n, x) THEN x
  ELSE [status     |-> payload[n].status,
        seen       |-> IF x.seen < n THEN n ELSE x.seen,
        correlated |-> x.correlated /\ ~(x.status = "resolved" /\ payload[n].status = "firing")]

\* The worker takes the jobs in order, but for those that are tried again or were
\* stalled, which hold up no other.
Taken(n) ==
  /\ call[n].pc \in Waits
  /\ Cardinality({m \in Jobs : call[m].pc \notin Waits \cup {"idle"}}) < Concurrency
  /\ call[n].pc = "queued" /\ call[n].tries = 0 =>
       \A m \in 1..n - 1 : call[m].pc = "queued" => call[m].tries > 0

\* The pipeline goes by the status the write left.
Ingest(n) ==
  LET a == Its(n)
      x == Written(n, alarm[a])
  IN /\ Taken(n)
     /\ alarm' = [alarm EXCEPT ![a] = x]
     /\ call' = [call EXCEPT ![n].pc = "waiting", ![n].mode = x.status]
     /\ UNCHANGED <<payload, incident, lock, bounds, outlived>>

\* reevaluatePendingEvents: a firing alarm left without an outcome.
TakeUp(a) ==
  /\ call[Pass].pc = "idle"
  /\ alarm[a].status = "firing" /\ ~alarm[a].correlated
  /\ call' = [call EXCEPT ![Pass] = [Idle EXCEPT !.pc = "waiting", !.alarm = a]]
  /\ UNCHANGED <<payload, graph, lock, bounds, outlived>>

\* createIncidentFromEvent.
OpenByHand(a) ==
  /\ moves < MaxMoves
  /\ call[Person].pc = "idle"
  /\ call' = [call EXCEPT ![Person] = [Idle EXCEPT !.pc = "waiting", !.alarm = a, !.mode = "manual"]]
  /\ moves' = moves + 1
  /\ UNCHANGED <<payload, graph, lock, faults, outlived>>

\* People work on incidents.
MoveByHand(i, step) ==
  /\ moves < MaxMoves
  /\ <<incident[i].step, step>> \in
       {<<"new", "active">>, <<"active", "resolved">>, <<"resolved", "active">>, <<"resolved", "closed">>}
  /\ incident' = [incident EXCEPT ![i].step = step]
  /\ moves' = moves + 1
  /\ UNCHANGED <<payload, alarm, lock, call, faults, outlived>>

-----------------------------------------------------------------------------
(* withRedisLock. *)

\* Mutant: the lock is deleted by its key alone.
ReleasedMutant(c) == None

\* The release is guarded by the token of the holder.
Released(c) == IF lock = c THEN None ELSE lock

\* Mutant: SET NX without an expiry.
ExpiresMutant(holder) == FALSE

\* The lock of a holder that is gone expires; that of one at work, if it is slow.
Expires(holder) == call[holder].section = "in" => Slow /\ faults < MaxFaults

Expire ==
  /\ lock # None
  /\ Expires(lock)
  /\ lock' = None
  /\ IF call[lock].section = "in"
       THEN /\ call' = [call EXCEPT ![lock].section = "late"]
            /\ faults' = faults + 1
            /\ outlived' = TRUE
       ELSE UNCHANGED <<call, faults, outlived>>
  /\ UNCHANGED <<payload, graph, moves>>

\* Mutant: one attempt too many.
AgainMutant(c) ==
  call' = [call EXCEPT ![c] =
             IF c \in Jobs /\ @.tries < Attempts
               THEN [Idle EXCEPT !.pc = "queued", !.alarm = call[c].alarm, !.tries = call[c].tries + 1]
               ELSE Idle]

\* A job tries again while it has attempts; the pass comes again, a person may.
Again(c) ==
  call' = [call EXCEPT ![c] =
             IF c \in Jobs /\ @.tries + 1 < Attempts
               THEN [Idle EXCEPT !.pc = "queued", !.alarm = call[c].alarm, !.tries = call[c].tries + 1]
               ELSE Idle]

TimesOut(c) ==
  /\ call[c].pc = "waiting" /\ lock # None
  /\ Again(c)
  /\ UNCHANGED <<payload, graph, lock, bounds, outlived>>

\* The section throws; the lock is released all the same.
Throws(c) == lock' = Released(c) /\ Again(c)

\* The section ends: the call goes on outside it, or is over.
Leaves(c, pc) ==
  /\ lock' = Released(c)
  /\ call' = [call EXCEPT ![c] = IF pc = "idle" THEN Idle ELSE [@ EXCEPT !.pc = pc, !.section = "out"]]

\* The lock is taken and the first read of the section made: what the read
\* finds, it would find just before.
Enters(c, pc, i, todo) ==
  /\ call[c].pc = "waiting" /\ lock = None
  /\ lock' = c
  /\ call' = [call EXCEPT ![c].pc = pc, ![c].section = "in", ![c].incident = i, ![c].todo = todo]

\* The section finds nothing to do.
Nothing(c) ==
  /\ call[c].pc = "waiting" /\ lock = None
  /\ call' = [call EXCEPT ![c] = Idle]
  /\ UNCHANGED <<payload, graph, lock, bounds, outlived>>

-----------------------------------------------------------------------------
(* A firing alarm: correlateFiringEvent. *)

\* Mutant: a resolved incident, which is terminal, is not the group's any more.
OpenForGroupMutant == {i \in Ids : incident[i].alarms # {} /\ incident[i].step \notin {"resolved", "closed"}}

\* findOpenIncidentForGroup: a resolved incident is to be reopened.
OpenForGroup == {i \in Ids : incident[i].alarms # {} /\ incident[i].step # "closed"}

\* The lock is taken, but the incident is there already.
Shortcut(c) ==
  /\ call[c].pc = "waiting" /\ call[c].mode = "firing" /\ lock # None
  /\ OpenForGroup # {}
  /\ LET i == Latest(OpenForGroup)
     IN /\ incident[i].step # "resolved"
        /\ call' = [call EXCEPT ![c].pc = "join", ![c].incident = i]
  /\ UNCHANGED <<payload, graph, lock, bounds, outlived>>

Find(c) ==
  /\ call[c].mode = "firing"
  /\ IF OpenForGroup = {} THEN Enters(c, "create", 0, {})
     ELSE LET i == Latest(OpenForGroup)
          IN Enters(c, IF incident[i].step = "resolved" THEN "reopen" ELSE "join", i, {})
  /\ UNCHANGED <<payload, graph, bounds, outlived>>

\* A guard may refuse: the incident stays resolved and the alarm joins it.
Reopen(c) ==
  LET i == call[c].incident
  IN /\ call[c].pc = "reopen"
     /\ IF incident[i].step = "resolved"
          THEN /\ \E step \in {"active", "resolved"} : incident' = [incident EXCEPT ![i].step = step]
               /\ Goes(c, "join")
               /\ UNCHANGED lock
          ELSE Throws(c) /\ UNCHANGED incident
     /\ UNCHANGED <<payload, alarm, bounds, outlived>>

Join(c) ==
  /\ call[c].pc = "join"
  /\ incident' = [incident EXCEPT ![call[c].incident].alarms = @ \cup {Its(c)}]
  /\ Leaves(c, "mark")
  /\ UNCHANGED <<payload, alarm, bounds, outlived>>

\* setCorrelation, after the section.
Mark(c) ==
  /\ call[c].pc = "mark"
  /\ alarm' = [alarm EXCEPT ![Its(c)].correlated = TRUE]
  /\ call' = [call EXCEPT ![c] = Idle]
  /\ UNCHANGED <<payload, incident, lock, bounds, outlived>>

\* openIncidentFromEvent: the incident is committed first, and then linked; what
\* createIncident threw after its commit is thrown in the end.
Create(c) ==
  /\ call[c].pc = "create"
  /\ Len(incident) < MaxIncidents
  /\ incident' = Append(incident, [step |-> "new", alarms |-> {}, auto |-> call[c].mode = "firing"])
  /\ call' = [call EXCEPT ![c].pc = "link", ![c].incident = Len(incident) + 1]
  /\ UNCHANGED <<payload, alarm, lock, bounds, outlived>>

Link(c) ==
  /\ call[c].pc = "link"
  /\ incident' = [incident EXCEPT ![call[c].incident].alarms = @ \cup {Its(c)}]
  /\ Goes(c, "opened")
  /\ UNCHANGED <<payload, alarm, lock, bounds, outlived>>

\* setCorrelation, in the section.
Opened(c) ==
  /\ call[c].pc = "opened"
  /\ alarm' = [alarm EXCEPT ![Its(c)].correlated = TRUE]
  /\ Leaves(c, "idle") \/ Throws(c)
  /\ UNCHANGED <<payload, incident, bounds, outlived>>

\* A person's request reads the alarm again: it must fire and have no incident.
Check ==
  LET a == Its(Person)
  IN /\ call[Person].mode = "manual"
     /\ IF alarm[a].status = "firing" /\ \A i \in Ids : a \notin incident[i].alarms
          THEN Enters(Person, "create", 0, {}) /\ UNCHANGED <<payload, graph, bounds, outlived>>
          ELSE Nothing(Person)

-----------------------------------------------------------------------------
(* An alarm that is over: handleResolvedEvent. *)

\* The incidents of the alarm none of whose alarms fires.
Over(a) == {i \in Ids : /\ a \in incident[i].alarms
                        /\ incident[i].step \in {"new", "active"}
                        /\ \A b \in incident[i].alarms : alarm[b].status # "firing"}

Weigh(c) ==
  /\ call[c].mode = "resolved"
  /\ IF Over(Its(c)) = {} THEN Nothing(c)
     ELSE Enters(c, "walk", 0, Over(Its(c))) /\ UNCHANGED <<payload, graph, bounds, outlived>>

\* An incident is done with; the section ends with the last.
Done(c, i) ==
  IF call[c].todo = {i} THEN Leaves(c, "idle")
  ELSE call' = [call EXCEPT ![c].todo = @ \ {i}] /\ UNCHANGED lock

\* walkToResolved: a step at a time; a refusal ends it, a step somebody else made
\* fails the job.
Walk(c) ==
  /\ call[c].pc = "walk"
  /\ LET i == Latest(call[c].todo)
     IN \/ /\ incident[i].step = "new"
           /\ incident' = [incident EXCEPT ![i].step = "active"]
           /\ UNCHANGED <<lock, call>>
        \/ /\ incident[i].step = "active"
           /\ incident' = [incident EXCEPT ![i].step = "resolved"]
           /\ Done(c, i)
        \/ /\ incident[i].step \in {"new", "active"}
           /\ Done(c, i)
           /\ UNCHANGED incident
        \/ /\ incident[i].step \notin {"new", "active"}
           /\ Throws(c)
           /\ UNCHANGED incident
  /\ UNCHANGED <<payload, alarm, bounds, outlived>>

-----------------------------------------------------------------------------
(* What goes wrong. *)

\* An await throws, or the one that releases the lock fails and leaves it.
Fails(c) ==
  /\ faults < MaxFaults
  /\ call[c].pc \notin Waits \cup {"idle"}
  /\ Throws(c) \/ (UNCHANGED lock /\ Again(c))
  /\ faults' = faults + 1
  /\ UNCHANGED <<payload, graph, moves, outlived>>

\* The process stops: its lock stays, its job is delivered again.
Stops(c) ==
  /\ faults < MaxFaults
  /\ call[c].pc \notin Waits \cup {"idle"}
  /\ call' = [call EXCEPT ![c] = IF c \in Jobs THEN [Idle EXCEPT !.pc = "stalled", !.alarm = call[c].alarm, !.tries = call[c].tries]
                                  ELSE Idle]
  /\ faults' = faults + 1
  /\ UNCHANGED <<payload, graph, lock, moves, outlived>>

CallStep(c) ==
  \/ Shortcut(c) \/ TimesOut(c) \/ Find(c) \/ Reopen(c) \/ Join(c) \/ Mark(c) \/ Create(c) \/ Link(c) \/ Opened(c)
  \/ Weigh(c) \/ Walk(c)
  \/ c \in Jobs /\ Ingest(c)
  \/ c = Person /\ Check

Next ==
  \/ \E a \in Alarms : \E s \in {"firing", "resolved"} : Send(a, s)
  \/ \E a \in Alarms : TakeUp(a) \/ OpenByHand(a)
  \/ \E i \in Ids : \E step \in {"active", "resolved", "closed"} : MoveByHand(i, step)
  \/ Expire
  \/ \E c \in Calls : CallStep(c) \/ Fails(c) \/ Stops(c)

Spec == Init /\ [][Next]_vars

\* Workers and calls go on, a lock expires, the periodic pass comes.
Fairness ==
  /\ \A c \in Calls : WF_vars(CallStep(c))
  /\ WF_vars(\E a \in Alarms : TakeUp(a))
  /\ WF_vars(lock # None /\ call[lock].section # "in" /\ Expire)

FairSpec == Spec /\ Fairness

-----------------------------------------------------------------------------
(***************************************************************************)
(* Properties.                                                             *)
(***************************************************************************)

\* The token of the lock (redisLock.ts): whoever outlives its lock or fails to
\* release it, two calls are never in the section within their locks' time.
OneSection ==
  \A c, d \in Calls : call[c].section = "in" /\ call[d].section = "in" => c = d

\* "Never two incidents for one group" (correlateFiringEvent): of the incidents
\* the correlation opened by itself, one at most is not closed, whatever jobs
\* fail or stop in the middle, as long as no section has outlived its lock.  An
\* incident left without its alarm by a stop between createIncident and
\* attachEventToIncident is nobody's: the next call opens another (see
\* NoneIsLeftAlone).
OneIncidentPerGroup ==
  ~outlived =>
    \A i, j \in OpenForGroup : incident[i].auto /\ incident[j].auto => i = j

\* "The next pass finds the link instead of opening another incident"
\* (openIncidentFromEvent): of all the incidents the correlation opened, linked or
\* not, one at most is not closed.  The code does not keep it: the incident is
\* committed in a statement of its own, and a call that fails or stops before the
\* link leaves one no search of the group finds.
NoneIsLeftAlone ==
  ~outlived =>
    \A i, j \in {k \in Ids : incident[k].auto /\ incident[k].step # "closed"} : i = j

\* "No active alarm stays without an incident in silence"
\* (reevaluatePendingEvents): a firing alarm without an outcome gets one, or is
\* over, whatever failed before (while there is room for an incident).
AlarmIsTakenUp ==
  \A a \in Alarms :
    (alarm[a].status = "firing" /\ ~alarm[a].correlated) ~>
      (alarm[a].status # "firing" \/ alarm[a].correlated \/ Len(incident) = MaxIncidents)

Quiet == \A c \in Calls : call[c].pc = "idle"

\* "It must not interleave with an alarm that meanwhile opens, reopens or joins"
\* (handleResolvedEvent): monitoring does not resolve an incident to which a
\* firing alarm is attached.  The code does not keep it: a firing payload is
\* recorded, and may join its incident, without the lock (three payloads show it).
FiringKeepsItOpen ==
  [][\A c \in Calls : \A i \in Ids :
       (Walk(c) /\ incident[i].step = "active" /\ incident'[i].step = "resolved")
         => \A a \in incident[i].alarms : alarm[a].status # "firing"]_vars

\* "A late retry cannot reopen a cycle" (eventIngestWorker.ts): when all is
\* done an alarm is as its last payload says.  The code does not keep it where a
\* job is retried (Attempts 2): an older payload of another kind is applied late.
LastPayloadStands ==
  Quiet => \A n \in 1..Len(payload) :
    (\A m \in n + 1 .. Len(payload) : payload[m].alarm # payload[n].alarm)
      => alarm[payload[n].alarm].status = payload[n].status
=============================================================================

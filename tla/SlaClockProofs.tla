--------------------------- MODULE SlaClockProofs ---------------------------
(***************************************************************************)
(* SlaClock proved for any tiers, workflow, number of calls at once and    *)
(* faults: the types, and that a breach that was told stands, in whatever  *)
(* order and how many at a time the events are handled; and, while they    *)
(* are handled in order, that the clock shows the time counted and its     *)
(* jobs follow it.                                                         *)
(*                                                                         *)
(* Then its calendar, proved for any calendar, any zone whose offset       *)
(* changes while nobody is at work, and any instants: the deadline that    *)
(* lies some minutes of service ahead, and the minutes between two         *)
(* instants, are what the minutes one by one say. On it, the time of a     *)
(* team, for any history of teams: its segments tell who had the ticket,   *)
(* and what a contract counts over them is that time.                      *)
(***************************************************************************)
EXTENDS SlaCalendar, FiniteSetTheorems, WellFoundedInduction, TLAPS

\* The clock's arithmetic stays among the natural numbers.
LEMMA CountedIsNat ==
  ASSUME NEW from \in Instants, NEW to \in Nat
  PROVE  Counted(from, to) \in Nat
<1>1. CASE from = None \/ to <= from
  BY <1>1 DEF Counted
<1>2. CASE ~(from = None \/ to <= from)
  BY <1>2 DEF Counted, Instants, None
<1> QED BY <1>1, <1>2

LEMMA StartedType == \A tier \in Tiers : Started(tier) \in Status
BY SlaAssumption DEF Started, Status, Instants, None

LEMMA NoStatusType == NoStatus \in Status
<1>1. Started(FirstTier) \in Status
  BY StartedType, SlaAssumption
<1> QED BY <1>1 DEF NoStatus, Status

LEMMA IdleTypes ==
  /\ Created(FirstTier) \in Event
  /\ Idle \in Handler
  /\ Still \in Firing
<1>1. Created(FirstTier) \in Event
  BY SlaAssumption DEF Created, Event, Categories
<1> QED BY <1>1, NoStatusType DEF Idle, Handler, Still, Firing

\* What an operation writes is a status, whatever it had read.
LEMMA WrittenType ==
  ASSUME NEW op \in Operations, NEW s \in Status, NEW read \in Status, NEW e \in Event
  PROVE  Written(op, s, read, e) \in Status
<1>1. /\ e.at \in Nat /\ e.tier \in Tiers /\ read.resolve \in Nat /\ read.total \in Nat /\ s.total \in Nat
      /\ read.paused \in Instants /\ read.resolved \in Instants /\ e.at \in Instants /\ None \in Instants
  BY DEF Event, Status, Instants
<1>2. Counted(read.paused, e.at) \in Nat /\ Counted(read.resolved, e.at) \in Nat
  BY <1>1, CountedIsNat
<1>3. CASE op = "start"
  BY <1>1, <1>3, StartedType DEF Written
<1>4. CASE op = "pause"
  BY <1>1, <1>4 DEF Written, Status
<1>5. CASE op = "resume"
  <2>1. read.resolve + Counted(read.paused, e.at) \in Nat /\ s.total + Counted(read.paused, e.at) \in Nat
    BY <1>1, <1>2
  <2> QED BY <1>1, <1>5, <2>1 DEF Written, Status
<1>6. CASE op = "reopen"
  <2>1. read.resolve + Counted(read.resolved, e.at) \in Nat /\ s.total + Counted(read.resolved, e.at) \in Nat
    BY <1>1, <1>2
  <2> QED BY <1>1, <1>6, <2>1 DEF Written, Status
<1>7. CASE op = "conclude"
  <2> DEFINE shift == Counted(read.paused, e.at)
             met == e.at <= read.resolve + shift
  <2>1. read.resolve + shift \in Nat /\ s.total + shift \in Nat /\ met \in BOOLEAN /\ (s.breached \/ ~met) \in BOOLEAN
    BY <1>1, <1>2
  <2>2. Written(op, s, read, e) =
          [s EXCEPT !.met = met, !.breached = s.breached \/ ~met, !.resolved = e.at,
                    !.resolve = read.resolve + shift, !.total = s.total + shift, !.paused = None]
    BY <1>7 DEF Written, Concluded
  <2> HIDE DEF shift, met
  <2> QED BY <1>1, <2>1, <2>2 DEF Status
<1>8. CASE op = "repolicy"
  <2>1. Resolve[e.tier] + read.total \in Nat
    BY <1>1, SlaAssumption
  <2> QED BY <1>1, <1>8, <2>1 DEF Written, Status
<1> QED BY <1>3, <1>4, <1>5, <1>6, <1>7, <1>8 DEF Operations

\* No operation clears a breach, or makes the status of a ticket vanish.
LEMMA WrittenKeeps ==
  ASSUME NEW op \in Operations, NEW s \in Status, NEW read \in Status, NEW e \in Event, s.exists, s.breached
  PROVE  Written(op, s, read, e).exists /\ Written(op, s, read, e).breached
<1>1. CASE op = "start"
  BY <1>1 DEF Written
<1>2. CASE op \in {"pause", "resume", "reopen", "repolicy"}
  BY <1>2 DEF Written, Status
<1>3. CASE op = "conclude"
  BY <1>3 DEF Written, Concluded, Status
<1> QED BY <1>1, <1>2, <1>3 DEF Operations

-----------------------------------------------------------------------------
(***************************************************************************)
(* Types.                                                                  *)
(***************************************************************************)
\* A handler call past the reading of the event has an operation to make.
Busy(h) == handler[h].pc \in {"read", "write", "jobs"} => handler[h].todo \in Operations

TypeInv == SlaTypeOK /\ \A h \in Handlers : Busy(h)

CallsOK == handler' \in [Handlers -> Handler] /\ \A h \in Handlers : Busy(h)'

LEMMA PlanType ==
  ASSUME NEW e, NEW s PROVE Plan(e, s) \in Operations \cup {"none"}
BY DEF Plan, Operations

\* A call ends, goes on, or is delivered again; the others stay as they are.
LEMMA CallsMove ==
  ASSUME TypeInv, NEW h \in Handlers
  PROVE  /\ Ends(h) => CallsOK
         /\ \A pc \in {"read", "write", "jobs"} : Goes(h, pc) /\ handler[h].todo \in Operations => CallsOK
         /\ \A c \in Handler : handler' = [handler EXCEPT ![h] = c] /\ (c.pc \in {"read", "write", "jobs"} => c.todo \in Operations)
                                 => CallsOK
         /\ Redelivered(h) => CallsOK /\ queue' \in Seq(Event) /\ inOrder' \in BOOLEAN
<1>1. handler \in [Handlers -> Handler] /\ handler[h] \in Handler /\ queue \in Seq(Event)
  BY DEF TypeInv, SlaTypeOK
<1>2. ASSUME NEW c \in Handler, handler' = [handler EXCEPT ![h] = c],
             c.pc \in {"read", "write", "jobs"} => c.todo \in Operations
      PROVE  CallsOK
  <2>1. handler' \in [Handlers -> Handler]
    BY <1>1, <1>2
  <2>2. \A g \in Handlers : g # h => handler'[g] = handler[g]
    BY <1>1, <1>2
  <2>3. handler'[h] = c
    BY <1>1, <1>2
  <2> QED BY <1>2, <2>1, <2>2, <2>3 DEF CallsOK, TypeInv, Busy
<1>3. Ends(h) => CallsOK
  <2>1. Idle.pc = "idle" /\ Idle \in Handler
    BY IdleTypes DEF Idle
  <2> QED BY <1>2, <2>1 DEF Ends
<1>4. ASSUME NEW pc \in {"read", "write", "jobs"}, Goes(h, pc), handler[h].todo \in Operations
      PROVE  CallsOK
  <2> DEFINE c == [handler[h] EXCEPT !.pc = pc]
  <2>1. c \in Handler /\ c.todo = handler[h].todo
    BY <1>1 DEF Handler
  <2>2. handler' = [handler EXCEPT ![h] = c]
    BY <1>4 DEF Goes
  <2> HIDE DEF c
  <2> QED BY <1>2, <1>4, <2>1, <2>2
<1>5. Redelivered(h) => queue' \in Seq(Event) /\ inOrder' \in BOOLEAN
  <2>1. handler[h].event \in Event
    BY <1>1 DEF Handler
  <2>2. Append(queue, handler[h].event) \in Seq(Event)
    BY <1>1, <2>1
  <2> QED BY <2>2 DEF Redelivered
<1>6. Redelivered(h) => CallsOK
  BY <1>3 DEF Redelivered
<1> QED BY <1>2, <1>3, <1>4, <1>5, <1>6

LEMMA TakeType ==
  ASSUME TypeInv, NEW h \in Handlers, Take(h)
  PROVE  CallsOK /\ queue' \in Seq(Event) /\ inOrder' \in BOOLEAN
<1> DEFINE e == Head(queue)
           plan == Plan(e, status)
           taken == IF e.kind = "priority" THEN [e EXCEPT !.tier = ticket.tier] ELSE e
           busy(pc) == [Idle EXCEPT !.pc = pc, !.event = taken, !.todo = plan]
<1>1. queue \in Seq(Event) /\ queue # <<>> /\ ticket.tier \in Tiers
  BY DEF TypeInv, SlaTypeOK, Take
<1>2. e \in Event /\ Tail(queue) \in Seq(Event)
  BY <1>1
<1>3. taken \in Event
  BY <1>1, <1>2 DEF Event
<1>4. plan \in Operations \cup {"none"}
  BY PlanType
<1>5. \/ Ends(h)
      \/ handler' = [handler EXCEPT ![h] = busy("respond")]
      \/ plan # "none" /\ handler' = [handler EXCEPT ![h] = busy("read")]
  BY DEF Take, Ends
<1>6. queue' = Tail(queue) /\ inOrder' \in BOOLEAN
  BY DEF Take
<1> HIDE DEF plan, taken
<1>7. busy("respond") \in Handler /\ busy("read") \in Handler
  BY <1>3, <1>4, IdleTypes DEF Handler
<1>8. busy("respond").pc = "respond" /\ busy("read").todo = plan
  BY IdleTypes DEF Handler
<1> HIDE DEF busy
<1>9. CallsOK
  BY <1>4, <1>5, <1>7, <1>8, CallsMove
<1> QED BY <1>2, <1>6, <1>9

LEMMA StepTypes == ASSUME TypeInv, [Next]_vars PROVE TypeInv'
<1>1. /\ now \in Nat /\ off \in Nat /\ faults \in Nat
      /\ ticket \in [cat: Categories, tier: Tiers, moves: Nat]
      /\ queue \in Seq(Event) /\ status \in Status
      /\ jobs \subseteq Job /\ firing \in [Agents -> Firing]
      /\ told \in BOOLEAN /\ inOrder \in BOOLEAN
      /\ handler \in [Handlers -> Handler]
  BY DEF TypeInv, SlaTypeOK
<1> DEFINE WorldOK == now' \in Nat /\ off' \in Nat /\ ticket' \in [cat: Categories, tier: Tiers, moves: Nat]
           QueueOK == queue' \in Seq(Event) /\ inOrder' \in BOOLEAN
           TimersOK == jobs' \subseteq Job /\ firing' \in [Agents -> Firing] /\ told' \in BOOLEAN
<1>2. /\ UNCHANGED world => WorldOK
      /\ UNCHANGED <<queue, inOrder>> => QueueOK
      /\ UNCHANGED handler => CallsOK
      /\ UNCHANGED timers => TimersOK
  BY <1>1 DEF world, timers, CallsOK, TypeInv, Busy
<1>3. WorldOK /\ QueueOK /\ CallsOK /\ TimersOK /\ status' \in Status /\ faults' \in Nat => TypeInv'
  BY DEF TypeInv, SlaTypeOK, CallsOK
<1> HIDE DEF WorldOK, QueueOK, TimersOK
<1>4. CASE Tick
  <2>1. WorldOK
    BY <1>1, <1>4 DEF Tick, WorldOK
  <2> QED BY <1>1, <1>2, <1>3, <1>4, <2>1 DEF Tick, consumer, timers
<1>5. ASSUME NEW to \in Categories, Move(to) PROVE TypeInv'
  <2>1. WorldOK
    <3>1. [ticket EXCEPT !.cat = to, !.moves = ticket.moves + 1] \in [cat: Categories, tier: Tiers, moves: Nat]
      <4>1. ticket.moves + 1 \in Nat /\ ticket.moves \in Nat
        BY <1>1
      <4> QED BY <1>1, <4>1
    <3> QED BY <1>1, <1>5, <3>1 DEF Move, WorldOK
  <2>2. [kind |-> "entered", cat |-> to, initial |-> ticket.cat = "new", tier |-> ticket.tier, at |-> now] \in Event
    BY <1>1 DEF Event
  <2>3. QueueOK
    BY <1>1, <1>5, <2>2 DEF Move, QueueOK
  <2> QED BY <1>1, <1>2, <1>3, <1>5, <2>1, <2>3 DEF Move, timers
<1>6. ASSUME NEW tier \in Tiers, SetPriority(tier) PROVE TypeInv'
  <2>1. WorldOK
    <3>1. [ticket EXCEPT !.tier = tier, !.moves = ticket.moves + 1] \in [cat: Categories, tier: Tiers, moves: Nat]
      <4>1. ticket.moves + 1 \in Nat /\ ticket.moves \in Nat
        BY <1>1
      <4> QED BY <1>1, <4>1
    <3> QED BY <1>1, <1>6, <3>1 DEF SetPriority, WorldOK
  <2>2. [kind |-> "priority", cat |-> ticket.cat, initial |-> FALSE, tier |-> tier, at |-> now] \in Event
    BY <1>1 DEF Event
  <2>3. QueueOK
    BY <1>1, <1>6, <2>2 DEF SetPriority, QueueOK
  <2> QED BY <1>1, <1>2, <1>3, <1>6, <2>1, <2>3 DEF SetPriority, timers
<1>7. ASSUME NEW h \in Handlers, HandlerStep(h) PROVE TypeInv'
  <2>1. CASE Take(h)
    <3>1. CallsOK /\ QueueOK
      BY <2>1, TakeType DEF QueueOK
    <3> QED BY <1>1, <1>2, <1>3, <2>1, <3>1 DEF Take
  <2>2. CASE Respond(h)
    <3>1. status' \in Status
      BY <1>1, <2>2 DEF Respond, Status
    <3>2. handler[h].todo \in Operations \cup {"none"}
      BY <1>1 DEF Handler
    <3>3. CallsOK
      BY <2>2, <3>2, CallsMove DEF Respond
    <3> QED BY <1>1, <1>2, <1>3, <2>2, <3>1, <3>3 DEF Respond
  <2>3. CASE Read(h)
    <3> DEFINE c == [handler[h] EXCEPT !.pc = "write", !.read = status]
    <3>1. handler[h].todo \in Operations
      BY <2>3 DEF Read, TypeInv, Busy
    <3>2. c \in Handler /\ c.todo = handler[h].todo
      BY <1>1 DEF Handler
    <3>3. Ends(h) \/ handler' = [handler EXCEPT ![h] = c]
      BY <2>3 DEF Read
    <3> HIDE DEF c
    <3>4. CallsOK
      BY <3>1, <3>2, <3>3, CallsMove
    <3> QED BY <1>1, <1>2, <1>3, <2>3, <3>4 DEF Read
  <2>4. CASE Write(h)
    <3>1. handler[h].todo \in Operations /\ handler[h].read \in Status /\ handler[h].event \in Event
      BY <1>1, <2>4 DEF Write, TypeInv, Busy, Handler
    <3>2. status' = Written(handler[h].todo, status, handler[h].read, handler[h].event)
      BY <2>4 DEF Write
    <3>3. status' \in Status
      BY <1>1, <3>1, <3>2, WrittenType
    <3> DEFINE back == Returned(handler[h].todo, handler[h].read, status')
               c == [handler[h] EXCEPT !.pc = "jobs", !.read = back]
    <3>4. back \in Status
      <4>1. status'.resolve \in Nat /\ None \in Instants
        BY <3>3 DEF Status, Instants
      <4>2. [handler[h].read EXCEPT !.resolve = status'.resolve, !.paused = None] \in Status
        BY <3>1, <4>1 DEF Status
      <4> QED BY <3>3, <4>2 DEF Returned
    <3>5. handler' = [handler EXCEPT ![h] = c]
      BY <2>4 DEF Write
    <3> HIDE DEF back
    <3>6. c \in Handler /\ c.todo = handler[h].todo
      BY <1>1, <3>4 DEF Handler
    <3> HIDE DEF c
    <3>7. CallsOK
      BY <3>1, <3>5, <3>6, CallsMove
    <3> QED BY <1>1, <1>2, <1>3, <2>4, <3>3, <3>7 DEF Write
  <2>5. CASE Timer(h)
    <3>1. handler[h].read.resolve \in Nat
      BY <1>1 DEF Handler, Status
    <3>2. Scheduled(handler[h].read.resolve) \subseteq Job
      <4>1. \A re \in BOOLEAN : [re |-> re, at |-> handler[h].read.resolve] \in Job
        BY <3>1 DEF Job
      <4> QED BY <1>1, <4>1 DEF Scheduled
    <3>3. TimersOK
      BY <1>1, <2>5, <3>2 DEF Timer, TimersOK
    <3>4. CallsOK /\ QueueOK
      BY <1>1, <1>2, <2>5, CallsMove DEF Timer, QueueOK
    <3> QED BY <1>1, <1>2, <1>3, <2>5, <3>3, <3>4 DEF Timer
  <2> QED BY <1>7, <2>1, <2>2, <2>3, <2>4, <2>5 DEF HandlerStep
<1>8. ASSUME NEW h \in Handlers, HandlerFails(h) PROVE TypeInv'
  <2>1. CallsOK /\ QueueOK
    BY <1>8, CallsMove DEF HandlerFails, QueueOK
  <2> QED BY <1>1, <1>2, <1>3, <1>8, <2>1 DEF HandlerFails
<1>9. ASSUME NEW a \in Agents, NEW re \in BOOLEAN, Fires(a, re) PROVE firing' \in [Agents -> Firing]
  BY <1>1, <1>9, IdleTypes DEF Fires, Firing
<1>10. ASSUME NEW j \in jobs, JobFires(j) PROVE TypeInv'
  <2>1. j.re \in BOOLEAN
    BY <1>1 DEF Job
  <2>2. TimersOK
    BY <1>1, <1>9, <1>10, <2>1 DEF JobFires, TimersOK, Agents
  <2> QED BY <1>1, <1>2, <1>3, <1>10, <2>2 DEF JobFires, consumer
<1>11. CASE SweepReads
  <2>1. TimersOK
    BY <1>1, <1>11 DEF SweepReads, TimersOK, Firing
  <2> QED BY <1>1, <1>2, <1>3, <1>11, <2>1 DEF SweepReads, consumer
<1>12. CASE SweepFires
  <2>1. TimersOK
    BY <1>1, <1>9, <1>12 DEF SweepFires, TimersOK, Agents
  <2> QED BY <1>1, <1>2, <1>3, <1>12, <2>1 DEF SweepFires, consumer
<1>13. ASSUME NEW a \in Agents, FiringStep(a) PROVE TypeInv'
  <2>1. TimersOK
    <3>1. [firing[a] EXCEPT !.pc = "marked"] \in Firing
      BY <1>1 DEF Firing
    <3>2. CASE MarkBreached(a)
      BY <1>1, <3>1, <3>2 DEF MarkBreached, TimersOK
    <3>3. CASE TellBreach(a)
      BY <1>1, <3>3, IdleTypes DEF TellBreach, TimersOK
    <3> QED BY <1>13, <3>2, <3>3 DEF FiringStep
  <2>2. status' \in Status
    BY <1>1, <1>13 DEF FiringStep, MarkBreached, TellBreach, Status
  <2> QED BY <1>1, <1>2, <1>3, <1>13, <2>1, <2>2 DEF FiringStep, MarkBreached, TellBreach, consumer
<1>14. ASSUME NEW a \in Agents, FiringFails(a) PROVE TypeInv'
  <2>1. TimersOK
    BY <1>1, <1>14, IdleTypes DEF FiringFails, TimersOK
  <2> QED BY <1>1, <1>2, <1>3, <1>14, <2>1 DEF FiringFails, consumer
<1>15. CASE UNCHANGED vars
  BY <1>1, <1>2, <1>3, <1>15 DEF vars, consumer
<1> QED BY <1>4, <1>5, <1>6, <1>7, <1>8, <1>10, <1>11, <1>12, <1>13, <1>14, <1>15 DEF Next

LEMMA InitTypes == Init => TypeInv
<1>1. ASSUME Init PROVE handler \in [Handlers -> Handler] /\ \A h \in Handlers : Busy(h)
  BY <1>1, IdleTypes DEF Init, Busy, Idle
<1>2. <<Created(FirstTier)>> \in Seq(Event)
  BY IdleTypes
<1>3. [cat |-> "new", tier |-> FirstTier, moves |-> 0] \in [cat: Categories, tier: Tiers, moves: Nat]
  BY SlaAssumption DEF Categories
<1> QED BY <1>1, <1>2, <1>3, IdleTypes, NoStatusType DEF Init, TypeInv, SlaTypeOK

LEMMA TypeInvHolds == Spec => []TypeInv
BY InitTypes, StepTypes, PTL DEF Spec

\* The SLA of a ticket keeps the types of status.ts and scheduler.ts.
THEOREM TypesHold == Spec => []SlaTypeOK
BY TypeInvHolds, PTL DEF TypeInv

-----------------------------------------------------------------------------
(***************************************************************************)
(* A breach stands.                                                        *)
(***************************************************************************)
\* A timer that fires found a status; one that has marked it, or told, left it
\* breached.
TimersKnow ==
  /\ \A a \in Agents : firing[a].pc \in {"relevant", "marked"} => status.exists
  /\ \A a \in Agents : firing[a].pc = "marked" => status.breached
  /\ told => status.exists /\ status.breached

\* No step takes back that the status exists or that it is breached.
StatusKeeps ==
  /\ status.exists => status'.exists
  /\ status.exists /\ status.breached => status'.breached

LEMMA StepKeeps == ASSUME TypeInv, [Next]_vars PROVE StatusKeeps
<1>1. status \in Status /\ handler \in [Handlers -> Handler]
  BY DEF TypeInv, SlaTypeOK
<1>2. ASSUME NEW h \in Handlers, Write(h) PROVE StatusKeeps
  <2>1. handler[h].todo \in Operations /\ handler[h].read \in Status /\ handler[h].event \in Event
    BY <1>1, <1>2 DEF Write, TypeInv, Busy, Handler
  <2>2. status' = Written(handler[h].todo, status, handler[h].read, handler[h].event)
    BY <1>2 DEF Write
  <2>3. status.exists => status'.exists
    <3>1. CASE handler[h].todo = "start"
      BY <2>2, <3>1 DEF Written
    <3>2. CASE handler[h].todo # "start"
      BY <1>1, <2>1, <2>2, <3>2 DEF Written, Concluded, Status, Operations
    <3> QED BY <3>1, <3>2
  <2> QED BY <1>1, <2>1, <2>2, <2>3, WrittenKeeps DEF StatusKeeps
<1>3. ASSUME NEW h \in Handlers, Respond(h) PROVE StatusKeeps
  BY <1>1, <1>3 DEF Respond, StatusKeeps, Status
<1>4. ASSUME NEW a \in Agents, MarkBreached(a) PROVE StatusKeeps
  BY <1>1, <1>4 DEF MarkBreached, StatusKeeps, Status
<1>5. CASE UNCHANGED status
  BY <1>5 DEF StatusKeeps
<1> QED
  BY <1>2, <1>3, <1>4, <1>5
     DEF Next, vars, Tick, Move, SetPriority, HandlerStep, Take, Read, Timer, HandlerFails, JobFires, SweepReads,
         SweepFires, FiringStep, TellBreach, FiringFails

LEMMA StepKnows == ASSUME TypeInv, TimersKnow, [Next]_vars PROVE TimersKnow'
<1>1. StatusKeeps
  BY StepKeeps
<1>2. firing \in [Agents -> Firing] /\ status \in Status
  BY DEF TypeInv, SlaTypeOK
<1>3. ASSUME UNCHANGED <<firing, told>> PROVE TimersKnow'
  BY <1>1, <1>3 DEF TimersKnow, StatusKeeps
<1>4. ASSUME NEW a \in Agents, NEW re, Fires(a, re), UNCHANGED <<status, told>> PROVE TimersKnow'
  BY <1>2, <1>4 DEF Fires, TimersKnow, Running, Still
<1>5. ASSUME NEW j \in jobs, JobFires(j) PROVE TimersKnow'
  BY <1>4, <1>5 DEF JobFires, Agents
<1>6. CASE SweepFires
  BY <1>4, <1>6 DEF SweepFires, Agents
<1>7. CASE SweepReads
  BY <1>2, <1>7 DEF SweepReads, TimersKnow, Firing
<1>8. ASSUME NEW a \in Agents, MarkBreached(a) PROVE TimersKnow'
  BY <1>1, <1>2, <1>8 DEF MarkBreached, TimersKnow, StatusKeeps, Firing, Status
<1>9. ASSUME NEW a \in Agents, TellBreach(a) \/ FiringFails(a) PROVE TimersKnow'
  BY <1>2, <1>9 DEF TellBreach, FiringFails, TimersKnow, Still
<1> QED
  BY <1>3, <1>5, <1>6, <1>7, <1>8, <1>9
     DEF Next, vars, timers, Tick, Move, SetPriority, HandlerStep, Take, Respond, Read, Write, Timer, HandlerFails,
         FiringStep

\* "breached is never cleared": a breach that was told is in the record, for any
\* number of events handled at once, in any order, and any faults.
THEOREM ToldStands == Spec => []BreachStands
<1>1. Init => TimersKnow
  BY DEF Init, TimersKnow, Still
<1>2. TypeInv /\ TimersKnow /\ [Next]_vars => TimersKnow'
  BY StepKnows
<1>3. TimersKnow => BreachStands
  BY DEF TimersKnow, BreachStands
<1> QED BY <1>1, <1>2, <1>3, TypeInvHolds, PTL DEF Spec

-----------------------------------------------------------------------------
(***************************************************************************)
(* The clock.                                                              *)
(*                                                                         *)
(* While the events are handled alone and in order, the ticket's past is   *)
(* in two places: the status, and the events still to be applied to it.    *)
(* The invariant relates the two: from the category and the time a status  *)
(* shows, the queue leads to those of the ticket.  A call under way counts *)
(* as done: what it will write is already known.                           *)
(***************************************************************************)
\* What a status says of the ticket it is kept for, and since when.
CategoryOf(s) ==
  IF Resolved(s) THEN "done" ELSE IF Paused(s) THEN "waiting" ELSE IF s.responded THEN "open" ELSE "new"

HaltedAt(s) == IF Resolved(s) THEN s.resolved ELSE IF Paused(s) THEN s.paused ELSE 0

\* A status between two operations.
Sound(s) ==
  /\ ~(Paused(s) /\ Resolved(s))
  /\ Paused(s) \/ Resolved(s) => s.responded
  /\ s.resolve = Resolve[s.tier] + s.total
  /\ s.met <=> Resolved(s) /\ s.resolved - s.total <= Resolve[s.tier]

\* The time off between two instants of a ticket in a category.
Gap(cat, from, to) == IF cat \in {"waiting", "done"} THEN to - from ELSE 0

\* The category after i of the events, and the instant it was entered.
CatAt(s, q, i) == IF i = 0 THEN CategoryOf(s) ELSE q[i].cat
Instant(s, q, i) == IF i = 0 THEN HaltedAt(s) ELSE q[i].at

\* An event that a ticket of that category may send.
Follows(e, cat) ==
  /\ e.kind = "created" => e.cat = "new" /\ cat = "new"
  /\ e.kind = "entered" => <<cat, e.cat>> \in Moves /\ (e.initial <=> cat = "new")
  /\ e.kind = "priority" => e.cat = cat

\* The events lead from what the status shows to the ticket as it is.
Leads(s, q, time, cat) ==
  /\ \A i \in 1 .. Len(q) : Follows(q[i], CatAt(s, q, i - 1)) /\ Instant(s, q, i - 1) <= Instant(s, q, i)
  /\ Instant(s, q, Len(q)) <= time
  /\ CatAt(s, q, Len(q)) = cat

\* The time off adds up: f[i] is what it was after i of the events.
Accounts(s, q, time, cat, away) ==
  \E f \in [0 .. Len(q) -> Nat] :
    /\ f[0] = s.total
    /\ \A i \in 1 .. Len(q) : f[i] = f[i - 1] + Gap(CatAt(s, q, i - 1), Instant(s, q, i - 1), Instant(s, q, i))
    /\ away = f[Len(q)] + Gap(cat, Instant(s, q, Len(q)), time)

\* The creation comes first, and once.
Born(s, q) ==
  /\ \A i \in 1 .. Len(q) : q[i].kind = "created" => i = 1 /\ ~s.exists
  /\ ~s.exists => s.total = 0 /\ q # <<>> /\ q[1].kind = "created"

Tracks(s, q, time, cat, away) ==
  Sound(s) /\ Leads(s, q, time, cat) /\ Accounts(s, q, time, cat, away) /\ Born(s, q)

\* A ticket concluded is reopened before it waits.
ReopenedFirst == <<"done", "waiting">> \notin Moves

\* The status an event leads to, handled alone; the tier is the one the call
\* takes for it.
Handled(e, s, plan, tier) ==
  LET seen  == [s EXCEPT !.responded = @ \/ Responds(e, s)]
      taken == [e EXCEPT !.tier = tier]
  IN IF plan = "none" THEN seen ELSE Written(plan, seen, seen, taken)

\* An event leaves the status at its category, with no time lost.
Absorbs(s, e, r) ==
  /\ Sound(r) /\ r.exists
  /\ CategoryOf(r) = e.cat
  /\ HaltedAt(r) <= e.at
  /\ \A t \in Nat : e.at <= t =>
       r.total + Gap(e.cat, HaltedAt(r), t)
         = (s.total + Gap(CategoryOf(s), HaltedAt(s), e.at)) + Gap(e.cat, e.at, t)

LEMMA InstantsOf ==
  ASSUME NEW s \in Status
  PROVE  HaltedAt(s) \in Nat /\ CategoryOf(s) \in Categories
BY DEF HaltedAt, CategoryOf, Categories, Paused, Resolved, Status, Instants, None

\* The two ways an event is absorbed: it starts or stops the clock at its
\* instant, or leaves it as it is.
LEMMA ClockTurns ==
  ASSUME NEW s \in Status, NEW e \in Event, NEW r, Sound(r), r.exists, CategoryOf(r) = e.cat,
         HaltedAt(r) = e.at \/ (HaltedAt(r) = 0 /\ e.cat \in {"new", "open"}),
         r.total = s.total + Gap(CategoryOf(s), HaltedAt(s), e.at)
  PROVE  Absorbs(s, e, r)
<1>1. e.at \in Nat
  BY DEF Event
<1>2. HaltedAt(r) <= e.at
  BY <1>1
<1>3. ASSUME NEW t \in Nat PROVE Gap(e.cat, HaltedAt(r), t) = Gap(e.cat, e.at, t)
  BY DEF Gap
<1> QED BY <1>2, <1>3 DEF Absorbs

LEMMA ClockGoesOn ==
  ASSUME NEW s \in Status, NEW e \in Event, NEW r, Sound(r), r.exists, CategoryOf(r) = e.cat,
         HaltedAt(r) = HaltedAt(s), HaltedAt(s) <= e.at, r.total = s.total,
         CategoryOf(s) = e.cat \/ (CategoryOf(s) \in {"new", "open"} /\ e.cat \in {"new", "open"})
  PROVE  Absorbs(s, e, r)
<1> DEFINE from == HaltedAt(s)
<1>1. e.at \in Nat /\ from \in Nat /\ s.total \in Nat
  BY InstantsOf DEF Event, Status
<1>2. ASSUME NEW t \in Nat
      PROVE  s.total + Gap(e.cat, from, t) = (s.total + Gap(CategoryOf(s), from, e.at)) + Gap(e.cat, e.at, t)
  <2> HIDE DEF from
  <2>1. CASE e.cat \in {"waiting", "done"}
    <3>1. Gap(e.cat, from, t) = t - from /\ Gap(CategoryOf(s), from, e.at) = e.at - from /\ Gap(e.cat, e.at, t) = t - e.at
      BY <2>1 DEF Gap
    <3> QED BY <1>1, <3>1
  <2>2. CASE e.cat \notin {"waiting", "done"}
    <3>1. Gap(e.cat, from, t) = 0 /\ Gap(CategoryOf(s), from, e.at) = 0 /\ Gap(e.cat, e.at, t) = 0
      BY <2>2 DEF Gap
    <3> QED BY <1>1, <3>1
  <2> QED BY <2>1, <2>2
<1> QED BY <1>2 DEF Absorbs

LEMMA HandledIsRight ==
  ASSUME ReopenedFirst, NEW s \in Status, NEW e \in Event, NEW tier \in Tiers, Sound(s),
         Follows(e, CategoryOf(s)), HaltedAt(s) <= e.at, e.kind = "created" <=> ~s.exists,
         ~s.exists => s.total = 0,
         NEW plan \in Operations \cup {"none"},
         plan = Plan(e, s),
         e.kind = "priority" => tier = ticket.tier
  PROVE  Absorbs(s, e, Handled(e, s, plan, tier))
<1> DEFINE r == Handled(e, s, plan, tier)
           seen == [s EXCEPT !.responded = s.responded \/ Responds(e, s)]
           taken == [e EXCEPT !.tier = tier]
<1>1. /\ seen \in Status /\ seen.exists = s.exists /\ seen.tier = s.tier /\ seen.resolve = s.resolve
      /\ seen.total = s.total /\ seen.paused = s.paused /\ seen.resolved = s.resolved /\ seen.met = s.met
      /\ seen.breached = s.breached
      /\ seen.responded = (s.responded \/ Responds(e, s))
  BY DEF Status, Responds
<1>2. taken.at = e.at /\ taken.tier = tier
  BY DEF Event
<1>3. r = IF plan = "none" THEN seen ELSE Written(plan, seen, seen, taken)
  BY DEF Handled
<1>4. /\ e.at \in Nat /\ s.total \in Nat /\ s.resolve \in Nat /\ s.tier \in Tiers /\ Resolve[s.tier] \in Nat
      /\ Resolve[tier] \in Nat
      /\ s.paused \in Nat \cup {-1} /\ s.resolved \in Nat \cup {-1}
      /\ e.kind \in {"created", "entered", "priority"} /\ e.cat \in {"new", "open", "waiting", "done"}
      /\ s.responded \in BOOLEAN /\ s.met \in BOOLEAN /\ s.exists \in BOOLEAN
  BY SlaAssumption DEF Event, Status, Instants, None, Categories
<1> SUFFICES Absorbs(s, e, r)
  OBVIOUS
<1> HIDE DEF seen, taken, r
<1>5. CASE e.kind = "created"
  <2>1. ~s.exists /\ plan = "start" /\ CategoryOf(s) = "new" /\ e.cat = "new" /\ s.total = 0
    BY <1>5 DEF Plan, Follows
  <2>2. r = Started(tier)
    BY <1>1, <1>2, <1>3, <2>1 DEF Written
  <2>3. /\ r.exists /\ r.tier = tier /\ r.resolve = Resolve[tier] /\ r.total = 0
        /\ r.paused = None /\ r.resolved = None /\ ~r.responded /\ ~r.met
    BY <2>2 DEF Started
  <2>4. Sound(r) /\ CategoryOf(r) = "new" /\ HaltedAt(r) = 0
    BY <1>4, <2>3 DEF Sound, CategoryOf, HaltedAt, Paused, Resolved, None
  <2>5. Gap("new", HaltedAt(s), e.at) = 0
    BY DEF Gap
  <2> QED BY <2>1, <2>3, <2>4, <2>5, ClockTurns
<1>6. CASE e.kind = "priority"
  <2>1. s.exists /\ e.cat = CategoryOf(s) /\ ~Responds(e, s)
    BY <1>4, <1>6 DEF Follows, Responds
  <2>2. seen = s
    BY <1>1, <2>1 DEF Status, seen
  <2>3. CASE plan = "none"
    <3>1. r = s
      BY <1>3, <2>2, <2>3
    <3>2. Absorbs(s, e, s)
      BY <2>1, ClockGoesOn
    <3> QED BY <3>1, <3>2
  <2>4. CASE plan # "none"
    <3>1. plan = "repolicy" /\ ~Resolved(s)
      BY <1>4, <1>6, <2>1, <2>4 DEF Plan
    <3>2. r = [s EXCEPT !.tier = tier, !.resolve = Resolve[tier] + s.total]
      BY <1>2, <1>3, <2>2, <3>1 DEF Written
    <3>3. /\ r.exists /\ r.tier = tier /\ r.resolve = Resolve[tier] + s.total /\ r.total = s.total
          /\ r.paused = s.paused /\ r.resolved = s.resolved /\ r.responded = s.responded /\ r.met = s.met
      BY <2>1, <3>2 DEF Status
    <3>4. Sound(r) /\ CategoryOf(r) = CategoryOf(s) /\ HaltedAt(r) = HaltedAt(s)
      BY <1>4, <3>1, <3>3 DEF Sound, CategoryOf, HaltedAt, Paused, Resolved, None
    <3> QED BY <2>1, <3>3, <3>4, ClockGoesOn
  <2> QED BY <2>3, <2>4
<1>7. CASE e.kind = "entered"
  <2>1. /\ s.exists /\ <<CategoryOf(s), e.cat>> \in Moves /\ e.cat # "new"
        /\ e.initial <=> CategoryOf(s) = "new"
    BY <1>7, SlaAssumption DEF Follows
  <2>2. seen.responded
    BY <1>1, <1>4, <1>7, <2>1 DEF Responds, CategoryOf, Sound
  <2>3. CASE plan = "none"
    <3>1. r = seen
      BY <1>3, <2>3
    <3>2. CategoryOf(seen) = e.cat
      BY <1>1, <1>4, <1>7, <2>1, <2>2, <2>3 DEF Plan, CategoryOf, Paused, Resolved
    <3>3. CategoryOf(s) = e.cat \/ (CategoryOf(s) \in {"new", "open"} /\ e.cat \in {"new", "open"})
      BY <1>1, <1>4, <2>2, <3>2 DEF CategoryOf, Paused, Resolved
    <3>4. HaltedAt(seen) = HaltedAt(s)
      BY <1>1 DEF HaltedAt, Paused, Resolved
    <3>5. Sound(seen)
      BY <1>1, <1>4 DEF Sound, Paused, Resolved
    <3> QED BY <1>1, <2>1, <3>1, <3>2, <3>3, <3>4, <3>5, ClockGoesOn
  <2>4. CASE plan = "conclude"
    <3>1. e.cat = "done" /\ ~Resolved(s)
      BY <1>4, <1>7, <2>1, <2>4 DEF Plan
    <3> DEFINE shift == Counted(s.paused, e.at)
               met == e.at <= s.resolve + shift
    <3>2. r = [seen EXCEPT !.met = met, !.breached = seen.breached \/ ~met, !.resolved = e.at,
                            !.resolve = s.resolve + shift, !.total = s.total + shift, !.paused = None]
      BY <1>1, <1>2, <1>3, <2>4 DEF Written, Concluded
    <3>3. /\ r.exists /\ r.tier = s.tier /\ r.resolve = s.resolve + shift /\ r.total = s.total + shift
          /\ r.paused = None /\ r.resolved = e.at /\ r.responded /\ (r.met <=> met)
      BY <1>1, <2>1, <2>2, <3>2 DEF Status
    <3>4. shift = Gap(CategoryOf(s), HaltedAt(s), e.at) /\ shift \in Nat
      BY <1>4, <3>1 DEF Counted, Gap, CategoryOf, HaltedAt, Paused, Resolved, None
    <3>5. Sound(r) /\ CategoryOf(r) = e.cat /\ HaltedAt(r) = e.at
      <4> HIDE DEF shift
      <4> QED BY <1>4, <3>1, <3>3, <3>4 DEF Sound, CategoryOf, HaltedAt, Paused, Resolved, None
    <3> HIDE DEF shift
    <3> QED BY <3>1, <3>3, <3>4, <3>5, ClockTurns
  <2>5. CASE plan = "reopen"
    <3>1. e.cat = "open" /\ Resolved(s)
      BY <1>4, <1>7, <2>1, <2>5 DEF Plan, CategoryOf, ReopenedFirst
    <3> DEFINE shift == Counted(s.resolved, e.at)
    <3>2. r = [seen EXCEPT !.resolve = s.resolve + shift, !.total = s.total + shift, !.resolved = None, !.met = FALSE]
      BY <1>1, <1>2, <1>3, <2>5 DEF Written
    <3>3. /\ r.exists /\ r.tier = s.tier /\ r.resolve = s.resolve + shift /\ r.total = s.total + shift
          /\ r.paused = s.paused /\ r.resolved = None /\ r.responded /\ r.met = FALSE
      BY <1>1, <2>1, <2>2, <3>2 DEF Status
    <3>4. shift = Gap(CategoryOf(s), HaltedAt(s), e.at) /\ shift \in Nat
      BY <1>4, <3>1 DEF Counted, Gap, CategoryOf, HaltedAt, Paused, Resolved, None
    <3>5. Sound(r) /\ CategoryOf(r) = e.cat /\ HaltedAt(r) = 0
      <4> HIDE DEF shift
      <4> QED BY <1>4, <3>1, <3>3, <3>4 DEF Sound, CategoryOf, HaltedAt, Paused, Resolved, None
    <3> HIDE DEF shift
    <3> QED BY <3>1, <3>3, <3>4, <3>5, ClockTurns
  <2>6. CASE plan = "pause"
    <3>1. e.cat = "waiting" /\ ~Resolved(s) /\ ~Paused(s)
      BY <1>4, <1>7, <2>1, <2>6 DEF Plan
    <3>2. r = [seen EXCEPT !.paused = e.at]
      BY <1>1, <1>2, <1>3, <2>6 DEF Written
    <3>3. /\ r.exists /\ r.tier = s.tier /\ r.resolve = s.resolve /\ r.total = s.total
          /\ r.paused = e.at /\ r.resolved = s.resolved /\ r.responded /\ r.met = s.met
      BY <1>1, <2>1, <2>2, <3>2 DEF Status
    <3>4. Sound(r) /\ CategoryOf(r) = e.cat /\ HaltedAt(r) = e.at
      BY <1>4, <3>1, <3>3 DEF Sound, CategoryOf, HaltedAt, Paused, Resolved, None
    <3>5. Gap(CategoryOf(s), HaltedAt(s), e.at) = 0
      BY <3>1 DEF Gap, CategoryOf
    <3> QED BY <1>4, <3>3, <3>4, <3>5, ClockTurns
  <2>7. CASE plan = "resume"
    <3>1. e.cat = "open" /\ ~Resolved(s) /\ Paused(s)
      BY <1>4, <1>7, <2>1, <2>7 DEF Plan
    <3> DEFINE shift == Counted(s.paused, e.at)
    <3>2. r = [seen EXCEPT !.resolve = s.resolve + shift, !.total = s.total + shift, !.paused = None]
      BY <1>1, <1>2, <1>3, <2>7 DEF Written
    <3>3. /\ r.exists /\ r.tier = s.tier /\ r.resolve = s.resolve + shift /\ r.total = s.total + shift
          /\ r.paused = None /\ r.resolved = s.resolved /\ r.responded /\ r.met = s.met
      BY <1>1, <2>1, <2>2, <3>2 DEF Status
    <3>4. shift = Gap(CategoryOf(s), HaltedAt(s), e.at) /\ shift \in Nat
      BY <1>4, <3>1 DEF Counted, Gap, CategoryOf, HaltedAt, Paused, Resolved, None
    <3>5. Sound(r) /\ CategoryOf(r) = e.cat /\ HaltedAt(r) = 0
      <4> HIDE DEF shift
      <4> QED BY <1>4, <3>1, <3>3, <3>4 DEF Sound, CategoryOf, HaltedAt, Paused, Resolved, None
    <3> HIDE DEF shift
    <3> QED BY <3>1, <3>3, <3>4, <3>5, ClockTurns
  <2>8. plan \in {"none", "conclude", "reopen", "pause", "resume"}
    BY <1>7, <2>1 DEF Plan
  <2> QED BY <2>3, <2>4, <2>5, <2>6, <2>7, <2>8
<1> QED BY <1>4, <1>5, <1>6, <1>7

LEMMA InstantType ==
  ASSUME NEW s \in Status, NEW q \in Seq(Event), NEW i \in 0 .. Len(q)
  PROVE  Instant(s, q, i) \in Nat /\ CatAt(s, q, i) \in Categories
<1>1. CASE i = 0
  BY <1>1, InstantsOf DEF Instant, CatAt
<1>2. CASE i # 0
  <2>1. q[i] \in Event
    BY <1>2
  <2> QED BY <1>2, <2>1 DEF Instant, CatAt, Event
<1> QED BY <1>1, <1>2

\* Time passes.
LEMMA TracksTime ==
  ASSUME NEW s \in Status, NEW q \in Seq(Event), NEW time \in Nat, NEW cat, NEW away \in Nat,
         Tracks(s, q, time, cat, away)
  PROVE  Tracks(s, q, time + 1, cat, IF cat \in {"waiting", "done"} THEN away + 1 ELSE away)
<1> DEFINE last == Instant(s, q, Len(q))
<1>1. last \in Nat
  BY InstantType
<1>2. Leads(s, q, time + 1, cat)
  BY <1>1 DEF Tracks, Leads
<1>3. PICK f \in [0 .. Len(q) -> Nat] :
        /\ f[0] = s.total
        /\ \A i \in 1 .. Len(q) : f[i] = f[i - 1] + Gap(CatAt(s, q, i - 1), Instant(s, q, i - 1), Instant(s, q, i))
        /\ away = f[Len(q)] + Gap(cat, last, time)
  BY DEF Tracks, Accounts
<1>4. f[Len(q)] \in Nat
  OBVIOUS
<1>5. (IF cat \in {"waiting", "done"} THEN away + 1 ELSE away) = f[Len(q)] + Gap(cat, last, time + 1)
  <2> HIDE DEF last
  <2>1. CASE cat \in {"waiting", "done"}
    BY <1>1, <1>3, <1>4, <2>1 DEF Gap
  <2>2. CASE cat \notin {"waiting", "done"}
    BY <1>1, <1>3, <1>4, <2>2 DEF Gap
  <2> QED BY <2>1, <2>2
<1>6. Accounts(s, q, time + 1, cat, IF cat \in {"waiting", "done"} THEN away + 1 ELSE away)
  BY <1>3, <1>5 DEF Accounts
<1> QED BY <1>2, <1>6 DEF Tracks

\* The ticket tells an event.
LEMMA TracksAppend ==
  ASSUME NEW s \in Status, NEW q \in Seq(Event), NEW time \in Nat, NEW cat, NEW away \in Nat,
         Tracks(s, q, time, cat, away),
         NEW e \in Event, e.kind # "created", e.at = time, Follows(e, cat)
  PROVE  Tracks(s, Append(q, e), time, e.cat, away)
<1> DEFINE p == Append(q, e)
           n == Len(q)
<1>1. p \in Seq(Event) /\ Len(p) = n + 1 /\ n \in Nat /\ p[n + 1] = e /\ \A i \in 1 .. n : p[i] = q[i]
  OBVIOUS
<1> HIDE DEF p
<1>2. \A i \in 0 .. n : CatAt(s, p, i) = CatAt(s, q, i) /\ Instant(s, p, i) = Instant(s, q, i)
  BY <1>1 DEF CatAt, Instant
<1>3. CatAt(s, p, n + 1) = e.cat /\ Instant(s, p, n + 1) = time
  BY <1>1 DEF CatAt, Instant
<1>4. Instant(s, q, n) \in Nat /\ Instant(s, q, n) <= time /\ CatAt(s, q, n) = cat
  BY <1>1, InstantType DEF Tracks, Leads
<1>5. Leads(s, p, time, e.cat)
  <2>1. ASSUME NEW i \in 1 .. Len(p)
        PROVE  Follows(p[i], CatAt(s, p, i - 1)) /\ Instant(s, p, i - 1) <= Instant(s, p, i)
    <3>1. CASE i \in 1 .. n
      <4>1. i - 1 \in 0 .. n /\ i \in 0 .. n /\ p[i] = q[i]
        BY <1>1, <3>1
      <4> QED BY <1>2, <3>1, <4>1 DEF Tracks, Leads
    <3>2. CASE i = n + 1
      <4>1. i - 1 = n /\ n \in 0 .. n
        BY <1>1, <3>2
      <4> QED BY <1>1, <1>2, <1>3, <1>4, <3>2, <4>1
    <3> QED BY <1>1, <3>1, <3>2
  <2> QED BY <1>1, <1>3, <2>1 DEF Leads
<1>6. Accounts(s, p, time, e.cat, away)
  <2>1. PICK f \in [0 .. n -> Nat] :
          /\ f[0] = s.total
          /\ \A i \in 1 .. n : f[i] = f[i - 1] + Gap(CatAt(s, q, i - 1), Instant(s, q, i - 1), Instant(s, q, i))
          /\ away = f[n] + Gap(cat, Instant(s, q, n), time)
    BY DEF Tracks, Accounts
  <2> DEFINE g == [i \in 0 .. Len(p) |-> IF i = n + 1 THEN away ELSE f[i]]
  <2>2. g \in [0 .. Len(p) -> Nat] /\ (\A i \in 0 .. n : g[i] = f[i]) /\ g[n + 1] = away
    BY <1>1
  <2> HIDE DEF g
  <2>3. g[0] = s.total
    BY <1>1, <2>1, <2>2
  <2>4. ASSUME NEW i \in 1 .. Len(p)
        PROVE  g[i] = g[i - 1] + Gap(CatAt(s, p, i - 1), Instant(s, p, i - 1), Instant(s, p, i))
    <3>1. CASE i \in 1 .. n
      <4>1. i - 1 \in 0 .. n /\ i \in 0 .. n
        BY <1>1, <3>1
      <4> QED BY <1>2, <2>1, <2>2, <3>1, <4>1
    <3>2. CASE i = n + 1
      <4>1. i - 1 = n /\ n \in 0 .. n
        BY <1>1, <3>2
      <4> QED BY <1>1, <1>2, <1>3, <1>4, <2>1, <2>2, <3>2, <4>1
    <3> QED BY <1>1, <3>1, <3>2
  <2>5. Gap(e.cat, time, time) = 0
    BY DEF Gap
  <2>6. away = g[Len(p)] + Gap(e.cat, Instant(s, p, Len(p)), time)
    BY <1>1, <1>3, <2>2, <2>5
  <2> QED BY <2>2, <2>3, <2>4, <2>6 DEF Accounts
<1>7. Born(s, p)
  BY <1>1 DEF Tracks, Born
<1> QED BY <1>5, <1>6, <1>7 DEF Tracks, p

\* An event is taken and absorbed.
LEMMA TracksAbsorbed ==
  ASSUME NEW s \in Status, NEW q \in Seq(Event), NEW time \in Nat, NEW cat, NEW away \in Nat,
         Tracks(s, q, time, cat, away),
         q # <<>>, NEW r \in Status, Absorbs(s, q[1], r)
  PROVE  Tracks(r, Tail(q), time, cat, away)
<1> DEFINE p == Tail(q)
           n == Len(p)
           e == q[1]
<1>1. p \in Seq(Event) /\ n \in Nat /\ Len(q) = n + 1 /\ e \in Event /\ \A i \in 1 .. n : p[i] = q[i + 1]
  OBVIOUS
<1> HIDE DEF p, e
<1>2. \A i \in 0 .. n : CatAt(r, p, i) = CatAt(s, q, i + 1)
  BY <1>1 DEF CatAt, Absorbs, e
<1>3. \A i \in 1 .. n : Instant(r, p, i) = Instant(s, q, i + 1)
  BY <1>1 DEF Instant
<1>4. Instant(r, p, 0) = HaltedAt(r) /\ HaltedAt(r) <= e.at /\ HaltedAt(r) \in Nat /\ e.at \in Nat
  BY <1>1, InstantsOf DEF Instant, Absorbs, e, Event
<1>5. Instant(s, q, 1) = e.at /\ CatAt(s, q, 1) = e.cat /\ Instant(s, q, 0) = HaltedAt(s) /\ CatAt(s, q, 0) = CategoryOf(s)
  BY DEF Instant, CatAt, e
<1>6. \A i \in 0 .. n : Instant(s, q, i + 1) \in Nat /\ Instant(r, p, i) \in Nat
  <2>1. ASSUME NEW i \in 0 .. n PROVE i + 1 \in 0 .. Len(q) /\ i \in 0 .. Len(p)
    BY <1>1
  <2> QED BY <1>1, <2>1, InstantType
<1>7. \A i \in 0 .. n : Instant(r, p, i) <= Instant(s, q, i + 1)
  <2>1. ASSUME NEW i \in 1 .. n PROVE Instant(r, p, i) <= Instant(s, q, i + 1)
    <3>1. i \in 0 .. n
      BY <1>1
    <3> QED BY <1>3, <1>6, <3>1
  <2>2. Instant(r, p, 0) <= Instant(s, q, 0 + 1)
    BY <1>4, <1>5
  <2> QED BY <1>1, <2>1, <2>2
<1>8. Leads(r, p, time, cat)
  <2>1. ASSUME NEW i \in 1 .. n
        PROVE  Follows(p[i], CatAt(r, p, i - 1)) /\ Instant(r, p, i - 1) <= Instant(r, p, i)
    <3>1. i - 1 \in 0 .. n /\ i + 1 \in 1 .. Len(q) /\ (i - 1) + 1 = i /\ (i + 1) - 1 = i /\ i \in 0 .. n
      BY <1>1
    <3>2. Follows(q[i + 1], CatAt(s, q, i)) /\ Instant(s, q, i) <= Instant(s, q, i + 1)
      BY <3>1 DEF Tracks, Leads
    <3>3. Instant(r, p, i - 1) <= Instant(s, q, i) /\ Instant(r, p, i - 1) \in Nat /\ Instant(s, q, i) \in Nat
      BY <1>6, <1>7, <3>1
    <3>4. Instant(s, q, i + 1) \in Nat
      BY <1>6, <3>1
    <3> QED BY <1>1, <1>2, <1>3, <3>1, <3>2, <3>3, <3>4
  <2>2. n \in 0 .. n /\ Instant(s, q, n + 1) <= time /\ CatAt(s, q, n + 1) = cat
    BY <1>1 DEF Tracks, Leads
  <2>3. Instant(r, p, n) <= time
    BY <1>6, <1>7, <2>2
  <2> QED BY <1>1, <1>2, <2>1, <2>2, <2>3 DEF Leads
<1>9. Accounts(r, p, time, cat, away)
  <2>1. PICK f \in [0 .. n + 1 -> Nat] :
          /\ f[0] = s.total
          /\ \A i \in 1 .. n + 1 : f[i] = f[i - 1] + Gap(CatAt(s, q, i - 1), Instant(s, q, i - 1), Instant(s, q, i))
          /\ away = f[n + 1] + Gap(cat, Instant(s, q, n + 1), time)
    BY <1>1 DEF Tracks, Accounts
  <2>2. f[1] = s.total + Gap(CategoryOf(s), HaltedAt(s), e.at)
    <3>1. 1 \in 1 .. n + 1 /\ 1 - 1 = 0
      BY <1>1
    <3> QED BY <1>5, <2>1, <3>1
  <2>3. \A t \in Nat : e.at <= t => r.total + Gap(e.cat, HaltedAt(r), t) = f[1] + Gap(e.cat, e.at, t)
    BY <2>2 DEF Absorbs, e
  <2> DEFINE g == [i \in 0 .. n |-> IF i = 0 THEN r.total ELSE f[i + 1]]
  <2>4. g \in [0 .. n -> Nat] /\ (\A i \in 1 .. n : g[i] = f[i + 1]) /\ g[0] = r.total
    <3>1. r.total \in Nat
      BY DEF Status
    <3>2. \A i \in 0 .. n : i + 1 \in 0 .. n + 1
      BY <1>1
    <3> QED BY <1>1, <3>1, <3>2
  <2> HIDE DEF g
  <2>5. ASSUME NEW i \in 1 .. n
        PROVE  g[i] = g[i - 1] + Gap(CatAt(r, p, i - 1), Instant(r, p, i - 1), Instant(r, p, i))
    <3>1. i + 1 \in 1 .. n + 1 /\ (i + 1) - 1 = i /\ (i - 1) + 1 = i /\ i - 1 \in 0 .. n /\ i \in 0 .. n
      BY <1>1
    <3>2. f[i + 1] = f[i] + Gap(CatAt(s, q, i), Instant(s, q, i), Instant(s, q, i + 1))
      BY <2>1, <3>1
    <3>3. CASE i = 1
      <4>1. Instant(s, q, 1) <= Instant(s, q, 1 + 1)
        <5>1. 1 + 1 \in 1 .. Len(q) /\ (1 + 1) - 1 = 1
          BY <1>1, <3>3
        <5> QED BY <5>1 DEF Tracks, Leads
      <4>2. r.total + Gap(e.cat, HaltedAt(r), Instant(s, q, 1 + 1)) = f[1] + Gap(e.cat, e.at, Instant(s, q, 1 + 1))
        <5>1. Instant(s, q, 1 + 1) \in Nat
          BY <1>6, <3>1, <3>3
        <5> QED BY <1>5, <2>3, <4>1, <5>1
      <4>3. CatAt(r, p, 0) = e.cat /\ Instant(r, p, 1) = Instant(s, q, 1 + 1)
        BY <1>1, <1>2, <1>3, <1>5, <3>3
      <4> QED BY <1>4, <1>5, <2>4, <3>2, <3>3, <4>2, <4>3
    <3>4. CASE i # 1
      <4>1. i - 1 \in 1 .. n
        BY <1>1, <3>4
      <4>2. g[i - 1] = f[i] /\ g[i] = f[i + 1] /\ Instant(r, p, i - 1) = Instant(s, q, i)
        BY <1>3, <2>4, <3>1, <4>1
      <4> QED BY <1>2, <1>3, <3>1, <3>2, <4>2
    <3> QED BY <3>3, <3>4
  <2>6. away = g[n] + Gap(cat, Instant(r, p, n), time)
    <3>1. CASE n = 0
      <4>1. e.at <= time /\ cat = e.cat
        BY <1>1, <1>5, <3>1 DEF Tracks, Leads
      <4>2. r.total + Gap(e.cat, HaltedAt(r), time) = f[1] + Gap(e.cat, e.at, time)
        BY <2>3, <4>1
      <4> QED BY <1>4, <1>5, <2>1, <2>4, <3>1, <4>1, <4>2
    <3>2. CASE n # 0
      <4>1. n \in 1 .. n
        BY <1>1, <3>2
      <4> QED BY <1>3, <2>1, <2>4, <4>1
    <3> QED BY <3>1, <3>2
  <2> QED BY <1>1, <2>4, <2>5, <2>6 DEF Accounts
<1>10. Born(r, p)
  <2>1. ASSUME NEW i \in 1 .. n PROVE p[i].kind # "created"
    <3>1. i + 1 \in 1 .. Len(q) /\ i + 1 # 1
      BY <1>1
    <3> QED BY <1>1, <3>1 DEF Tracks, Born
  <2> QED BY <2>1 DEF Born, Absorbs
<1>11. Sound(r)
  BY DEF Absorbs
<1> QED BY <1>8, <1>9, <1>10, <1>11 DEF Tracks, p

\* Whether a breach is recorded is nothing to the clock.
SameClock(s, r) ==
  /\ s.exists = r.exists /\ s.tier = r.tier /\ s.resolve = r.resolve /\ s.total = r.total
  /\ s.paused = r.paused /\ s.resolved = r.resolved /\ s.responded = r.responded /\ s.met = r.met

LEMMA TracksSameClock ==
  ASSUME NEW s \in Status, NEW r \in Status, SameClock(s, r),
         NEW q, NEW time, NEW cat, NEW away
  PROVE  /\ Sound(s) => Sound(r)
         /\ Tracks(s, q, time, cat, away) => Tracks(r, q, time, cat, away)
<1>1. CategoryOf(r) = CategoryOf(s) /\ HaltedAt(r) = HaltedAt(s) /\ (Sound(s) => Sound(r)) /\ r.exists = s.exists /\ r.total = s.total
  BY DEF SameClock, CategoryOf, HaltedAt, Sound, Paused, Resolved
<1>2. \A i : CatAt(r, q, i) = CatAt(s, q, i) /\ Instant(r, q, i) = Instant(s, q, i)
  BY <1>1 DEF CatAt, Instant
<1>3. Leads(s, q, time, cat) => Leads(r, q, time, cat)
  BY <1>2 DEF Leads
<1>4. Accounts(s, q, time, cat, away) => Accounts(r, q, time, cat, away)
  BY <1>1, <1>2 DEF Accounts
<1>5. Born(s, q) => Born(r, q)
  BY <1>1 DEF Born
<1> QED BY <1>1, <1>3, <1>4, <1>5 DEF Tracks

\* What the status will be once a call is done with its event.
ResultOf(s, c) ==
  LET seen == [s EXCEPT !.responded = @ \/ c.pc = "respond"]
  IN IF c.pc \in {"respond", "read", "write"} /\ c.todo # "none"
       THEN Written(c.todo, seen, seen, c.event) ELSE seen

\* A call that has yet to write finds what it planned on.
Prepared(s, c) ==
  /\ c.pc = "respond" => s.exists
  /\ c.pc \in {"respond", "read", "write"} /\ c.todo # "none" =>
       Holds(c.todo, s, c.event.tier) /\ (c.todo = "start" <=> ~s.exists)
  /\ c.pc = "write" => SameClock(c.read, s)

AllIdle == \A h \in Handlers : handler[h].pc = "idle"

Current(s) == Tracks(s, queue, now, ticket.cat, off)

ClockInv ==
  inOrder =>
    /\ Sound(status)
    /\ AllIdle => Current(status)
    /\ \A h \in Handlers :
         handler[h].pc # "idle" =>
           /\ Current(ResultOf(status, handler[h]))
           /\ Prepared(status, handler[h])
           /\ \A g \in Handlers : handler[g].pc # "idle" => g = h

\* A call that exists, in the types: what it will write is an operation.
Calls == {c \in Handler : c.pc \in {"read", "write", "jobs"} => c.todo \in Operations}

LEMMA HandlersAreCalls ==
  ASSUME TypeInv, NEW h \in Handlers
  PROVE  handler[h] \in Calls
BY DEF TypeInv, SlaTypeOK, Busy, Calls

LEMMA SeenIs ==
  ASSUME NEW s \in Status, NEW c \in Calls
  PROVE  /\ [s EXCEPT !.responded = s.responded \/ c.pc = "respond"] \in Status
         /\ c.pc = "respond" => [s EXCEPT !.responded = s.responded \/ c.pc = "respond"] = [s EXCEPT !.responded = TRUE]
         /\ c.pc # "respond" => [s EXCEPT !.responded = s.responded \/ c.pc = "respond"] = s
<1>1. s.responded \in BOOLEAN
  BY DEF Status
<1>2. CASE c.pc = "respond"
  <2>1. (s.responded \/ c.pc = "respond") = TRUE
    BY <1>1, <1>2
  <2> QED BY <1>2, <2>1 DEF Status
<1>3. CASE c.pc # "respond"
  <2>1. (s.responded \/ c.pc = "respond") = s.responded
    BY <1>1, <1>3
  <2>2. [s EXCEPT !.responded = s.responded] = s
    BY DEF Status
  <2> QED BY <1>3, <2>1, <2>2
<1> QED BY <1>2, <1>3

LEMMA ResultType ==
  ASSUME NEW s \in Status, NEW c \in Calls
  PROVE  ResultOf(s, c) \in Status
<1> DEFINE seen == [s EXCEPT !.responded = s.responded \/ c.pc = "respond"]
<1>1. seen \in Status
  BY SeenIs
<1>2. ResultOf(s, c) = IF c.pc \in {"respond", "read", "write"} /\ c.todo # "none"
                         THEN Written(c.todo, seen, seen, c.event) ELSE seen
  BY DEF ResultOf
<1> HIDE DEF seen
<1>3. c.event \in Event /\ c.todo \in Operations \cup {"none"}
  BY DEF Calls, Handler
<1>4. c.todo # "none" => Written(c.todo, seen, seen, c.event) \in Status
  BY <1>1, <1>3, WrittenType
<1> QED BY <1>1, <1>2, <1>4

\* An operation that read what it writes on.
LEMMA WrittenOnClock ==
  ASSUME NEW op \in Operations, NEW s \in Status, NEW r \in Status, SameClock(s, r),
         NEW read \in Status, SameClock(read, s), NEW e \in Event
  PROVE  SameClock(Written(op, s, read, e), Written(op, r, r, e))
<1>1. CASE op = "start"
  BY <1>1 DEF Written, SameClock
<1>2. CASE op = "pause"
  BY <1>2 DEF Written, SameClock, Status
<1>3. CASE op = "resume"
  BY <1>3 DEF Written, SameClock, Status
<1>4. CASE op = "reopen"
  BY <1>4 DEF Written, SameClock, Status
<1>5. CASE op = "repolicy"
  BY <1>5 DEF Written, SameClock, Status
<1>6. CASE op = "conclude"
  <2> DEFINE shift == Counted(r.paused, e.at)
             met == e.at <= r.resolve + shift
             stop(x) == [x EXCEPT !.met = met, !.breached = x.breached \/ ~met, !.resolved = e.at,
                                  !.resolve = r.resolve + shift, !.total = x.total + shift, !.paused = None]
  <2>1. read.paused = r.paused /\ read.resolve = r.resolve
    BY DEF SameClock
  <2>2. Written(op, s, read, e) = stop(s) /\ Written(op, r, r, e) = stop(r)
    BY <1>6, <2>1 DEF Written, Concluded
  <2> HIDE DEF shift, met
  <2>3. SameClock(stop(s), stop(r))
    BY DEF SameClock, Status
  <2> QED BY <2>2, <2>3
<1> QED BY <1>1, <1>2, <1>3, <1>4, <1>5, <1>6 DEF Operations

LEMMA ResultOnClock ==
  ASSUME NEW s \in Status, NEW r \in Status, SameClock(s, r), NEW c \in Calls
  PROVE  /\ SameClock(ResultOf(s, c), ResultOf(r, c))
         /\ Prepared(s, c) => Prepared(r, c)
<1> DEFINE seen(x) == [x EXCEPT !.responded = x.responded \/ c.pc = "respond"]
<1>1. seen(s) \in Status /\ seen(r) \in Status
  BY SeenIs
<1>2. SameClock(seen(s), seen(r)) /\ SameClock(seen(s), seen(s))
  BY DEF SameClock, Status
<1>3. /\ ResultOf(s, c) = IF c.pc \in {"respond", "read", "write"} /\ c.todo # "none"
                            THEN Written(c.todo, seen(s), seen(s), c.event) ELSE seen(s)
      /\ ResultOf(r, c) = IF c.pc \in {"respond", "read", "write"} /\ c.todo # "none"
                            THEN Written(c.todo, seen(r), seen(r), c.event) ELSE seen(r)
  BY DEF ResultOf
<1> HIDE DEF seen
<1>4. c.event \in Event /\ c.todo \in Operations \cup {"none"}
  BY DEF Calls, Handler
<1>5. c.todo # "none" =>
        SameClock(Written(c.todo, seen(s), seen(s), c.event), Written(c.todo, seen(r), seen(r), c.event))
  BY <1>1, <1>2, <1>4, WrittenOnClock
<1>6. SameClock(ResultOf(s, c), ResultOf(r, c))
  BY <1>2, <1>3, <1>5
<1>7. Prepared(s, c) => Prepared(r, c)
  BY DEF Prepared, SameClock, Holds, Paused, Resolved
<1> QED BY <1>6, <1>7

-----------------------------------------------------------------------------
(* Steps of one call. *)

\* A step of the one call at work that leaves the expected status as it is.
LEMMA CallGoesOn ==
  ASSUME TypeInv, ClockInv, NEW h \in Handlers, handler[h].pc # "idle",
         UNCHANGED <<world, queue, inOrder>>, TypeInv',
         inOrder => Sound(status'),
         inOrder /\ handler'[h].pc # "idle" =>
           SameClock(ResultOf(status, handler[h]), ResultOf(status', handler'[h])) /\ Prepared(status', handler'[h]),
         inOrder /\ handler'[h].pc = "idle" => SameClock(ResultOf(status, handler[h]), status'),
         \A g \in Handlers : g # h => handler'[g] = handler[g]
  PROVE  ClockInv'
<1> SUFFICES ASSUME inOrder
             PROVE  /\ Sound(status')
                    /\ AllIdle' => Current(status)'
                    /\ \A g \in Handlers :
                         handler'[g].pc # "idle" =>
                           /\ Current(ResultOf(status, handler[g]))'
                           /\ Prepared(status', handler'[g])
                           /\ \A k \in Handlers : handler'[k].pc # "idle" => k = g
  <2>1. inOrder' = inOrder
    OBVIOUS
  <2> QED BY <2>1 DEF ClockInv
<1>1. /\ status \in Status /\ status' \in Status /\ handler[h] \in Calls /\ handler'[h] \in Calls
  <2>1. handler'[h] \in Calls
    BY DEF TypeInv, SlaTypeOK, Busy, Calls
  <2> QED BY <2>1, HandlersAreCalls DEF TypeInv, SlaTypeOK
<1>2. ResultOf(status, handler[h]) \in Status /\ ResultOf(status', handler'[h]) \in Status
  BY <1>1, ResultType
<1>3. Current(ResultOf(status, handler[h])) /\ \A g \in Handlers : g # h => handler[g].pc = "idle"
  BY DEF ClockInv
<1>4. \A g \in Handlers : g # h => handler'[g].pc = "idle"
  BY <1>3
<1>5. ASSUME NEW s, Current(s) PROVE Current(s)'
  BY <1>5 DEF Current, world
<1>6. handler'[h].pc # "idle" => Current(ResultOf(status', handler'[h]))
  BY <1>2, <1>3, TracksSameClock DEF Current
<1>7. handler'[h].pc = "idle" => Current(status')
  BY <1>1, <1>2, <1>3, TracksSameClock DEF Current
<1>8. AllIdle' => Current(status)'
  <2>1. ASSUME Current(status') PROVE Current(status)'
    BY <2>1 DEF Current, world
  <2> QED BY <1>7, <2>1 DEF AllIdle
<1>9. handler'[h].pc # "idle" => Current(ResultOf(status, handler[h]))'
  <2>1. ASSUME Current(ResultOf(status', handler'[h])) PROVE Current(ResultOf(status, handler[h]))'
    BY <2>1 DEF Current, world
  <2> QED BY <1>6, <2>1
<1> QED BY <1>4, <1>8, <1>9

LEMMA SameClockSymmetric ==
  ASSUME NEW s, NEW r, SameClock(s, r)
  PROVE  SameClock(r, s)
BY DEF SameClock

LEMMA RespondKeepsClock ==
  ASSUME TypeInv, TypeInv', ClockInv, NEW h \in Handlers, Respond(h)
  PROVE  ClockInv'
<1> DEFINE c == handler[h]
           d == handler'[h]
<1>1. /\ c.pc = "respond" /\ status' = [status EXCEPT !.responded = TRUE]
      /\ UNCHANGED <<world, queue, inOrder>>
      /\ \A g \in Handlers : g # h => handler'[g] = handler[g]
      /\ status \in Status /\ handler[h] \in Handler
  BY DEF Respond, Goes, Ends, TypeInv, SlaTypeOK
<1>2. /\ c \in Calls /\ d \in Calls /\ status' \in Status /\ handler \in [Handlers -> Handler]
  <2>1. d \in Calls
    BY DEF TypeInv, SlaTypeOK, Busy, Calls
  <2> QED BY <2>1, HandlersAreCalls DEF TypeInv, SlaTypeOK
<1>3. IF c.todo = "none" THEN d = Idle ELSE d = [c EXCEPT !.pc = "read"]
  BY <1>1, <1>2 DEF Respond, Goes, Ends
<1>4. inOrder => Sound(status) /\ Prepared(status, c)
  BY <1>1 DEF ClockInv
<1>5. /\ status'.responded /\ status'.exists = status.exists /\ status'.tier = status.tier
      /\ status'.resolve = status.resolve /\ status'.total = status.total /\ status'.paused = status.paused
      /\ status'.resolved = status.resolved /\ status'.met = status.met
  BY <1>1 DEF Status
<1>6. inOrder => Sound(status')
  BY <1>4, <1>5 DEF Sound, Paused, Resolved
<1>7. [status EXCEPT !.responded = status.responded \/ c.pc = "respond"] = status'
  BY <1>1, <1>2, SeenIs
<1>8. CASE c.todo = "none"
  <2>1. ResultOf(status, c) = status'
    BY <1>7, <1>8 DEF ResultOf
  <2>2. d.pc = "idle"
    BY <1>3, <1>8 DEF Idle
  <2>3. SameClock(ResultOf(status, c), status')
    BY <2>1 DEF SameClock
  <2> QED BY <1>1, <1>6, <2>2, <2>3, CallGoesOn
<1>9. CASE c.todo # "none"
  <2>1. d.pc = "read" /\ d.todo = c.todo /\ d.event = c.event
    BY <1>2, <1>3, <1>9 DEF Calls, Handler
  <2>2. ResultOf(status, c) = Written(c.todo, status', status', c.event)
    BY <1>1, <1>7, <1>9 DEF ResultOf
  <2>3. [status' EXCEPT !.responded = status'.responded \/ d.pc = "respond"] = status'
    BY <1>2, <2>1, SeenIs
  <2>4. ResultOf(status', d) = Written(c.todo, status', status', c.event)
    BY <1>9, <2>1, <2>3 DEF ResultOf
  <2>5. SameClock(ResultOf(status, c), ResultOf(status', d))
    BY <2>2, <2>4 DEF SameClock
  <2>6. inOrder => Prepared(status', d)
    BY <1>1, <1>4, <1>5, <1>9, <2>1 DEF Prepared, Holds, Paused, Resolved
  <2> QED BY <1>1, <1>6, <2>1, <2>5, <2>6, CallGoesOn
<1> QED BY <1>8, <1>9

LEMMA ReadKeepsClock ==
  ASSUME TypeInv, TypeInv', ClockInv, NEW h \in Handlers, Read(h)
  PROVE  ClockInv'
<1> DEFINE c == handler[h]
           d == handler'[h]
<1>1. /\ c.pc = "read" /\ status' = status
      /\ UNCHANGED <<world, queue, inOrder>>
      /\ \A g \in Handlers : g # h => handler'[g] = handler[g]
  BY DEF Read, Ends, TypeInv, SlaTypeOK
<1>2. /\ c \in Calls /\ c \in Handler /\ status \in Status /\ handler \in [Handlers -> Handler] /\ c.todo \in Operations
  BY <1>1, HandlersAreCalls DEF TypeInv, SlaTypeOK, Calls
<1>3. inOrder => Sound(status) /\ Prepared(status, c)
  BY <1>1 DEF ClockInv
<1>4. inOrder => d = [c EXCEPT !.pc = "write", !.read = status]
  <2>1. c.todo # "none"
    BY <1>2 DEF Operations
  <2>2. inOrder => Holds(c.todo, status, c.event.tier)
    BY <1>1, <1>3, <2>1 DEF Prepared
  <2> QED BY <1>1, <1>2, <2>2 DEF Read
<1>5. ASSUME inOrder
      PROVE  d.pc = "write" /\ SameClock(ResultOf(status, c), ResultOf(status', d)) /\ Prepared(status', d)
  <2>1. d.pc = "write" /\ d.todo = c.todo /\ d.event = c.event /\ d.read = status
    BY <1>2, <1>4, <1>5 DEF Handler
  <2>2. SameClock(status, status)
    BY DEF SameClock
  <2>3. Prepared(status, d)
    BY <1>1, <1>3, <1>5, <2>1, <2>2 DEF Prepared
  <2>4. ResultOf(status, c) = ResultOf(status, d)
    BY <1>1, <2>1 DEF ResultOf
  <2>5. SameClock(ResultOf(status, c), ResultOf(status, d))
    BY <2>4 DEF SameClock
  <2> QED BY <1>1, <2>1, <2>3, <2>5
<1>6. inOrder => Sound(status')
  BY <1>1, <1>3
<1> QED BY <1>1, <1>5, <1>6, CallGoesOn

LEMMA WriteKeepsClock ==
  ASSUME TypeInv, TypeInv', ClockInv, NEW h \in Handlers, Write(h)
  PROVE  ClockInv'
<1> DEFINE c == handler[h]
           d == handler'[h]
<1>1. /\ c.pc = "write" /\ status' = Written(c.todo, status, c.read, c.event)
      /\ UNCHANGED <<world, queue, inOrder>>
      /\ \A g \in Handlers : g # h => handler'[g] = handler[g]
  BY DEF Write, TypeInv, SlaTypeOK
<1>2. /\ c \in Calls /\ c \in Handler /\ status \in Status /\ handler \in [Handlers -> Handler] /\ c.todo \in Operations
      /\ c.read \in Status /\ c.event \in Event /\ status' \in Status
  <2>1. c \in Calls /\ c \in Handler
    BY HandlersAreCalls DEF Calls
  <2> QED BY <1>1, <2>1 DEF TypeInv, SlaTypeOK, Calls, Handler
<1>3. d.pc = "jobs" /\ d \in Calls
  <2>1. d.pc = "jobs"
    BY <1>2 DEF Write, Handler
  <2> QED BY <2>1 DEF TypeInv, SlaTypeOK, Busy, Calls
<1>4. inOrder => Prepared(status, c) /\ Current(ResultOf(status, c))
  BY <1>1 DEF ClockInv
<1>5. ResultOf(status', d) = status'
  <2>1. [status' EXCEPT !.responded = status'.responded \/ d.pc = "respond"] = status'
    BY <1>2, <1>3, SeenIs
  <2> QED BY <1>3, <2>1 DEF ResultOf
<1>6. ResultOf(status, c) = Written(c.todo, status, status, c.event)
  <2>1. [status EXCEPT !.responded = status.responded \/ c.pc = "respond"] = status
    BY <1>1, <1>2, SeenIs
  <2>2. c.todo # "none"
    BY <1>2 DEF Operations
  <2> QED BY <1>1, <2>1, <2>2 DEF ResultOf
<1>7. ASSUME inOrder
      PROVE  SameClock(ResultOf(status, c), status') /\ Sound(status')
  <2>1. SameClock(c.read, status) /\ SameClock(status, status)
    BY <1>1, <1>4, <1>7 DEF Prepared, SameClock
  <2>2. SameClock(status', ResultOf(status, c))
    BY <1>1, <1>2, <1>6, <2>1, WrittenOnClock
  <2>3. SameClock(ResultOf(status, c), status')
    BY <2>2, SameClockSymmetric
  <2>4. ResultOf(status, c) \in Status /\ Sound(ResultOf(status, c))
    BY <1>2, <1>4, <1>7, ResultType DEF Current, Tracks
  <2> QED BY <1>2, <2>3, <2>4, TracksSameClock
<1>8. Prepared(status', d)
  BY <1>3 DEF Prepared
<1> QED BY <1>1, <1>3, <1>5, <1>7, <1>8, CallGoesOn

LEMMA TimerKeepsClock ==
  ASSUME TypeInv, TypeInv', ClockInv, NEW h \in Handlers, Timer(h)
  PROVE  ClockInv'
<1> DEFINE c == handler[h]
<1>1. CASE Redelivered(h)
  BY <1>1 DEF Redelivered, ClockInv
<1>2. CASE ~Redelivered(h)
  <2>1. /\ c.pc = "jobs" /\ status' = status /\ Ends(h)
        /\ UNCHANGED <<world, queue, inOrder>>
        /\ \A g \in Handlers : g # h => handler'[g] = handler[g]
    BY <1>2 DEF Timer, Ends, TypeInv, SlaTypeOK
  <2>2. c \in Calls /\ status \in Status /\ handler'[h].pc = "idle"
    BY <2>1, HandlersAreCalls DEF TypeInv, SlaTypeOK, Ends, Idle
  <2>3. ResultOf(status, c) = status
    <3>1. [status EXCEPT !.responded = status.responded \/ c.pc = "respond"] = status
      BY <2>1, <2>2, SeenIs
    <3> QED BY <2>1, <3>1 DEF ResultOf
  <2>4. SameClock(ResultOf(status, c), status')
    BY <2>1, <2>3 DEF SameClock
  <2>5. inOrder => Sound(status')
    BY <2>1 DEF ClockInv
  <2> QED BY <2>1, <2>2, <2>4, <2>5, CallGoesOn
<1> QED BY <1>1, <1>2

\* What a plan asks of the status, it finds there.
LEMMA PlanHolds ==
  ASSUME NEW e \in Event, NEW s \in Status, Sound(s), e.kind = "created" <=> ~s.exists,
         NEW tier, e.kind = "priority" => tier = ticket.tier, Plan(e, s) # "none"
  PROVE  /\ Holds(Plan(e, s), s, tier)
         /\ Plan(e, s) = "start" <=> ~s.exists
<1>1. e.kind \in {"created", "entered", "priority"} /\ e.cat \in {"new", "open", "waiting", "done"}
  BY DEF Event, Categories
<1>2. CASE Plan(e, s) = "start"
  BY <1>1, <1>2 DEF Plan, Holds
<1>3. CASE Plan(e, s) = "repolicy"
  BY <1>1, <1>3 DEF Plan, Holds
<1>4. CASE Plan(e, s) = "pause"
  <2>1. ~Paused(s) /\ ~Resolved(s) /\ s.exists
    BY <1>1, <1>4 DEF Plan
  <2> QED BY <1>4, <2>1 DEF Holds, Sound
<1>5. CASE Plan(e, s) = "resume"
  BY <1>1, <1>5 DEF Plan, Holds
<1>6. CASE Plan(e, s) = "reopen"
  BY <1>1, <1>6 DEF Plan, Holds
<1>7. CASE Plan(e, s) = "conclude"
  BY <1>1, <1>7 DEF Plan, Holds
<1> QED BY <1>2, <1>3, <1>4, <1>5, <1>6, <1>7, PlanType DEF Operations

LEMMA TakeKeepsClock ==
  ASSUME ReopenedFirst, TypeInv, TypeInv', ClockInv, NEW h \in Handlers, Take(h)
  PROVE  ClockInv'
<1> SUFFICES ASSUME inOrder'
             PROVE  /\ Sound(status')
                    /\ AllIdle' => Current(status)'
                    /\ \A g \in Handlers :
                         handler'[g].pc # "idle" =>
                           /\ Current(ResultOf(status, handler[g]))'
                           /\ Prepared(status', handler'[g])
                           /\ \A k \in Handlers : handler'[k].pc # "idle" => k = g
  BY DEF ClockInv
<1> DEFINE e == Head(queue)
           plan == Plan(e, status)
           tier == IF e.kind = "priority" THEN ticket.tier ELSE e.tier
           taken == IF e.kind = "priority" THEN [e EXCEPT !.tier = ticket.tier] ELSE e
           d == handler'[h]
           r == Handled(e, status, plan, tier)
           busy(pc) == [Idle EXCEPT !.pc = pc, !.event = taken, !.todo = plan]
<1>1. /\ inOrder /\ \A g \in Handlers : handler[g].pc = "idle"
      /\ queue # <<>> /\ queue' = Tail(queue) /\ status' = status
      /\ now' = now /\ off' = off /\ ticket' = ticket
  BY DEF Take, world
<1>2. /\ handler \in [Handlers -> Handler] /\ queue \in Seq(Event) /\ status \in Status
      /\ now \in Nat /\ off \in Nat /\ ticket.tier \in Tiers
  BY DEF TypeInv, SlaTypeOK
<1>3. e = queue[1] /\ e \in Event /\ 1 \in 1 .. Len(queue) /\ 1 - 1 = 0
  BY <1>1, <1>2
<1>4. Sound(status) /\ Current(status)
  BY <1>1 DEF ClockInv, AllIdle
<1>5. Follows(e, CategoryOf(status)) /\ HaltedAt(status) <= e.at
  <2>1. Follows(queue[1], CatAt(status, queue, 0)) /\ Instant(status, queue, 0) <= Instant(status, queue, 1)
    BY <1>3, <1>4 DEF Current, Tracks, Leads
  <2> QED BY <1>3, <2>1 DEF CatAt, Instant
<1>6. (e.kind = "created" <=> ~status.exists) /\ (~status.exists => status.total = 0)
  BY <1>3, <1>4 DEF Current, Tracks, Born
<1>7. tier \in Tiers /\ (e.kind = "priority" => tier = ticket.tier) /\ taken = [e EXCEPT !.tier = tier]
      /\ taken \in Event /\ taken.tier = tier
  BY <1>2, <1>3 DEF Event
<1>8. plan \in Operations \cup {"none"}
  BY PlanType
<1>9. handler' = [handler EXCEPT ![h] = IF Responds(e, status) THEN busy("respond")
                                        ELSE IF plan # "none" THEN busy("read") ELSE Idle]
  BY DEF Take
<1>10. Handled(e, status, plan, tier) =
         IF plan = "none" THEN [status EXCEPT !.responded = status.responded \/ Responds(e, status)]
         ELSE Written(plan, [status EXCEPT !.responded = status.responded \/ Responds(e, status)],
                            [status EXCEPT !.responded = status.responded \/ Responds(e, status)], taken)
  BY <1>7 DEF Handled
<1>11. Responds(e, status) \in BOOLEAN /\ (Responds(e, status) => status.exists)
  BY DEF Responds
<1>12. /\ busy("respond").pc = "respond" /\ busy("respond").todo = plan /\ busy("respond").event = taken
       /\ busy("read").pc = "read" /\ busy("read").todo = plan /\ busy("read").event = taken
       /\ Idle.pc = "idle"
  BY IdleTypes DEF Handler, Idle
<1>13. Absorbs(status, e, r)
  BY <1>2, <1>3, <1>4, <1>5, <1>6, <1>7, <1>8, HandledIsRight
<1>14. plan # "none" => Holds(plan, status, tier) /\ (plan = "start" <=> ~status.exists)
  BY <1>2, <1>3, <1>4, <1>6, <1>7, PlanHolds
<1> HIDE DEF taken, busy, tier, plan, e, r
<1>15. d = IF Responds(e, status) THEN busy("respond") ELSE IF plan # "none" THEN busy("read") ELSE Idle
  BY <1>2, <1>9
<1>16. d \in Calls
  BY DEF TypeInv, SlaTypeOK, Busy, Calls
<1>17. [status EXCEPT !.responded = status.responded \/ d.pc = "respond"]
         = [status EXCEPT !.responded = status.responded \/ Responds(e, status)]
  <2>1. (d.pc = "respond") <=> Responds(e, status)
    BY <1>11, <1>12, <1>15
  <2> QED BY <1>11, <2>1
<1>18. ResultOf(status, d) = r
  <2>1. CASE plan = "none"
    <3>1. d.pc \in {"respond", "read", "write"} => d.todo = "none"
      BY <1>12, <1>15, <2>1
    <3> QED BY <1>10, <1>17, <2>1, <3>1 DEF ResultOf, r
  <2>2. CASE plan # "none"
    <3>1. d.pc \in {"respond", "read"} /\ d.todo = plan /\ d.event = taken
      BY <1>12, <1>15, <2>2
    <3> QED BY <1>10, <1>17, <2>2, <3>1 DEF ResultOf, r
  <2> QED BY <2>1, <2>2
<1>19. r \in Status
  BY <1>2, <1>16, <1>18, ResultType
<1>20. Tracks(r, queue', now', ticket'.cat, off')
  BY <1>1, <1>2, <1>3, <1>4, <1>13, <1>19, TracksAbsorbed DEF Current
<1>21. \A g \in Handlers : g # h => handler'[g].pc = "idle"
  BY <1>1, <1>2, <1>9
<1>22. d.pc = "idle" => r = status
  <2>1. d.pc = "idle" => ~Responds(e, status) /\ plan = "none"
    BY <1>12, <1>15
  <2>2. d.pc = "idle" => [status EXCEPT !.responded = status.responded \/ d.pc = "respond"] = status
    BY <1>2, <1>16, SeenIs
  <2> QED BY <1>10, <1>17, <2>1, <2>2 DEF r
<1>23. d.pc # "idle" => Prepared(status, d)
  <2>1. d.pc # "idle" => d.todo = plan /\ d.event = taken /\ d.pc \in {"respond", "read"} /\ (d.pc = "respond" => Responds(e, status))
    BY <1>12, <1>15
  <2> QED BY <1>7, <1>11, <1>14, <2>1 DEF Prepared
<1>24. AllIdle' => Current(status)'
  BY <1>1, <1>20, <1>22 DEF AllIdle, Current
<1>25. Current(ResultOf(status, handler[h]))'
  BY <1>1, <1>18, <1>20 DEF Current
<1> QED BY <1>1, <1>4, <1>21, <1>23, <1>24, <1>25

-----------------------------------------------------------------------------
(* The other steps. *)

\* A step that leaves the calls and the status alone, and after which what was
\* current is current.
LEMMA StatusIsLeft ==
  ASSUME TypeInv, ClockInv, UNCHANGED <<handler, inOrder, status>>,
         \A s \in Status : Current(s) => Current(s)'
  PROVE  ClockInv'
<1>1. status \in Status /\ \A h \in Handlers : ResultOf(status, handler[h]) \in Status
  BY HandlersAreCalls, ResultType DEF TypeInv, SlaTypeOK
<1>2. Current(status) => Current(status)'
  <2>1. ASSUME NEW s \in Status, s = status, Current(s) PROVE Current(status)'
    <3>1. Current(s)'
      BY <2>1
    <3>2. s = status'
      BY <2>1
    <3> QED BY <3>1, <3>2 DEF Current
  <2> QED BY <1>1, <2>1
<1>3. ASSUME NEW h \in Handlers, Current(ResultOf(status, handler[h])) PROVE Current(ResultOf(status, handler[h]))'
  <2>1. ASSUME NEW s \in Status, s = ResultOf(status, handler[h]), Current(s)
        PROVE  Current(ResultOf(status, handler[h]))'
    <3>1. Current(s)'
      BY <2>1
    <3>2. s = ResultOf(status', handler'[h])
      BY <2>1
    <3> QED BY <3>1, <3>2 DEF Current
  <2> QED BY <1>1, <1>3, <2>1
<1> QED BY <1>2, <1>3 DEF ClockInv, AllIdle

LEMMA WorldKeepsClock ==
  ASSUME TypeInv, ClockInv,
         Tick \/ (\E to \in Categories : Move(to)) \/ (\E tier \in Tiers : SetPriority(tier))
  PROVE  ClockInv'
<1>1. /\ queue \in Seq(Event) /\ now \in Nat /\ off \in Nat
      /\ ticket \in [cat: Categories, tier: Tiers, moves: Nat]
  BY DEF TypeInv, SlaTypeOK
<1>2. CASE Tick
  <2>1. ASSUME NEW s \in Status, Current(s) PROVE Current(s)'
    <3>1. Tracks(s, queue, now + 1, ticket.cat, IF ticket.cat \in {"waiting", "done"} THEN off + 1 ELSE off)
      BY <1>1, <2>1, TracksTime DEF Current
    <3> QED BY <1>2, <3>1 DEF Tick, consumer, Current
  <2> QED BY <1>2, <2>1, StatusIsLeft DEF Tick, consumer
<1>3. ASSUME NEW to \in Categories, Move(to) PROVE ClockInv'
  <2> DEFINE e == [kind |-> "entered", cat |-> to, initial |-> ticket.cat = "new", tier |-> ticket.tier, at |-> now]
  <2>1. e \in Event /\ e.kind = "entered" /\ e.at = now /\ e.cat = to /\ (e.initial <=> ticket.cat = "new")
    BY <1>1 DEF Event
  <2>2. Follows(e, ticket.cat)
    BY <1>3, <2>1 DEF Move, Follows
  <2>3. queue' = Append(queue, e) /\ ticket'.cat = to /\ now' = now /\ off' = off
    BY <1>1, <1>3 DEF Move
  <2> HIDE DEF e
  <2>4. ASSUME NEW s \in Status, Current(s) PROVE Current(s)'
    <3>1. Tracks(s, Append(queue, e), now, to, off)
      BY <1>1, <2>1, <2>2, <2>4, TracksAppend DEF Current
    <3> QED BY <2>3, <3>1 DEF Current
  <2> QED BY <1>3, <2>4, StatusIsLeft DEF Move
<1>4. ASSUME NEW tier \in Tiers, SetPriority(tier) PROVE ClockInv'
  <2> DEFINE e == [kind |-> "priority", cat |-> ticket.cat, initial |-> FALSE, tier |-> tier, at |-> now]
  <2>1. e \in Event /\ e.kind = "priority" /\ e.at = now /\ e.cat = ticket.cat
    BY <1>1 DEF Event
  <2>2. Follows(e, ticket.cat)
    BY <2>1 DEF Follows
  <2>3. queue' = Append(queue, e) /\ ticket'.cat = ticket.cat /\ now' = now /\ off' = off
    BY <1>1, <1>4 DEF SetPriority
  <2> HIDE DEF e
  <2>4. ASSUME NEW s \in Status, Current(s) PROVE Current(s)'
    <3>1. Tracks(s, Append(queue, e), now, ticket.cat, off)
      BY <1>1, <2>1, <2>2, <2>4, TracksAppend DEF Current
    <3> QED BY <2>3, <3>1 DEF Current
  <2> QED BY <1>4, <2>4, StatusIsLeft DEF SetPriority
<1> QED BY <1>2, <1>3, <1>4

LEMMA MarkKeepsClock ==
  ASSUME TypeInv, TypeInv', ClockInv, NEW a \in Agents, MarkBreached(a)
  PROVE  ClockInv'
<1>1. /\ status \in Status /\ status' \in Status /\ SameClock(status, status')
      /\ UNCHANGED <<world, queue, handler, inOrder>>
  BY DEF MarkBreached, consumer, TypeInv, SlaTypeOK, Status, SameClock
<1>2. ASSUME Sound(status) PROVE Sound(status')
  BY <1>1, <1>2, TracksSameClock
<1>3. ASSUME Current(status) PROVE Current(status)'
  <2>1. Tracks(status', queue, now, ticket.cat, off)
    BY <1>1, <1>3, TracksSameClock DEF Current
  <2> QED BY <1>1, <2>1 DEF Current, world
<1>4. ASSUME NEW h \in Handlers, Current(ResultOf(status, handler[h])), Prepared(status, handler[h])
      PROVE  Current(ResultOf(status, handler[h]))' /\ Prepared(status', handler'[h])
  <2>1. handler[h] \in Calls /\ handler'[h] = handler[h]
    BY <1>1, HandlersAreCalls
  <2>2. /\ SameClock(ResultOf(status, handler[h]), ResultOf(status', handler[h])) /\ Prepared(status', handler[h])
        /\ ResultOf(status, handler[h]) \in Status /\ ResultOf(status', handler[h]) \in Status
    BY <1>1, <1>4, <2>1, ResultOnClock, ResultType
  <2>3. Tracks(ResultOf(status', handler[h]), queue, now, ticket.cat, off)
    BY <1>4, <2>2, TracksSameClock DEF Current
  <2> QED BY <1>1, <2>1, <2>2, <2>3 DEF Current, world
<1>5. UNCHANGED <<handler, inOrder>>
  BY <1>1
<1> QED BY <1>2, <1>3, <1>4, <1>5 DEF ClockInv, AllIdle

LEMMA StepKeepsClock ==
  ASSUME ReopenedFirst, TypeInv, TypeInv', ClockInv, [Next]_vars
  PROVE  ClockInv'
<1>1. ASSUME NEW h \in Handlers, HandlerStep(h) PROVE ClockInv'
  BY <1>1, TakeKeepsClock, RespondKeepsClock, ReadKeepsClock, WriteKeepsClock, TimerKeepsClock DEF HandlerStep
<1>2. ASSUME NEW h \in Handlers, HandlerFails(h) PROVE ClockInv'
  BY <1>2 DEF HandlerFails, Redelivered, ClockInv
<1>3. ASSUME UNCHANGED <<world, consumer, status>> PROVE ClockInv'
  <2>1. \A s \in Status : Current(s) => Current(s)'
    BY <1>3 DEF Current, world, consumer
  <2> QED BY <1>3, <2>1, StatusIsLeft DEF consumer
<1>4. ASSUME NEW j \in jobs, JobFires(j) PROVE ClockInv'
  BY <1>3, <1>4 DEF JobFires
<1>5. CASE SweepReads \/ SweepFires
  BY <1>3, <1>5 DEF SweepReads, SweepFires
<1>6. ASSUME NEW a \in Agents, FiringStep(a) \/ FiringFails(a) PROVE ClockInv'
  BY <1>3, <1>6, MarkKeepsClock DEF FiringStep, TellBreach, FiringFails
<1>7. CASE UNCHANGED vars
  BY <1>3, <1>7 DEF vars
<1> QED BY <1>1, <1>2, <1>4, <1>5, <1>6, <1>7, WorldKeepsClock DEF Next

LEMMA InitClock == ASSUME Init PROVE ClockInv
<1> DEFINE s == NoStatus
           q == <<Created(FirstTier)>>
<1>1. /\ status = s /\ queue = q /\ now = 0 /\ off = 0 /\ ticket.cat = "new" /\ \A h \in Handlers : handler[h].pc = "idle"
  BY DEF Init, Idle
<1>2. /\ ~s.exists /\ s.tier = FirstTier /\ s.resolve = Resolve[FirstTier] /\ s.total = 0 /\ s.paused = None
      /\ s.resolved = None /\ s.responded = FALSE /\ s.met = FALSE
  BY DEF NoStatus, Started
<1>3. Len(q) = 1 /\ q[1].kind = "created" /\ q[1].cat = "new" /\ q[1].at = 0 /\ q # <<>>
  BY DEF Created
<1> HIDE DEF s, q
<1>4. CategoryOf(s) = "new" /\ HaltedAt(s) = 0
  BY <1>2 DEF CategoryOf, HaltedAt, Paused, Resolved
<1>5. Sound(s)
  BY <1>2, SlaAssumption DEF Sound, Paused, Resolved
<1>6. CatAt(s, q, 0) = "new" /\ Instant(s, q, 0) = 0 /\ CatAt(s, q, 1) = "new" /\ Instant(s, q, 1) = 0
  BY <1>3, <1>4 DEF CatAt, Instant
<1>7. \A i \in 1 .. Len(q) : i = 1 /\ i - 1 = 0
  BY <1>3
<1>8. Leads(s, q, 0, "new")
  BY <1>3, <1>6, <1>7 DEF Leads, Follows
<1>9. Accounts(s, q, 0, "new", 0)
  <2> DEFINE f == [i \in 0 .. Len(q) |-> 0]
  <2>1. f \in [0 .. Len(q) -> Nat] /\ f[0] = 0 /\ f[1] = 0 /\ f[Len(q)] = 0
    BY <1>3
  <2> HIDE DEF f
  <2>2. Gap("new", 0, 0) = 0
    BY DEF Gap
  <2>3. \A i \in 1 .. Len(q) : f[i] = f[i - 1] + Gap(CatAt(s, q, i - 1), Instant(s, q, i - 1), Instant(s, q, i))
    BY <1>6, <1>7, <2>1, <2>2
  <2>4. 0 = f[Len(q)] + Gap("new", Instant(s, q, Len(q)), 0)
    BY <1>3, <1>6, <2>1, <2>2
  <2> QED BY <1>2, <2>1, <2>3, <2>4 DEF Accounts
<1>10. Born(s, q)
  BY <1>2, <1>3, <1>7 DEF Born
<1>11. Tracks(s, q, 0, "new", 0)
  BY <1>5, <1>8, <1>9, <1>10 DEF Tracks
<1> QED BY <1>1, <1>5, <1>11 DEF ClockInv, Current

LEMMA ClockInvHolds == ASSUME ReopenedFirst PROVE Spec => []ClockInv
<1>1. TypeInv /\ TypeInv' /\ ClockInv /\ [Next]_vars => ClockInv'
  BY StepKeepsClock
<1> QED BY <1>1, InitClock, TypeInvHolds, PTL DEF Spec

\* However many calls the consumer runs at once, whatever the timers do and
\* whatever the workflow that reopens before it waits: once the events of a
\* ticket were handled in order the clock stands still when the ticket does, and
\* the deadline leaves it exactly the time of its tier.
THEOREM ClockHolds == ASSUME ReopenedFirst PROVE Spec => []ClockIsRight
<1>1. ASSUME TypeInv, ClockInv PROVE ClockIsRight
  <2> SUFFICES ASSUME inOrder, Quiet
               PROVE  /\ status.exists
                      /\ Paused(status) <=> ticket.cat = "waiting"
                      /\ Resolved(status) <=> ticket.cat = "done"
                      /\ status.responded <=> ticket.cat # "new"
                      /\ status.resolve + Stopped = Resolve[status.tier] + off
                      /\ Resolved(status) => (status.met <=> Worked <= Resolve[status.tier])
    BY DEF ClockIsRight
  <2>1. Tracks(status, queue, now, ticket.cat, off) /\ queue = <<>> /\ Len(queue) = 0
    BY <1>1 DEF ClockInv, AllIdle, Quiet, Current
  <2>2. /\ status \in Status /\ now \in Nat /\ off \in Nat /\ status.total \in Nat /\ Resolve[status.tier] \in Nat
        /\ status.resolve \in Nat
    BY <1>1, SlaAssumption DEF TypeInv, SlaTypeOK, Status
  <2>3. status.exists /\ Sound(status)
    BY <2>1 DEF Tracks, Born
  <2>4. CategoryOf(status) = ticket.cat
    BY <2>1 DEF Tracks, Leads, CatAt
  <2>5. off = status.total + Gap(ticket.cat, HaltedAt(status), now)
    BY <2>1 DEF Tracks, Accounts, Instant
  <2>6. HaltedAt(status) \in Nat
    BY <2>2, InstantsOf
  <2>7. /\ Paused(status) <=> ticket.cat = "waiting"
        /\ Resolved(status) <=> ticket.cat = "done"
        /\ status.responded <=> ticket.cat # "new"
    BY <2>2, <2>3, <2>4 DEF CategoryOf, Sound, Status
  <2>8. Stopped = Gap(ticket.cat, HaltedAt(status), now)
    BY <2>7 DEF Stopped, Gap, HaltedAt
  <2>9. Stopped \in Int
    BY <2>2, <2>6, <2>8 DEF Gap
  <2>10. status.resolve + Stopped = Resolve[status.tier] + off
    BY <2>2, <2>3, <2>5, <2>8, <2>9 DEF Sound
  <2>11. ASSUME Resolved(status) PROVE status.met <=> Worked <= Resolve[status.tier]
    <3>1. status.resolved \in Nat /\ off = status.total + (now - status.resolved)
      BY <2>5, <2>6, <2>7, <2>11 DEF HaltedAt, Gap
    <3>2. Worked = status.resolved - status.total
      BY <2>2, <3>1 DEF Worked
    <3> QED BY <2>3, <2>11, <3>2 DEF Sound
  <2> QED BY <2>3, <2>7, <2>10, <2>11
<1> QED BY <1>1, ClockInvHolds, TypeInvHolds, PTL

-----------------------------------------------------------------------------
(***************************************************************************)
(* The timers.                                                             *)
(***************************************************************************)
\* One job holds the name of the ticket: none waits while it runs.
OneJob ==
  /\ \A j, k \in jobs : ~j.re /\ ~k.re => j = k
  /\ Active => \A j \in jobs : j.re

OnTime(j) == Running(status) /\ j.at = status.resolve

\* A call about to replace the job of the ticket or to take it away.
Rearms(c) == c.pc = "jobs" /\ (Cancels(c.todo) \/ Arms(c.todo, c.read))
Arming(c) == c.pc = "jobs" /\ Arms(c.todo, c.read)

\* The clock runs towards its deadline.
Awaits == Running(status) /\ ~status.breached /\ now < status.resolve

ArmedInv ==
  inOrder =>
    /\ \A j \in jobs : ~j.re /\ ~status.breached => OnTime(j) \/ \E h \in Handlers : Rearms(handler[h])
    /\ Awaits => (\E j \in jobs : j.at = status.resolve) \/ \E h \in Handlers : Arming(handler[h])
    /\ \A h \in Handlers : handler[h].pc = "jobs" /\ Cancels(handler[h].todo) => ~Running(status)
    /\ \A h \in Handlers :
         handler[h].pc = "jobs" /\ Arms(handler[h].todo, handler[h].read) /\ ~status.breached =>
           Running(status) /\ handler[h].read.resolve = status.resolve

LEMMA StepOneJob == ASSUME TypeInv, OneJob, [Next]_vars PROVE OneJob'
<1>1. /\ jobs \subseteq Job /\ firing \in [Agents -> Firing] /\ Active \in BOOLEAN
  BY DEF TypeInv, SlaTypeOK, Active
<1>2. ASSUME UNCHANGED <<jobs, firing>> PROVE OneJob'
  BY <1>2 DEF OneJob, Active
<1>3. ASSUME NEW h \in Handlers, Timer(h) PROVE OneJob'
  <2>1. Active' = Active
    BY <1>3 DEF Timer, Active
  <2> DEFINE deadline == handler[h].read.resolve
  <2>2. CASE jobs' = jobs
    BY <2>1, <2>2 DEF OneJob
  <2>3. CASE jobs' = {j \in jobs : j.re}
    BY <2>1, <2>3 DEF OneJob
  <2>4. CASE jobs' = Scheduled(deadline)
    <3> HIDE DEF deadline
    <3>2. CASE Active
      <4>1. jobs' = jobs \cup {[re |-> TRUE, at |-> deadline]}
        BY <2>4, <3>2 DEF Scheduled
      <4>2. \A j \in jobs' : j.re
        BY <3>2, <4>1 DEF OneJob
      <4> QED BY <4>2 DEF OneJob
    <3>3. CASE ~Active
      <4>1. jobs' = {j \in jobs : j.re} \cup {[re |-> FALSE, at |-> deadline]}
        BY <2>4, <3>3 DEF Scheduled
      <4>2. \A j \in jobs' : ~j.re => j = [re |-> FALSE, at |-> deadline]
        BY <4>1
      <4> QED BY <2>1, <3>3, <4>2 DEF OneJob
    <3> QED BY <3>2, <3>3
  <2> QED BY <1>3, <2>2, <2>3, <2>4 DEF Timer
<1>4. ASSUME NEW j \in jobs, JobFires(j) PROVE OneJob'
  <2>1. jobs' = jobs \ {j} /\ firing["job"].pc = "idle" /\ "job" \in Agents /\ j.re \in BOOLEAN
    BY <1>1, <1>4 DEF JobFires, Agents, Job
  <2>2. firing'["job"] = Still \/ (firing'["job"].re <=> j.re)
    BY <1>1, <1>4, <2>1 DEF JobFires, Fires
  <2>3. CASE j.re
    <3>1. ~Active'
      BY <2>2, <2>3 DEF Active, Still
    <3> QED BY <2>1, <3>1 DEF OneJob
  <2>4. CASE ~j.re
    <3>1. \A k \in jobs' : k.re
      BY <2>1, <2>4 DEF OneJob
    <3> QED BY <3>1 DEF OneJob
  <2> QED BY <2>3, <2>4
<1>5. ASSUME UNCHANGED jobs, Active' => Active PROVE OneJob'
  BY <1>5 DEF OneJob
<1>6. CASE SweepReads \/ SweepFires
  <2>1. firing'["job"] = firing["job"]
    BY <1>1, <1>6 DEF SweepReads, SweepFires, Fires, Agents
  <2>2. UNCHANGED jobs
    BY <1>6 DEF SweepReads, SweepFires
  <2>3. Active' => Active
    BY <2>1 DEF Active
  <2> QED BY <1>5, <2>2, <2>3
<1>7. ASSUME NEW a \in Agents, FiringStep(a) \/ FiringFails(a) PROVE OneJob'
  <2>1. /\ firing' \in [Agents -> Firing] /\ "job" \in Agents
        /\ \/ firing' = [firing EXCEPT ![a].pc = "marked"] /\ firing[a].pc = "relevant"
           \/ firing' = [firing EXCEPT ![a] = Still]
    BY <1>1, <1>7, StepTypes DEF FiringStep, MarkBreached, TellBreach, FiringFails, Agents, TypeInv, SlaTypeOK
  <2>2. Active' => Active
    BY <1>1, <2>1 DEF Active, Still, Firing
  <2> QED BY <1>5, <1>7, <2>2 DEF FiringStep, MarkBreached, TellBreach, FiringFails
<1> QED
  BY <1>2, <1>3, <1>4, <1>6, <1>7
     DEF Next, vars, timers, Tick, Move, SetPriority, HandlerStep, Take, Respond, Read, Write, HandlerFails

\* A step that arms nothing, of no call or of one that is not at the timers: it
\* takes away no job but one whose time has come.
LEMMA TimersAreLeft ==
  ASSUME TypeInv, ArmedInv, jobs' \subseteq jobs, \A j \in jobs : now < j.at => j \in jobs',
         inOrder' => inOrder, now' \in Nat, now <= now',
         status'.breached = status.breached, status'.resolve = status.resolve, Running(status') <=> Running(status),
         \A h \in Handlers : handler'[h] = handler[h] \/ (handler[h].pc # "jobs" /\ handler'[h].pc # "jobs")
  PROVE  ArmedInv'
<1> SUFFICES ASSUME inOrder'
             PROVE  /\ \A j \in jobs' : ~j.re /\ ~status'.breached =>
                         OnTime(j)' \/ \E h \in Handlers : Rearms(handler'[h])
                    /\ Awaits' => (\E j \in jobs' : j.at = status'.resolve) \/ \E h \in Handlers : Arming(handler'[h])
                    /\ \A h \in Handlers : handler'[h].pc = "jobs" /\ Cancels(handler'[h].todo) => ~Running(status')
                    /\ \A h \in Handlers :
                         handler'[h].pc = "jobs" /\ Arms(handler'[h].todo, handler'[h].read) /\ ~status'.breached =>
                           Running(status') /\ handler'[h].read.resolve = status'.resolve
  BY DEF ArmedInv
<1>1. \A h \in Handlers : /\ Rearms(handler[h]) => Rearms(handler'[h])
                          /\ Arming(handler[h]) => Arming(handler'[h])
  BY DEF Rearms, Arming
<1>2. \A j \in jobs : OnTime(j) => OnTime(j)'
  BY DEF OnTime
<1>3. \A h \in Handlers : handler'[h].pc = "jobs" => handler'[h] = handler[h]
  OBVIOUS
<1>4. ASSUME Awaits' PROVE (\E j \in jobs' : j.at = status'.resolve) \/ \E h \in Handlers : Arming(handler'[h])
  <2>1. now \in Nat /\ status.resolve \in Nat
    BY DEF TypeInv, SlaTypeOK, Status
  <2>2. Awaits /\ now < status.resolve
    BY <1>4, <2>1 DEF Awaits
  <2>3. CASE \E j \in jobs : j.at = status.resolve
    BY <2>2, <2>3
  <2>4. CASE \E h \in Handlers : Arming(handler[h])
    BY <1>1, <2>4
  <2> QED BY <2>2, <2>3, <2>4 DEF ArmedInv
<1> QED BY <1>1, <1>2, <1>3, <1>4 DEF ArmedInv

LEMMA WriteKeepsArmed ==
  ASSUME TypeInv, ClockInv, ArmedInv, NEW h \in Handlers, Write(h)
  PROVE  ArmedInv'
<1> DEFINE c == handler[h]
           d == handler'[h]
           op == c.todo
<1>1. /\ c.pc = "write" /\ status' = Written(op, status, c.read, c.event)
      /\ UNCHANGED <<inOrder, jobs>>
      /\ \A g \in Handlers : g # h => handler'[g] = handler[g]
      /\ c \in Handler /\ status \in Status /\ op \in Operations
      /\ c.read \in Status /\ c.event \in Event
  <2>1. c \in Handler /\ c \in Calls
    BY HandlersAreCalls DEF Calls
  <2> QED BY <2>1 DEF Write, timers, TypeInv, SlaTypeOK, Calls, Handler
<1>2. d.pc = "jobs" /\ d.todo = op /\ d.read = Returned(op, c.read, status')
  BY <1>1 DEF Write, TypeInv, SlaTypeOK, Handler
<1>3. status' \in Status
  BY <1>1, WrittenType
<1> SUFFICES ASSUME inOrder
             PROVE  /\ \A j \in jobs : ~j.re /\ ~status'.breached => OnTime(j)' \/ Rearms(d)
                    /\ Running(status') /\ ~status'.breached => Arms(op, d.read)
                    /\ Cancels(op) => ~Running(status')
                    /\ Arms(op, d.read) /\ ~status'.breached =>
                         Running(status') /\ d.read.resolve = status'.resolve
  <2>1. inOrder => \A g \in Handlers : g # h => handler'[g].pc # "jobs"
    BY <1>1 DEF ClockInv
  <2> QED BY <1>1, <1>2, <2>1 DEF ArmedInv, Awaits, Arming
<1>4. Sound(status) /\ Prepared(status, c) /\ \A g \in Handlers : handler[g].pc # "idle" => g = h
  BY <1>1 DEF ClockInv
<1>5. /\ Holds(op, status, c.event.tier) /\ (op = "start" <=> ~status.exists) /\ SameClock(c.read, status)
  BY <1>1, <1>4 DEF Prepared, Operations
<1>6. \A j \in jobs : ~j.re /\ ~status.breached => OnTime(j)
  BY <1>1, <1>4 DEF ArmedInv, Rearms
<1>7. CASE op = "start"
  <2>1. status' = Started(c.event.tier)
    BY <1>1, <1>5, <1>7 DEF Written
  <2> QED BY <1>2, <1>7, <2>1 DEF Rearms, Arms, Cancels, Returned, Running, Started, Paused, Resolved
<1>8. CASE op \in {"pause", "conclude"}
  <2>1. c.event.at \in Nat /\ None \notin Nat
    BY <1>1 DEF Event, None
  <2>2. CASE op = "pause"
    <3>1. status' = [status EXCEPT !.paused = c.event.at]
      BY <1>1, <2>2 DEF Written
    <3> QED BY <1>1, <1>2, <2>1, <2>2, <3>1 DEF Rearms, Cancels, Arms, Running, Paused, Status
  <2>3. CASE op = "conclude"
    <3>1. status' = Concluded(status, c.read, c.event.at)
      BY <1>1, <2>3 DEF Written
    <3>2. status'.resolved = c.event.at
      BY <1>1, <3>1 DEF Concluded, Status
    <3> QED BY <1>2, <2>1, <2>3, <3>2 DEF Rearms, Cancels, Arms, Running, Resolved
  <2> QED BY <1>8, <2>2, <2>3
<1>9. CASE op = "resume"
  <2>1. Paused(status) /\ ~Resolved(status) /\ ~status.met
    BY <1>4, <1>5, <1>9 DEF Holds, Sound
  <2>2. status' = [status EXCEPT !.resolve = c.read.resolve + Counted(c.read.paused, c.event.at),
                                 !.total = status.total + Counted(c.read.paused, c.event.at), !.paused = None]
    BY <1>1, <1>9 DEF Written
  <2>3. status'.exists = status.exists /\ ~Paused(status') /\ ~Resolved(status') /\ ~status'.met
    BY <1>1, <2>1, <2>2 DEF Status, Paused, Resolved
  <2>4. d.read.met = c.read.met /\ d.read.resolve = status'.resolve
    BY <1>1, <1>2, <1>9 DEF Returned, Status
  <2>5. ~d.read.met
    BY <1>5, <2>1, <2>4 DEF SameClock
  <2>6. status.exists
    BY <1>1, <1>5, <1>9
  <2> QED BY <1>2, <1>9, <2>3, <2>4, <2>5, <2>6 DEF Rearms, Arms, Cancels, Running
<1>10. CASE op = "reopen"
  <2>1. Resolved(status) /\ ~Paused(status)
    BY <1>4, <1>5, <1>10 DEF Holds, Sound
  <2>2. status' = [status EXCEPT !.resolve = c.read.resolve + Counted(c.read.resolved, c.event.at),
                                 !.total = status.total + Counted(c.read.resolved, c.event.at),
                                 !.resolved = None, !.met = FALSE]
    BY <1>1, <1>10 DEF Written
  <2>3. status'.exists = status.exists /\ ~Paused(status') /\ ~Resolved(status') /\ ~status'.met
    BY <1>1, <2>1, <2>2 DEF Status, Paused, Resolved
  <2>4. d.read = status'
    BY <1>2, <1>10 DEF Returned
  <2>5. status.exists
    BY <1>1, <1>5, <1>10
  <2> QED BY <1>2, <1>10, <2>3, <2>4, <2>5 DEF Rearms, Arms, Cancels, Running
<1>11. CASE op = "repolicy"
  <2>1. ~Resolved(status) /\ ~status.met
    BY <1>4, <1>5, <1>11 DEF Holds, Sound
  <2>2. status' = [status EXCEPT !.tier = c.event.tier, !.resolve = Resolve[c.event.tier] + c.read.total]
    BY <1>1, <1>11 DEF Written
  <2>3. /\ status'.exists = status.exists /\ (Paused(status') <=> Paused(status)) /\ ~Resolved(status') /\ ~status'.met
        /\ status'.breached = status.breached
    BY <1>1, <2>1, <2>2 DEF Status, Paused, Resolved
  <2>4. d.read = status'
    BY <1>2, <1>11 DEF Returned
  <2>5. Paused(status') => \A j \in jobs : j.re \/ status'.breached
    BY <1>6, <2>3 DEF OnTime, Running
  <2>6. status.exists
    BY <1>1, <1>5, <1>11
  <2> QED BY <1>2, <1>11, <2>3, <2>4, <2>5, <2>6 DEF Rearms, Arms, Cancels, Running
<1> QED BY <1>1, <1>7, <1>8, <1>9, <1>10, <1>11 DEF Operations

LEMMA TimerKeepsArmed ==
  ASSUME TypeInv, ClockInv, OneJob, ArmedInv, NEW h \in Handlers, Timer(h)
  PROVE  ArmedInv'
<1> DEFINE c == handler[h]
<1> SUFFICES ASSUME inOrder'
             PROVE  /\ \A j \in jobs' : ~j.re /\ ~status'.breached => OnTime(j)'
                    /\ Awaits' => \E j \in jobs' : j.at = status'.resolve
                    /\ \A g \in Handlers : handler'[g].pc # "jobs"
  BY DEF ArmedInv
<1>1. /\ inOrder /\ ~Redelivered(h) /\ c.pc = "jobs" /\ status' = status /\ Ends(h)
      /\ handler \in [Handlers -> Handler] /\ jobs \subseteq Job
  BY DEF Timer, Redelivered, TypeInv, SlaTypeOK
<1>2. \A g \in Handlers : handler[g].pc # "idle" => g = h
  BY <1>1 DEF ClockInv
<1>3. \A g \in Handlers : handler'[g].pc # "jobs"
  BY <1>1, <1>2 DEF Ends, Idle
<1>4. (Awaits' <=> Awaits) /\ \A j : OnTime(j)' <=> OnTime(j)
  BY <1>1 DEF OnTime, Awaits, Timer, world
<1>5. CASE Cancels(c.todo)
  <2>1. jobs' = {j \in jobs : j.re}
    BY <1>1, <1>5 DEF Timer
  <2>2. ~Awaits
    BY <1>1, <1>5 DEF ArmedInv, Awaits
  <2> QED BY <1>3, <1>4, <2>1, <2>2
<1>6. CASE ~Cancels(c.todo) /\ Arms(c.todo, c.read)
  <2>1. jobs' = Scheduled(c.read.resolve)
    BY <1>1, <1>6 DEF Timer
  <2>2. ~status.breached => Running(status) /\ c.read.resolve = status.resolve
    BY <1>1, <1>6 DEF ArmedInv
  <2>3. CASE Active
    <3>1. jobs' = jobs \cup {[re |-> TRUE, at |-> c.read.resolve]}
      BY <2>1, <2>3 DEF Scheduled
    <3>2. \A j \in jobs' : j.re
      BY <2>3, <3>1 DEF OneJob
    <3>3. \E j \in jobs' : j.at = c.read.resolve
      <4> DEFINE k == [re |-> TRUE, at |-> c.read.resolve]
      <4>1. k \in jobs' /\ k.at = c.read.resolve
        BY <3>1
      <4> HIDE DEF k
      <4> QED BY <4>1
    <3> QED BY <1>1, <1>3, <1>4, <2>2, <3>2, <3>3 DEF Awaits
  <2>4. CASE ~Active
    <3>1. jobs' = {j \in jobs : j.re} \cup {[re |-> FALSE, at |-> c.read.resolve]}
      BY <2>1, <2>4 DEF Scheduled
    <3>2. \A j \in jobs' : ~j.re => j.at = c.read.resolve
      BY <3>1
    <3>3. \E j \in jobs' : j.at = c.read.resolve
      <4> DEFINE k == [re |-> FALSE, at |-> c.read.resolve]
      <4>1. k \in jobs' /\ k.at = c.read.resolve
        BY <3>1
      <4> HIDE DEF k
      <4> QED BY <4>1
    <3> QED BY <1>1, <1>3, <1>4, <2>2, <3>2, <3>3 DEF OnTime, Awaits
  <2> QED BY <2>3, <2>4
<1>7. CASE ~Cancels(c.todo) /\ ~Arms(c.todo, c.read)
  <2>1. jobs' = jobs
    BY <1>1, <1>7 DEF Timer
  <2>2. \A g \in Handlers : ~Rearms(handler[g]) /\ ~Arming(handler[g])
    BY <1>2, <1>7 DEF Rearms, Arming
  <2> QED BY <1>1, <1>3, <1>4, <2>1, <2>2 DEF ArmedInv
<1> QED BY <1>5, <1>6, <1>7

LEMMA StepKeepsArmed ==
  ASSUME TypeInv, ClockInv, OneJob, ArmedInv, [Next]_vars
  PROVE  ArmedInv'
<1>1. status \in Status /\ handler \in [Handlers -> Handler] /\ Idle.pc = "idle" /\ now \in Nat /\ jobs \subseteq Job
  BY DEF TypeInv, SlaTypeOK, Idle
<1>2. ASSUME UNCHANGED <<handler, status, inOrder, jobs>>, now' = now \/ now' = now + 1 PROVE ArmedInv'
  <2>1. now' \in Nat /\ now <= now'
    BY <1>1, <1>2
  <2> QED BY <1>2, <2>1, TimersAreLeft
<1>3. ASSUME NEW h \in Handlers, Take(h) PROVE ArmedInv'
  <2>1. UNCHANGED <<now, status, jobs>> /\ (inOrder' => inOrder) /\ handler[h].pc = "idle"
    BY <1>3 DEF Take, world, timers
  <2>2. handler'[h].pc # "jobs" /\ \A g \in Handlers : g # h => handler'[g] = handler[g]
    BY <1>1, <1>3, IdleTypes DEF Take, Handler
  <2>3. now <= now'
    BY <1>1, <2>1
  <2> QED BY <1>1, <2>1, <2>2, <2>3, TimersAreLeft
<1>4. ASSUME NEW h \in Handlers, Respond(h) \/ Read(h) PROVE ArmedInv'
  <2>1. UNCHANGED <<now, jobs, inOrder>> /\ handler[h].pc # "jobs"
    BY <1>4 DEF Respond, Read, world, timers
  <2>2. handler'[h].pc # "jobs" /\ \A g \in Handlers : g # h => handler'[g] = handler[g]
    BY <1>1, <1>4 DEF Respond, Read, Goes, Ends, Handler
  <2>3. status'.breached = status.breached /\ status'.resolve = status.resolve /\ (Running(status') <=> Running(status))
    BY <1>1, <1>4 DEF Respond, Read, Status, Running, Paused, Resolved
  <2>4. now <= now'
    BY <1>1, <2>1
  <2> QED BY <1>1, <2>1, <2>2, <2>3, <2>4, TimersAreLeft
<1>5. ASSUME NEW h \in Handlers, HandlerStep(h) PROVE ArmedInv'
  BY <1>3, <1>4, <1>5, WriteKeepsArmed, TimerKeepsArmed DEF HandlerStep
<1>6. ASSUME NEW h \in Handlers, HandlerFails(h) PROVE ArmedInv'
  BY <1>6 DEF HandlerFails, Redelivered, ArmedInv
<1>7. ASSUME NEW j \in jobs, JobFires(j) PROVE ArmedInv'
  <2>1. j.at \in Nat /\ j.at <= now /\ jobs' = jobs \ {j} /\ UNCHANGED <<now, handler, status, inOrder>>
    BY <1>1, <1>7 DEF JobFires, world, consumer, Job
  <2>2. now <= now' /\ \A k \in jobs : now < k.at => k \in jobs'
    BY <1>1, <2>1
  <2> QED BY <1>1, <2>1, <2>2, TimersAreLeft
<1>8. ASSUME NEW a \in Agents, MarkBreached(a) PROVE ArmedInv'
  <2>1. status'.breached /\ (Running(status') <=> Running(status)) /\ UNCHANGED <<handler, inOrder>>
    BY <1>1, <1>8 DEF MarkBreached, consumer, Status, Running, Paused, Resolved
  <2> QED BY <2>1 DEF ArmedInv, Awaits
<1>9. CASE UNCHANGED <<handler, status, inOrder, jobs>> /\ (now' = now \/ now' = now + 1)
  BY <1>2, <1>9
<1> QED
  BY <1>5, <1>6, <1>7, <1>8, <1>9
     DEF Next, vars, world, consumer, timers, Tick, Move, SetPriority, SweepReads, SweepFires, FiringStep, TellBreach, FiringFails

\* TimersFollowClock, under the same condition and whatever timer runs while the
\* clock is stopped, moved or started again: until the breach is recorded the job
\* of the ticket waits only on a running clock, at its deadline, and a clock that
\* runs towards its deadline has a job that waits for it.
THEOREM TimersHold == ASSUME ReopenedFirst PROVE Spec => []TimersFollowClock
<1>1. ASSUME Init PROVE OneJob /\ ArmedInv
  BY <1>1 DEF Init, OneJob, ArmedInv, Active, Still, Idle, Awaits, Running, NoStatus, Started
<1>2. TypeInv /\ ClockInv /\ OneJob /\ ArmedInv /\ [Next]_vars => OneJob' /\ ArmedInv'
  BY StepOneJob, StepKeepsArmed
<1>3. ArmedInv => TimersFollowClock
  BY DEF ArmedInv, TimersFollowClock, Quiet, OnTime, Rearms, Awaits, Arming
<1> QED BY <1>1, <1>2, <1>3, TypeInvHolds, ClockInvHolds, PTL DEF Spec

-----------------------------------------------------------------------------
\* Every set of numbers that is not empty has a least one.
LEMMA Smallest ==
  ASSUME NEW T, T \subseteq Nat, T # {}
  PROVE  \E x \in T : \A y \in T : x <= y
<1> DEFINE below == {0..x : x \in T}
<1>1. below \subseteq FiniteSubsetsOf(Nat)
  <2>1. ASSUME NEW x \in T PROVE IsFiniteSet(0..x) /\ 0..x \in SUBSET Nat
    <3>1. 0 \in Int /\ x \in Int
      OBVIOUS
    <3> QED BY <3>1, FS_Interval
  <2> QED BY <2>1 DEF FiniteSubsetsOf
<1>2. PICK B \in below : \A C \in below : ~(<<C, B>> \in StrictSubsetOrdering(Nat))
  <2>1. below # {}
    OBVIOUS
  <2>2. IsWellFoundedOn(StrictSubsetOrdering(Nat), FiniteSubsetsOf(Nat))
    BY FS_StrictSubsetOrderingWellFounded
  <2> HIDE DEF below
  <2> QED BY <1>1, <2>1, <2>2, WFMin, Zenon
<1>3. PICK x \in T : B = 0..x
  OBVIOUS
<1>4. ASSUME NEW y \in T PROVE x <= y
  <2>1. x \in Nat /\ y \in Nat
    OBVIOUS
  <2>2. SUFFICES ASSUME y < x PROVE FALSE
    BY <2>1
  <2>3. 0..y \subseteq 0..x /\ 0..y # 0..x
    BY <2>1, <2>2
  <2>4. <<0..y, 0..x>> \in StrictSubsetOrdering(Nat)
    BY <2>1, <2>3 DEF StrictSubsetOrdering
  <2> QED BY <1>2, <1>3, <2>4
<1> QED BY <1>3, <1>4

-----------------------------------------------------------------------------
\* A local time is a day and a minute of it: the two say the time.
Clock(l) == l.day * DayLength + l.minute

LocalTime == [day: Int, minute: 0 .. DayLength - 1]

\* Every instant falls on one day and one minute of it.
LEMMA DayAndMinute ==
  ASSUME NEW u \in Int
  PROVE  /\ (u \div DayLength) * DayLength + (u % DayLength) = u
         /\ u \div DayLength \in Int /\ u % DayLength \in 0..(DayLength - 1)
<1>1. DayLength \in Nat /\ DayLength > 0
  BY HoursAssumption
<1> QED BY <1>1

\* Local times come in the order of their instants on one clock.
LEMMA ClockOrder ==
  ASSUME NEW l \in LocalTime, NEW m \in LocalTime
  PROVE  /\ Clock(l) \in Int
         /\ Before(l, m) <=> Clock(l) < Clock(m)
         /\ Clock(l) = Clock(m) => l = m
<1>1. /\ DayLength \in Nat /\ DayLength > 0
      /\ l.day \in Int /\ m.day \in Int
      /\ l.minute \in 0..(DayLength - 1) /\ m.minute \in 0..(DayLength - 1)
  BY HoursAssumption DEF LocalTime
<1>2. l.day * DayLength \in Int /\ m.day * DayLength \in Int
  BY <1>1
<1>3. CASE l.day < m.day
  <2>1. l.day * DayLength + DayLength <= m.day * DayLength
    <3>1. (l.day + 1) * DayLength <= m.day * DayLength
      BY <1>1, <1>3
    <3> QED BY <1>1, <1>2, <3>1
  <2>2. Clock(l) < Clock(m)
    BY <1>1, <1>2, <2>1 DEF Clock
  <2> QED BY <1>1, <1>2, <1>3, <2>2 DEF Clock, Before
<1>4. CASE m.day < l.day
  <2>1. m.day * DayLength + DayLength <= l.day * DayLength
    <3>1. (m.day + 1) * DayLength <= l.day * DayLength
      BY <1>1, <1>4
    <3> QED BY <1>1, <1>2, <3>1
  <2>2. Clock(m) < Clock(l)
    BY <1>1, <1>2, <2>1 DEF Clock
  <2> QED BY <1>1, <1>2, <1>4, <2>2 DEF Clock, Before
<1>5. CASE l.day = m.day
  <2>1. Clock(l) = Clock(m) => l = m
    BY <1>1, <1>2, <1>5 DEF Clock, LocalTime
  <2> QED BY <1>1, <1>2, <1>5, <2>1 DEF Clock, Before
<1> QED BY <1>1, <1>3, <1>4, <1>5

\* An offset is never more than a day.
LEMMA ZoneType ==
  ASSUME NEW z \in Zones
  PROVE  /\ z.at \in Int
         /\ z.before \in Int /\ -DayLength <= z.before /\ z.before <= DayLength
         /\ z.after \in Int /\ -DayLength <= z.after /\ z.after <= DayLength
         /\ \A t \in Int : Offset(z, t) \in Int
<1>1. /\ z.at \in Int /\ DayLength \in Int
      /\ z.before \in -DayLength .. DayLength /\ z.after \in -DayLength .. DayLength
  BY HoursAssumption
<1> QED BY <1>1 DEF Offset

\* What the clock shows at an instant.
LEMMA Shown ==
  ASSUME NEW z \in Zones, NEW t \in Int
  PROVE  /\ ToLocal(z, t) \in LocalTime
         /\ Clock(ToLocal(z, t)) = t + Offset(z, t)
<1>1. t + Offset(z, t) \in Int
  BY ZoneType
<1> QED BY <1>1, DayAndMinute DEF ToLocal, Clock, LocalTime

\* The clock is in local time what is shown there: the same time is shown at
\* instants that show the same minute.
LEMMA SameShown ==
  ASSUME NEW z \in Zones, NEW t \in Int, NEW l \in LocalTime
  PROVE  ToLocal(z, t) = l <=> t + Offset(z, t) = Clock(l)
BY Shown, ClockOrder

\* A time the clock shows comes back to it: FromLocal finds an instant at which
\* it is shown, on whichever side of the change of the offset its guess falls.
THEOREM LocalTimeComesBack ==
  ASSUME NEW z \in Zones, NEW t \in Int
  PROVE  /\ FromLocal(z, ToLocal(z, t)) \in Int
         /\ ToLocal(z, FromLocal(z, ToLocal(z, t))) = ToLocal(z, t)
<1> DEFINE g == t + Offset(z, t)
           u == g - Offset(z, g - Offset(z, g))
<1>1. z.at \in Int /\ z.before \in Int /\ z.after \in Int /\ Offset(z, t) \in Int /\ g \in Int
  BY ZoneType
<1>2. FromLocal(z, ToLocal(z, t)) = u
  BY <1>1, Shown DEF FromLocal, Clock
<1>3. u \in Int /\ u + Offset(z, u) = t + Offset(z, t)
  BY <1>1 DEF Offset
<1> QED BY <1>2, <1>3, Shown, SameShown

-----------------------------------------------------------------------------
\* The days of the week come back.
LEMMA WeekDay ==
  ASSUME NEW q \in Int, NEW r \in 0 .. WeekLength - 1
  PROVE  /\ q * WeekLength + r \in Int
         /\ (q * WeekLength + r) % WeekLength = r
<1>1. WeekLength \in Nat /\ WeekLength > 0 /\ r \in Int /\ 0 <= r /\ r < WeekLength
  BY HoursAssumption
<1> DEFINE d == q * WeekLength + r
           p == d \div WeekLength
<1>2. q * WeekLength \in Int /\ d \in Int
  BY <1>1
<1>3. p \in Int /\ d % WeekLength \in 0 .. WeekLength - 1 /\ (p * WeekLength) + (d % WeekLength) = d
  BY <1>1, <1>2
<1>4. p * WeekLength \in Int
  BY <1>1, <1>3
<1> HIDE DEF p
<1>5. p = q
  <2>1. CASE p < q
    <3>1. (p + 1) * WeekLength <= q * WeekLength
      BY <1>1, <1>3, <2>1
    <3>2. p * WeekLength + WeekLength <= q * WeekLength
      BY <1>1, <1>3, <3>1
    <3> QED BY <1>1, <1>2, <1>3, <1>4, <3>2
  <2>2. CASE q < p
    <3>1. (q + 1) * WeekLength <= p * WeekLength
      BY <1>1, <1>3, <2>2
    <3>2. q * WeekLength + WeekLength <= p * WeekLength
      BY <1>1, <1>3, <3>1
    <3> QED BY <1>1, <1>2, <1>3, <1>4, <3>2
  <2> QED BY <1>3, <2>1, <2>2
<1> QED BY <1>1, <1>2, <1>3, <1>5

\* A calendar as parseServiceCalendar accepts it.
LEMMA CalendarType ==
  ASSUME NEW c \in Calendars
  PROVE  /\ c.start \in Int /\ c.end \in Int /\ 0 <= c.start /\ c.start < c.end /\ c.end < DayLength
         /\ \E r \in 0 .. WeekLength - 1 : r \in c.days
         /\ IsFiniteSet(c.holidays)
BY HoursAssumption

\* The holidays, however many, leave a working day after every day.
LEMMA WorkGoesOn ==
  ASSUME NEW c \in Calendars, NEW day \in Int
  PROVE  \E d \in Int : d > day /\ WorkingDay(c, d)
<1>1. PICK r \in 0 .. WeekLength - 1 : r \in c.days
  BY CalendarType
<1>2. WeekLength \in Nat /\ WeekLength > 0 /\ r \in Int /\ r >= 0
  BY HoursAssumption
<1> DEFINE week == IF day < 0 THEN 0 ELSE day + 1
           n == Cardinality(c.holidays)
           on(k) == (week + k) * WeekLength + r
           f == [k \in 1 .. n + 1 |-> on(k)]
<1>3. IsFiniteSet(c.holidays) /\ n \in Nat
  BY CalendarType, FS_CardinalityType
<1>4. \A k \in 1 .. n + 1 : on(k) \in Int /\ on(k) > day /\ on(k) % WeekLength = r
  <2> TAKE k \in 1 .. n + 1
  <2>1. k \in Int /\ k >= 1 /\ week + k \in Int /\ week + k > day /\ week + k >= 1
    BY <1>3
  <2>2. (week + k) * WeekLength >= week + k
    BY <1>2, <2>1
  <2>3. on(k) \in Int /\ on(k) % WeekLength = r
    BY <2>1, WeekDay
  <2> QED BY <1>2, <2>1, <2>2, <2>3
<1>5. \A j, k \in 1 .. n + 1 : on(j) = on(k) => j = k
  <2> SUFFICES ASSUME NEW j \in 1 .. n + 1, NEW k \in 1 .. n + 1, on(j) = on(k), j < k PROVE FALSE
    BY <1>3
  <2>1. j \in Int /\ k \in Int /\ week \in Int
    BY <1>3
  <2>2. (week + j) * WeekLength + WeekLength <= (week + k) * WeekLength
    <3>1. (week + j + 1) * WeekLength <= (week + k) * WeekLength
      BY <1>2, <2>1
    <3> QED BY <1>2, <2>1, <3>1
  <2> QED BY <1>2, <2>1, <2>2
<1>6. SUFFICES ASSUME \A k \in 1 .. n + 1 : on(k) \in c.holidays PROVE FALSE
  BY <1>1, <1>3, <1>4 DEF WorkingDay
<1>7. f \in [1 .. n + 1 -> c.holidays] /\ \A k \in 1 .. n + 1 : f[k] = on(k)
  BY <1>6
<1>8. IsFiniteSet(1 .. n + 1) /\ Cardinality(1 .. n + 1) = n + 1
  <2> HIDE DEF n
  <2>1. 1 \in Int /\ n + 1 \in Int /\ ~(1 > n + 1)
    BY <1>3
  <2> QED BY <2>1, FS_Interval
<1> HIDE DEF f, n, on
<1>9. \E j, k \in 1 .. n + 1 : j # k /\ f[j] = f[k]
  BY <1>3, <1>7, <1>8, FS_PigeonHole DEF n
<1> QED BY <1>5, <1>7, <1>9

\* The next working day: the first after a day, and there is always one.
LEMMA NextWorkingDay ==
  ASSUME NEW c \in Calendars, NEW day \in Int
  PROVE  LET next == NextStart(c, day)
         IN  /\ next.day \in Int /\ next.day > day /\ next.minute = c.start
             /\ next = [day |-> next.day, minute |-> c.start]
             /\ WorkingDay(c, next.day)
             /\ \A d \in Int : day < d /\ d < next.day => ~WorkingDay(c, d)
<1> DEFINE ahead(d) == {n \in Nat : WorkingDay(c, d + n)}
           least(d) == CHOOSE n \in ahead(d) : \A m \in ahead(d) : n <= m
           First(f) == f = [d \in Int |-> IF WorkingDay(c, d) THEN d ELSE f[d + 1]]
           first[d \in Int] == IF WorkingDay(c, d) THEN d ELSE first[d + 1]
<1>1. NextStart(c, day) = [day |-> first[day + 1], minute |-> c.start]
  BY DEF NextStart
<1>2. \A d \in Int : least(d) \in ahead(d) /\ \A m \in ahead(d) : least(d) <= m
  <2> TAKE d \in Int
  <2>1. PICK e \in Int : e > d - 1 /\ WorkingDay(c, e)
    BY WorkGoesOn
  <2>2. e - d \in Nat /\ d + (e - d) = e
    BY <2>1
  <2>3. ahead(d) # {} /\ ahead(d) \subseteq Nat
    BY <2>1, <2>2
  <2> QED BY <2>3, Smallest
<1>3. \A d \in Int : /\ least(d) \in Nat
                     /\ WorkingDay(c, d) => least(d) = 0
                     /\ ~WorkingDay(c, d) => least(d) > 0 /\ least(d + 1) = least(d) - 1
  <2> TAKE d \in Int
  <2>1. least(d) \in Nat /\ WorkingDay(c, d + least(d)) /\ least(d + 1) \in Nat /\ WorkingDay(c, (d + 1) + least(d + 1))
    BY <1>2
  <2>2. CASE WorkingDay(c, d)
    <3>1. d + 0 = d /\ 0 \in ahead(d)
      BY <2>2
    <3> QED BY <1>2, <2>1, <2>2, <3>1
  <2>3. CASE ~WorkingDay(c, d)
    <3>1. least(d) # 0
      <4>1. d + 0 = d
        OBVIOUS
      <4> QED BY <2>1, <2>3, <4>1
    <3>2. d + least(d) = (d + 1) + (least(d) - 1) /\ (d + 1) + least(d + 1) = d + (least(d + 1) + 1)
      BY <2>1
    <3>3. least(d) - 1 \in ahead(d + 1) /\ least(d + 1) + 1 \in ahead(d)
      BY <2>1, <3>1, <3>2
    <3>4. least(d) <= least(d + 1) + 1 /\ least(d + 1) <= least(d) - 1
      BY <1>2, <3>3
    <3> HIDE DEF least, ahead
    <3> QED BY <2>1, <2>3, <3>1, <3>4
  <2> QED BY <2>2, <2>3
<1>4. \A d \in Int : first[d] = IF WorkingDay(c, d) THEN d ELSE first[d + 1]
  <2> DEFINE w == [d \in Int |-> d + least(d)]
  <2>1. ASSUME NEW d \in Int PROVE w[d] = IF WorkingDay(c, d) THEN d ELSE w[d + 1]
    <3>1. w[d] = d + least(d) /\ w[d + 1] = (d + 1) + least(d + 1) /\ least(d) \in Nat
      BY <1>3
    <3> HIDE DEF w, least
    <3>2. CASE WorkingDay(c, d)
      BY <1>3, <3>1, <3>2
    <3>3. CASE ~WorkingDay(c, d)
      <4>1. least(d + 1) = least(d) - 1
        BY <1>3, <3>3
      <4>2. w[d] = w[d + 1]
        BY <3>1, <4>1
      <4> QED BY <3>3, <4>2
    <3> QED BY <3>2, <3>3
  <2>2. First(w)
    BY <2>1
  <2> HIDE DEF w
  <2>3. \E f : First(f)
    BY <2>2
  <2>4. First(first)
    BY <2>3, Zenon
  <2> HIDE DEF first
  <2> QED BY <2>4
<1> HIDE DEF first
<1> DEFINE wrong == {n \in Nat : \E d \in Int : least(d) = n /\ first[d] # d + n}
<1>5. \A d \in Int : first[d] = d + least(d)
  <2> SUFFICES ASSUME wrong # {} PROVE FALSE
    BY <1>3
  <2>1. PICK n \in wrong : \A m \in wrong : n <= m
    BY Smallest
  <2>2. PICK d \in Int : least(d) = n /\ first[d] # d + n
    BY <2>1
  <2> HIDE DEF least
  <2>3. ~WorkingDay(c, d)
    BY <1>3, <1>4, <2>2
  <2>4. n \in Nat /\ n > 0 /\ least(d + 1) = n - 1 /\ first[d] = first[d + 1]
    BY <1>3, <1>4, <2>2, <2>3
  <2>5. first[d + 1] # (d + 1) + (n - 1)
    BY <2>2, <2>4
  <2>6. n - 1 \in wrong
    BY <2>4, <2>5
  <2> QED BY <2>1, <2>4, <2>6
<1>6. LET n == least(day + 1) IN
        /\ n \in Nat /\ WorkingDay(c, (day + 1) + n) /\ first[day + 1] = (day + 1) + n
        /\ \A m \in Nat : WorkingDay(c, (day + 1) + m) => n <= m
  BY <1>2, <1>5
<1> HIDE DEF least, ahead
<1>7. ASSUME NEW d \in Int, day < d, d < first[day + 1] PROVE ~WorkingDay(c, d)
  <2> DEFINE m == d - (day + 1)
  <2>1. m \in Nat /\ (day + 1) + m = d /\ m < least(day + 1)
    BY <1>6, <1>7
  <2> HIDE DEF m
  <2>2. least(day + 1) \in Nat /\ ~(least(day + 1) <= m)
    BY <1>6, <2>1
  <2> QED BY <1>6, <2>1, <2>2
<1>8. /\ NextStart(c, day).day = first[day + 1] /\ NextStart(c, day).minute = c.start
      /\ NextStart(c, day) = [day |-> NextStart(c, day).day, minute |-> c.start]
  BY <1>1
<1>9. first[day + 1] \in Int /\ first[day + 1] > day /\ WorkingDay(c, first[day + 1])
  BY <1>6
<1> QED BY <1>7, <1>8, <1>9

-----------------------------------------------------------------------------
\* The minutes of the bands of the working days, their ends among them: what
\* the deadlines and the counts are computed with.
Band(c) == {l \in LocalTime : WorkingDay(c, l.day) /\ c.start <= l.minute /\ l.minute <= c.end}

\* In a zone that suits the calendar every minute of the band is shown once:
\* near the change of the offset it is asked, far from it nothing changes.
LEMMA BandIsShownOnce ==
  ASSUME NEW c \in Calendars, NEW z \in Zones, Settled(c, z), NEW l \in Band(c)
  PROVE  \E t \in Int : /\ ToLocal(z, t) = l
                        /\ \A u \in Int : ToLocal(z, u) = l => u = t
<1> DEFINE g == Clock(l)
           near == (z.at - DayLength) \div DayLength .. (z.at + DayLength) \div DayLength
<1>1. /\ DayLength \in Nat /\ DayLength > 0
      /\ z.at \in Int
      /\ z.before \in Int /\ -DayLength <= z.before /\ z.before <= DayLength
      /\ z.after \in Int /\ -DayLength <= z.after /\ z.after <= DayLength
  BY HoursAssumption, ZoneType
<1>2. /\ l \in LocalTime /\ l.day \in Int /\ l.minute \in Int /\ 0 <= l.minute /\ l.minute < DayLength
      /\ WorkingDay(c, l.day) /\ l.minute \in c.start .. c.end
      /\ l = [day |-> l.day, minute |-> l.minute]
  BY <1>1, CalendarType DEF Band, LocalTime
<1>3. g \in Int /\ g = l.day * DayLength + l.minute /\ l.day * DayLength \in Int
  BY <1>1, <1>2 DEF Clock
<1>4. \A u \in Int : ToLocal(z, u) = l <=> u + Offset(z, u) = g
  BY <1>2, SameShown
<1>5. CASE l.day \in near
  <2> DEFINE around == (l.day - 1) * DayLength .. (l.day + 2) * DayLength
             S == {t \in around : ToLocal(z, t) = [day |-> l.day, minute |-> l.minute]}
  <2>1. Cardinality(S) = 1
    BY <1>2, <1>5 DEF Settled
  <2>2. around \subseteq Int /\ IsFiniteSet(around)
    <3>1. (l.day - 1) * DayLength \in Int /\ (l.day + 2) * DayLength \in Int
      BY <1>1, <1>2
    <3> QED BY <3>1, FS_Interval
  <2>3. IsFiniteSet(S)
    BY <2>2, FS_Subset
  <2>4. PICK t : S = {t}
    BY <2>1, <2>3, FS_Singleton
  <2>5. t \in Int /\ ToLocal(z, t) = l
    BY <1>2, <2>2, <2>4
  <2>6. ASSUME NEW u \in Int, ToLocal(z, u) = l PROVE u = t
    <3>1. u + Offset(z, u) = g
      BY <1>4, <2>6
    <3>2. -DayLength <= Offset(z, u) /\ Offset(z, u) <= DayLength /\ Offset(z, u) \in Int
      BY <1>1 DEF Offset
    <3>3. /\ (l.day - 1) * DayLength = l.day * DayLength - DayLength
          /\ (l.day + 2) * DayLength = l.day * DayLength + DayLength + DayLength
      BY <1>1, <1>2
    <3>4. u \in around
      BY <1>1, <1>2, <1>3, <3>1, <3>2, <3>3
    <3> QED BY <1>2, <2>4, <2>6, <3>4
  <2> QED BY <2>5, <2>6
<1>6. ASSUME NEW v \in Int PROVE v \div DayLength \in Int /\ (v \div DayLength) * DayLength <= v
                                 /\ v < (v \div DayLength) * DayLength + DayLength
  BY <1>1, DayAndMinute
<1>7. CASE l.day > (z.at + DayLength) \div DayLength
  <2> DEFINE p == (z.at + DayLength) \div DayLength
  <2>1. p \in Int /\ p * DayLength \in Int /\ z.at + DayLength < p * DayLength + DayLength
    BY <1>1, <1>6
  <2> HIDE DEF p
  <2>2. (p + 1) * DayLength <= l.day * DayLength
    BY <1>1, <1>2, <1>7, <2>1 DEF p
  <2>3. p * DayLength + DayLength <= l.day * DayLength
    BY <1>1, <2>1, <2>2
  <2>4. g > z.at + DayLength
    BY <1>1, <1>2, <1>3, <2>1, <2>3
  <2>5. g - z.after \in Int /\ (g - z.after) + Offset(z, g - z.after) = g
    BY <1>1, <1>3, <2>4 DEF Offset
  <2>6. \A u \in Int : u + Offset(z, u) = g => u = g - z.after
    BY <1>1, <1>3, <2>4 DEF Offset
  <2> QED BY <1>4, <2>5, <2>6
<1>8. CASE l.day < (z.at - DayLength) \div DayLength
  <2> DEFINE p == (z.at - DayLength) \div DayLength
  <2>1. p \in Int /\ p * DayLength \in Int /\ p * DayLength <= z.at - DayLength
    BY <1>1, <1>6
  <2> HIDE DEF p
  <2>2. (l.day + 1) * DayLength <= p * DayLength
    BY <1>1, <1>2, <1>8, <2>1 DEF p
  <2>3. l.day * DayLength + DayLength <= p * DayLength
    BY <1>1, <1>2, <2>1, <2>2
  <2>4. g < z.at - DayLength
    BY <1>1, <1>2, <1>3, <2>1, <2>3
  <2>5. g - z.before \in Int /\ (g - z.before) + Offset(z, g - z.before) = g
    BY <1>1, <1>3, <2>4 DEF Offset
  <2>6. \A u \in Int : u + Offset(z, u) = g => u = g - z.before
    BY <1>1, <1>3, <2>4 DEF Offset
  <2> QED BY <1>4, <2>5, <2>6
<1>9. (z.at + DayLength) \div DayLength \in Int /\ (z.at - DayLength) \div DayLength \in Int
  BY <1>1, <1>6
<1> QED BY <1>2, <1>5, <1>7, <1>8, <1>9

\* FromLocal is the instant of a minute of the band, and the instants before it
\* are those that show an earlier time: what is shown of a working day keeps the
\* order of the instants, whatever the offset does when nobody is at work.
LEMMA InstantOfBand ==
  ASSUME NEW c \in Calendars, NEW z \in Zones, Settled(c, z), NEW l \in Band(c)
  PROVE  /\ FromLocal(z, l) \in Int
         /\ ToLocal(z, FromLocal(z, l)) = l
         /\ \A t \in Int : ToLocal(z, t) = l => t = FromLocal(z, l)
         /\ \A t \in Int : t < FromLocal(z, l) <=> Clock(ToLocal(z, t)) < Clock(l)
<1>1. PICK T \in Int : ToLocal(z, T) = l /\ \A u \in Int : ToLocal(z, u) = l => u = T
  BY BandIsShownOnce
<1>2. FromLocal(z, l) \in Int /\ ToLocal(z, FromLocal(z, l)) = l
  BY <1>1, LocalTimeComesBack
<1>3. FromLocal(z, l) = T
  BY <1>1, <1>2
<1>4. ASSUME NEW t \in Int PROVE t < T <=> Clock(ToLocal(z, t)) < Clock(l)
  <2>1. l \in LocalTime /\ Clock(l) \in Int
    BY ClockOrder DEF Band
  <2>2. \A u \in Int : u + Offset(z, u) = Clock(l) => u = T
    BY <1>1, <2>1, SameShown
  <2>3. T + Offset(z, T) = Clock(l) /\ Clock(ToLocal(z, t)) = t + Offset(z, t)
    BY <1>1, <2>1, Shown
  <2>4. z.at \in Int /\ z.before \in Int /\ z.after \in Int
    BY ZoneType
  <2>5. CASE t < z.at /\ T >= z.at
    <3>1. T + z.after = Clock(l) /\ t + Offset(z, t) = t + z.before
      BY <2>3, <2>4, <2>5 DEF Offset
    <3>2. Clock(l) - z.before \in Int /\ (Clock(l) - z.before < z.at => Clock(l) - z.before = T)
      BY <2>1, <2>2, <2>4 DEF Offset
    <3> QED BY <2>1, <2>3, <2>4, <2>5, <3>1, <3>2
  <2>6. CASE t >= z.at /\ T < z.at
    <3>1. T + z.before = Clock(l) /\ t + Offset(z, t) = t + z.after
      BY <2>3, <2>4, <2>6 DEF Offset
    <3>2. Clock(l) - z.after \in Int /\ (Clock(l) - z.after >= z.at => Clock(l) - z.after = T)
      BY <2>1, <2>2, <2>4 DEF Offset
    <3> QED BY <2>1, <2>3, <2>4, <2>6, <3>1, <3>2
  <2>7. CASE t < z.at <=> T < z.at
    BY <2>1, <2>3, <2>4, <2>7 DEF Offset
  <2> QED BY <2>4, <2>5, <2>6, <2>7
<1> QED BY <1>1, <1>3, <1>4

-----------------------------------------------------------------------------
\* The minutes of service between two instants are counted interval by interval.
LEMMA OpenMinutesType ==
  ASSUME NEW c, NEW z, NEW a \in Int, NEW b \in Int
  PROVE  IsFiniteSet({t \in a .. b - 1 : Open(c, z, t)}) /\ OpenMinutes(c, z, a, b) \in Nat
<1>1. IsFiniteSet(a .. b - 1)
  <2>1. b - 1 \in Int
    OBVIOUS
  <2> QED BY <2>1, FS_Interval
<1>2. IsFiniteSet({t \in a .. b - 1 : Open(c, z, t)})
  BY <1>1, FS_Subset
<1> QED BY <1>2, FS_CardinalityType DEF OpenMinutes

\* The minutes of service of two stretches of time are those of the whole.
LEMMA OpenMinutesAdd ==
  ASSUME NEW c, NEW z, NEW a \in Int, NEW b \in Int, NEW d \in Int, a <= b, b <= d
  PROVE  OpenMinutes(c, z, a, d) = OpenMinutes(c, z, a, b) + OpenMinutes(c, z, b, d)
<1> DEFINE over(x, y) == {t \in x .. y - 1 : Open(c, z, t)}
<1>1. over(a, d) = over(a, b) \cup over(b, d) /\ over(a, b) \cap over(b, d) = {}
  OBVIOUS
<1>2. IsFiniteSet(over(a, b)) /\ IsFiniteSet(over(b, d))
  BY OpenMinutesType
<1>3. Cardinality(over(a, b)) \in Nat /\ Cardinality(over(b, d)) \in Nat /\ Cardinality({}) = 0
  BY <1>2, FS_CardinalityType, FS_EmptySet
<1>4. Cardinality(over(a, b) \cup over(b, d))
        = Cardinality(over(a, b)) + Cardinality(over(b, d)) - Cardinality(over(a, b) \cap over(b, d))
  BY <1>2, FS_Union
<1> HIDE DEF over
<1>5. Cardinality(over(a, d)) = Cardinality(over(a, b)) + Cardinality(over(b, d))
  BY <1>1, <1>3, <1>4
<1> QED BY <1>5 DEF OpenMinutes, over

\* All the minutes of a stretch are of service, or none is.
LEMMA OpenMinutesAll ==
  ASSUME NEW c, NEW z, NEW a \in Int, NEW b \in Int, a <= b, \A t \in a .. b - 1 : Open(c, z, t)
  PROVE  OpenMinutes(c, z, a, b) = b - a
<1>1. {t \in a .. b - 1 : Open(c, z, t)} = a .. b - 1
  OBVIOUS
<1>2. Cardinality(a .. b - 1) = IF a > b - 1 THEN 0 ELSE (b - 1) - a + 1
  <2>1. b - 1 \in Int
    OBVIOUS
  <2> QED BY <2>1, FS_Interval
<1>3. Cardinality(a .. b - 1) = b - a
  BY <1>2
<1> QED BY <1>1, <1>3 DEF OpenMinutes

LEMMA OpenMinutesNone ==
  ASSUME NEW c, NEW z, NEW a \in Int, NEW b \in Int, \A t \in a .. b - 1 : ~Open(c, z, t)
  PROVE  OpenMinutes(c, z, a, b) = 0
<1>1. {t \in a .. b - 1 : Open(c, z, t)} = {}
  OBVIOUS
<1> QED BY <1>1, FS_EmptySet DEF OpenMinutes

\* An instant of service is one of the band but its end.
LEMMA OpenIsBand ==
  ASSUME NEW c \in Calendars, NEW z \in Zones, NEW t \in Int
  PROVE  Open(c, z, t) <=> ToLocal(z, t) \in Band(c) /\ ToLocal(z, t).minute < c.end
<1>1. ToLocal(z, t) \in LocalTime /\ ToLocal(z, t).minute \in Int /\ c.start \in Int /\ c.end \in Int
  BY Shown, CalendarType, HoursAssumption DEF LocalTime
<1> QED BY <1>1 DEF Open, Band

\* Between two minutes of one band the time runs as the clock does, and all of it
\* is of service.
LEMMA OneDay ==
  ASSUME NEW c \in Calendars, NEW z \in Zones, Settled(c, z), NEW l \in Band(c), NEW m \in Band(c),
         l.day = m.day, l.minute <= m.minute
  PROVE  /\ FromLocal(z, m) = FromLocal(z, l) + (m.minute - l.minute)
         /\ OpenMinutes(c, z, FromLocal(z, l), FromLocal(z, m)) = m.minute - l.minute
<1> DEFINE L == FromLocal(z, l)
           M == FromLocal(z, m)
<1>1. /\ l \in LocalTime /\ m \in LocalTime /\ l.day \in Int /\ l.minute \in Int /\ m.minute \in Int
      /\ c.start \in Int /\ c.end \in Int /\ DayLength \in Int /\ 0 <= c.start /\ c.end < DayLength
      /\ c.start <= l.minute /\ m.minute <= c.end /\ WorkingDay(c, l.day)
      /\ Clock(l) \in Int /\ Clock(m) \in Int
  BY CalendarType, HoursAssumption, ClockOrder DEF Band, LocalTime
<1>2. Clock(m) - Clock(l) = m.minute - l.minute
  <2>1. l.day * DayLength \in Int
    BY <1>1
  <2> QED BY <1>1, <2>1 DEF Clock
<1>3. /\ L \in Int /\ \A t \in Int : t < L <=> Clock(ToLocal(z, t)) < Clock(l)
      /\ M \in Int /\ \A t \in Int : t < M <=> Clock(ToLocal(z, t)) < Clock(m)
      /\ L + Offset(z, L) = Clock(l) /\ M + Offset(z, M) = Clock(m)
  BY InstantOfBand, Shown
\* The times between the two are of the band too.
<1>4. ASSUME NEW g \in Int, Clock(l) <= g, g <= Clock(m)
      PROVE  LET p == [day |-> l.day, minute |-> l.minute + (g - Clock(l))] IN p \in Band(c) /\ Clock(p) = g
  <2>1. l.minute + (g - Clock(l)) \in Int /\ l.minute <= l.minute + (g - Clock(l)) /\ l.minute + (g - Clock(l)) <= m.minute
    BY <1>1, <1>2, <1>4
  <2>2. l.minute + (g - Clock(l)) \in 0 .. DayLength - 1
    BY <1>1, <2>1
  <2>3. l.day * DayLength \in Int
    BY <1>1
  <2> QED BY <1>1, <2>1, <2>2, <2>3 DEF Clock, Band, LocalTime
<1>5. ASSUME NEW t \in L .. M - 1 PROVE Open(c, z, t)
  <2>1. t \in Int /\ Clock(l) <= Clock(ToLocal(z, t)) /\ Clock(ToLocal(z, t)) < Clock(m) /\ Clock(ToLocal(z, t)) \in Int
        /\ ToLocal(z, t) \in LocalTime
    BY <1>1, <1>3, Shown, ClockOrder
  <2> DEFINE p == [day |-> l.day, minute |-> l.minute + (Clock(ToLocal(z, t)) - Clock(l))]
  <2>2. p \in Band(c) /\ Clock(p) = Clock(ToLocal(z, t)) /\ p.minute < m.minute /\ p.minute \in Int
    BY <1>1, <1>2, <1>4, <2>1
  <2> HIDE DEF p
  <2>3. ToLocal(z, t) = p
    BY <2>1, <2>2, ClockOrder DEF Band
  <2> QED BY <1>1, <2>1, <2>2, <2>3, OpenIsBand
<1>6. L <= M
  <2>1. ToLocal(z, M) = m /\ M \in Int
    BY InstantOfBand
  <2> QED BY <1>1, <1>2, <1>3, <2>1
<1>7. z.at \in Int /\ z.before \in Int /\ z.after \in Int
  BY ZoneType
\* The offset does not change between the two: the times around the change
\* would be shown twice, or never.
<1>8. M - L = Clock(m) - Clock(l)
  <2>1. CASE L < z.at /\ z.at <= M
    <3>1. L + z.before = Clock(l) /\ M + z.after = Clock(m)
      BY <1>3, <1>7, <2>1 DEF Offset
    <3>2. z.at - 1 \in Int /\ Clock(ToLocal(z, z.at)) = z.at + z.after /\ Clock(ToLocal(z, z.at - 1)) = z.at - 1 + z.before
      BY <1>7, Shown DEF Offset
    <3>3. /\ Clock(l) <= z.at + z.after /\ z.at + z.after <= Clock(m)
          /\ Clock(l) <= z.at - 1 + z.before /\ z.at - 1 + z.before < Clock(m)
      BY <1>1, <1>3, <1>7, <2>1, <3>1, <3>2
    <3>4. ASSUME NEW g \in Int, Clock(l) <= g, g <= Clock(m)
          PROVE  \E t \in Int : t + Offset(z, t) = g /\ \A u \in Int : u + Offset(z, u) = g => u = t
      <4> DEFINE p == [day |-> l.day, minute |-> l.minute + (g - Clock(l))]
      <4>1. p \in Band(c) /\ p \in LocalTime /\ Clock(p) = g
        BY <1>4, <3>4 DEF Band
      <4> HIDE DEF p
      <4>2. PICK t \in Int : ToLocal(z, t) = p /\ \A u \in Int : ToLocal(z, u) = p => u = t
        BY <4>1, BandIsShownOnce
      <4> QED BY <4>1, <4>2, SameShown
    <3>5. ~(z.before < z.after)
      <4> SUFFICES ASSUME z.before < z.after PROVE FALSE
        OBVIOUS
      <4>1. z.at + z.before \in Int /\ Clock(l) <= z.at + z.before /\ z.at + z.before <= Clock(m)
        BY <1>1, <1>7, <3>3
      <4>2. PICK t \in Int : t + Offset(z, t) = z.at + z.before
        BY <3>4, <4>1
      <4> QED BY <1>7, <4>2 DEF Offset
    <3>6. ~(z.after < z.before)
      <4> SUFFICES ASSUME z.after < z.before PROVE FALSE
        OBVIOUS
      <4>1. z.at - 1 + z.before \in Int /\ Clock(l) <= z.at - 1 + z.before /\ z.at - 1 + z.before <= Clock(m)
        BY <1>1, <1>7, <3>3
      <4>2. PICK t \in Int : \A u \in Int : u + Offset(z, u) = z.at - 1 + z.before => u = t
        BY <3>4, <4>1
      <4>3. z.at - 1 = t /\ z.at - 1 + z.before - z.after = t
        BY <1>7, <4>2 DEF Offset
      <4> QED BY <1>7, <4>3
    <3> QED BY <1>1, <1>3, <1>7, <3>1, <3>5, <3>6
  <2>2. CASE ~(L < z.at /\ z.at <= M)
    BY <1>1, <1>3, <1>6, <1>7, <2>2 DEF Offset
  <2> QED BY <2>1, <2>2
<1>9. OpenMinutes(c, z, L, M) = M - L
  BY <1>3, <1>5, <1>6, OpenMinutesAll
<1> HIDE DEF L, M
<1>10. M = L + (m.minute - l.minute) /\ OpenMinutes(c, z, L, M) = m.minute - l.minute
  BY <1>1, <1>2, <1>3, <1>8, <1>9
<1> QED BY <1>10 DEF L, M

\* The start and the end of the band of a working day.
LEMMA BandEnds ==
  ASSUME NEW c \in Calendars, NEW d \in Int, WorkingDay(c, d)
  PROVE  [day |-> d, minute |-> c.start] \in Band(c) /\ [day |-> d, minute |-> c.end] \in Band(c)
<1>1. c.start \in 0 .. DayLength - 1 /\ c.end \in 0 .. DayLength - 1 /\ c.start <= c.end /\ c.start \in Int /\ c.end \in Int
  BY CalendarType, HoursAssumption
<1> QED BY <1>1 DEF Band, LocalTime

\* Nobody is at work from an instant to a minute of the band when no minute of
\* service is shown between the two.
LEMMA ClosedUntil ==
  ASSUME NEW c \in Calendars, NEW z \in Zones, Settled(c, z), NEW t \in Int, NEW n \in Band(c),
         Clock(ToLocal(z, t)) <= Clock(n),
         \A b \in Band(c) : b.minute < c.end /\ Clock(ToLocal(z, t)) <= Clock(b) => Clock(n) <= Clock(b)
  PROVE  /\ FromLocal(z, n) \in Int /\ t <= FromLocal(z, n)
         /\ OpenMinutes(c, z, t, FromLocal(z, n)) = 0
<1> DEFINE T == FromLocal(z, n)
<1>1. /\ T \in Int /\ ToLocal(z, T) = n
      /\ \A u \in Int : ToLocal(z, u) = n => u = T
      /\ \A u \in Int : u < T <=> Clock(ToLocal(z, u)) < Clock(n)
  BY InstantOfBand
<1>2. /\ n \in LocalTime /\ ToLocal(z, t) \in LocalTime
      /\ Clock(n) \in Int /\ Clock(ToLocal(z, t)) \in Int
  BY Shown, ClockOrder DEF Band
<1>3. t <= T
  <2>1. CASE Clock(ToLocal(z, t)) < Clock(n)
    BY <1>1, <2>1
  <2>2. CASE Clock(ToLocal(z, t)) = Clock(n)
    BY <1>1, <1>2, <2>2, ClockOrder
  <2> QED BY <1>2, <2>1, <2>2
<1>4. ASSUME NEW u \in t .. T - 1 PROVE ~Open(c, z, u)
  <2> SUFFICES ASSUME Open(c, z, u) PROVE FALSE
    OBVIOUS
  <2> DEFINE b == ToLocal(z, u)
  <2>1. u \in Int /\ t <= u /\ u < T /\ b \in Band(c) /\ b.minute < c.end
    BY <1>1, OpenIsBand
  <2>2. Clock(b) \in Int /\ Clock(b) < Clock(n)
    BY <1>1, <2>1, Shown, ClockOrder
  <2>3. u = FromLocal(z, b) /\ (t < FromLocal(z, b) => Clock(ToLocal(z, t)) < Clock(b))
    BY <2>1, InstantOfBand
  <2> HIDE DEF b
  <2>4. Clock(ToLocal(z, t)) <= Clock(b)
    <3>1. CASE t < u
      BY <1>2, <2>2, <2>3, <3>1
    <3>2. CASE t = u
      BY <2>2, <3>2 DEF b
    <3> QED BY <2>1, <3>1, <3>2
  <2> QED BY <1>2, <2>1, <2>2, <2>4
<1>5. OpenMinutes(c, z, t, T) = 0
  BY <1>1, <1>4, OpenMinutesNone
<1> QED BY <1>1, <1>3, <1>5

\* From a time that is not of a working day, or is past the band of it, to the
\* start of the next working day.
LEMMA ClosedUntilNext ==
  ASSUME NEW c \in Calendars, NEW z \in Zones, Settled(c, z), NEW t \in Int,
         LET l == ToLocal(z, t) IN ~WorkingDay(c, l.day) \/ l.minute >= c.end
  PROVE  LET next == NextStart(c, ToLocal(z, t).day)
         IN  /\ next \in Band(c) /\ next.minute = c.start /\ next.day > ToLocal(z, t).day
             /\ FromLocal(z, next) \in Int /\ t < FromLocal(z, next)
             /\ OpenMinutes(c, z, t, FromLocal(z, next)) = 0
<1> DEFINE l == ToLocal(z, t)
           n == NextStart(c, l.day)
<1>1. l \in LocalTime /\ l.day \in Int /\ l.minute \in Int
  BY Shown, HoursAssumption DEF LocalTime
<1>2. /\ n.day \in Int /\ n.day > l.day /\ n.minute = c.start /\ WorkingDay(c, n.day)
      /\ n = [day |-> n.day, minute |-> c.start]
      /\ \A d \in Int : l.day < d /\ d < n.day => ~WorkingDay(c, d)
  BY <1>1, NextWorkingDay
<1>3. n \in Band(c) /\ n \in LocalTime
  BY <1>2, BandEnds DEF Band
<1>4. ~WorkingDay(c, l.day) \/ l.minute >= c.end
  OBVIOUS
<1> HIDE DEF l, n
<1>5. c.start \in Int /\ c.end \in Int
  BY CalendarType
<1>6. Clock(l) < Clock(n) /\ Clock(l) \in Int /\ Clock(n) \in Int
  BY <1>1, <1>2, <1>3, ClockOrder DEF Before
<1>7. ASSUME NEW b \in Band(c), b.minute < c.end, Clock(l) <= Clock(b) PROVE Clock(n) <= Clock(b)
  <2>1. b \in LocalTime /\ b.day \in Int /\ b.minute \in Int /\ WorkingDay(c, b.day) /\ c.start <= b.minute /\ Clock(b) \in Int
    BY HoursAssumption, ClockOrder DEF Band, LocalTime
  <2>2. ~Before(b, l) /\ (Before(b, n) <=> Clock(b) < Clock(n))
    BY <1>1, <1>3, <1>6, <1>7, <2>1, ClockOrder
  <2>3. ~Before(b, n)
    BY <1>1, <1>2, <1>4, <1>5, <1>7, <2>1, <2>2 DEF Before
  <2> QED BY <1>6, <2>1, <2>2, <2>3
<1>8. FromLocal(z, n) \in Int /\ t <= FromLocal(z, n) /\ OpenMinutes(c, z, t, FromLocal(z, n)) = 0
  BY <1>3, <1>6, <1>7, ClosedUntil DEF l
<1>9. t < FromLocal(z, n)
  BY <1>3, <1>6, InstantOfBand DEF l
<1> QED BY <1>2, <1>3, <1>8, <1>9 DEF l, n

\* The end of a band and the start of the next one.
LEMMA NightIsClosed ==
  ASSUME NEW c \in Calendars, NEW z \in Zones, Settled(c, z), NEW d \in Int, WorkingDay(c, d)
  PROVE  LET end == FromLocal(z, [day |-> d, minute |-> c.end])
             start == FromLocal(z, NextStart(c, d))
         IN  end \in Int /\ start \in Int /\ end < start /\ OpenMinutes(c, z, end, start) = 0
<1> DEFINE e == [day |-> d, minute |-> c.end]
<1>1. e \in Band(c) /\ e.minute >= c.end /\ e.day = d
  <2>1. c.end \in Int
    BY CalendarType
  <2>2. e \in Band(c)
    BY BandEnds
  <2>3. e.minute = c.end /\ e.day = d
    OBVIOUS
  <2> QED BY <2>1, <2>2, <2>3
<1> HIDE DEF e
<1>2. FromLocal(z, e) \in Int /\ ToLocal(z, FromLocal(z, e)) = e
  BY <1>1, InstantOfBand
<1> QED BY <1>1, <1>2, ClosedUntilNext DEF e

\* The first minute of service from an instant on.
LEMMA AdvanceIsNext ==
  ASSUME NEW c \in Calendars, NEW z \in Zones, Settled(c, z), NEW t \in Int
  PROVE  LET a == Advance(c, ToLocal(z, t))
         IN  /\ a \in Band(c) /\ a.minute < c.end
             /\ FromLocal(z, a) \in Int /\ t <= FromLocal(z, a)
             /\ OpenMinutes(c, z, t, FromLocal(z, a)) = 0
<1> DEFINE l == ToLocal(z, t)
<1>1. l \in LocalTime /\ l.day \in Int /\ l.minute \in Int /\ Clock(l) \in Int
  BY Shown, ClockOrder, HoursAssumption DEF LocalTime
<1>2. c.start \in Int /\ c.end \in Int /\ c.start < c.end
  BY CalendarType
<1>3. CASE ~WorkingDay(c, l.day) \/ l.minute >= c.end
  <2>1. Advance(c, l) = NextStart(c, l.day)
    BY <1>3 DEF Advance
  <2>2. NextStart(c, l.day).minute < c.end
    BY <1>1, <1>2, NextWorkingDay
  <2> QED BY <1>3, <2>1, <2>2, ClosedUntilNext
<1>4. CASE WorkingDay(c, l.day) /\ l.minute < c.start
  <2> DEFINE a == [day |-> l.day, minute |-> c.start]
  <2>1. Advance(c, l) = a
    BY <1>1, <1>2, <1>4 DEF Advance, LocalTime
  <2>2. a \in Band(c) /\ a \in LocalTime /\ a.minute = c.start /\ a.day = l.day
    BY <1>1, <1>4, BandEnds DEF Band
  <2> HIDE DEF l, a
  <2>3. Clock(l) < Clock(a) /\ Clock(a) \in Int
    BY <1>1, <1>4, <2>2, ClockOrder DEF Before
  <2>4. ASSUME NEW b \in Band(c), Clock(l) <= Clock(b) PROVE Clock(a) <= Clock(b)
    <3>1. b \in LocalTime /\ b.day \in Int /\ b.minute \in Int /\ c.start <= b.minute /\ Clock(b) \in Int
      BY HoursAssumption, ClockOrder DEF Band, LocalTime
    <3>2. ~Before(b, l) /\ (Before(b, a) <=> Clock(b) < Clock(a))
      BY <1>1, <2>2, <2>4, <3>1, ClockOrder
    <3> QED BY <1>1, <1>2, <2>2, <2>3, <3>1, <3>2 DEF Before
  <2>5. FromLocal(z, a) \in Int /\ t <= FromLocal(z, a) /\ OpenMinutes(c, z, t, FromLocal(z, a)) = 0
    BY <1>1, <2>2, <2>3, <2>4, ClosedUntil DEF l
  <2> QED BY <1>2, <2>1, <2>2, <2>5 DEF l
<1>5. CASE WorkingDay(c, l.day) /\ ~(l.minute >= c.end) /\ ~(l.minute < c.start)
  <2>1. Advance(c, l) = l /\ l \in Band(c)
    BY <1>1, <1>2, <1>5 DEF Advance, Band
  <2>2. t = FromLocal(z, l)
    BY <2>1, InstantOfBand
  <2>3. OpenMinutes(c, z, t, t) = 0
    BY OpenMinutesNone
  <2> QED BY <1>1, <1>2, <1>5, <2>1, <2>2, <2>3
<1> QED BY <1>1, <1>2, <1>3, <1>4, <1>5

-----------------------------------------------------------------------------
\* A deadline: the end of the last of some minutes of service from an instant.
EndsAfter(c, z, t, minutes, l) ==
  /\ l \in Band(c) /\ l.minute > c.start
  /\ t <= FromLocal(z, l)
  /\ OpenMinutes(c, z, t, FromLocal(z, l)) = minutes

\* The minute before it is of service.
LEMMA LastMinute ==
  ASSUME NEW c \in Calendars, NEW z \in Zones, Settled(c, z), NEW l \in Band(c), l.minute > c.start
  PROVE  FromLocal(z, l) \in Int /\ Open(c, z, FromLocal(z, l) - 1)
<1> DEFINE m == [day |-> l.day, minute |-> l.minute - 1]
<1>1. /\ l.day \in Int /\ l.minute \in 0 .. DayLength - 1 /\ DayLength \in Int /\ c.start \in Int /\ c.end \in Int
      /\ 0 <= c.start /\ l.minute <= c.end /\ WorkingDay(c, l.day)
  BY CalendarType, HoursAssumption DEF Band, LocalTime
<1>2. m \in Band(c) /\ m.day = l.day /\ m.minute = l.minute - 1 /\ m.minute \in Int /\ m.minute <= l.minute /\ m.minute < c.end
  BY <1>1 DEF Band, LocalTime
<1> HIDE DEF m
<1>3. FromLocal(z, l) = FromLocal(z, m) + (l.minute - m.minute)
  BY <1>2, OneDay
<1>4. FromLocal(z, m) \in Int /\ ToLocal(z, FromLocal(z, m)) = m /\ FromLocal(z, l) \in Int
  BY <1>2, InstantOfBand
<1>5. FromLocal(z, m) = FromLocal(z, l) - 1
  BY <1>1, <1>2, <1>3, <1>4
<1> QED BY <1>2, <1>4, <1>5, OpenIsBand

\* There is one such time at most.
LEMMA OneEnd ==
  ASSUME NEW c \in Calendars, NEW z \in Zones, Settled(c, z), NEW t \in Int, NEW n \in Nat,
         NEW l, NEW m, EndsAfter(c, z, t, n, l), EndsAfter(c, z, t, n, m)
  PROVE  l = m
<1>1. ASSUME NEW a, NEW b, EndsAfter(c, z, t, n, a), EndsAfter(c, z, t, n, b), FromLocal(z, a) < FromLocal(z, b)
      PROVE  FALSE
  <2> DEFINE A == FromLocal(z, a)
             B == FromLocal(z, b)
  <2>1. A \in Int /\ B \in Int /\ Open(c, z, B - 1) /\ t <= A
    BY <1>1, InstantOfBand, LastMinute DEF EndsAfter
  <2>2. /\ OpenMinutes(c, z, t, B) = OpenMinutes(c, z, t, A) + OpenMinutes(c, z, A, B)
        /\ OpenMinutes(c, z, A, B) = OpenMinutes(c, z, A, B - 1) + OpenMinutes(c, z, B - 1, B)
        /\ OpenMinutes(c, z, B - 1, B) = 1
    <3> HIDE DEF A, B
    <3>1. A < B
      BY <1>1 DEF A, B
    <3>2. B - 1 \in Int /\ A <= B - 1 /\ B - 1 <= B /\ A <= B /\ B - (B - 1) = 1 /\ \A u \in B - 1 .. B - 1 : u = B - 1
      BY <2>1, <3>1
    <3>3. OpenMinutes(c, z, B - 1, B) = B - (B - 1)
      BY <2>1, <3>2, OpenMinutesAll
    <3>4. OpenMinutes(c, z, t, B) = OpenMinutes(c, z, t, A) + OpenMinutes(c, z, A, B)
      BY <2>1, <3>2, OpenMinutesAdd
    <3>5. OpenMinutes(c, z, A, B) = OpenMinutes(c, z, A, B - 1) + OpenMinutes(c, z, B - 1, B)
      BY <2>1, <3>2, OpenMinutesAdd
    <3> QED BY <3>2, <3>3, <3>4, <3>5
  <2>3. OpenMinutes(c, z, A, B - 1) \in Nat
    <3>1. B - 1 \in Int
      BY <2>1
    <3> QED BY <2>1, <3>1, OpenMinutesType
  <2>4. OpenMinutes(c, z, t, A) = n /\ OpenMinutes(c, z, t, B) = n
    BY <1>1 DEF EndsAfter
  <2> HIDE DEF A, B
  <2> QED BY <2>2, <2>3, <2>4
<1>2. /\ FromLocal(z, l) \in Int /\ ToLocal(z, FromLocal(z, l)) = l
      /\ FromLocal(z, m) \in Int /\ ToLocal(z, FromLocal(z, m)) = m
  BY InstantOfBand DEF EndsAfter
<1>3. FromLocal(z, l) = FromLocal(z, m)
  BY <1>1, <1>2
<1> QED BY <1>2, <1>3

\* Within the band of the day the time starts on, it is some minutes further on.
LEMMA EndOnTheDay ==
  ASSUME NEW c \in Calendars, NEW z \in Zones, Settled(c, z), NEW l \in Band(c),
         NEW n \in Nat, n > 0, l.minute + n <= c.end
  PROVE  EndsAfter(c, z, FromLocal(z, l), n, [l EXCEPT !.minute = l.minute + n])
<1> DEFINE m == [l EXCEPT !.minute = l.minute + n]
<1>1. /\ l \in LocalTime /\ l.minute \in 0 .. DayLength - 1 /\ DayLength \in Int /\ c.start \in Int /\ c.end \in Int
      /\ c.start <= l.minute /\ c.end < DayLength /\ WorkingDay(c, l.day)
  BY CalendarType, HoursAssumption DEF Band, LocalTime
<1>2. m \in Band(c) /\ m.day = l.day /\ m.minute = l.minute + n /\ l.minute <= m.minute /\ m.minute > c.start /\ m.minute - l.minute = n
  BY <1>1 DEF Band, LocalTime
<1> HIDE DEF m
<1>3. FromLocal(z, m) = FromLocal(z, l) + (m.minute - l.minute) /\ FromLocal(z, l) \in Int
      /\ OpenMinutes(c, z, FromLocal(z, l), FromLocal(z, m)) = m.minute - l.minute
  BY <1>2, OneDay, InstantOfBand
<1>4. FromLocal(z, l) <= FromLocal(z, m)
  BY <1>2, <1>3
<1>5. EndsAfter(c, z, FromLocal(z, l), n, m)
  BY <1>2, <1>3, <1>4 DEF EndsAfter
<1> QED BY <1>5 DEF m

\* The rest of a day and the night after it leave it where it was, with as many
\* minutes less.
LEMMA EndPastTheDay ==
  ASSUME NEW c \in Calendars, NEW z \in Zones, Settled(c, z), NEW l \in Band(c), NEW n \in Nat, NEW e,
         EndsAfter(c, z, FromLocal(z, NextStart(c, l.day)), n, e)
  PROVE  EndsAfter(c, z, FromLocal(z, l), n + (c.end - l.minute), e)
<1> DEFINE p == [day |-> l.day, minute |-> c.end]
           L == FromLocal(z, l)
           P == FromLocal(z, p)
           N == FromLocal(z, NextStart(c, l.day))
           E == FromLocal(z, e)
<1>1. l.day \in Int /\ l.minute \in Int /\ c.end \in Int /\ l.minute <= c.end /\ WorkingDay(c, l.day)
  BY CalendarType, HoursAssumption DEF Band, LocalTime
<1>2. p \in Band(c) /\ p.day = l.day /\ p.minute = c.end
  BY <1>1, BandEnds
<1>3. P \in Int /\ N \in Int /\ P < N /\ OpenMinutes(c, z, P, N) = 0
  BY <1>1, NightIsClosed
<1> HIDE DEF p
<1>4. L \in Int /\ P = L + (c.end - l.minute) /\ OpenMinutes(c, z, L, P) = c.end - l.minute
  BY <1>1, <1>2, OneDay, InstantOfBand
<1>5. e \in Band(c) /\ e.minute > c.start /\ E \in Int /\ N <= E /\ OpenMinutes(c, z, N, E) = n
  BY InstantOfBand DEF EndsAfter
<1> HIDE DEF L, P, N, E
<1>6. L <= P /\ P <= N /\ L <= E /\ P <= E
  BY <1>1, <1>3, <1>4, <1>5
<1>7. OpenMinutes(c, z, L, E) = OpenMinutes(c, z, L, P) + (OpenMinutes(c, z, P, N) + OpenMinutes(c, z, N, E))
  BY <1>3, <1>4, <1>5, <1>6, OpenMinutesAdd
<1>8. OpenMinutes(c, z, L, E) = n + (c.end - l.minute)
  BY <1>1, <1>3, <1>4, <1>5, <1>7
<1> QED BY <1>5, <1>6, <1>8 DEF EndsAfter, L, E

\* Where so many minutes end from the start of the next working day on, one day
\* at a time.
NextEnd(c, z, day, n, e) == EndsAfter(c, z, FromLocal(z, NextStart(c, day)), n, e)

\* One turn of the loop: what is left ends on the next working day, or a whole day
\* less ends where it did.
LEMMA NextEndOneDay ==
  ASSUME NEW c \in Calendars, NEW z \in Zones, Settled(c, z), NEW day \in Int, NEW n \in Nat, n > 0
  PROVE  LET next == NextStart(c, day)
         IN  /\ ~FullDay(c, n) => NextEnd(c, z, day, n, [next EXCEPT !.minute = @ + n])
             /\ FullDay(c, n) =>
                  /\ n - (c.end - c.start) \in Nat /\ n - (c.end - c.start) > 0 /\ n - (c.end - c.start) < n
                  /\ \A e : NextEnd(c, z, next.day, n - (c.end - c.start), e) => NextEnd(c, z, day, n, e)
<1> DEFINE next == NextStart(c, day)
           rest == n - (c.end - c.start)
<1>1. c.start \in Int /\ c.end \in Int /\ c.start < c.end
  BY CalendarType
<1>2. next \in Band(c) /\ next.minute = c.start /\ next.day \in Int
  <2>1. /\ next.day \in Int /\ next.minute = c.start /\ WorkingDay(c, next.day)
        /\ next = [day |-> next.day, minute |-> c.start]
    BY NextWorkingDay
  <2> HIDE DEF next
  <2>2. [day |-> next.day, minute |-> c.start] \in Band(c)
    BY <2>1, BandEnds
  <2> QED BY <2>1, <2>2
<1> HIDE DEF next
<1>3. CASE ~FullDay(c, n)
  <2>1. next.minute + n <= c.end
    BY <1>1, <1>2, <1>3 DEF FullDay
  <2>2. NextEnd(c, z, day, n, [next EXCEPT !.minute = next.minute + n])
    BY <1>2, <2>1, EndOnTheDay DEF NextEnd, next
  <2> QED BY <1>3, <2>2 DEF next
<1>4. CASE FullDay(c, n)
  <2>1. rest \in Nat /\ rest > 0 /\ rest < n /\ rest + (c.end - next.minute) = n
    BY <1>1, <1>2, <1>4 DEF FullDay
  <2> HIDE DEF rest
  <2>2. ASSUME NEW e, NextEnd(c, z, next.day, rest, e) PROVE NextEnd(c, z, day, n, e)
    BY <1>2, <2>1, <2>2, EndPastTheDay DEF NextEnd, next
  <2> QED BY <1>4, <2>1, <2>2 DEF next, rest
<1> QED BY <1>3, <1>4

\* There is such a time, however many minutes are asked for.
LEMMA NextEndExists ==
  ASSUME NEW c \in Calendars, NEW z \in Zones, Settled(c, z)
  PROVE  \A day \in Int : \A n \in Nat : n > 0 => \E e : NextEnd(c, z, day, n, e)
<1> DEFINE without == {n \in Nat : n > 0 /\ \E day \in Int : \A e : ~NextEnd(c, z, day, n, e)}
<1> SUFFICES ASSUME without # {} PROVE FALSE
  OBVIOUS
<1>1. PICK n \in without : \A m \in without : n <= m
  BY Smallest
<1>2. PICK day \in Int : \A e : ~NextEnd(c, z, day, n, e)
  BY <1>1
<1> DEFINE next == NextStart(c, day)
           rest == n - (c.end - c.start)
<1>3. n \in Nat /\ n > 0 /\ next.day \in Int
  BY <1>1, NextWorkingDay
<1>4. FullDay(c, n)
  BY <1>2, <1>3, NextEndOneDay
<1>5. rest \in Nat /\ rest > 0 /\ rest < n /\ \A e : ~NextEnd(c, z, next.day, rest, e)
  BY <1>2, <1>3, <1>4, NextEndOneDay
<1> HIDE DEF rest, next
<1>6. rest \in without
  BY <1>3, <1>5
<1> QED BY <1>1, <1>3, <1>5, <1>6

\* The loop over the whole days finds it.
LEMMA WholeDays ==
  ASSUME NEW c \in Calendars, NEW z \in Zones, Settled(c, z), NEW day \in Int, NEW n \in Nat, n > 0
  PROVE  LET after[s \in [day: Int, rest: Nat]] ==
               LET next == NextStart(c, s.day)
               IN  IF FullDay(c, s.rest) THEN after[[day |-> next.day, rest |-> s.rest - (c.end - c.start)]]
                   ELSE [next EXCEPT !.minute = @ + s.rest]
         IN  NextEnd(c, z, day, n, after[[day |-> day, rest |-> n]])
<1> DEFINE States == [day: Int, rest: Nat]
           Step(f, s) == LET next == NextStart(c, s.day)
                         IN  IF FullDay(c, s.rest) THEN f[[day |-> next.day, rest |-> s.rest - (c.end - c.start)]]
                             ELSE [next EXCEPT !.minute = @ + s.rest]
           after[s \in [day: Int, rest: Nat]] ==
               LET next == NextStart(c, s.day)
               IN  IF FullDay(c, s.rest) THEN after[[day |-> next.day, rest |-> s.rest - (c.end - c.start)]]
                   ELSE [next EXCEPT !.minute = @ + s.rest]
           state(d, r) == [day |-> d, rest |-> r]
<1>1. c.start \in Int /\ c.end \in Int /\ c.start < c.end
  BY CalendarType
<1>2. \A s \in States : s.day \in Int /\ s.rest \in Nat /\ s = state(s.day, s.rest) /\ NextStart(c, s.day).day \in Int
  BY NextWorkingDay
<1>3. \A s \in States : after[s] = Step(after, s)
  <2> DEFINE End(d, r) == CHOOSE e : NextEnd(c, z, d, r, e)
             w == [s \in States |-> IF s.rest = 0 THEN [NextStart(c, s.day) EXCEPT !.minute = @ + 0] ELSE End(s.day, s.rest)]
  <2>1. \A d \in Int : \A r \in Nat : r > 0 => NextEnd(c, z, d, r, End(d, r))
    BY NextEndExists
  <2>2. ASSUME NEW s \in States PROVE w[s] = Step(w, s)
    <3>1. CASE s.rest = 0
      <4>1. ~FullDay(c, s.rest)
        BY <1>1, <3>1 DEF FullDay
      <4> QED BY <3>1, <4>1
    <3>2. CASE s.rest > 0
      <4> DEFINE next == NextStart(c, s.day)
                 rest == s.rest - (c.end - c.start)
      <4>1. s.day \in Int /\ s.rest \in Nat /\ next.day \in Int /\ w[s] = End(s.day, s.rest)
        BY <1>2, <3>2
      <4>2. NextEnd(c, z, s.day, s.rest, End(s.day, s.rest))
        BY <2>1, <3>2, <4>1
      <4>3. \A e : NextEnd(c, z, s.day, s.rest, e) => e = End(s.day, s.rest)
        <5>1. FromLocal(z, next) \in Int
          <6>1. /\ next.day \in Int /\ WorkingDay(c, next.day)
                /\ next = [day |-> next.day, minute |-> c.start]
            BY <4>1, NextWorkingDay
          <6> HIDE DEF next
          <6>2. next \in Band(c)
            BY <6>1, BandEnds
          <6> QED BY <6>2, InstantOfBand
        <5> QED BY <4>1, <4>2, <5>1, OneEnd DEF NextEnd
      <4>4. CASE FullDay(c, s.rest)
        <5>1. rest \in Nat /\ rest > 0 /\ \A e : NextEnd(c, z, next.day, rest, e) => NextEnd(c, z, s.day, s.rest, e)
          BY <3>2, <4>1, <4>4, NextEndOneDay
        <5> HIDE DEF rest, next
        <5>2. NextEnd(c, z, next.day, rest, End(next.day, rest))
          BY <2>1, <4>1, <5>1
        <5>3. End(next.day, rest) = End(s.day, s.rest)
          BY <4>3, <5>1, <5>2
        <5>4. state(next.day, rest) \in States /\ w[state(next.day, rest)] = End(next.day, rest)
          BY <4>1, <5>1
        <5> HIDE DEF w, End
        <5> QED BY <4>1, <4>4, <5>3, <5>4 DEF next, rest
      <4>5. CASE ~FullDay(c, s.rest)
        <5>1. NextEnd(c, z, s.day, s.rest, [next EXCEPT !.minute = @ + s.rest])
          BY <3>2, <4>1, <4>5, NextEndOneDay
        <5>2. [next EXCEPT !.minute = @ + s.rest] = End(s.day, s.rest)
          BY <4>3, <5>1
        <5> HIDE DEF w, End
        <5> QED BY <4>1, <4>5, <5>2
      <4> QED BY <4>4, <4>5
    <3> QED BY <1>2, <3>1, <3>2
  <2>3. w = [s \in States |-> Step(w, s)]
    <3>1. w = [s \in States |-> w[s]]
      OBVIOUS
    <3> HIDE DEF w
    <3> QED BY <2>2, <3>1
  <2> HIDE DEF w
  <2>4. \E f : f = [s \in States |-> Step(f, s)]
    BY <2>3
  <2>5. after = [s \in States |-> Step(after, s)]
    BY <2>4, Zenon
  <2> HIDE DEF after
  <2> QED BY <2>5
<1> HIDE DEF after
<1> DEFINE wrong == {r \in Nat : r > 0 /\ \E d \in Int : ~NextEnd(c, z, d, r, after[state(d, r)])}
<1>4. \A d \in Int : \A r \in Nat : r > 0 => NextEnd(c, z, d, r, after[state(d, r)])
  <2> SUFFICES ASSUME wrong # {} PROVE FALSE
    OBVIOUS
  <2>1. PICK r \in wrong : \A m \in wrong : r <= m
    BY Smallest
  <2>2. PICK d \in Int : ~NextEnd(c, z, d, r, after[state(d, r)])
    BY <2>1
  <2> DEFINE next == NextStart(c, d)
             rest == r - (c.end - c.start)
  <2>3. r \in Nat /\ r > 0 /\ next.day \in Int /\ state(d, r) \in States /\ state(d, r).day = d /\ state(d, r).rest = r
    BY <2>1, NextWorkingDay
  <2>4. FullDay(c, r)
    <3> SUFFICES ASSUME ~FullDay(c, r) PROVE FALSE
      OBVIOUS
    <3>1. after[state(d, r)] = [next EXCEPT !.minute = @ + r]
      BY <1>3, <2>3
    <3> QED BY <2>2, <2>3, <3>1, NextEndOneDay
  <2>5. after[state(d, r)] = after[state(next.day, rest)]
    BY <1>3, <2>3, <2>4
  <2>6. rest \in Nat /\ rest > 0 /\ rest < r /\ \A e : NextEnd(c, z, next.day, rest, e) => NextEnd(c, z, d, r, e)
    BY <2>3, <2>4, NextEndOneDay
  <2> HIDE DEF rest, next
  <2>7. ~NextEnd(c, z, next.day, rest, after[state(next.day, rest)])
    BY <2>2, <2>5, <2>6
  <2>8. rest \in wrong
    BY <2>3, <2>6, <2>7
  <2> QED BY <2>1, <2>3, <2>6, <2>8
<1>5. NextEnd(c, z, day, n, after[[day |-> day, rest |-> n]])
  BY <1>4
<1> QED BY <1>5 DEF after

\* On any calendar, in any zone that suits it: as many minutes of service lie
\* between an instant and its deadline as were asked for, the last of them just
\* before it; with none asked for it is the next minute of service.
THEOREM DeadlinesAreRight ==
  ASSUME NEW c \in Calendars, NEW z \in Zones, Settled(c, z), NEW start \in Int, NEW minutes \in Nat
  PROVE  LET d == Deadline(c, z, start, minutes)
         IN  /\ d \in Int /\ d >= start
             /\ OpenMinutes(c, z, start, d) = minutes
             /\ Open(c, z, IF minutes = 0 THEN d ELSE d - 1)
<1> DEFINE current == Advance(c, ToLocal(z, start))
           left == c.end - current.minute
           after[s \in [day: Int, rest: Nat]] ==
               LET next == NextStart(c, s.day)
               IN  IF FullDay(c, s.rest) THEN after[[day |-> next.day, rest |-> s.rest - (c.end - c.start)]]
                   ELSE [next EXCEPT !.minute = @ + s.rest]
           local == IF minutes <= left THEN [current EXCEPT !.minute = @ + minutes]
                    ELSE after[[day |-> current.day, rest |-> minutes - left]]
           C == FromLocal(z, current)
           D == FromLocal(z, local)
<1>1. Deadline(c, z, start, minutes) = D
  BY DEF Deadline
<1>2. current \in Band(c) /\ current.minute < c.end /\ C \in Int /\ start <= C /\ OpenMinutes(c, z, start, C) = 0
  BY AdvanceIsNext
<1>3. c.end \in Int /\ current.minute \in Int /\ current.day \in Int /\ left \in Nat /\ left > 0
  BY <1>2, CalendarType, HoursAssumption DEF Band, LocalTime
<1>4. ASSUME minutes > left PROVE EndsAfter(c, z, C, minutes, after[[day |-> current.day, rest |-> minutes - left]])
  <2> DEFINE n == minutes - left
  <2>1. n \in Nat /\ n > 0
    BY <1>3, <1>4
  <2> HIDE DEF n
  <2>2. NextEnd(c, z, current.day, n, after[[day |-> current.day, rest |-> n]])
    BY <1>3, <2>1, WholeDays
  <2> HIDE DEF after
  <2>3. EndsAfter(c, z, C, n + left, after[[day |-> current.day, rest |-> n]])
    BY <1>2, <2>1, <2>2, EndPastTheDay DEF NextEnd
  <2>4. n + left = minutes
    BY <1>3 DEF n
  <2> QED BY <2>3, <2>4 DEF n
<1> HIDE DEF after
<1>5. CASE minutes = 0
  <2>1. local = current
    BY <1>2, <1>3, <1>5 DEF Band, LocalTime
  <2>2. Open(c, z, C)
    BY <1>2, OpenIsBand, InstantOfBand
  <2> QED BY <1>1, <1>2, <1>5, <2>1, <2>2
<1>6. CASE minutes > 0
  <2>1. EndsAfter(c, z, C, minutes, local)
    <3>1. CASE minutes <= left
      <4>1. current.minute + minutes <= c.end
        BY <1>3, <3>1
      <4> HIDE DEF current, C
      <4>2. EndsAfter(c, z, C, minutes, [current EXCEPT !.minute = current.minute + minutes])
        BY <1>2, <1>6, <4>1, EndOnTheDay DEF C
      <4> QED BY <3>1, <4>2
    <3>2. CASE minutes > left
      BY <1>3, <1>4, <3>2
    <3> QED BY <1>3, <3>1, <3>2
  <2> HIDE DEF current, local
  <2>2. D \in Int /\ C <= D /\ OpenMinutes(c, z, C, D) = minutes /\ Open(c, z, D - 1)
    BY <2>1, LastMinute DEF EndsAfter
  <2> HIDE DEF C, D
  <2>3. OpenMinutes(c, z, start, D) = OpenMinutes(c, z, start, C) + OpenMinutes(c, z, C, D)
    BY <1>2, <2>2, OpenMinutesAdd
  <2>4. D >= start /\ OpenMinutes(c, z, start, D) = minutes
    BY <1>2, <2>2, <2>3
  <2> QED BY <1>1, <1>6, <2>2, <2>4
<1> QED BY <1>5, <1>6

-----------------------------------------------------------------------------
\* A day of service that is counted: what is left of the band, and on the last
\* day no more than there is to the instant.
LEMMA CountedDay ==
  ASSUME NEW c \in Calendars, NEW z \in Zones, Settled(c, z), NEW l \in Band(c), l.minute < c.end,
         NEW to \in Int, Before(l, ToLocal(z, to))
  PROVE  LET next == FromLocal(z, NextStart(c, l.day))
             day == OnDay(c, l, ToLocal(z, to))
         IN  /\ day \in Int
             /\ ToLocal(z, to).day = l.day => OpenMinutes(c, z, FromLocal(z, l), to) = day
             /\ ToLocal(z, to).day # l.day =>
                  OpenMinutes(c, z, FromLocal(z, l), to) = day + OpenMinutes(c, z, next, to)
<1> DEFINE end == ToLocal(z, to)
           p == [day |-> l.day, minute |-> c.end]
           n == NextStart(c, l.day)
           L == FromLocal(z, l)
           P == FromLocal(z, p)
           N == FromLocal(z, n)
           day == OnDay(c, l, end)
<1>1. /\ l \in LocalTime /\ l.day \in Int /\ l.minute \in Int /\ c.start \in Int /\ c.end \in Int /\ c.start <= l.minute
      /\ WorkingDay(c, l.day) /\ Clock(l) \in Int
      /\ end \in LocalTime /\ end.day \in Int /\ end.minute \in Int /\ Clock(end) \in Int
  <2>1. end \in LocalTime /\ l \in LocalTime
    BY Shown DEF Band
  <2>2. Clock(end) \in Int /\ Clock(l) \in Int
    BY <2>1, ClockOrder
  <2> HIDE DEF end
  <2> QED BY <2>1, <2>2, CalendarType, HoursAssumption DEF Band, LocalTime
<1>2. p \in Band(c) /\ p \in LocalTime /\ p.day = l.day /\ p.minute = c.end /\ Clock(p) \in Int
  BY <1>1, BandEnds, ClockOrder DEF Band
<1>3. n.day \in Int /\ n.day > l.day /\ n \in Band(c) /\ n \in LocalTime /\ Clock(n) \in Int
  <2>1. n.day \in Int /\ n.day > l.day /\ n = [day |-> n.day, minute |-> c.start] /\ WorkingDay(c, n.day)
    BY <1>1, NextWorkingDay
  <2> HIDE DEF n
  <2>2. n \in Band(c)
    BY <2>1, BandEnds
  <2> QED BY <2>1, <2>2, ClockOrder DEF Band
<1>4. P \in Int /\ N \in Int /\ P < N /\ OpenMinutes(c, z, P, N) = 0
  BY <1>1, NightIsClosed
<1> HIDE DEF p, n, end
<1>5. /\ L \in Int /\ P = L + (c.end - l.minute) /\ OpenMinutes(c, z, L, P) = c.end - l.minute
      /\ \A t \in Int : t < L <=> Clock(ToLocal(z, t)) < Clock(l)
      /\ \A t \in Int : t < P <=> Clock(ToLocal(z, t)) < Clock(p)
      /\ \A t \in Int : t < N <=> Clock(ToLocal(z, t)) < Clock(n)
  BY <1>1, <1>2, <1>3, OneDay, InstantOfBand
<1>6. Clock(l) < Clock(end) /\ L <= to /\ L <= P /\ (l.day < end.day \/ (l.day = end.day /\ l.minute < end.minute))
  <2>1. Before(l, end)
    BY DEF end
  <2> QED BY <1>1, <1>5, <2>1, ClockOrder DEF end, Before
\* Past the end of the band nothing is counted before the next one.
<1>7. ASSUME P <= to PROVE OpenMinutes(c, z, L, to) = (c.end - l.minute) + OpenMinutes(c, z, N, to)
  <2>1. OpenMinutes(c, z, L, to) = OpenMinutes(c, z, L, P) + OpenMinutes(c, z, P, to)
    BY <1>4, <1>5, <1>6, <1>7, OpenMinutesAdd
  <2>2. OpenMinutes(c, z, P, to) = OpenMinutes(c, z, N, to)
    <3>1. CASE N <= to
      <4>1. OpenMinutes(c, z, P, to) = OpenMinutes(c, z, P, N) + OpenMinutes(c, z, N, to)
        BY <1>4, <3>1, OpenMinutesAdd
      <4>2. OpenMinutes(c, z, N, to) \in Nat
        BY <1>4, OpenMinutesType
      <4> QED BY <1>4, <4>1, <4>2
    <3>2. CASE to < N
      <4>1. OpenMinutes(c, z, P, N) = OpenMinutes(c, z, P, to) + OpenMinutes(c, z, to, N)
        BY <1>4, <1>7, <3>2, OpenMinutesAdd
      <4>2. OpenMinutes(c, z, P, to) \in Nat /\ OpenMinutes(c, z, to, N) \in Nat
        BY <1>4, OpenMinutesType
      <4>3. OpenMinutes(c, z, N, to) = 0
        BY <1>4, <3>2, OpenMinutesNone
      <4> QED BY <1>4, <4>1, <4>2, <4>3
    <3> QED BY <1>4, <3>1, <3>2
  <2> QED BY <1>5, <2>1, <2>2
<1>8. CASE end.day = l.day /\ end.minute < c.end
  <2>1. end \in Band(c) /\ l.minute <= end.minute
    BY <1>1, <1>6, <1>8 DEF Band
  <2>2. to = FromLocal(z, end)
    BY <2>1, InstantOfBand DEF end
  <2>3. OpenMinutes(c, z, L, to) = end.minute - l.minute
    BY <1>8, <2>1, <2>2, OneDay
  <2>4. OnDay(c, l, end) = end.minute - l.minute
    BY <1>1, <1>6, <1>8 DEF OnDay
  <2> QED BY <1>1, <1>8, <2>3, <2>4 DEF end
<1>9. CASE end.day = l.day /\ end.minute >= c.end
  <2>1. ~Before(end, p) /\ Before(end, n)
    BY <1>1, <1>2, <1>3, <1>9 DEF Before
  <2>2. P <= to /\ to < N
    BY <1>1, <1>2, <1>3, <1>4, <1>5, <2>1, ClockOrder DEF end
  <2>3. OpenMinutes(c, z, N, to) = 0
    BY <1>4, <2>2, OpenMinutesNone
  <2>4. OnDay(c, l, end) = c.end - l.minute
    BY <1>1, <1>9 DEF OnDay
  <2> QED BY <1>1, <1>7, <1>9, <2>2, <2>3, <2>4 DEF end
<1>10. CASE end.day > l.day
  <2>1. ~Before(end, p)
    BY <1>1, <1>2, <1>10 DEF Before
  <2>2. P <= to
    BY <1>1, <1>2, <1>4, <1>5, <2>1, ClockOrder DEF end
  <2>3. OnDay(c, l, end) = c.end - l.minute
    BY <1>1, <1>10 DEF OnDay
  <2> QED BY <1>1, <1>7, <1>10, <2>2, <2>3 DEF end, n
<1> QED BY <1>1, <1>6, <1>8, <1>9, <1>10

\* The loop over the days counts the minutes of service to the instant, from the
\* start of any working day on.
LEMMA DaysCounted ==
  ASSUME NEW c \in Calendars, NEW z \in Zones, Settled(c, z), NEW to \in Int, NEW l \in Band(c), l.minute < c.end
  PROVE  LET end == ToLocal(z, to)
             count[m \in [day: Int, minute: Int]] ==
               IF ~Before(m, end) THEN 0
               ELSE (IF WorkingDay(c, m.day) THEN OnDay(c, m, end) ELSE 0)
                    + (IF m.day = end.day THEN 0 ELSE count[NextStart(c, m.day)])
         IN  count[l] = OpenMinutes(c, z, FromLocal(z, l), to)
<1> DEFINE Times == [day: Int, minute: Int]
           end == ToLocal(z, to)
           count[m \in [day: Int, minute: Int]] ==
               IF ~Before(m, end) THEN 0
               ELSE (IF WorkingDay(c, m.day) THEN OnDay(c, m, end) ELSE 0)
                    + (IF m.day = end.day THEN 0 ELSE count[NextStart(c, m.day)])
           Step(f, m) == IF ~Before(m, end) THEN 0
                         ELSE (IF WorkingDay(c, m.day) THEN OnDay(c, m, end) ELSE 0)
                              + (IF m.day = end.day THEN 0 ELSE f[NextStart(c, m.day)])
           open(m) == OpenMinutes(c, z, FromLocal(z, m), to)
           w == [m \in Times |-> IF ~Before(m, end) THEN 0
                                 ELSE (IF WorkingDay(c, m.day) THEN OnDay(c, m, end) ELSE 0)
                                      + (IF m.day = end.day THEN 0 ELSE open(NextStart(c, m.day)))]
<1>1. end \in LocalTime /\ end.day \in Int /\ end.minute \in Int
  BY Shown, HoursAssumption DEF LocalTime
\* What is counted from a minute of a band, if what is counted from the next
\* day is right.
<1>2. ASSUME NEW f, NEW m \in Band(c), m.minute < c.end, f[m] = Step(f, m),
             Before(m, end) /\ m.day # end.day => f[NextStart(c, m.day)] = open(NextStart(c, m.day))
      PROVE  f[m] = open(m)
  <2>1. m \in LocalTime /\ m.day \in Int /\ WorkingDay(c, m.day) /\ Clock(m) \in Int /\ Clock(end) \in Int
    BY <1>1, ClockOrder DEF Band, LocalTime
  <2>2. CASE ~Before(m, end)
    <3>1. FromLocal(z, m) \in Int
      BY InstantOfBand
    <3>2. to <= FromLocal(z, m)
      <4>1. CASE Clock(end) < Clock(m)
        BY <3>1, <4>1, InstantOfBand
      <4>2. CASE Clock(end) = Clock(m)
        <5>1. end = m
          BY <1>1, <2>1, <4>2, ClockOrder
        <5> QED BY <3>1, <5>1, InstantOfBand
      <4> QED BY <1>1, <2>1, <2>2, <4>1, <4>2, ClockOrder
    <3>3. open(m) = 0
      BY <3>1, <3>2, OpenMinutesNone
    <3> QED BY <1>2, <2>2, <3>3
  <2>3. CASE Before(m, end)
    <3>1. /\ OnDay(c, m, end) \in Int
          /\ end.day = m.day => open(m) = OnDay(c, m, end)
          /\ end.day # m.day => open(m) = OnDay(c, m, end) + open(NextStart(c, m.day))
      BY <1>2, <2>3, CountedDay
    <3>2. f[m] = OnDay(c, m, end) + (IF m.day = end.day THEN 0 ELSE open(NextStart(c, m.day)))
      BY <1>2, <2>1, <2>3
    <3> HIDE DEF open
    <3> QED BY <3>1, <3>2
  <2> QED BY <2>2, <2>3
<1>3. \A d \in Int : NextStart(c, d) \in Band(c) /\ NextStart(c, d).minute < c.end /\ NextStart(c, d) \in Times
                    /\ NextStart(c, d).day \in Int /\ NextStart(c, d).day > d
  <2> TAKE d \in Int
  <2> DEFINE n == NextStart(c, d)
  <2>1. n.day \in Int /\ n.day > d /\ n.minute = c.start /\ n = [day |-> n.day, minute |-> c.start] /\ WorkingDay(c, n.day)
    BY NextWorkingDay
  <2>2. n \in Band(c)
    BY <2>1, BandEnds
  <2> HIDE DEF n
  <2>3. n \in Times /\ n.minute < c.end
    BY <2>1, CalendarType
  <2> QED BY <2>1, <2>2, <2>3 DEF n
<1>4. \A m \in Times : count[m] = Step(count, m)
  <2>1. \A d \in Int : w[NextStart(c, d)] = open(NextStart(c, d))
    <3> TAKE d \in Int
    <3> DEFINE n == NextStart(c, d)
    <3>1. n \in Band(c) /\ n.minute < c.end /\ n \in Times /\ n.day \in Int
      BY <1>3
    <3> HIDE DEF n
    <3>2. CASE ~Before(n, end)
      <4>1. w[n] = 0 /\ Step([m \in Times |-> 0], n) = 0 /\ [m \in Times |-> 0][n] = 0
        BY <3>1, <3>2
      <4>2. [m \in Times |-> 0][n] = open(n)
        BY <1>2, <3>1, <3>2, <4>1
      <4> QED BY <4>1, <4>2 DEF n
    <3>3. CASE Before(n, end)
      <4>1. /\ OnDay(c, n, end) \in Int
            /\ end.day = n.day => open(n) = OnDay(c, n, end)
            /\ end.day # n.day => open(n) = OnDay(c, n, end) + open(NextStart(c, n.day))
        BY <3>1, <3>3, CountedDay
      <4>2. WorkingDay(c, n.day)
        BY <3>1 DEF Band
      <4> HIDE DEF open
      <4>3. w[n] = OnDay(c, n, end) + (IF n.day = end.day THEN 0 ELSE open(NextStart(c, n.day)))
        BY <3>1, <3>3, <4>2
      <4> HIDE DEF w
      <4> QED BY <4>1, <4>3 DEF n
    <3> QED BY <3>2, <3>3
  <2>2. ASSUME NEW m \in Times PROVE w[m] = Step(w, m)
    <3>1. w[NextStart(c, m.day)] = open(NextStart(c, m.day))
      BY <2>1
    <3> HIDE DEF open
    <3> QED BY <3>1
  <2>3. w = [m \in Times |-> Step(w, m)]
    <3>1. w = [m \in Times |-> w[m]]
      OBVIOUS
    <3> HIDE DEF w
    <3> QED BY <2>2, <3>1
  <2> HIDE DEF w
  <2>4. \E f : f = [m \in Times |-> Step(f, m)]
    BY <2>3
  <2>5. count = [m \in Times |-> Step(count, m)]
    BY <2>4, Zenon
  <2> HIDE DEF count
  <2> QED BY <2>5
<1> HIDE DEF count
<1> DEFINE wrong == {k \in Nat : \E d \in Int : end.day - d = k /\ count[NextStart(c, d)] # open(NextStart(c, d))}
<1>5. \A d \in Int : count[NextStart(c, d)] = open(NextStart(c, d))
  <2>1. ASSUME NEW d \in Int, count[NextStart(c, d)] # open(NextStart(c, d))
        PROVE  /\ NextStart(c, d).day < end.day
               /\ count[NextStart(c, NextStart(c, d).day)] # open(NextStart(c, NextStart(c, d).day))
    <3> DEFINE n == NextStart(c, d)
    <3>1. n \in Band(c) /\ n.minute < c.end /\ n \in Times /\ n.day \in Int /\ count[n] = Step(count, n)
      BY <1>3, <1>4
    <3> HIDE DEF n
    <3>2. Before(n, end) /\ n.day # end.day /\ count[NextStart(c, n.day)] # open(NextStart(c, n.day))
      BY <1>2, <2>1, <3>1 DEF n
    <3> QED BY <1>1, <3>1, <3>2 DEF Before, n
  <2>2. wrong = {}
    <3> SUFFICES ASSUME wrong # {} PROVE FALSE
      OBVIOUS
    <3>1. PICK k \in wrong : \A j \in wrong : k <= j
      BY Smallest
    <3>2. PICK d \in Int : end.day - d = k /\ count[NextStart(c, d)] # open(NextStart(c, d))
      BY <3>1
    <3> DEFINE n == NextStart(c, d)
    <3>3. n.day \in Int /\ n.day > d /\ n.day < end.day /\ count[NextStart(c, n.day)] # open(NextStart(c, n.day))
      BY <1>3, <2>1, <3>2
    <3> HIDE DEF n
    <3>4. end.day - n.day \in Nat /\ end.day - n.day < k
      BY <1>1, <3>2, <3>3
    <3>5. end.day - n.day \in wrong
      BY <3>3, <3>4
    <3> QED BY <1>1, <3>1, <3>3, <3>4, <3>5
  <2> SUFFICES ASSUME NEW d \in Int, count[NextStart(c, d)] # open(NextStart(c, d)) PROVE FALSE
    OBVIOUS
  <2>3. end.day - d \in Nat
    BY <1>1, <1>3, <2>1
  <2> QED BY <2>2, <2>3
<1>6. l \in Times /\ l.day \in Int
  BY HoursAssumption DEF Band, LocalTime
<1>7. count[l] = open(l)
  BY <1>2, <1>4, <1>5, <1>6
<1> QED BY <1>7 DEF count

\* On any calendar, in any zone that suits it: what is counted between two
\* instants are the minutes of service that lie there.
THEOREM CountsAreRight ==
  ASSUME NEW c \in Calendars, NEW z \in Zones, Settled(c, z), NEW from \in Int, NEW to \in Int
  PROVE  Between(c, z, from, to) = OpenMinutes(c, z, from, to)
<1> DEFINE current == Advance(c, ToLocal(z, from))
           C == FromLocal(z, current)
           end == ToLocal(z, to)
           count[m \in [day: Int, minute: Int]] ==
               IF ~Before(m, end) THEN 0
               ELSE (IF WorkingDay(c, m.day) THEN OnDay(c, m, end) ELSE 0)
                    + (IF m.day = end.day THEN 0 ELSE count[NextStart(c, m.day)])
<1>1. current \in Band(c) /\ current.minute < c.end /\ C \in Int /\ from <= C /\ OpenMinutes(c, z, from, C) = 0
  BY AdvanceIsNext
<1>2. Between(c, z, from, to) = IF to <= from THEN 0 ELSE count[current]
  BY DEF Between
<1>3. count[current] = OpenMinutes(c, z, C, to)
  <2> HIDE DEF current
  <2> QED BY <1>1, DaysCounted
<1> HIDE DEF current, count, C
<1>4. CASE to <= from
  BY <1>2, <1>4, OpenMinutesNone
<1>5. CASE from < to /\ C <= to
  <2>1. OpenMinutes(c, z, from, to) = OpenMinutes(c, z, from, C) + OpenMinutes(c, z, C, to)
    BY <1>1, <1>5, OpenMinutesAdd
  <2>2. OpenMinutes(c, z, C, to) \in Nat
    BY <1>1, OpenMinutesType
  <2> QED BY <1>1, <1>2, <1>3, <1>5, <2>1, <2>2
<1>6. CASE from < to /\ to < C
  <2>1. OpenMinutes(c, z, from, C) = OpenMinutes(c, z, from, to) + OpenMinutes(c, z, to, C)
    BY <1>1, <1>6, OpenMinutesAdd
  <2>2. OpenMinutes(c, z, from, to) \in Nat /\ OpenMinutes(c, z, to, C) \in Nat
    BY <1>1, OpenMinutesType
  <2>3. OpenMinutes(c, z, C, to) = 0
    BY <1>1, <1>6, OpenMinutesNone
  <2> QED BY <1>1, <1>2, <1>3, <1>6, <2>1, <2>2, <2>3
<1> QED BY <1>1, <1>4, <1>5, <1>6

\* Asked about on any calendar, no deadline is wrong and no count is.
THEOREM NothingWrong == WrongDeadlines = {} /\ WrongCounts = {}
<1>1. ASSUME NEW w \in Worlds
      PROVE  w[1] \in Calendars /\ w[2] \in Zones /\ Settled(w[1], w[2])
  BY DEF Worlds
<1>2. Moments \subseteq Int /\ Spans \subseteq Nat
  BY HoursAssumption
<1>3. WrongDeadlines = {}
  <2> SUFFICES ASSUME NEW w \in Worlds, NEW start \in Moments, NEW minutes \in Spans
               PROVE  LET d == Deadline(w[1], w[2], start, minutes)
                      IN  /\ d >= start
                          /\ OpenMinutes(w[1], w[2], start, d) = minutes
                          /\ Open(w[1], w[2], IF minutes = 0 THEN d ELSE d - 1)
    BY DEF WrongDeadlines
  <2> QED BY <1>1, <1>2, DeadlinesAreRight
<1>4. WrongCounts = {}
  BY <1>1, <1>2, CountsAreRight DEF WrongCounts
<1> QED BY <1>3, <1>4

-----------------------------------------------------------------------------
\* What a history says, entry by entry.
LEMMA HistoryType ==
  ASSUME NEW h \in Histories
  PROVE  /\ Len(h) \in Nat /\ Len(h) > 0 /\ DOMAIN h = 1 .. Len(h)
         /\ \A i \in 1 .. Len(h) : h[i].team \in Teams /\ h[i].at \in Int
         /\ \A i, j \in 1 .. Len(h) : i <= j => h[i].at <= h[j].at
<1> DEFINE Entry == [team: Teams, at: Int]
<1>1. h \in Seq(Entry)
  BY OlaAssumption
<1>2. \A e \in Entry : e.team \in Teams /\ e.at \in Int
  OBVIOUS
<1> HIDE DEF Entry
<1>3. Len(h) \in Nat /\ DOMAIN h = 1 .. Len(h)
  BY <1>1
<1>4. \A i \in 1 .. Len(h) : h[i] \in Entry
  BY <1>1
<1>5. Len(h) > 0 /\ \A i, j \in 1 .. Len(h) : i <= j => h[i].at <= h[j].at
  BY OlaAssumption
<1> QED BY <1>2, <1>3, <1>4, <1>5

\* Never is told from every instant.
LEMMA NeverIsNoInstant == Never \notin Int /\ \A t \in Int : t # Never
BY OlaAssumption

\* The team that has the ticket at an instant, after some of its entries: the
\* team of the last entry by then.
HadAt(h, m, team, t) ==
  \E i \in 1 .. m : h[i].at <= t /\ h[i].team = team /\ \A j \in 1 .. m : h[j].at <= t => j <= i

\* The two ways to say who has the ticket agree on a whole history.
LEMMA HasAtIsLast ==
  ASSUME NEW h \in Histories, NEW team, NEW t \in Int
  PROVE  HasAt(h, team, t) <=> HadAt(h, Len(h), team, t)
<1> DEFINE n == Len(h)
           given == {i \in DOMAIN h : h[i].at <= t}
<1>1. n \in Nat /\ n > 0 /\ DOMAIN h = 1 .. n /\ \A i \in 1 .. n : h[i].at \in Int
  BY HistoryType
<1>2. CASE given = {}
  BY <1>1, <1>2 DEF HasAt, HadAt
<1>3. CASE given # {}
  <2> DEFINE back == {n - i : i \in given}
  <2>1. back \subseteq Nat /\ back # {}
    BY <1>1, <1>3
  <2>2. PICK b \in back : \A x \in back : b <= x
    BY <2>1, Smallest
  <2>3. PICK l \in given : b = n - l
    BY <2>2
  <2>4. l \in Int /\ given \subseteq Int /\ \A i \in given : l >= i
    <3>1. given \subseteq Int
      BY <1>1
    <3>2. ASSUME NEW i \in given PROVE l >= i
      <4>1. n - i \in back
        OBVIOUS
      <4>2. n - l <= n - i
        BY <2>2, <2>3, <4>1
      <4> QED BY <1>1, <3>1, <4>2
    <3> QED BY <3>1, <3>2
  <2>5. Max(given) = l
    <3>1. \E x \in given : \A y \in given : x >= y
      BY <2>4
    <3>2. Max(given) \in given /\ \A y \in given : Max(given) >= y
      BY <3>1, Zenon DEF Max
    <3> HIDE DEF given
    <3>3. Max(given) >= l /\ l >= Max(given) /\ Max(given) \in Int
      BY <2>4, <3>2
    <3> QED BY <2>4, <3>3
  <2>6. HasAt(h, team, t) <=> h[l].team = team
    BY <1>3, <2>5 DEF HasAt
  <2>7. l \in 1 .. n /\ h[l].at <= t /\ \A j \in 1 .. n : h[j].at <= t => j <= l
    BY <1>1, <2>4
  <2> HIDE DEF given
  <2>8. HadAt(h, n, team, t) <=> h[l].team = team
    <3>1. h[l].team = team => HadAt(h, n, team, t)
      BY <2>7 DEF HadAt
    <3>2. ASSUME HadAt(h, n, team, t) PROVE h[l].team = team
      <4>1. PICK i \in 1 .. n : h[i].at <= t /\ h[i].team = team /\ \A j \in 1 .. n : h[j].at <= t => j <= i
        BY <3>2 DEF HadAt
      <4>2. i <= l /\ l <= i /\ i \in Int
        BY <1>1, <2>7, <4>1
      <4>3. i = l
        BY <2>4, <4>2
      <4> QED BY <4>1, <4>3
    <3> QED BY <3>1, <3>2
  <2> QED BY <2>6, <2>8
<1> QED BY <1>2, <1>3

-----------------------------------------------------------------------------
Segment == [team: Teams, from: Int, to: Int \cup {Never}]

\* The instants of a segment.
Within(s, t) == s.from <= t /\ (s.to # Never => t < s.to)

\* What the segments say once some entries of a history were written: they are
\* as many as the times each team was given the ticket and had not it already,
\* one is open, the team's that has it, and no two overlap.
Tells(h, m, S) ==
  /\ IsFiniteSet(S)
  /\ S \subseteq Segment
  /\ \A s \in S : s.to # Never => s.to <= h[m].at
  /\ \E o \in S : /\ o.to = Never /\ o.team = h[m].team /\ o.from <= h[m].at
                  /\ \A s \in S : s.to = Never => s = o
  /\ \A s, r \in S : \A t \in Int : Within(s, t) /\ Within(r, t) => s = r
  /\ \A team : \A t \in Int : (\E s \in S : s.team = team /\ Within(s, t)) <=> HadAt(h, m, team, t)

\* Each entry is written as it should be.
LEMMA FirstSegment ==
  ASSUME NEW h \in Histories
  PROVE  Tells(h, 1, Assign({}, h[1].team, h[1].at))
<1> DEFINE o == [team |-> h[1].team, from |-> h[1].at, to |-> Never]
<1>1. Assign({}, h[1].team, h[1].at) = {o}
  BY DEF Assign
<1>2. 1 \in 1 .. Len(h) /\ h[1].at \in Int
  BY HistoryType
<1>3. IsFiniteSet({o}) /\ {o} \subseteq Segment
  <2>1. o \in Segment
    BY <1>2, HistoryType DEF Segment
  <2> QED BY <2>1, FS_Singleton
<1>4. ASSUME NEW team, NEW t \in Int PROVE (\E s \in {o} : s.team = team /\ Within(s, t)) <=> HadAt(h, 1, team, t)
  <2>1. HadAt(h, 1, team, t) <=> h[1].at <= t /\ h[1].team = team
    BY DEF HadAt
  <2> QED BY <2>1 DEF Within
<1>5. \E p \in {o} : /\ p.to = Never /\ p.team = h[1].team /\ p.from <= h[1].at
                     /\ \A s \in {o} : s.to = Never => s = p
  BY <1>2
<1>6. Tells(h, 1, {o})
  BY <1>2, <1>3, <1>4, <1>5 DEF Tells
<1> QED BY <1>1, <1>6

\* By when an entry is written, the team it names has the ticket from then on.
LEMMA HadAtNext ==
  ASSUME NEW h \in Histories, NEW m \in Nat, m > 0, m + 1 <= Len(h), NEW team, NEW t \in Int
  PROVE  HadAt(h, m + 1, team, t) <=> IF h[m + 1].at <= t THEN team = h[m + 1].team ELSE HadAt(h, m, team, t)
<1>1. /\ m + 1 \in 1 .. m + 1 /\ \A i \in 1 .. m + 1 : i \in 1 .. m \/ i = m + 1
      /\ \A i \in 1 .. m : i \in 1 .. m + 1 /\ i <= m + 1 /\ i \in Int /\ ~(m + 1 <= i)
  OBVIOUS
<1>2. CASE h[m + 1].at <= t
  <2>1. team = h[m + 1].team => HadAt(h, m + 1, team, t)
    <3>1. \A j \in 1 .. m + 1 : j <= m + 1
      OBVIOUS
    <3> QED BY <1>1, <1>2, <3>1 DEF HadAt
  <2>2. ASSUME HadAt(h, m + 1, team, t) PROVE team = h[m + 1].team
    <3>1. PICK i \in 1 .. m + 1 : h[i].at <= t /\ h[i].team = team /\ \A j \in 1 .. m + 1 : h[j].at <= t => j <= i
      BY <2>2 DEF HadAt
    <3>2. m + 1 <= i
      BY <1>1, <1>2, <3>1
    <3>3. i = m + 1
      BY <1>1, <3>2
    <3> QED BY <3>1, <3>3
  <2> QED BY <1>2, <2>1, <2>2
<1>3. CASE ~(h[m + 1].at <= t)
  <2>1. ASSUME HadAt(h, m, team, t) PROVE HadAt(h, m + 1, team, t)
    <3>1. PICK i \in 1 .. m : h[i].at <= t /\ h[i].team = team /\ \A j \in 1 .. m : h[j].at <= t => j <= i
      BY <2>1 DEF HadAt
    <3>2. \A j \in 1 .. m + 1 : h[j].at <= t => j <= i
      BY <1>1, <1>3, <3>1
    <3> QED BY <1>1, <3>1, <3>2 DEF HadAt
  <2>2. ASSUME HadAt(h, m + 1, team, t) PROVE HadAt(h, m, team, t)
    <3>1. PICK i \in 1 .. m + 1 : h[i].at <= t /\ h[i].team = team /\ \A j \in 1 .. m + 1 : h[j].at <= t => j <= i
      BY <2>2 DEF HadAt
    <3>2. i \in 1 .. m
      BY <1>1, <1>3, <3>1
    <3> QED BY <1>1, <3>1, <3>2 DEF HadAt
  <2> QED BY <1>3, <2>1, <2>2
<1> QED BY <1>2, <1>3

\* Another entry: the team keeps its open segment, or the open one ends where that
\* of the team begins (assignTeamCypher, lib/ticketTeamHistory.ts).
LEMMA NextSegment ==
  ASSUME NEW h \in Histories, NEW m \in Nat, m > 0, m + 1 <= Len(h), NEW S, Tells(h, m, S)
  PROVE  Tells(h, m + 1, Assign(S, h[m + 1].team, h[m + 1].at))
<1> DEFINE team == h[m + 1].team
           a == h[m + 1].at
           closed == {IF s.team # team /\ s.to = Never THEN [s EXCEPT !.to = a] ELSE s : s \in S}
           new == [team |-> team, from |-> a, to |-> Never]
<1>1. m \in 1 .. Len(h) /\ m + 1 \in 1 .. Len(h) /\ a \in Int /\ h[m].at \in Int /\ h[m].at <= a /\ a # Never
  <2>1. m \in 1 .. Len(h) /\ m + 1 \in 1 .. Len(h) /\ m <= m + 1
    BY HistoryType
  <2> QED BY <2>1, HistoryType, NeverIsNoInstant
<1>2. PICK o \in S : /\ o.to = Never /\ o.team = h[m].team /\ o.from <= h[m].at
                     /\ \A s \in S : s.to = Never => s = o
  BY DEF Tells
<1>3. /\ IsFiniteSet(S)
      /\ S \subseteq Segment /\ \A s \in S : s.from \in Int /\ s.to \in Int \cup {Never}
      /\ \A s \in S : s.to # Never => s.to <= h[m].at
      /\ \A s, r \in S : \A t \in Int : Within(s, t) /\ Within(r, t) => s = r
      /\ \A x : \A t \in Int : (\E s \in S : s.team = x /\ Within(s, t)) <=> HadAt(h, m, x, t)
  BY DEF Tells, Segment
<1>4. \A x : \A t \in Int : HadAt(h, m + 1, x, t) <=> IF a <= t THEN x = team ELSE HadAt(h, m, x, t)
  BY HadAtNext
<1> HIDE DEF a, team
\* From this entry on only an open segment goes on.
<1>5. \A s \in S : s.to # Never => \A t \in Int : a <= t => ~Within(s, t)
  BY <1>1, <1>3 DEF Within
<1>6. CASE o.team = team
  <2>1. closed = S
    <3>1. \A s \in S : (IF s.team # team /\ s.to = Never THEN [s EXCEPT !.to = a] ELSE s) = s
      BY <1>2, <1>6
    <3> QED BY <3>1
  <2>2. Assign(S, team, a) = S
    <3>1. \E s \in closed : s.team = team /\ s.to = Never
      BY <1>2, <1>6, <2>1
    <3> HIDE DEF closed
    <3> QED BY <2>1, <3>1 DEF Assign, closed
  <2>3. \A s \in S : s.to # Never => s.to <= a
    BY <1>1, <1>3
  <2>4. o.from <= a
    BY <1>1, <1>2, <1>3
  <2>5. ASSUME NEW x, NEW t \in Int PROVE (\E s \in S : s.team = x /\ Within(s, t)) <=> HadAt(h, m + 1, x, t)
    <3>1. CASE a <= t
      <4>1. Within(o, t)
        BY <1>1, <1>2, <1>3, <2>4, <3>1 DEF Within
      <4>2. \A s \in S : Within(s, t) => s = o
        BY <1>3, <4>1
      <4> QED BY <1>2, <1>4, <1>6, <3>1, <4>1, <4>2
    <3>2. CASE ~(a <= t)
      BY <1>3, <1>4, <3>2
    <3> QED BY <3>1, <3>2
  <2>6. Tells(h, m + 1, S)
    BY <1>2, <1>3, <1>6, <2>3, <2>4, <2>5 DEF Tells, a, team
  <2> QED BY <2>2, <2>6 DEF a, team
<1>7. CASE o.team # team
  <2> DEFINE ended == [o EXCEPT !.to = a]
             T == ((S \ {o}) \cup {ended}) \cup {new}
  <2>1. closed = (S \ {o}) \cup {ended}
    <3>1. \A s \in S : (IF s.team # team /\ s.to = Never THEN [s EXCEPT !.to = a] ELSE s) = IF s = o THEN ended ELSE s
      BY <1>2, <1>7
    <3> HIDE DEF ended
    <3> QED BY <3>1
  <2>2. /\ new \in Segment /\ new.team = team /\ new.from = a /\ new.to = Never
        /\ ended \in Segment /\ ended.from = o.from /\ ended.team = o.team /\ ended.to = a
    <3>1. team \in Teams
      BY <1>1, HistoryType DEF team
    <3> QED BY <1>1, <1>3, <3>1 DEF Segment
  <2> HIDE DEF ended, new
  <2>3. Assign(S, team, a) = T
    <3>1. ~\E s \in closed : s.team = team /\ s.to = Never
      BY <1>1, <1>2, <1>7, <2>1, <2>2
    <3>2. Assign(S, team, a) = closed \cup {new}
      <4> HIDE DEF closed
      <4> QED BY <3>1 DEF Assign, closed, new
    <3> QED BY <2>1, <3>2
  <2>4. /\ \A t \in Int : Within(ended, t) <=> Within(o, t) /\ t < a
        /\ \A t \in Int : Within(new, t) <=> a <= t
    BY <1>1, <1>2, <1>3, <2>2 DEF Within
  <2>5. \A s \in S : s # o => \A t \in Int : Within(s, t) => t < a
    <3> SUFFICES ASSUME NEW s \in S, s # o, NEW t \in Int, Within(s, t) PROVE t < a
      OBVIOUS
    <3>1. s.to # Never
      BY <1>2
    <3> QED BY <1>1, <1>5, <3>1
  <2>6. IsFiniteSet(T) /\ T \subseteq Segment
    <3>1. IsFiniteSet(S \ {o})
      BY <1>3, FS_RemoveElement
    <3>2. IsFiniteSet((S \ {o}) \cup {ended})
      BY <3>1, FS_AddElement
    <3>3. IsFiniteSet(T)
      BY <3>2, FS_AddElement
    <3> QED BY <1>3, <2>2, <3>3
  <2>7. \A s \in T : s.to # Never => s.to <= a
    BY <1>1, <1>3, <2>2
  <2>8. new \in T /\ new.to = Never /\ new.team = team /\ new.from <= a /\ \A s \in T : s.to = Never => s = new
    BY <1>1, <1>2, <2>2
  <2>9. ASSUME NEW s \in T, NEW r \in T, NEW t \in Int, Within(s, t), Within(r, t) PROVE s = r
    <3>1. CASE s = new \/ r = new
      <4>1. a <= t
        BY <2>4, <2>9, <3>1
      <4>2. \A q \in T : Within(q, t) => q = new
        BY <1>1, <2>4, <2>5, <4>1
      <4> QED BY <2>9, <4>2
    <3>2. CASE s # new /\ r # new
      <4>1. \A q \in T : q # new => q = ended \/ (q \in S /\ q # o)
        <5> TAKE q \in T
        <5>1. q \in (S \ {o}) \cup {ended} \/ q = new
          OBVIOUS
        <5> HIDE DEF T
        <5> QED BY <5>1
      <4>2. CASE s = ended /\ r = ended
        BY <4>2
      <4>3. CASE s # ended /\ r # ended
        BY <1>3, <2>9, <3>2, <4>1, <4>3
      <4>4. CASE s = ended /\ r # ended
        <5>1. r \in S /\ r # o /\ Within(o, t) /\ Within(r, t)
          BY <2>4, <2>9, <3>2, <4>1, <4>4
        <5> QED BY <1>3, <5>1
      <4>5. CASE s # ended /\ r = ended
        <5>1. s \in S /\ s # o /\ Within(o, t) /\ Within(s, t)
          BY <2>4, <2>9, <3>2, <4>1, <4>5
        <5> QED BY <1>3, <5>1
      <4> QED BY <4>2, <4>3, <4>4, <4>5
    <3> QED BY <3>1, <3>2
  <2>10. ASSUME NEW x, NEW t \in Int PROVE (\E s \in T : s.team = x /\ Within(s, t)) <=> HadAt(h, m + 1, x, t)
    <3>1. CASE a <= t
      <4>1. \A q \in T : Within(q, t) <=> q = new
        BY <1>1, <2>4, <2>5, <3>1
      <4> QED BY <1>4, <2>2, <3>1, <4>1
    <3>2. CASE ~(a <= t)
      <4>1. t < a /\ ~Within(new, t) /\ (Within(ended, t) <=> Within(o, t))
        BY <1>1, <2>4, <3>2
      <4>2. (\E s \in T : s.team = x /\ Within(s, t)) <=> (\E s \in S : s.team = x /\ Within(s, t))
        BY <2>2, <4>1
      <4> QED BY <1>3, <1>4, <3>2, <4>2
    <3> QED BY <3>1, <3>2
  <2> HIDE DEF T
  <2>11. Tells(h, m + 1, T)
    BY <2>6, <2>7, <2>8, <2>9, <2>10 DEF Tells, a, team
  <2> QED BY <2>3, <2>11 DEF a, team
<1> QED BY <1>6, <1>7

\* The segments of a history tell it: whoever had the ticket at an instant has one
\* segment that holds the instant, no two segments overlap, and one is open, that
\* of the team that has it (assignTeamCypher, lib/ticketTeamHistory.ts).
THEOREM SegmentsTell ==
  ASSUME NEW h \in Histories
  PROVE  Tells(h, Len(h), Segments(h))
<1> DEFINE n == Len(h)
           Step(f, i) == IF i = 0 THEN {} ELSE Assign(f[i - 1], h[i].team, h[i].at)
           Upto(f, m) == f = [i \in 0 .. m |-> Step(f, i)]
           upTo[i \in 0 .. Len(h)] == IF i = 0 THEN {} ELSE Assign(upTo[i - 1], h[i].team, h[i].at)
           lacking == {m \in Nat : ~\E f : Upto(f, m)}
<1>1. n \in Nat /\ n > 0
  BY HistoryType
<1>2. \A m \in Nat : \E f : Upto(f, m)
  <2> SUFFICES ASSUME lacking # {} PROVE FALSE
    OBVIOUS
  <2>1. PICK m \in lacking : \A x \in lacking : m <= x
    BY Smallest
  <2>2. m # 0
    <3>1. Upto([i \in 0 .. 0 |-> {}], 0)
      OBVIOUS
    <3> SUFFICES ASSUME m = 0 PROVE FALSE
      OBVIOUS
    <3> HIDE DEF Upto
    <3> QED BY <2>1, <3>1
  <2>3. m - 1 \in Nat /\ m - 1 \notin lacking
    <3>1. m \in Nat
      BY <2>1
    <3>2. m - 1 \in Nat /\ ~(m <= m - 1)
      BY <2>2, <3>1
    <3> HIDE DEF lacking
    <3> QED BY <2>1, <3>2
  <2>4. PICK f : Upto(f, m - 1)
    BY <2>3
  <2> DEFINE g == [i \in 0 .. m |-> IF i = m THEN Step(f, m) ELSE f[i]]
  <2>5. \A i \in 0 .. m : g[i] = Step(g, i)
    <3> TAKE i \in 0 .. m
    <3>1. CASE i = m
      <4>1. m - 1 \in 0 .. m /\ m - 1 # m
        BY <2>1, <2>2
      <4>2. g[m - 1] = f[m - 1]
        BY <4>1
      <4> QED BY <2>2, <3>1, <4>2
    <3>2. CASE i # m
      <4>1. i \in 0 .. m - 1 /\ (i # 0 => i - 1 \in 0 .. m /\ i - 1 # m)
        BY <2>1, <3>2
      <4>2. g[i] = f[i] /\ f[i] = Step(f, i)
        BY <2>4, <3>2, <4>1
      <4>3. i # 0 => g[i - 1] = f[i - 1]
        BY <4>1
      <4> HIDE DEF g
      <4> QED BY <4>2, <4>3
    <3> QED BY <3>1, <3>2
  <2>6. Upto(g, m)
    <3>1. g = [i \in 0 .. m |-> g[i]]
      OBVIOUS
    <3> HIDE DEF g
    <3> QED BY <2>5, <3>1
  <2> HIDE DEF g, Upto
  <2> QED BY <2>1, <2>6
<1>3. \A i \in 0 .. n : upTo[i] = Step(upTo, i)
  <2>1. \E f : Upto(f, n)
    BY <1>1, <1>2
  <2>2. Upto(upTo, n)
    BY <2>1, Zenon
  <2> HIDE DEF upTo
  <2> QED BY <2>2
<1>4. Segments(h) = upTo[n]
  BY DEF Segments
<1> HIDE DEF upTo
<1> DEFINE wrong == {m \in Nat : m \in 1 .. n /\ ~Tells(h, m, upTo[m])}
<1>5. wrong = {}
  <2> SUFFICES ASSUME wrong # {} PROVE FALSE
    OBVIOUS
  <2>1. PICK m \in wrong : \A x \in wrong : m <= x
    BY Smallest
  <2>2. m \in Nat /\ m \in 1 .. n /\ ~Tells(h, m, upTo[m]) /\ m \in 0 .. n
    BY <1>1, <2>1
  <2>3. upTo[m] = Assign(upTo[m - 1], h[m].team, h[m].at)
    BY <1>3, <2>2
  <2>4. m # 1
    <3> SUFFICES ASSUME m = 1 PROVE FALSE
      OBVIOUS
    <3>1. 0 \in 0 .. n /\ m - 1 = 0
      BY <1>1
    <3>2. upTo[0] = {}
      BY <1>3, <3>1
    <3> QED BY <2>2, <2>3, <3>1, <3>2, FirstSegment
  <2> DEFINE p == m - 1
  <2>5. p \in Nat /\ p > 0 /\ p + 1 = m /\ p \in 1 .. n /\ p < m
    BY <1>1, <2>2, <2>4
  <2>6. Tells(h, p, upTo[p])
    <3> HIDE DEF p
    <3> QED BY <2>1, <2>5
  <2> HIDE DEF p
  <2>7. Tells(h, p + 1, Assign(upTo[p], h[p + 1].team, h[p + 1].at))
    BY <1>1, <2>2, <2>5, <2>6, NextSegment
  <2> QED BY <2>2, <2>3, <2>5, <2>7 DEF p
<1>6. n \in 1 .. n
  BY <1>1
<1> QED BY <1>1, <1>4, <1>5, <1>6

-----------------------------------------------------------------------------
\* One by one: what a set of runs adds up to, taken in any order, is the size of
\* what they cover, when no two of them cover the same minute.
AddsUp(M, S, f) ==
  f = [s \in SUBSET S |-> IF s = {} THEN 0
                          ELSE LET x == CHOOSE y \in s : TRUE IN Cardinality(M[x]) + f[s \ {x}]]

\* Taken in the order the fold takes them.
LEMMA SizesAddUp ==
  ASSUME NEW S, NEW M, NEW U, IsFiniteSet(S), IsFiniteSet(U),
         \A x \in S : M[x] \subseteq U,
         \A x, y \in S : x # y => M[x] \cap M[y] = {}
  PROVE  /\ \E f : AddsUp(M, S, f)
         /\ \A f : AddsUp(M, S, f) => f[S] = Cardinality(UNION {M[x] : x \in S})
<1> DEFINE Cover(s) == UNION {M[x] : x \in s}
           size == [s \in SUBSET S |-> Cardinality(Cover(s))]
<1>1. \A s \in SUBSET S : IsFiniteSet(Cover(s)) /\ Cardinality(Cover(s)) \in Nat
  <2> TAKE s \in SUBSET S
  <2>1. Cover(s) \subseteq U
    OBVIOUS
  <2> QED BY <2>1, FS_Subset, FS_CardinalityType
<1>2. \A s \in SUBSET S : \A x \in s : Cardinality(Cover(s)) = Cardinality(M[x]) + Cardinality(Cover(s \ {x}))
  <2> TAKE s \in SUBSET S
  <2> TAKE x \in s
  <2>1. Cover(s) = M[x] \cup Cover(s \ {x}) /\ M[x] \cap Cover(s \ {x}) = {}
    OBVIOUS
  <2>2. IsFiniteSet(M[x]) /\ IsFiniteSet(Cover(s \ {x}))
    <3>1. M[x] \subseteq U /\ s \ {x} \in SUBSET S
      OBVIOUS
    <3>2. IsFiniteSet(M[x])
      BY <3>1, FS_Subset
    <3> QED BY <1>1, <3>1, <3>2
  <2>3. Cardinality(M[x]) \in Nat /\ Cardinality(Cover(s \ {x})) \in Nat
    BY <2>2, FS_CardinalityType
  <2> DEFINE rest == Cover(s \ {x})
  <2>4. /\ Cardinality(M[x] \cup rest) = Cardinality(M[x]) + Cardinality(rest) - Cardinality(M[x] \cap rest)
        /\ M[x] \cap rest = {} /\ Cardinality({}) = 0
    <3> HIDE DEF rest
    <3> QED BY <2>1, <2>2, FS_Union, FS_EmptySet DEF rest
  <2> HIDE DEF Cover
  <2>5. Cardinality(M[x]) \in Nat /\ Cardinality(rest) \in Nat
    BY <2>3
  <2> HIDE DEF rest
  <2>6. Cardinality(M[x] \cap rest) = 0
    BY <2>4, Zenon
  <2>7. Cardinality(M[x] \cup rest) = Cardinality(M[x]) + Cardinality(rest)
    <3> DEFINE a == Cardinality(M[x])
               b == Cardinality(rest)
               i == Cardinality(M[x] \cap rest)
               u == Cardinality(M[x] \cup rest)
    <3>1. a \in Nat /\ b \in Nat /\ i = 0 /\ u = a + b - i
      BY <2>4, <2>5, <2>6
    <3> HIDE DEF a, b, i, u
    <3>2. u = a + b
      BY <3>1
    <3> QED BY <3>2 DEF a, b, u
  <2> QED BY <2>1, <2>7 DEF rest
<1>3. Cover({}) = {}
  OBVIOUS
<1> HIDE DEF Cover
<1>4. AddsUp(M, S, size)
  <2>1. \A s \in SUBSET S : size[s] = IF s = {} THEN 0
                               ELSE LET x == CHOOSE y \in s : TRUE IN Cardinality(M[x]) + size[s \ {x}]
    <3> TAKE s \in SUBSET S
    <3>1. CASE s = {}
      BY <1>3, <3>1, FS_EmptySet
    <3>2. CASE s # {}
      <4> DEFINE x == CHOOSE y \in s : TRUE
      <4>1. x \in s
        BY <3>2
      <4> HIDE DEF x
      <4>2. s \ {x} \in SUBSET S
        OBVIOUS
      <4>3. size[s] = Cardinality(M[x]) + size[s \ {x}]
        BY <1>2, <4>1, <4>2
      <4> HIDE DEF size
      <4> QED BY <3>2, <4>3 DEF x
    <3> QED BY <3>1, <3>2
  <2>2. size = [s \in SUBSET S |-> size[s]]
    OBVIOUS
  <2> HIDE DEF size
  <2> QED BY <2>1, <2>2 DEF AddsUp
<1>5. ASSUME NEW f, AddsUp(M, S, f) PROVE f[S] = size[S]
  <2> DEFINE wrong == {n \in Nat : \E s \in SUBSET S : Cardinality(s) = n /\ f[s] # size[s]}
  <2> HIDE DEF size
  <2>1. wrong = {}
    <3> SUFFICES ASSUME wrong # {} PROVE FALSE
      OBVIOUS
    <3>1. PICK n \in wrong : \A m \in wrong : n <= m
      BY Smallest
    <3>2. PICK s \in SUBSET S : Cardinality(s) = n /\ f[s] # size[s]
      BY <3>1
    <3> DEFINE x == CHOOSE y \in s : TRUE
    <3>3. s # {}
      <4>1. f[{}] = 0 /\ size[{}] = 0
        BY <1>4, <1>5 DEF AddsUp
      <4> QED BY <3>2, <4>1
    <3>4. x \in s
      BY <3>3
    <3>5. f[s] = Cardinality(M[x]) + f[s \ {x}] /\ size[s] = Cardinality(M[x]) + size[s \ {x}]
      BY <1>4, <1>5, <3>3 DEF AddsUp
    <3> HIDE DEF x
    <3>6. s \ {x} \in SUBSET S /\ Cardinality(s \ {x}) = n - 1 /\ Cardinality(s \ {x}) \in Nat /\ n \in Nat
      <4>1. IsFiniteSet(s)
        BY FS_Subset
      <4>2. Cardinality(s \ {x}) = Cardinality(s) - 1 /\ IsFiniteSet(s \ {x}) /\ Cardinality(s) \in Nat
        BY <3>4, <4>1, FS_RemoveElement, FS_CardinalityType
      <4> QED BY <3>2, <4>2, FS_CardinalityType
    <3>7. n - 1 \notin wrong
      BY <3>1, <3>6
    <3>8. f[s \ {x}] = size[s \ {x}]
      BY <3>6, <3>7
    <3> QED BY <3>2, <3>5, <3>8
  <2>2. S \in SUBSET S /\ Cardinality(S) \in Nat
    BY FS_CardinalityType
  <2> QED BY <2>1, <2>2
<1>6. size[S] = Cardinality(Cover(S))
  OBVIOUS
<1> HIDE DEF size
<1> QED BY <1>4, <1>5, <1>6 DEF Cover

-----------------------------------------------------------------------------
\* The minutes of a contract between two instants, and the instant some of them
\* ahead, are what CountsAt says of each minute.
Counting(k, from, to) == {t \in from .. to - 1 : CountsAt(k, t)}

Suits(k) == k \in Contracts /\ (k.service => Settled(k.calendar, k.zone))

\* Counted, with service hours or around the clock.
LEMMA MinutesAreCounted ==
  ASSUME NEW k, Suits(k), NEW from \in Int, NEW to \in Int
  PROVE  /\ IsFiniteSet(Counting(k, from, to))
         /\ MinutesOf(k, from, to) = Cardinality(Counting(k, from, to))
<1>1. to - 1 \in Int
  OBVIOUS
<1>2. IsFiniteSet(from .. to - 1) /\ Cardinality(from .. to - 1) = IF from > to - 1 THEN 0 ELSE (to - 1) - from + 1
  BY <1>1, FS_Interval
<1>3. IsFiniteSet(Counting(k, from, to))
  <2>1. Counting(k, from, to) \subseteq from .. to - 1
    BY DEF Counting
  <2> QED BY <1>2, <2>1, FS_Subset
<1>4. CASE k.service
  <2>1. k.calendar \in Calendars /\ k.zone \in Zones /\ Settled(k.calendar, k.zone)
    BY <1>4, OlaAssumption DEF Suits
  <2>2. Between(k.calendar, k.zone, from, to) = OpenMinutes(k.calendar, k.zone, from, to)
    BY <2>1, CountsAreRight
  <2>3. Counting(k, from, to) = {t \in from .. to - 1 : Open(k.calendar, k.zone, t)}
    BY <1>4 DEF Counting, CountsAt
  <2> QED BY <1>3, <1>4, <2>2, <2>3 DEF MinutesOf, OpenMinutes
<1>5. CASE ~k.service
  <2>1. Counting(k, from, to) = from .. to - 1
    BY <1>5 DEF Counting, CountsAt
  <2>2. Cardinality(from .. to - 1) = Counted24x7(from, to)
    BY <1>2 DEF Counted24x7
  <2> QED BY <1>3, <1>5, <2>1, <2>2 DEF MinutesOf
<1> QED BY <1>4, <1>5

\* The instant so many of them ahead.
LEMMA DeadlineIsCounted ==
  ASSUME NEW k, Suits(k), NEW from \in Int, NEW minutes \in Nat
  PROVE  /\ DeadlineOf(k, from, minutes) \in Int
         /\ DeadlineOf(k, from, minutes) >= from
         /\ Cardinality(Counting(k, from, DeadlineOf(k, from, minutes))) = minutes
<1>1. CASE k.service
  <2>1. k.calendar \in Calendars /\ k.zone \in Zones /\ Settled(k.calendar, k.zone)
    BY <1>1, OlaAssumption DEF Suits
  <2> DEFINE d == Deadline(k.calendar, k.zone, from, minutes)
  <2>2. d \in Int /\ d >= from /\ OpenMinutes(k.calendar, k.zone, from, d) = minutes
    BY <2>1, DeadlinesAreRight
  <2>3. DeadlineOf(k, from, minutes) = d
    BY <1>1 DEF DeadlineOf
  <2> HIDE DEF d
  <2>4. Counting(k, from, d) = {t \in from .. d - 1 : Open(k.calendar, k.zone, t)}
    BY <1>1 DEF Counting, CountsAt
  <2> QED BY <2>2, <2>3, <2>4 DEF OpenMinutes
<1>2. CASE ~k.service
  <2>1. DeadlineOf(k, from, minutes) = from + minutes
    BY <1>2 DEF DeadlineOf
  <2>2. Counting(k, from, from + minutes) = from .. (from + minutes) - 1
    BY <1>2 DEF Counting, CountsAt
  <2>3. (from + minutes) - 1 \in Int /\ from + minutes \in Int /\ from + minutes >= from
    OBVIOUS
  <2>4. Cardinality(from .. (from + minutes) - 1) = IF from > (from + minutes) - 1 THEN 0 ELSE ((from + minutes) - 1) - from + 1
    BY <2>3, FS_Interval
  <2>5. Cardinality(from .. (from + minutes) - 1) = minutes
    BY <2>4
  <2> QED BY <2>1, <2>2, <2>3, <2>5
<1> QED BY <1>1, <1>2

-----------------------------------------------------------------------------
\* What a measure looks at: the segments of the team that count, and the minutes
\* of each of them.
Counts(item, k, instant) ==
  {s \in Segments(item.history) :
     /\ s.team = k.team
     /\ LET h == Held(s, k, Until(item, instant))
        IN  h.to > h.from \/ (s.to = Never /\ item.concluded = Never /\ h.from <= instant)}

From(item, k, instant, s) ==
  LET h == Held(s, k, Until(item, instant))
  IN  IF item.starts = Never THEN h.from ELSE Later(item.starts, h.from)

To(item, k, instant, s) == Held(s, k, Until(item, instant)).to

\* A measure adds the runs of its segments up.
LEMMA MeasureAdds ==
  ASSUME NEW item, NEW k, NEW instant
  PROVE  LET S == Counts(item, k, instant)
             iter[s \in SUBSET S] ==
               IF s = {} THEN 0
               ELSE LET x == CHOOSE y \in s : TRUE
                    IN  MinutesOf(k, From(item, k, instant, x), To(item, k, instant, x)) + iter[s \ {x}]
         IN  Measure(item, k, instant).used = iter[S]
BY Zenon DEF Measure, MapThenSumSet, MapThenFoldSet, Counts, From, To

-----------------------------------------------------------------------------
\* What an item says of its instants.
LEMMA ItemType ==
  ASSUME NEW item \in Tickets, NEW k, Suits(k), NEW instant \in Int
  PROVE  /\ item.history \in Histories /\ Until(item, instant) \in Int
         /\ item.starts # Never => item.starts \in Int
         /\ item.concluded = Never => Until(item, instant) = instant
         /\ k.from \in Int /\ k.target \in Nat
<1>1. item.history \in Histories /\ item.concluded \in Conclusions /\ item.starts \in Windows
  BY DEF Tickets
<1>2. \A t \in Conclusions \cup Windows : t # Never => t \in Int
  BY OlaAssumption
<1>3. k.from \in Int /\ k.target \in Nat
  BY OlaAssumption DEF Suits
<1> QED BY <1>1, <1>2, <1>3 DEF Until

\* The minutes of one segment of the team: those it has and the contract counts.
LEMMA RunOfSegment ==
  ASSUME NEW item \in Tickets, NEW k, Suits(k), NEW instant \in Int, NEW s \in Segment
  PROVE  /\ From(item, k, instant, s) \in Int /\ To(item, k, instant, s) \in Int
         /\ Counting(k, From(item, k, instant, s), To(item, k, instant, s))
              = {t \in k.from .. Until(item, instant) - 1 :
                    /\ item.starts # Never => t >= item.starts
                    /\ Within(s, t) /\ CountsAt(k, t)}
<1> DEFINE u == Until(item, instant)
           a == From(item, k, instant, s)
           b == To(item, k, instant, s)
<1>1. /\ u \in Int /\ k.from \in Int /\ s.from \in Int /\ (s.to # Never => s.to \in Int)
      /\ (item.starts # Never => item.starts \in Int)
  BY ItemType DEF Segment
<1>2. a = IF item.starts = Never THEN Later(s.from, k.from) ELSE Later(item.starts, Later(s.from, k.from))
  BY DEF From, Held
<1>3. b = IF s.to = Never THEN u ELSE Earlier(s.to, u)
  BY DEF To, Held
<1>4. a \in Int /\ b \in Int
  BY <1>1, <1>2, <1>3 DEF Later, Earlier
<1>5. \A t \in Int : a <= t <=> /\ s.from <= t /\ k.from <= t
                                /\ item.starts # Never => item.starts <= t
  BY <1>1, <1>2 DEF Later
<1>6. \A t \in Int : t < b <=> t < u /\ (s.to # Never => t < s.to)
  BY <1>1, <1>3 DEF Earlier
<1> HIDE DEF a, b, u
<1>7. \A t \in Int : t \in a .. b - 1 <=> a <= t /\ t < b
  BY <1>4
<1>8. \A t \in Int : t \in k.from .. u - 1 <=> k.from <= t /\ t < u
  BY <1>1
<1>9. ASSUME NEW t \in Int
      PROVE  t \in a .. b - 1 <=> /\ t \in k.from .. u - 1
                                  /\ item.starts # Never => t >= item.starts
                                  /\ Within(s, t)
  <2>1. item.starts # Never => (t >= item.starts <=> item.starts <= t)
    BY <1>1
  <2> QED BY <1>5, <1>6, <1>7, <1>8, <2>1 DEF Within
<1>10. Counting(k, a, b) = {t \in k.from .. u - 1 : /\ item.starts # Never => t >= item.starts
                                                    /\ Within(s, t) /\ CountsAt(k, t)}
  <2>1. a .. b - 1 \subseteq Int /\ k.from .. u - 1 \subseteq Int
    BY <1>1, <1>4
  <2> QED BY <1>9, <2>1, Zenon DEF Counting
<1> QED BY <1>4, <1>10 DEF a, b, u

\* What a contract counts is the time of the team, at any instant: every minute
\* of the team is in the segment that has it, and in no other.
THEOREM TeamTimeIsCounted ==
  ASSUME NEW item \in Tickets, NEW k, Suits(k), NEW instant \in Int
  PROVE  /\ IsFiniteSet(TeamMinutes(item, k, instant))
         /\ Measure(item, k, instant).used = Cardinality(TeamMinutes(item, k, instant))
<1> DEFINE S == Counts(item, k, instant)
           T == TeamMinutes(item, k, instant)
           u == Until(item, instant)
           run(x) == Counting(k, From(item, k, instant, x), To(item, k, instant, x))
           M == [x \in S |-> run(x)]
           iter[s \in SUBSET S] ==
               IF s = {} THEN 0
               ELSE LET x == CHOOSE y \in s : TRUE
                    IN  MinutesOf(k, From(item, k, instant, x), To(item, k, instant, x)) + iter[s \ {x}]
           h == item.history
<1>1. h \in Histories /\ u \in Int /\ k.from \in Int /\ u - 1 \in Int
  BY ItemType
<1>2. Tells(h, Len(h), Segments(h))
  BY <1>1, SegmentsTell
<1>3. S \subseteq Segments(h) /\ Segments(h) \subseteq Segment /\ IsFiniteSet(Segments(h))
  BY <1>2 DEF Tells, Counts
<1>4. IsFiniteSet(S) /\ IsFiniteSet(k.from .. u - 1)
  BY <1>1, <1>3, FS_Subset, FS_Interval
<1>5. IsFiniteSet(T)
  <2>1. T \subseteq k.from .. u - 1
    BY DEF TeamMinutes
  <2> HIDE DEF T
  <2> QED BY <1>4, <2>1, FS_Subset
<1>6. ASSUME NEW x \in S
      PROVE  /\ From(item, k, instant, x) \in Int /\ To(item, k, instant, x) \in Int
             /\ run(x) = {t \in k.from .. u - 1 : /\ item.starts # Never => t >= item.starts
                                                  /\ Within(x, t) /\ CountsAt(k, t)}
             /\ x.team = k.team
  <2>1. x \in Segment /\ x.team = k.team
    BY <1>3 DEF Counts
  <2> QED BY <2>1, RunOfSegment
<1>7. \A t \in Int : HasAt(h, k.team, t) <=> \E s \in Segments(h) : s.team = k.team /\ Within(s, t)
  BY <1>1, <1>2, HasAtIsLast DEF Tells
<1> HIDE DEF run, S
<1>8. ASSUME NEW x \in S PROVE run(x) \subseteq T
  <2> SUFFICES ASSUME NEW t \in run(x) PROVE t \in T
    OBVIOUS
  <2>1. t \in k.from .. u - 1 /\ (item.starts # Never => t >= item.starts) /\ Within(x, t) /\ CountsAt(k, t)
    BY <1>6
  <2>2. t \in Int
    BY <1>1, <2>1
  <2>3. HasAt(h, k.team, t)
    BY <1>3, <1>6, <1>7, <2>1, <2>2
  <2> QED BY <2>1, <2>3 DEF TeamMinutes
<1>9. ASSUME NEW t \in T PROVE \E x \in S : t \in run(x)
  <2>1. /\ t \in k.from .. u - 1 /\ (item.starts # Never => t >= item.starts)
        /\ HasAt(h, k.team, t) /\ CountsAt(k, t)
    BY DEF TeamMinutes
  <2>2. t \in Int /\ k.from <= t /\ t < u
    BY <1>1, <2>1
  <2>3. PICK s \in Segments(h) : s.team = k.team /\ Within(s, t)
    BY <1>7, <2>1, <2>2
  <2>4. s \in Segment /\ s.from \in Int /\ (s.to # Never => s.to \in Int)
    BY <1>3 DEF Segment
  <2>5. Held(s, k, u).from <= t /\ t < Held(s, k, u).to /\ Held(s, k, u).from \in Int /\ Held(s, k, u).to \in Int
    BY <1>1, <2>2, <2>3, <2>4 DEF Held, Later, Earlier, Within
  <2>6. Held(s, k, u).to > Held(s, k, u).from
    BY <2>2, <2>5
  <2>7. s \in S
    BY <2>3, <2>6 DEF S, Counts
  <2> QED BY <1>6, <2>1, <2>3, <2>7
<1>10. UNION {M[x] : x \in S} = T
  <2>1. \A x \in S : M[x] = run(x)
    OBVIOUS
  <2> HIDE DEF M, T
  <2> QED BY <1>8, <1>9, <2>1
<1>11. \A x, y \in S : x # y => M[x] \cap M[y] = {}
  <2> SUFFICES ASSUME NEW x \in S, NEW y \in S, NEW t \in M[x], t \in M[y] PROVE x = y
    OBVIOUS
  <2>1. t \in k.from .. u - 1 /\ Within(x, t) /\ Within(y, t)
    BY <1>6
  <2>2. t \in Int
    BY <1>1, <2>1
  <2> QED BY <1>2, <1>3, <2>1, <2>2 DEF Tells
<1>12. (\E f : AddsUp(M, S, f)) /\ \A f : AddsUp(M, S, f) => f[S] = Cardinality(T)
  <2>1. \A x \in S : M[x] \subseteq T
    BY <1>8
  <2> HIDE DEF M, T
  <2>2. (\E f : AddsUp(M, S, f)) /\ \A f : AddsUp(M, S, f) => f[S] = Cardinality(UNION {M[x] : x \in S})
    BY <1>4, <1>5, <1>11, <2>1, SizesAddUp
  <2> QED BY <1>10, <2>2
<1>13. \A x \in S : MinutesOf(k, From(item, k, instant, x), To(item, k, instant, x)) = Cardinality(M[x])
  BY <1>6, MinutesAreCounted DEF run
<1> DEFINE Adds(f) == f = [s \in SUBSET S |->
                             IF s = {} THEN 0
                             ELSE LET x == CHOOSE y \in s : TRUE
                                  IN  MinutesOf(k, From(item, k, instant, x), To(item, k, instant, x)) + f[s \ {x}]]
<1>14. ASSUME NEW f PROVE Adds(f) <=> AddsUp(M, S, f)
  <2> HIDE DEF M
  <2>1. \A s \in SUBSET S : s # {} => (CHOOSE y \in s : TRUE) \in S
    <3> TAKE s \in SUBSET S
    <3>1. s # {} => (CHOOSE y \in s : TRUE) \in s
      OBVIOUS
    <3> QED BY <3>1
  <2>2. \A s \in SUBSET S :
          (IF s = {} THEN 0
           ELSE LET x == CHOOSE y \in s : TRUE
                IN  MinutesOf(k, From(item, k, instant, x), To(item, k, instant, x)) + f[s \ {x}])
          = (IF s = {} THEN 0 ELSE LET x == CHOOSE y \in s : TRUE IN Cardinality(M[x]) + f[s \ {x}])
    <3> TAKE s \in SUBSET S
    <3> DEFINE x == CHOOSE y \in s : TRUE
    <3>1. s # {} => x \in S
      BY <2>1
    <3> HIDE DEF x
    <3>2. s # {} => MinutesOf(k, From(item, k, instant, x), To(item, k, instant, x)) = Cardinality(M[x])
      BY <1>13, <3>1
    <3> QED BY <3>2 DEF x
  <2>3. [s \in SUBSET S |->
          IF s = {} THEN 0
          ELSE LET x == CHOOSE y \in s : TRUE
               IN  MinutesOf(k, From(item, k, instant, x), To(item, k, instant, x)) + f[s \ {x}]]
        = [s \in SUBSET S |->
            IF s = {} THEN 0 ELSE LET x == CHOOSE y \in s : TRUE IN Cardinality(M[x]) + f[s \ {x}]]
    BY <2>2, Zenon
  <2> QED BY <2>3, Zenon DEF AddsUp
<1>15. \E f : Adds(f)
  <2>1. PICK f : AddsUp(M, S, f)
    BY <1>12
  <2>2. AddsUp(M, S, f) => Adds(f)
    BY <1>14
  <2> HIDE DEF M, Adds
  <2> QED BY <2>1, <2>2
<1>16. Adds(iter)
  BY <1>15, Zenon
<1>17. Measure(item, k, instant).used = iter[S]
  BY MeasureAdds, Zenon DEF S
<1> HIDE DEF iter, Adds, M, T
<1>18. iter[S] = Cardinality(T)
  BY <1>12, <1>14, <1>16
<1> QED BY <1>5, <1>17, <1>18 DEF T

\* What a measure says of the time it counted: how it stands, and its deadline.
LEMMA Standing ==
  ASSUME NEW item \in Tickets, NEW k, Suits(k), NEW instant \in Int
  PROVE  LET m == Measure(item, k, instant)
         IN  /\ m.used \in Nat
             /\ m.used > k.target <=> m.state = "breached"
             /\ m.state \in {"running", "scheduled"} =>
                  /\ Counts(item, k, instant) # {} /\ m.used <= k.target
                  /\ item.concluded = Never /\ CurrentTeam(item.history) = k.team
             /\ m.state = "running" =>
                  /\ item.starts # Never => item.starts <= instant
                  /\ m.deadline = DeadlineOf(k, instant, k.target - m.used)
             /\ m.state = "scheduled" =>
                  /\ item.starts # Never /\ instant < item.starts
                  /\ m.deadline = DeadlineOf(k, item.starts, k.target)
             /\ m.state \notin {"running", "scheduled"} => m.deadline = Never
<1> DEFINE m == Measure(item, k, instant)
           S == Counts(item, k, instant)
           used == Cardinality(TeamMinutes(item, k, instant))
           state == IF S = {} THEN "none"
                    ELSE IF m.used > k.target THEN "breached"
                    ELSE IF ~(item.concluded = Never) THEN "met"
                    ELSE IF CurrentTeam(item.history) # k.team THEN "handed_off"
                    ELSE IF item.starts # Never /\ instant < item.starts THEN "scheduled" ELSE "running"
<1>1. m.used = used /\ used \in Nat
  BY TeamTimeIsCounted, FS_CardinalityType
<1>2. /\ k.target \in Nat /\ k.from \in Int
      /\ item.starts # Never => item.starts \in Int
      /\ item.history \in Histories /\ Until(item, instant) \in Int
  BY ItemType
<1>3. m.state = state
  BY DEF Measure, Counts
<1>4. m.deadline = CASE m.state = "running" -> DeadlineOf(k, instant, k.target - m.used)
                     [] m.state = "scheduled" -> DeadlineOf(k, item.starts, k.target)
                     [] OTHER -> Never
  BY DEF Measure
<1>5. S = {} => m.used = 0
  <2> SUFFICES ASSUME S = {} PROVE TeamMinutes(item, k, instant) = {}
    BY <1>1, FS_EmptySet
  <2> SUFFICES ASSUME NEW t \in TeamMinutes(item, k, instant) PROVE FALSE
    OBVIOUS
  <2>1. t \in k.from .. Until(item, instant) - 1 /\ HasAt(item.history, k.team, t)
    BY DEF TeamMinutes
  <2>2. t \in Int /\ k.from <= t /\ t < Until(item, instant)
    BY <1>2, <2>1
  <2>3. Tells(item.history, Len(item.history), Segments(item.history))
    BY <1>2, SegmentsTell
  <2>4. PICK s \in Segments(item.history) : s.team = k.team /\ Within(s, t)
    BY <1>2, <2>1, <2>2, <2>3, HasAtIsLast DEF Tells
  <2>5. s \in Segment /\ s.from \in Int /\ (s.to # Never => s.to \in Int)
    BY <2>3 DEF Tells, Segment
  <2>6. LET h == Held(s, k, Until(item, instant)) IN h.from <= t /\ t < h.to /\ h.from \in Int /\ h.to \in Int
    BY <1>2, <2>2, <2>4, <2>5 DEF Held, Later, Earlier, Within
  <2>7. LET h == Held(s, k, Until(item, instant)) IN h.to > h.from
    BY <2>2, <2>6
  <2>8. s \in S
    BY <2>4, <2>7 DEF Counts
  <2> QED BY <2>8
<1> HIDE DEF m, S, used
<1>6. m.used > k.target <=> m.state = "breached"
  BY <1>1, <1>2, <1>3, <1>5
<1>7. m.state = "running" => /\ item.starts # Never => item.starts <= instant
                             /\ S # {} /\ m.used <= k.target
                             /\ item.concluded = Never /\ CurrentTeam(item.history) = k.team
  BY <1>1, <1>2, <1>3
<1>8. m.state = "scheduled" => /\ item.starts # Never /\ instant < item.starts
                               /\ S # {} /\ m.used <= k.target
                               /\ item.concluded = Never /\ CurrentTeam(item.history) = k.team
  BY <1>1, <1>2, <1>3
<1> HIDE DEF state
<1>9. /\ m.state = "running" => m.deadline = DeadlineOf(k, instant, k.target - m.used)
      /\ m.state = "scheduled" => m.deadline = DeadlineOf(k, item.starts, k.target)
      /\ m.state \notin {"running", "scheduled"} => m.deadline = Never
  BY <1>4
<1> QED BY <1>1, <1>6, <1>7, <1>8, <1>9 DEF m, S

\* Once the team has the ticket for good, its time goes on with every minute that
\* the contract counts.
LEMMA TeamKeepsCounting ==
  ASSUME NEW item \in Tickets, NEW k, Suits(k), item.concluded = Never,
         CurrentTeam(item.history) = k.team,
         NEW instant \in Int, NEW a \in Int, NEW b \in Int, instant <= a, a <= b, k.from <= a,
         \A i \in DOMAIN item.history : item.history[i].at <= instant,
         item.starts # Never => item.starts <= a
  PROVE  Measure(item, k, b).used = Measure(item, k, a).used + Cardinality(Counting(k, a, b))
<1> DEFINE h == item.history
           n == Len(h)
           A == TeamMinutes(item, k, a)
           B == TeamMinutes(item, k, b)
           C == Counting(k, a, b)
<1>1. h \in Histories /\ k.from \in Int /\ (item.starts # Never => item.starts \in Int)
      /\ Until(item, a) = a /\ Until(item, b) = b
  BY ItemType
<1>2. n \in Nat /\ n > 0 /\ DOMAIN h = 1 .. n /\ \A i \in 1 .. n : h[i].at \in Int
  BY <1>1, HistoryType
<1>3. ASSUME NEW t \in Int, a <= t PROVE HasAt(h, k.team, t)
  <2>1. n \in 1 .. n /\ h[n].at <= instant /\ \A j \in 1 .. n : j <= n
    BY <1>2
  <2>2. h[n].at <= t
    BY <1>2, <1>3, <2>1
  <2>3. h[n].team = k.team
    BY DEF CurrentTeam
  <2>4. HadAt(h, n, k.team, t)
    BY <2>1, <2>2, <2>3 DEF HadAt
  <2> QED BY <1>1, <2>4, HasAtIsLast
<1>4. \A t : t \in A <=> /\ t \in k.from .. a - 1 /\ (item.starts # Never => t >= item.starts)
                         /\ HasAt(h, k.team, t) /\ CountsAt(k, t)
  BY <1>1 DEF TeamMinutes
<1>5. \A t : t \in B <=> /\ t \in k.from .. b - 1 /\ (item.starts # Never => t >= item.starts)
                         /\ HasAt(h, k.team, t) /\ CountsAt(k, t)
  BY <1>1 DEF TeamMinutes
<1>6. \A t : t \in C <=> t \in a .. b - 1 /\ CountsAt(k, t)
  BY DEF Counting
<1>7. \A t : t \in k.from .. b - 1 <=> t \in k.from .. a - 1 \/ t \in a .. b - 1
  BY <1>1
<1>8. \A t : t \in a .. b - 1 => t \in Int /\ a <= t /\ (item.starts # Never => t >= item.starts) /\ t \notin k.from .. a - 1
  BY <1>1
<1>9. IsFiniteSet(A) /\ IsFiniteSet(B) /\ IsFiniteSet(C)
      /\ Measure(item, k, a).used = Cardinality(A) /\ Measure(item, k, b).used = Cardinality(B)
  BY TeamTimeIsCounted, MinutesAreCounted
<1> HIDE DEF A, B, C, h, n
<1>10. \A t \in a .. b - 1 : HasAt(h, k.team, t)
  BY <1>3, <1>8
<1>11. B = A \cup C /\ A \cap C = {}
  <2>1. \A t : t \in B <=> t \in A \/ t \in C
    BY <1>4, <1>5, <1>6, <1>7, <1>8, <1>10, Zenon
  <2>2. \A t : ~(t \in A /\ t \in C)
    BY <1>4, <1>6, <1>8, Zenon
  <2> QED BY <2>1, <2>2
<1>12. Cardinality(A \cup C) = Cardinality(A) + Cardinality(C) - Cardinality(A \cap C)
       /\ Cardinality(A \cap C) = 0 /\ Cardinality(A) \in Nat /\ Cardinality(C) \in Nat
  BY <1>9, <1>11, FS_Union, FS_CardinalityType, FS_EmptySet
<1>13. Cardinality(A \cup C) = Cardinality(A) + Cardinality(C)
  BY <1>12
<1> QED BY <1>9, <1>11, <1>13 DEF C

\* A segment counts from the contract on.
LEMMA CountedSinceTheContract ==
  ASSUME NEW item \in Tickets, NEW k, Suits(k), item.concluded = Never, NEW instant \in Int,
         Counts(item, k, instant) # {}
  PROVE  k.from <= instant
<1>1. PICK s \in Counts(item, k, instant) : TRUE
  OBVIOUS
<1>2. k.from \in Int /\ item.history \in Histories /\ Until(item, instant) = instant
  BY ItemType
<1>3. Tells(item.history, Len(item.history), Segments(item.history))
  BY <1>2, SegmentsTell
<1>4. s \in Segments(item.history)
      /\ LET h == Held(s, k, instant) IN h.to > h.from \/ (s.to = Never /\ h.from <= instant)
  BY <1>1, <1>2 DEF Counts
<1>5. s \in Segment /\ s.from \in Int /\ (s.to # Never => s.to \in Int)
  BY <1>3, <1>4 DEF Tells, Segment
<1> QED BY <1>2, <1>4, <1>5 DEF Held, Later, Earlier

\* The deadline a measure shows is the instant at which the target is used up.
THEOREM TargetIsUsedUp ==
  ASSUME NEW item \in Tickets, NEW k, Suits(k), NEW instant \in Int,
         \A i \in DOMAIN item.history : item.history[i].at <= instant,
         Measure(item, k, instant).deadline # Never
  PROVE  LET d == Measure(item, k, instant).deadline
         IN  d \in Int /\ d >= instant /\ Measure(item, k, d).used = k.target
<1> DEFINE m == Measure(item, k, instant)
           d == m.deadline
<1>1. /\ m.used \in Nat
      /\ m.state \in {"running", "scheduled"} =>
           /\ Counts(item, k, instant) # {} /\ m.used <= k.target
           /\ item.concluded = Never /\ CurrentTeam(item.history) = k.team
      /\ m.state = "running" =>
           /\ item.starts # Never => item.starts <= instant
           /\ d = DeadlineOf(k, instant, k.target - m.used)
      /\ m.state = "scheduled" =>
           /\ item.starts # Never /\ instant < item.starts
           /\ d = DeadlineOf(k, item.starts, k.target)
      /\ m.state \notin {"running", "scheduled"} => d = Never
  BY Standing
<1>2. k.target \in Nat /\ k.from \in Int /\ (item.starts # Never => item.starts \in Int)
  BY ItemType
<1>3. d # Never
  OBVIOUS
<1> HIDE DEF m, d
<1>4. m.state \in {"running", "scheduled"}
  BY <1>1, <1>3
<1>5. k.from <= instant /\ item.concluded = Never /\ CurrentTeam(item.history) = k.team /\ m.used <= k.target
  BY <1>1, <1>4, CountedSinceTheContract
<1>6. CASE m.state = "running"
  <2> DEFINE left == k.target - m.used
  <2>1. left \in Nat /\ m.used + left = k.target
    BY <1>1, <1>2, <1>5
  <2> HIDE DEF left
  <2>2. d = DeadlineOf(k, instant, left)
    BY <1>1, <1>6 DEF left
  <2>3. d \in Int /\ d >= instant /\ Cardinality(Counting(k, instant, d)) = left
    BY <2>1, <2>2, DeadlineIsCounted
  <2>4. Measure(item, k, d).used = m.used + Cardinality(Counting(k, instant, d))
    <3>1. instant <= d /\ instant <= instant /\ (item.starts # Never => item.starts <= instant)
      BY <1>1, <1>6, <2>3
    <3> QED BY <1>5, <2>3, <3>1, TeamKeepsCounting DEF m
  <2>5. Measure(item, k, d).used = k.target
    BY <2>1, <2>3, <2>4
  <2> QED BY <2>3, <2>5 DEF d, m
<1>7. CASE m.state = "scheduled"
  <2>1. item.starts \in Int /\ instant <= item.starts /\ k.from <= item.starts /\ item.starts <= item.starts
        /\ d = DeadlineOf(k, item.starts, k.target)
    BY <1>1, <1>2, <1>5, <1>7
  <2>2. d \in Int /\ d >= item.starts /\ Cardinality(Counting(k, item.starts, d)) = k.target
    BY <1>2, <2>1, DeadlineIsCounted
  <2>3. Measure(item, k, d).used = Measure(item, k, item.starts).used + k.target
    <3>1. item.starts <= d
      BY <2>1, <2>2
    <3>2. Measure(item, k, d).used = Measure(item, k, item.starts).used + Cardinality(Counting(k, item.starts, d))
      BY <1>5, <2>1, <2>2, <3>1, TeamKeepsCounting
    <3> QED BY <2>2, <3>2
  <2>4. Measure(item, k, item.starts).used = 0
    <3>1. Until(item, item.starts) = item.starts /\ item.starts # Never
      BY <1>1, <1>7, <2>1, ItemType
    <3>2. TeamMinutes(item, k, item.starts) = {}
      BY <1>2, <2>1, <3>1 DEF TeamMinutes
    <3> QED BY <2>1, <3>2, TeamTimeIsCounted, FS_EmptySet
  <2>5. Measure(item, k, d).used = k.target /\ d >= instant
    BY <1>2, <2>1, <2>2, <2>3, <2>4
  <2> QED BY <2>2, <2>5 DEF d, m
<1> QED BY <1>4, <1>6, <1>7

\* Nothing is wrong, whatever is asked.
THEOREM NoMeasureIsWrong == WrongMeasures = {} /\ WrongTargets = {}
<1>1. ASSUME NEW q \in Questions
      PROVE  /\ q[1] \in Tickets /\ Suits(q[2]) /\ q[3] \in Int
             /\ \A i \in DOMAIN q[1].history : q[1].history[i].at <= q[3]
  <2>1. /\ q[1] \in Tickets /\ q[2] \in Contracts /\ q[3] \in Moments
        /\ \A i \in DOMAIN q[1].history : q[1].history[i].at <= q[3]
        /\ q[2].service => <<q[2].calendar, q[2].zone>> \in Worlds
    BY DEF Questions
  <2>2. <<q[2].calendar, q[2].zone>> \in Worlds => Settled(q[2].calendar, q[2].zone)
    BY DEF Worlds
  <2> QED BY <2>1, <2>2, HoursAssumption DEF Suits
<1>2. WrongMeasures = {}
  <2> SUFFICES ASSUME NEW q \in Questions
               PROVE  LET m == Measure(q[1], q[2], q[3])
                      IN  /\ m.used = Cardinality(TeamMinutes(q[1], q[2], q[3]))
                          /\ m.used > q[2].target <=> m.state = "breached"
    BY Zenon DEF WrongMeasures
  <2> QED BY <1>1, TeamTimeIsCounted, Standing
<1>3. WrongTargets = {}
  <2> SUFFICES ASSUME NEW q \in Questions, Measure(q[1], q[2], q[3]).deadline # Never
               PROVE  Measure(q[1], q[2], Measure(q[1], q[2], q[3]).deadline).used = q[2].target
    BY Zenon DEF WrongTargets
  <2> QED BY <1>1, TargetIsUsedUp
<1> QED BY <1>2, <1>3

-----------------------------------------------------------------------------
\* On any calendar what is left to a running clock ends where its deadline is
\* (calculateDeadline, packages/sla/src/policy.ts:187).
THEOREM DeadlinesHold == Spec => []DeadlineIsRight
<1>1. DeadlineIsRight
  BY NothingWrong DEF DeadlineIsRight
<1> QED BY <1>1, PTL

\* On any calendar the length of a pause is what the instants of its ends give
\* (businessMinutesBetween, packages/sla/src/policy.ts:235).
THEOREM PausesHold == Spec => []PauseIsCounted
<1>1. PauseIsCounted
  BY NothingWrong DEF PauseIsCounted
<1> QED BY <1>1, PTL

\* A contract counts the minutes the ticket was its team's, whatever the history
\* of its teams (olaTeamMeasure, olaAttainment.ts:94).
THEOREM TeamTimeHolds == Spec => []OlaTimeIsTheTeams
<1>1. OlaTimeIsTheTeams
  BY NoMeasureIsWrong DEF OlaTimeIsTheTeams
<1> QED BY <1>1, PTL

\* The deadline a contract shows is where its target is used up.
THEOREM TargetsHold == Spec => []OlaDeadlineIsTheTarget
<1>1. OlaDeadlineIsTheTarget
  BY NoMeasureIsWrong DEF OlaDeadlineIsTheTarget
<1> QED BY <1>1, PTL
=============================================================================

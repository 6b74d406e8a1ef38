------------------------- MODULE EventGroupingProofs -------------------------
(***************************************************************************)
(* EventGrouping proved for any alarms, payloads, jobs at once, attempts   *)
(* and faults: two calls are never in the section within their locks'      *)
(* time, and the correlation keeps one incident for the group as long as   *)
(* no section outlives its lock.                                           *)
(***************************************************************************)
EXTENDS EventGrouping, SequenceTheorems, FiniteSetTheorems, WellFoundedInduction, TLAPS

\* A set of incidents that is not empty has a last one: Latest finds it.
LEMMA LatestIsOne ==
  ASSUME NEW n \in Nat, NEW S, S \subseteq 1..n, S # {}
  PROVE  Latest(S) \in S
<1> DEFINE above == {i..n : i \in S}
<1>1. above \subseteq FiniteSubsetsOf(Nat)
  <2>1. ASSUME NEW i \in S PROVE IsFiniteSet(i..n) /\ i..n \in SUBSET Nat
    <3>1. i \in Int /\ n \in Int
      OBVIOUS
    <3> QED BY <3>1, FS_Interval
  <2> QED BY <2>1 DEF FiniteSubsetsOf
<1>2. PICK B \in above : \A C \in above : ~(<<C, B>> \in StrictSubsetOrdering(Nat))
  <2>1. above # {}
    OBVIOUS
  <2>2. IsWellFoundedOn(StrictSubsetOrdering(Nat), FiniteSubsetsOf(Nat))
    BY FS_StrictSubsetOrderingWellFounded
  <2> HIDE DEF above
  <2> QED BY <1>1, <2>1, <2>2, WFMin, Zenon
<1>3. PICK i \in S : B = i..n
  OBVIOUS
<1>4. ASSUME NEW j \in S PROVE j <= i
  <2>1. i \in Nat /\ j \in Nat /\ i <= n /\ j <= n
    OBVIOUS
  <2>2. SUFFICES ASSUME i < j PROVE FALSE
    BY <2>1
  <2>3. j..n \subseteq i..n /\ j..n # i..n
    <3>1. i \in i..n /\ i \notin j..n
      BY <2>1, <2>2
    <3>2. j..n \subseteq i..n
      BY <2>1, <2>2
    <3> QED BY <3>1, <3>2
  <2>4. i..n \in SUBSET Nat /\ j..n \in SUBSET Nat
    BY <2>1
  <2>5. <<j..n, i..n>> \in StrictSubsetOrdering(Nat)
    BY <2>3, <2>4 DEF StrictSubsetOrdering
  <2> QED BY <1>2, <1>3, <2>5
<1>5. \E k \in S : \A j \in S : j <= k
  BY <1>4
<1> QED BY <1>5 DEF Latest

-----------------------------------------------------------------------------
(***************************************************************************)
(* Types.                                                                  *)
(***************************************************************************)
\* A call, among n payloads and the incidents ids.
Good(c, r, ids, n) ==
  /\ r \in Call
  /\ c \in Jobs /\ r.pc # "idle" => c <= n
  /\ r.pc \in {"join", "link", "reopen"} => r.incident \in ids
  /\ r.pc = "walk" => r.todo # {} /\ r.todo \subseteq ids

TypeInv ==
  /\ GroupingTypeOK
  /\ \A c \in Calls : Good(c, call[c], Ids, Len(payload))
  /\ \A a \in Alarms : alarm[a].status = "unknown" => alarm[a].seen = 0

\* The incidents are those there were, with their alarms, and perhaps another
\* without any; what is closed stays so.
Grow ==
  /\ incident' \in Seq(Incident) /\ Len(incident') <= MaxIncidents
  /\ Len(incident) <= Len(incident')
  /\ \A i \in Ids : /\ incident[i].alarms \subseteq incident'[i].alarms
                    /\ incident'[i].auto = incident[i].auto
                    /\ incident[i].step = "closed" => incident'[i].step = "closed"
  /\ \A i \in 1..Len(incident') : i \notin Ids => incident'[i].alarms = {}

LEMMA Numbers ==
  ASSUME TypeInv
  PROVE  /\ MaxPayloads \in Nat /\ MaxIncidents \in Nat /\ Attempts \in Nat \ {0}
         /\ Len(payload) \in Nat /\ Len(incident) \in Nat
         /\ Ids \subseteq 1..MaxIncidents
         /\ Calls = 0..MaxPayloads + 1 /\ Jobs \subseteq Calls /\ Pass \in Calls /\ Person \in Calls
         /\ Pass \notin Jobs /\ Person \notin Jobs
         /\ None \notin Calls
BY GroupingAssumption DEF TypeInv, GroupingTypeOK, Ids, Calls, Jobs, Pass, Person, None

LEMMA IdleType == Idle \in Call
<1>1. (CHOOSE a \in Alarms : TRUE) \in Alarms
  BY GroupingAssumption
<1>2. 0 \in 0..Attempts - 1 /\ 0 \in 0..MaxIncidents
  BY GroupingAssumption
<1> QED BY <1>1, <1>2 DEF Idle, Call, Phases

LEMMA ReplaceIncident ==
  ASSUME TypeInv, NEW i \in Ids, NEW x \in Incident, incident' = [incident EXCEPT ![i] = x],
         incident[i].alarms \subseteq x.alarms, x.auto = incident[i].auto,
         incident[i].step = "closed" => x.step = "closed"
  PROVE  Grow /\ Ids' = Ids /\ incident'[i] = x /\ \A j \in Ids : j # i => incident'[j] = incident[j]
<1>1. incident \in Seq(Incident) /\ i \in 1..Len(incident) /\ Len(incident) <= MaxIncidents
  BY DEF TypeInv, GroupingTypeOK, Ids
<1>2. /\ incident' \in Seq(Incident) /\ Len(incident') = Len(incident)
      /\ \A j \in 1..Len(incident) : incident'[j] = IF j = i THEN x ELSE incident[j]
  BY <1>1, ExceptSeq
<1> QED BY <1>1, <1>2, Numbers DEF Grow, Ids

\* The actions that change an incident, or open one.
LEMMA StepGrows == ASSUME TypeInv, [Next]_vars PROVE Grow
<1>1. incident \in Seq(Incident) /\ Len(incident) \in Nat /\ Len(incident) <= MaxIncidents
  BY Numbers DEF TypeInv, GroupingTypeOK
<1>i. \A i \in Ids : incident[i] \in Incident
  BY <1>1 DEF Ids
<1>2. CASE incident' = incident
  BY <1>1, <1>2 DEF Grow, Ids
<1>3. ASSUME NEW i \in Ids, NEW step \in {"active", "resolved", "closed"}, MoveByHand(i, step) PROVE Grow
  <2>1. [incident[i] EXCEPT !.step = step] \in Incident
    BY <1>i DEF Incident
  <2>2. incident' = [incident EXCEPT ![i] = [incident[i] EXCEPT !.step = step]] /\ incident[i].step # "closed"
    BY <1>3 DEF MoveByHand
  <2> QED BY <1>i, <2>1, <2>2, ReplaceIncident DEF Incident
<1>4. ASSUME NEW c \in Calls, Reopen(c), incident' # incident PROVE Grow
  <2> DEFINE i == call[c].incident
  <2>1. i \in Ids /\ incident[i].step = "resolved"
    BY <1>4 DEF Reopen, TypeInv, Good
  <2>2. PICK step \in {"active", "resolved"} : incident' = [incident EXCEPT ![i].step = step]
    BY <1>4, <2>1 DEF Reopen
  <2> HIDE DEF i
  <2>3. [incident[i] EXCEPT !.step = step] \in Incident
    BY <1>i, <2>1 DEF Incident
  <2>4. incident' = [incident EXCEPT ![i] = [incident[i] EXCEPT !.step = step]]
    BY <2>2
  <2> QED BY <1>i, <2>1, <2>3, <2>4, ReplaceIncident DEF Incident
<1>5. ASSUME NEW c \in Calls, Join(c) \/ Link(c) PROVE Grow
  <2> DEFINE i == call[c].incident
             x == [incident[i] EXCEPT !.alarms = incident[i].alarms \cup {Its(c)}]
  <2>1. i \in Ids
    BY <1>5 DEF Join, Link, TypeInv, Good
  <2>2. Its(c) \in Alarms
    BY DEF Its, TypeInv, Good, Call
  <2>3. incident' = [incident EXCEPT ![i] = x]
    BY <1>5 DEF Join, Link
  <2> HIDE DEF i
  <2>4. x \in Incident /\ incident[i].alarms \subseteq x.alarms /\ x.auto = incident[i].auto /\ x.step = incident[i].step
    BY <1>i, <2>1, <2>2 DEF Incident
  <2> HIDE DEF x
  <2> QED BY <2>1, <2>3, <2>4, ReplaceIncident
<1>6. ASSUME NEW c \in Calls, Create(c) PROVE Grow
  <2> DEFINE x == [step |-> "new", alarms |-> {}, auto |-> call[c].mode = "firing"]
  <2>1. x \in Incident /\ x.alarms = {}
    BY DEF Incident
  <2>2. incident' = Append(incident, x) /\ Len(incident) < MaxIncidents
    BY <1>6 DEF Create
  <2> HIDE DEF x
  <2>3. /\ incident' \in Seq(Incident) /\ Len(incident') = Len(incident) + 1
        /\ incident'[Len(incident) + 1] = x
        /\ \A i \in 1..Len(incident) : incident'[i] = incident[i]
    BY <1>1, <2>1, <2>2
  <2> QED BY <1>1, <2>1, <2>2, <2>3, Numbers DEF Grow, Ids
<1>7. ASSUME NEW c \in Calls, Walk(c), incident' # incident PROVE Grow
  <2> DEFINE i == Latest(call[c].todo)
  <2>1. i \in Ids
    <3>1. call[c].todo # {} /\ call[c].todo \subseteq 1..Len(incident)
      BY <1>7 DEF Walk, TypeInv, Good, Ids
    <3> QED BY <1>1, <3>1, LatestIsOne DEF Ids
  <2>2. PICK step \in {"active", "resolved"} :
          incident' = [incident EXCEPT ![i].step = step] /\ incident[i].step # "closed"
    BY <1>7 DEF Walk
  <2> HIDE DEF i
  <2>3. [incident[i] EXCEPT !.step = step] \in Incident
    BY <1>i, <2>1 DEF Incident
  <2>4. incident' = [incident EXCEPT ![i] = [incident[i] EXCEPT !.step = step]]
    BY <2>2
  <2> QED BY <1>i, <2>1, <2>2, <2>3, <2>4, ReplaceIncident DEF Incident
<1>8. ASSUME NEW c \in Calls, CallStep(c), incident' # incident PROVE Grow
  BY <1>4, <1>5, <1>6, <1>7, <1>8
     DEF CallStep, Shortcut, TimesOut, Find, Mark, Opened, Weigh, Nothing, Ingest, Check, graph
<1> QED
  BY <1>2, <1>3, <1>8 DEF Next, vars, graph, Send, TakeUp, OpenByHand, Expire, Fails, Stops

\* The payloads received are kept.
LEMMA StepPayloads ==
  ASSUME TypeInv, [Next]_vars
  PROVE  /\ payload' \in Seq(Payload) /\ Len(payload') <= MaxPayloads
         /\ Len(payload) <= Len(payload')
<1>1. payload \in Seq(Payload) /\ Len(payload) <= MaxPayloads /\ Len(payload) \in Nat /\ MaxPayloads \in Nat
  BY Numbers DEF TypeInv, GroupingTypeOK
<1>2. CASE payload' = payload
  BY <1>1, <1>2
<1>3. ASSUME NEW a \in Alarms, NEW st \in {"firing", "resolved"}, Send(a, st)
      PROVE  payload' \in Seq(Payload) /\ Len(payload') <= MaxPayloads /\ Len(payload) <= Len(payload')
  <2>1. [alarm |-> a, status |-> st] \in Payload
    BY DEF Payload
  <2>2. payload' = Append(payload, [alarm |-> a, status |-> st]) /\ Len(payload) < MaxPayloads
    BY <1>3 DEF Send
  <2> QED BY <1>1, <2>1, <2>2
<1> QED
  BY <1>2, <1>3
     DEF Next, vars, TakeUp, OpenByHand, MoveByHand, Expire, Fails, Stops, CallStep, Shortcut, TimesOut, Find,
         Reopen, Join, Mark, Create, Link, Opened, Weigh, Walk, Nothing, Ingest, Check

\* One call is set to r, good for the incidents and the payloads after the step.
LEMMA OneCall ==
  ASSUME TypeInv, Len(payload') \in Nat, Len(payload) <= Len(payload'), Ids \subseteq Ids',
         NEW c \in Calls, NEW r, Good(c, r, Ids', Len(payload')), call' = [call EXCEPT ![c] = r]
  PROVE  /\ call' \in [Calls -> Call]
         /\ \A d \in Calls : Good(d, call'[d], Ids', Len(payload'))
<1>1. call \in [Calls -> Call]
  BY DEF TypeInv, GroupingTypeOK
<1>2. call' \in [Calls -> Call] /\ call'[c] = r /\ \A d \in Calls : d # c => call'[d] = call[d]
  BY <1>1 DEF Good
<1>3. ASSUME NEW d \in Calls PROVE Good(d, call[d], Ids', Len(payload'))
  <2>1. Good(d, call[d], Ids, Len(payload))
    BY DEF TypeInv
  <2>2. d \in Jobs /\ d <= Len(payload) => d <= Len(payload')
    BY Numbers DEF Jobs
  <2> QED BY <2>1, <2>2 DEF Good
<1> QED BY <1>2, <1>3

\* The ends of a call: over, or to be tried again.
LEMMA EndsAreGood ==
  ASSUME TypeInv, NEW c \in Calls, NEW ids, NEW n
  PROVE  /\ Good(c, Idle, ids, n)
         /\ \A tries \in 0..Attempts - 1, pc \in Waits : \A r :
              /\ r = [Idle EXCEPT !.pc = pc, !.alarm = call[c].alarm, !.tries = tries]
              /\ c \in Jobs => c <= n
              => Good(c, r, ids, n)
<1>1. call[c].alarm \in Alarms
  BY DEF TypeInv, Good, Call
<1>2. ASSUME NEW tries \in 0..Attempts - 1, NEW pc \in Waits
      PROVE  /\ [Idle EXCEPT !.pc = pc, !.alarm = call[c].alarm, !.tries = tries] \in Call
             /\ [Idle EXCEPT !.pc = pc, !.alarm = call[c].alarm, !.tries = tries].pc = pc
  BY <1>1, IdleType DEF Call, Phases
<1>3. Good(c, Idle, ids, n)
  BY IdleType DEF Good, Idle
<1> QED BY <1>2, <1>3 DEF Good, Waits

\* Again and Throws leave the call over, or queued.
LEMMA AgainIsGood ==
  ASSUME TypeInv, NEW c \in Calls, call[c].pc # "idle", Again(c), NEW ids
  PROVE  \E r : /\ call' = [call EXCEPT ![c] = r] /\ Good(c, r, ids, Len(payload))
                /\ r.section = "out" /\ r.pc \in {"idle", "queued"}
<1>1. c \in Jobs => c <= Len(payload)
  BY DEF TypeInv, Good
<1>2. call[c].tries \in 0..Attempts - 1 /\ call[c] \in Call
  BY DEF TypeInv, Good, Call
<1>3. Idle.section = "out" /\ Idle.pc = "idle" /\ Idle \in Call
  BY IdleType DEF Idle
<1>4. CASE c \in Jobs /\ call[c].tries + 1 < Attempts
  <2> DEFINE r == [Idle EXCEPT !.pc = "queued", !.alarm = call[c].alarm, !.tries = call[c].tries + 1]
  <2>1. call[c].tries + 1 \in 0..Attempts - 1
    BY <1>2, <1>4, Numbers
  <2>2. Good(c, r, ids, Len(payload))
    BY <1>1, <2>1, EndsAreGood DEF Waits
  <2>3. r.section = "out" /\ r.pc = "queued"
    BY <1>3 DEF Call
  <2>4. call' = [call EXCEPT ![c] = r]
    BY <1>4 DEF Again
  <2> QED BY <2>2, <2>3, <2>4
<1>5. CASE ~(c \in Jobs /\ call[c].tries + 1 < Attempts)
  <2>1. call' = [call EXCEPT ![c] = Idle]
    BY <1>5 DEF Again
  <2>2. Good(c, Idle, ids, Len(payload))
    BY EndsAreGood
  <2> QED BY <1>3, <2>1, <2>2
<1> QED BY <1>4, <1>5

\* What a payload leaves on its alarm: a status the pipeline knows.
LEMMA IngestWrites ==
  ASSUME TypeInv, NEW c \in Jobs, Ingest(c)
  PROVE  Written(c, alarm[Its(c)]) \in Alarm /\ Written(c, alarm[Its(c)]).status # "unknown"
<1> DEFINE a == Its(c)
           x == alarm[a]
<1>1. c \in Calls /\ c \in 1..MaxPayloads /\ MaxPayloads \in Nat
  BY Numbers DEF Jobs
<1>2. a \in Alarms /\ x \in Alarm /\ (x.status = "unknown" => x.seen = 0)
  BY <1>1 DEF Its, TypeInv, GroupingTypeOK, Good, Call
<1>3. c \in 1..Len(payload)
  BY <1>1, Numbers DEF Ingest, Taken, Waits, TypeInv, Good
<1>4. payload[c].status \in {"firing", "resolved"}
  <2>1. payload \in Seq(Payload)
    BY DEF TypeInv, GroupingTypeOK
  <2>2. payload[c] \in Payload
    BY <1>3, <2>1
  <2> QED BY <2>2 DEF Payload
<1> HIDE DEF a
<1>5. x.seen \in 0..MaxPayloads /\ x.correlated \in BOOLEAN /\ x.status \in {"unknown", "firing", "resolved"}
  BY <1>2 DEF Alarm
<1> HIDE DEF x
<1>6. CASE ~Applies(c, x)
  <2>1. x.seen # 0
    BY <1>1, <1>5, <1>6 DEF Applies
  <2> QED BY <1>2, <1>6, <2>1 DEF Written, x, a
<1>7. CASE Applies(c, x)
  <2> DEFINE seen == IF x.seen < c THEN c ELSE x.seen
             corr == x.correlated /\ ~(x.status = "resolved" /\ payload[c].status = "firing")
  <2>1. seen \in 0..MaxPayloads
    BY <1>1, <1>5
  <2>2. corr \in BOOLEAN
    BY <1>5
  <2>3. Written(c, x) = [status |-> payload[c].status, seen |-> seen, correlated |-> corr]
    BY <1>7 DEF Written
  <2> HIDE DEF seen, corr
  <2>4. Written(c, x) \in Alarm /\ Written(c, x).status # "unknown"
    BY <1>4, <2>1, <2>2, <2>3 DEF Alarm
  <2> QED BY <2>4 DEF x, a
<1> QED BY <1>6, <1>7

\* An alarm that was ever written is known.
LEMMA StepAlarms ==
  ASSUME TypeInv, [Next]_vars
  PROVE  /\ alarm' \in [Alarms -> Alarm]
         /\ \A a \in Alarms : alarm'[a].status = "unknown" => alarm'[a].seen = 0
<1>1. alarm \in [Alarms -> Alarm] /\ \A a \in Alarms : alarm[a].status = "unknown" => alarm[a].seen = 0
  BY DEF TypeInv, GroupingTypeOK
<1>2. CASE alarm' = alarm
  BY <1>1, <1>2
<1>3. \A c \in Calls : Its(c) \in Alarms
  BY DEF Its, TypeInv, Good, Call
<1>4. ASSUME NEW c \in Calls, Mark(c) \/ Opened(c)
      PROVE  /\ alarm' \in [Alarms -> Alarm]
             /\ \A a \in Alarms : alarm'[a].status = "unknown" => alarm'[a].seen = 0
  <2>1. alarm' = [alarm EXCEPT ![Its(c)] = [alarm[Its(c)] EXCEPT !.correlated = TRUE]]
    BY <1>4 DEF Mark, Opened
  <2>2. /\ [alarm[Its(c)] EXCEPT !.correlated = TRUE] \in Alarm
        /\ [alarm[Its(c)] EXCEPT !.correlated = TRUE].status = alarm[Its(c)].status
        /\ [alarm[Its(c)] EXCEPT !.correlated = TRUE].seen = alarm[Its(c)].seen
    BY <1>1, <1>3 DEF Alarm
  <2> QED BY <1>1, <1>3, <2>1, <2>2
<1>5. ASSUME NEW c \in Jobs, Ingest(c)
      PROVE  /\ alarm' \in [Alarms -> Alarm]
             /\ \A a \in Alarms : alarm'[a].status = "unknown" => alarm'[a].seen = 0
  <2> DEFINE x == Written(c, alarm[Its(c)])
  <2>1. Its(c) \in Alarms /\ alarm' = [alarm EXCEPT ![Its(c)] = x]
    BY <1>3, <1>5, Numbers DEF Ingest
  <2>2. x \in Alarm /\ x.status # "unknown"
    BY <1>5, IngestWrites
  <2> HIDE DEF x
  <2> QED BY <1>1, <2>1, <2>2
<1> QED
  BY <1>2, <1>4, <1>5
     DEF Next, vars, graph, Send, TakeUp, OpenByHand, MoveByHand, Expire, Fails, Stops, CallStep, Shortcut, TimesOut,
         Find, Reopen, Join, Create, Link, Weigh, Walk, Nothing, Check

-----------------------------------------------------------------------------
(***************************************************************************)
(* What a step does to a call and to the lock.                             *)
(***************************************************************************)
\* The section of a call goes on as it was, is over, or begins with the lock.
SectionKept(c, r) ==
  \/ r.section = call[c].section /\ lock' = lock
  \/ r.section # "in" /\ lock' \in {lock, Released(c)}
  \/ lock = None /\ lock' = c

\* One call moves, and its section with it.
Moves == \E c \in Calls : \E r : /\ call' = [call EXCEPT ![c] = r]
                                 /\ Good(c, r, Ids', Len(payload'))
                                 /\ SectionKept(c, r)

LEMMA GoodGrows ==
  ASSUME TypeInv, [Next]_vars, NEW c \in Calls, NEW r, Good(c, r, Ids, Len(payload))
  PROVE  Good(c, r, Ids', Len(payload'))
<1>1. Len(payload) \in Nat /\ Len(payload') \in Nat /\ Len(payload) <= Len(payload')
  BY Numbers, StepPayloads
<1>2. Ids \subseteq Ids'
  BY StepGrows, Numbers DEF Grow, Ids
<1>3. c \in Jobs => c \in Nat
  BY Numbers DEF Jobs
<1> QED BY <1>1, <1>2, <1>3 DEF Good

LEMMA EntersMoves ==
  ASSUME TypeInv, [Next]_vars, NEW c \in Calls,
         NEW pc \in {"create", "reopen", "join", "walk"}, NEW i \in 0..MaxIncidents, NEW todo \in SUBSET Ids,
         Enters(c, pc, i, todo),
         pc \in {"reopen", "join"} => i \in Ids, pc = "walk" => todo # {}
  PROVE  Moves
<1> DEFINE r == [call[c] EXCEPT !.pc = pc, !.section = "in", !.incident = i, !.todo = todo]
<1>1. call[c] \in Call /\ call[c].pc # "idle" /\ (c \in Jobs => c <= Len(payload))
  BY DEF Enters, TypeInv, Good
<1>2. todo \in SUBSET (1..MaxIncidents)
  BY Numbers
<1>3. r \in Call /\ r.pc = pc /\ r.incident = i /\ r.todo = todo
  BY <1>1, <1>2 DEF Call, Phases
<1>4. call' = [call EXCEPT ![c] = r] /\ lock = None /\ lock' = c
  BY DEF Enters
<1> HIDE DEF r
<1>5. Good(c, r, Ids, Len(payload))
  BY <1>1, <1>3 DEF Good
<1> QED BY <1>4, <1>5, GoodGrows DEF Moves, SectionKept

\* A call that ends or is tried again, with its lock or without.
LEMMA AgainMoves ==
  ASSUME TypeInv, [Next]_vars, NEW c \in Calls, call[c].pc # "idle", Again(c), lock' \in {lock, Released(c)}
  PROVE  Moves
<1>1. PICK r : call' = [call EXCEPT ![c] = r] /\ Good(c, r, Ids, Len(payload)) /\ r.section = "out"
  BY AgainIsGood
<1> QED BY <1>1, GoodGrows DEF Moves, SectionKept

LEMMA IdleMoves ==
  ASSUME TypeInv, [Next]_vars, NEW c \in Calls, call' = [call EXCEPT ![c] = Idle], lock' \in {lock, Released(c)}
  PROVE  Moves
<1>1. Idle.section = "out"
  BY DEF Idle
<1>2. Good(c, Idle, Ids', Len(payload'))
  BY EndsAreGood
<1>3. SectionKept(c, Idle)
  BY <1>1 DEF SectionKept
<1> QED BY <1>2, <1>3 DEF Moves

\* A call that goes on where it is, in its section or out of it.
LEMMA GoesMoves ==
  ASSUME TypeInv, [Next]_vars, NEW c \in Calls, NEW r, call' = [call EXCEPT ![c] = r],
         r \in Call, call[c].pc # "idle",
         r.pc \in {"join", "link", "reopen"} => r.incident \in Ids',
         r.pc = "walk" => r.todo # {} /\ r.todo \subseteq Ids,
         \/ r.section = call[c].section /\ lock' = lock
         \/ r.section # "in" /\ lock' \in {lock, Released(c)}
  PROVE  Moves
<1>1. c \in Jobs => c <= Len(payload')
  BY StepPayloads, Numbers DEF TypeInv, Good, Jobs
<1>2. Ids \subseteq Ids'
  BY StepGrows, Numbers DEF Grow, Ids
<1> QED BY <1>1, <1>2 DEF Good, Moves, SectionKept

\* A payload's job, a person's request and the pass take an idle call.
LEMMA Begins ==
  ASSUME TypeInv, [Next]_vars, NEW c \in Calls, NEW a \in Alarms, NEW pc \in {"queued", "waiting"},
         NEW mode \in {"firing", "manual"}, NEW r, r = [Idle EXCEPT !.pc = pc, !.alarm = a, !.mode = mode],
         call' = [call EXCEPT ![c] = r], lock' = lock, c \in Jobs => c <= Len(payload')
  PROVE  Moves
<1>1. Idle.section = "out" /\ Idle \in Call
  BY IdleType DEF Idle
<1>2. r \in Call /\ r.section = "out" /\ r.pc = pc
  BY <1>1 DEF Call, Phases, Waits
<1>3. Good(c, r, Ids', Len(payload'))
  BY <1>2 DEF Good
<1>4. SectionKept(c, r)
  BY <1>2 DEF SectionKept
<1> QED BY <1>3, <1>4 DEF Moves

LEMMA NothingMoves ==
  ASSUME TypeInv, [Next]_vars, NEW c \in Calls, Nothing(c) PROVE Moves
BY IdleMoves DEF Nothing

\* What a call does, action by action.
LEMMA CallStepMoves ==
  ASSUME TypeInv, [Next]_vars, NEW c \in Calls, CallStep(c) PROVE Moves \/ UNCHANGED <<call, lock>>
<1> DEFINE x == call[c]
<1>x. x \in Call /\ Good(c, x, Ids, Len(payload))
  BY DEF TypeInv, Good
<1>g. Ids \subseteq Ids'
  BY StepGrows, Numbers DEF Grow, Ids
<1>o. OpenForGroup # {} => Latest(OpenForGroup) \in Ids
  BY LatestIsOne, Numbers DEF OpenForGroup, Ids
<1>m. Ids \subseteq 0..MaxIncidents /\ 0 \in 0..MaxIncidents
  BY Numbers
<1>1. ASSUME Shortcut(c) PROVE Moves
  <2> DEFINE i == Latest(OpenForGroup)
             r == [x EXCEPT !.pc = "join", !.incident = i]
  <2>1. i \in Ids /\ x.pc = "waiting" /\ lock' = lock /\ call' = [call EXCEPT ![c] = r]
    BY <1>1, <1>o DEF Shortcut
  <2> HIDE DEF i
  <2>2. r \in Call /\ r.pc = "join" /\ r.incident = i /\ r.section = x.section
    BY <1>x, <1>m, <2>1 DEF Call, Phases
  <2> HIDE DEF r
  <2> QED BY <1>g, <2>1, <2>2, GoesMoves
<1>2. ASSUME TimesOut(c) PROVE Moves
  BY <1>2, AgainMoves DEF TimesOut
<1>3. ASSUME Find(c) PROVE Moves
  <2>1. CASE OpenForGroup = {}
    <3>1. Enters(c, "create", 0, {})
      BY <1>3, <2>1 DEF Find
    <3> QED BY <1>m, <3>1, EntersMoves
  <2>2. CASE OpenForGroup # {}
    <3> DEFINE i == Latest(OpenForGroup)
               pc == IF incident[i].step = "resolved" THEN "reopen" ELSE "join"
    <3>1. Enters(c, pc, i, {}) /\ i \in Ids /\ pc \in {"reopen", "join"}
      BY <1>3, <1>o, <2>2 DEF Find
    <3> HIDE DEF i, pc
    <3> QED BY <1>m, <3>1, EntersMoves
  <2> QED BY <2>1, <2>2
<1>4. ASSUME Reopen(c) PROVE Moves
  <2>1. CASE incident[x.incident].step = "resolved"
    <3> DEFINE r == [x EXCEPT !.pc = "join"]
    <3>1. x.pc = "reopen" /\ x.incident \in Ids /\ call' = [call EXCEPT ![c] = r] /\ lock' = lock
      BY <1>4, <1>x, <2>1 DEF Reopen, Goes, Good
    <3>2. r \in Call /\ r.pc = "join" /\ r.incident = x.incident /\ r.section = x.section
      BY <1>x DEF Call, Phases
    <3> HIDE DEF r
    <3> QED BY <1>g, <3>1, <3>2, GoesMoves
  <2>2. CASE incident[x.incident].step # "resolved"
    <3>1. Throws(c) /\ x.pc = "reopen"
      BY <1>4, <2>2 DEF Reopen
    <3> QED BY <3>1, AgainMoves DEF Throws
  <2> QED BY <2>1, <2>2
<1>5. ASSUME Join(c) PROVE Moves
  <2> DEFINE r == [x EXCEPT !.pc = "mark", !.section = "out"]
  <2>1. x.pc = "join" /\ call' = [call EXCEPT ![c] = r] /\ lock' = Released(c)
    BY <1>5 DEF Join, Leaves
  <2>2. r \in Call /\ r.pc = "mark" /\ r.section = "out"
    BY <1>x DEF Call, Phases
  <2> HIDE DEF r
  <2> QED BY <2>1, <2>2, GoesMoves
<1>6. ASSUME Mark(c) PROVE Moves
  BY <1>6, IdleMoves DEF Mark
<1>7. ASSUME Create(c) PROVE Moves
  <2> DEFINE n == Len(incident) + 1
             r == [x EXCEPT !.pc = "link", !.incident = n]
  <2>1. x.pc = "create" /\ call' = [call EXCEPT ![c] = r] /\ lock' = lock
    BY <1>7 DEF Create
  <2>2. n \in Ids' /\ n \in 0..MaxIncidents
    <3>1. incident \in Seq(Incident) /\ Len(incident) < MaxIncidents
      BY <1>7 DEF Create, TypeInv, GroupingTypeOK
    <3>2. incident' = Append(incident, [step |-> "new", alarms |-> {}, auto |-> call[c].mode = "firing"])
      BY <1>7 DEF Create
    <3>3. Len(incident') = Len(incident) + 1
      BY <3>1, <3>2
    <3> QED BY <3>1, <3>3, Numbers DEF Ids
  <2> HIDE DEF n
  <2>3. r \in Call /\ r.pc = "link" /\ r.incident = n /\ r.section = x.section
    BY <1>x, <2>2 DEF Call, Phases
  <2> HIDE DEF r
  <2> QED BY <2>1, <2>2, <2>3, GoesMoves
<1>8. ASSUME Link(c) PROVE Moves
  <2> DEFINE r == [x EXCEPT !.pc = "opened"]
  <2>1. x.pc = "link" /\ call' = [call EXCEPT ![c] = r] /\ lock' = lock
    BY <1>8 DEF Link, Goes
  <2>2. r \in Call /\ r.pc = "opened" /\ r.section = x.section
    BY <1>x DEF Call, Phases
  <2> HIDE DEF r
  <2> QED BY <2>1, <2>2, GoesMoves
<1>13. ASSUME Opened(c) PROVE Moves
  <2>1. CASE Leaves(c, "idle")
    BY <2>1, IdleMoves DEF Leaves
  <2>2. CASE Throws(c)
    BY <1>13, <2>2, AgainMoves DEF Throws, Opened
  <2> QED BY <1>13, <2>1, <2>2 DEF Opened
<1>9. ASSUME Weigh(c) PROVE Moves
  <2>1. CASE Over(Its(c)) = {}
    BY <1>9, <2>1, NothingMoves DEF Weigh
  <2>2. CASE Over(Its(c)) # {}
    <3>1. Enters(c, "walk", 0, Over(Its(c)))
      BY <1>9, <2>2 DEF Weigh
    <3>2. Over(Its(c)) \in SUBSET Ids
      BY DEF Over
    <3> QED BY <1>m, <2>2, <3>1, <3>2, EntersMoves
  <2> QED BY <2>1, <2>2
<1>10. ASSUME Walk(c) PROVE Moves \/ UNCHANGED <<call, lock>>
  <2> DEFINE i == Latest(x.todo)
             r == [x EXCEPT !.todo = x.todo \ {i}]
  <2>1. x.pc = "walk" /\ x.todo # {} /\ x.todo \subseteq Ids
    BY <1>10, <1>x DEF Walk, Good
  <2>2. CASE Throws(c)
    BY <2>1, <2>2, AgainMoves DEF Throws
  <2>3. CASE Done(c, i) /\ x.todo = {i}
    BY <2>3, IdleMoves DEF Done, Leaves
  <2>4. CASE Done(c, i) /\ x.todo # {i}
    <3>1. call' = [call EXCEPT ![c] = r] /\ lock' = lock
      BY <2>4 DEF Done
    <3>2. i \in x.todo
      BY <2>1, LatestIsOne, Numbers DEF Ids
    <3> HIDE DEF i
    <3>3. r \in Call /\ r.pc = "walk" /\ r.todo = x.todo \ {i} /\ r.section = x.section
      BY <1>x, <2>1 DEF Call
    <3>4. r.todo # {} /\ r.todo \subseteq Ids
      BY <2>1, <2>4, <3>2, <3>3
    <3> HIDE DEF r
    <3> QED BY <2>1, <3>1, <3>3, <3>4, GoesMoves
  <2> QED BY <1>10, <2>2, <2>3, <2>4 DEF Walk
<1>11. ASSUME c \in Jobs, Ingest(c) PROVE Moves
  <2> DEFINE mode == Written(c, alarm[Its(c)]).status
             r == [x EXCEPT !.pc = "waiting", !.mode = mode]
  <2>1. mode \in {"firing", "resolved"}
    BY <1>11, IngestWrites DEF Alarm
  <2>2. x.pc \in Waits /\ call' = [call EXCEPT ![c] = r] /\ lock' = lock
    BY <1>11 DEF Ingest, Taken
  <2> HIDE DEF mode
  <2>3. r \in Call /\ r.pc = "waiting" /\ r.section = x.section
    BY <1>x, <2>1 DEF Call, Phases
  <2> HIDE DEF r
  <2> QED BY <2>2, <2>3, GoesMoves DEF Waits
<1>12. ASSUME c = Person, Check PROVE Moves
  <2>1. CASE Nothing(Person)
    BY <1>12, <2>1, NothingMoves
  <2>2. CASE Enters(Person, "create", 0, {})
    BY <1>12, <1>m, <2>2, EntersMoves
  <2> QED BY <1>12, <2>1, <2>2 DEF Check
<1> QED
  BY <1>1, <1>2, <1>3, <1>4, <1>5, <1>6, <1>7, <1>8, <1>9, <1>10, <1>11, <1>12, <1>13 DEF CallStep

LEMMA StepMoves ==
  ASSUME TypeInv, [Next]_vars PROVE Moves \/ UNCHANGED <<call, lock>> \/ Expire
<1>1. CASE UNCHANGED vars
  BY <1>1 DEF vars
<1>2. ASSUME NEW a \in Alarms, NEW s \in {"firing", "resolved"}, Send(a, s) PROVE Moves
  <2> DEFINE n == Len(payload) + 1
             r == [Idle EXCEPT !.pc = "queued", !.alarm = a]
  <2>1. n \in Calls /\ n <= Len(payload')
    <3>1. payload \in Seq(Payload) /\ Len(payload) < MaxPayloads
      BY <1>2 DEF Send, TypeInv, GroupingTypeOK
    <3>2. Len(payload') = Len(payload) + 1
      BY <1>2, <3>1 DEF Send
    <3> QED BY <3>1, <3>2, Numbers
  <2>2. call' = [call EXCEPT ![n] = r] /\ lock' = lock
    BY <1>2 DEF Send
  <2>3. r = [Idle EXCEPT !.pc = "queued", !.alarm = a, !.mode = "firing"]
    <3>1. Idle.mode = "firing"
      BY DEF Idle
    <3> QED BY <3>1, IdleType DEF Call
  <2> HIDE DEF n, r
  <2> QED BY <2>1, <2>2, <2>3, Begins
<1>3. ASSUME NEW a \in Alarms, TakeUp(a) PROVE Moves
  <2> DEFINE r == [Idle EXCEPT !.pc = "waiting", !.alarm = a]
  <2>1. r = [Idle EXCEPT !.pc = "waiting", !.alarm = a, !.mode = "firing"]
    <3>1. Idle.mode = "firing"
      BY DEF Idle
    <3> QED BY <3>1, IdleType DEF Call
  <2>2. call' = [call EXCEPT ![Pass] = r] /\ lock' = lock
    BY <1>3 DEF TakeUp
  <2> HIDE DEF r
  <2> QED BY <2>1, <2>2, Begins, Numbers
<1>4. ASSUME NEW a \in Alarms, OpenByHand(a) PROVE Moves
  BY <1>4, Begins, Numbers DEF OpenByHand
<1>5. ASSUME NEW c \in Calls, Fails(c) PROVE Moves
  BY <1>5, AgainMoves DEF Fails, Throws
<1>6. ASSUME NEW c \in Calls, Stops(c) PROVE Moves
  <2>1. call[c].pc # "idle" /\ lock' = lock /\ call[c].tries \in 0..Attempts - 1 /\ (c \in Jobs => c <= Len(payload))
    BY <1>6 DEF Stops, TypeInv, Good, Call
  <2>2. CASE c \in Jobs
    <3> DEFINE r == [Idle EXCEPT !.pc = "stalled", !.alarm = call[c].alarm, !.tries = call[c].tries]
    <3>1. call' = [call EXCEPT ![c] = r]
      BY <1>6, <2>2 DEF Stops
    <3>2. Good(c, r, Ids, Len(payload))
      BY <2>1, EndsAreGood DEF Waits
    <3>3. r.section = "out"
      BY IdleType DEF Idle, Call
    <3> HIDE DEF r
    <3>4. SectionKept(c, r)
      BY <2>1, <3>3 DEF SectionKept
    <3> QED BY <3>1, <3>2, <3>4, GoodGrows DEF Moves
  <2>3. CASE c \notin Jobs
    BY <1>6, <2>1, <2>3, IdleMoves DEF Stops
  <2> QED BY <2>2, <2>3
<1>7. ASSUME NEW i \in Ids, NEW step \in {"active", "resolved", "closed"}, MoveByHand(i, step)
      PROVE  UNCHANGED <<call, lock>>
  BY <1>7 DEF MoveByHand
<1> QED BY <1>1, <1>2, <1>3, <1>4, <1>5, <1>6, <1>7, CallStepMoves DEF Next

-----------------------------------------------------------------------------
(***************************************************************************)
(* The types and the lock.                                                 *)
(***************************************************************************)
\* A section within its lock's time is its holder's.
SectionInv == \A c \in Calls : call[c].section = "in" => lock = c

LEMMA InitTypes == Init => TypeInv /\ SectionInv
<1> SUFFICES ASSUME Init PROVE TypeInv /\ SectionInv
  OBVIOUS
<1>1. Idle.pc = "idle" /\ Idle.section = "out" /\ Idle \in Call
  BY IdleType DEF Idle
<1>2. /\ Calls = 0..MaxPayloads + 1 /\ MaxPayloads \in Nat /\ MaxIncidents \in Nat \ {0}
      /\ MaxMoves \in Nat /\ MaxFaults \in Nat
  BY GroupingAssumption DEF Calls, Pass, Person
<1>3. payload \in Seq(Payload) /\ Len(payload) <= MaxPayloads
  BY <1>2 DEF Init
<1>4. /\ alarm \in [Alarms -> Alarm]
      /\ \A a \in Alarms : alarm[a].status = "unknown" => alarm[a].seen = 0
  <2> DEFINE unknown == [status |-> "unknown", seen |-> 0, correlated |-> FALSE]
             over == [status |-> "resolved", seen |-> 0, correlated |-> TRUE]
  <2>1. unknown \in Alarm /\ over \in Alarm /\ unknown.seen = 0 /\ over.status = "resolved"
    BY <1>2 DEF Alarm
  <2>2. alarm = [a \in Alarms |-> unknown] \/ alarm = [a \in Alarms |-> over]
    BY DEF Init
  <2> HIDE DEF unknown, over
  <2> QED BY <2>1, <2>2
<1>5. incident \in Seq(Incident) /\ Len(incident) <= MaxIncidents
  <2>1. CASE incident = <<>>
    BY <1>2, <2>1
  <2>2. CASE incident = <<[step |-> "resolved", alarms |-> Alarms, auto |-> TRUE]>>
    <3>1. [step |-> "resolved", alarms |-> Alarms, auto |-> TRUE] \in Incident
      BY DEF Incident
    <3> QED BY <1>2, <2>2, <3>1
  <2> QED BY <2>1, <2>2 DEF Init
<1>6. call \in [Calls -> Call] /\ \A c \in Calls : call[c] = Idle
  BY <1>1 DEF Init
<1>7. GroupingTypeOK
  BY <1>2, <1>3, <1>4, <1>5, <1>6 DEF Init, GroupingTypeOK
<1>8. \A c \in Calls : Good(c, call[c], Ids, Len(payload))
  BY <1>1, <1>6 DEF Good
<1>9. SectionInv
  BY <1>1, <1>6 DEF SectionInv
<1> QED BY <1>4, <1>7, <1>8, <1>9 DEF TypeInv

LEMMA StepTypes ==
  ASSUME TypeInv, [Next]_vars PROVE TypeInv'
<1>1. /\ payload' \in Seq(Payload) /\ Len(payload') <= MaxPayloads /\ Len(payload') \in Nat
      /\ Len(payload) <= Len(payload')
  BY StepPayloads
<1>2. /\ alarm' \in [Alarms -> Alarm]
      /\ \A a \in Alarms : alarm'[a].status = "unknown" => alarm'[a].seen = 0
  BY StepAlarms
<1>3. incident' \in Seq(Incident) /\ Len(incident') <= MaxIncidents /\ Ids \subseteq Ids'
  BY StepGrows, Numbers DEF Grow, Ids
<1>4. /\ call' \in [Calls -> Call]
      /\ \A c \in Calls : Good(c, call'[c], Ids', Len(payload'))
  <2>1. CASE Moves
    BY <1>1, <1>3, <2>1, OneCall DEF Moves
  <2>2. CASE UNCHANGED call
    BY <2>2, GoodGrows DEF TypeInv, GroupingTypeOK
  <2>3. CASE Expire /\ call[lock].section = "in"
    <3> DEFINE r == [call[lock] EXCEPT !.section = "late"]
    <3>1. lock \in Calls /\ call' = [call EXCEPT ![lock] = r] /\ UNCHANGED <<payload, incident>>
      BY <2>3 DEF Expire, TypeInv, GroupingTypeOK, graph
    <3>2. Good(lock, call[lock], Ids, Len(payload))
      BY <3>1 DEF TypeInv
    <3>3. Good(lock, r, Ids, Len(payload))
      BY <3>2 DEF Good, Call
    <3>4. Good(lock, r, Ids', Len(payload'))
      BY <3>3, <3>1, GoodGrows
    <3> HIDE DEF r
    <3> QED BY <1>1, <1>3, <3>1, <3>4, OneCall
  <2> QED BY <2>1, <2>2, <2>3, StepMoves DEF Expire
<1>5. lock' \in Calls \cup {None}
  <2>1. lock \in Calls \cup {None}
    BY DEF TypeInv, GroupingTypeOK
  <2> QED BY <2>1, StepMoves DEF Moves, SectionKept, Released, Expire
<1>6. moves' \in 0..MaxMoves /\ faults' \in 0..MaxFaults /\ outlived' \in BOOLEAN
  <2>1. /\ moves \in 0..MaxMoves /\ faults \in 0..MaxFaults /\ outlived \in BOOLEAN
        /\ MaxMoves \in Nat /\ MaxFaults \in Nat
    BY GroupingAssumption DEF TypeInv, GroupingTypeOK
  <2>2. CASE UNCHANGED <<moves, faults, outlived>>
    BY <2>1, <2>2
  <2>3. ASSUME Expire PROVE moves' \in 0..MaxMoves /\ faults' \in 0..MaxFaults /\ outlived' \in BOOLEAN
    <3>1. \/ UNCHANGED <<moves, faults, outlived>>
          \/ moves' = moves /\ faults < MaxFaults /\ faults' = faults + 1 /\ outlived' = TRUE
      BY <2>3 DEF Expire, Expires
    <3>2. moves' \in 0..MaxMoves /\ faults' \in 0..MaxFaults
      BY <2>1, <3>1
    <3>3. outlived' \in BOOLEAN
      BY <2>1, <3>1, Zenon
    <3> QED BY <3>2, <3>3
  <2>4. ASSUME NEW c \in Calls, Fails(c) \/ Stops(c)
        PROVE  moves' \in 0..MaxMoves /\ faults' \in 0..MaxFaults /\ outlived' \in BOOLEAN
    BY <2>1, <2>4 DEF Fails, Stops
  <2>5. ASSUME NEW a \in Alarms, OpenByHand(a)
        PROVE  moves' \in 0..MaxMoves /\ faults' \in 0..MaxFaults /\ outlived' \in BOOLEAN
    BY <2>1, <2>5 DEF OpenByHand
  <2>6. ASSUME NEW i \in Ids, NEW step \in {"active", "resolved", "closed"}, MoveByHand(i, step)
        PROVE  moves' \in 0..MaxMoves /\ faults' \in 0..MaxFaults /\ outlived' \in BOOLEAN
    BY <2>1, <2>6 DEF MoveByHand
  <2>7. ASSUME NEW c \in Calls, CallStep(c) PROVE UNCHANGED <<moves, faults, outlived>>
    BY <2>7 DEF CallStep, Shortcut, TimesOut, Find, Reopen, Join, Mark, Create, Link, Opened, Weigh, Walk, Nothing,
                Ingest, Check, bounds
  <2> QED
    BY <2>2, <2>3, <2>4, <2>5, <2>6, <2>7 DEF Next, vars, bounds, Send, TakeUp
<1> QED BY <1>1, <1>2, <1>3, <1>4, <1>5, <1>6 DEF TypeInv, GroupingTypeOK

\* Only who finds the lock free enters, and only its holder frees it in time.
LEMMA StepSection ==
  ASSUME TypeInv, SectionInv, [Next]_vars PROVE SectionInv'
<1>0. call \in [Calls -> Call] /\ lock \in Calls \cup {None} /\ None \notin Calls
  BY Numbers DEF TypeInv, GroupingTypeOK
<1>1. CASE UNCHANGED <<call, lock>>
  BY <1>1 DEF SectionInv
<1>2. CASE Moves
  <2>0. PICK c \in Calls : \E r : call' = [call EXCEPT ![c] = r] /\ SectionKept(c, r)
    BY <1>2 DEF Moves
  <2>1. PICK r : call' = [call EXCEPT ![c] = r] /\ SectionKept(c, r)
    BY <2>0
  <2>2. call'[c] = r /\ \A d \in Calls : d # c => call'[d] = call[d]
    BY <1>0, <2>1
  <2> QED BY <1>0, <2>1, <2>2 DEF SectionKept, SectionInv, Released
<1>3. CASE Expire
  <2>1. lock \in Calls
    BY <1>0, <1>3 DEF Expire
  <2>2. \A d \in Calls : call'[d].section = "in" => d # lock /\ call[d].section = "in"
    <3>1. CASE call[lock].section = "in"
      <4> DEFINE r == [call[lock] EXCEPT !.section = "late"]
      <4>1. call' = [call EXCEPT ![lock] = r]
        BY <1>3, <3>1 DEF Expire
      <4>2. r.section = "late"
        BY <1>0, <2>1 DEF Call
      <4> HIDE DEF r
      <4> QED BY <1>0, <2>1, <4>1, <4>2
    <3>2. CASE call[lock].section # "in"
      BY <1>3, <3>2 DEF Expire
    <3> QED BY <3>1, <3>2
  <2> QED BY <2>2 DEF SectionInv
<1> QED BY <1>1, <1>2, <1>3, StepMoves

\* Alarms, incidents and calls keep their types, whatever fails and in whatever
\* order the payloads are taken.
THEOREM TypesHold == Spec => []GroupingTypeOK
<1>1. Init => TypeInv
  BY InitTypes
<1>2. TypeInv /\ [Next]_vars => TypeInv'
  BY StepTypes
<1>3. TypeInv => GroupingTypeOK
  BY DEF TypeInv
<1> QED BY <1>1, <1>2, <1>3, PTL DEF Spec

\* Two calls are never in the section within their locks' time, however many
\* jobs run, fail or outlive their lock.
THEOREM OneSectionAtATime == Spec => []OneSection
<1>1. Init => TypeInv /\ SectionInv
  BY InitTypes
<1>2. TypeInv /\ SectionInv /\ [Next]_vars => TypeInv' /\ SectionInv'
  BY StepTypes, StepSection
<1>3. SectionInv => OneSection
  BY DEF SectionInv, OneSection
<1> QED BY <1>1, <1>2, <1>3, PTL DEF Spec

-----------------------------------------------------------------------------
(***************************************************************************)
(* One incident for the group.                                             *)
(***************************************************************************)
\* Where a call is, among the incidents inc, of which open are the group's: who
\* opens one by itself is alone in the section and has found none.
Stage(r, inc, open) ==
  /\ r.section # "late"
  /\ r.pc \in {"create", "link"} => r.section = "in"
  /\ r.pc \in {"create", "link"} /\ r.mode = "firing" => open = {}
  /\ r.pc = "link" /\ r.mode # "firing" => ~inc[r.incident].auto
  /\ r.pc \in {"join", "reopen"} => inc[r.incident].alarms # {}

Stages == \A c \in Calls : Stage(call[c], incident, OpenForGroup)

OneAuto == \A i, j \in OpenForGroup : incident[i].auto /\ incident[j].auto => i = j

GroupInv == ~outlived => Stages /\ OneAuto

\* Only a link adds an incident to those of the group.
LEMMA OpenShrinks ==
  ASSUME TypeInv, Stages, [Next]_vars, \A c \in Calls : ~Link(c)
  PROVE  OpenForGroup' \subseteq OpenForGroup
<1>0. incident \in Seq(Incident) /\ Grow /\ \A i \in Ids : incident[i] \in Incident
  BY StepGrows DEF TypeInv, GroupingTypeOK, Ids
<1>1. ASSUME NEW i \in Ids, incident'[i].alarms # {} PROVE incident[i].alarms # {}
  <2>1. CASE incident' = incident
    BY <1>1, <2>1
  <2>2. ASSUME NEW j \in Ids, NEW step, incident' = [incident EXCEPT ![j].step = step] PROVE incident[i].alarms # {}
    BY <1>0, <1>1, <2>2 DEF Ids, Incident
  <2>3. ASSUME NEW c \in Calls, Join(c) PROVE incident[i].alarms # {}
    <3> DEFINE k == call[c].incident
    <3>1. k \in Ids /\ incident[k].alarms # {}
      BY <2>3 DEF Join, TypeInv, Good, Stages, Stage
    <3>2. incident' = [incident EXCEPT ![k].alarms = @ \cup {Its(c)}]
      BY <2>3 DEF Join
    <3> HIDE DEF k
    <3>3. i # k => incident'[i] = incident[i]
      BY <1>0, <3>1, <3>2 DEF Ids
    <3> QED BY <1>1, <3>1, <3>3
  <2>4. ASSUME NEW c \in Calls, Create(c) PROVE incident[i].alarms # {}
    <3> DEFINE x == [step |-> "new", alarms |-> {}, auto |-> call[c].mode = "firing"]
    <3>1. incident' = Append(incident, x)
      BY <2>4 DEF Create
    <3> HIDE DEF x
    <3>2. incident'[i] = incident[i]
      BY <1>0, <3>1 DEF Ids
    <3> QED BY <1>1, <3>2
  <2>5. ASSUME NEW c \in Calls, Reopen(c) PROVE incident[i].alarms # {}
    <3>1. call[c].incident \in Ids
      BY <2>5 DEF Reopen, TypeInv, Good
    <3> QED BY <2>1, <2>2, <2>5, <3>1 DEF Reopen
  <2>6. ASSUME NEW c \in Calls, Walk(c) PROVE incident[i].alarms # {}
    <3>1. Latest(call[c].todo) \in Ids
      <4>1. call[c].todo # {} /\ call[c].todo \subseteq Ids
        BY <2>6 DEF Walk, TypeInv, Good
      <4> QED BY <4>1, LatestIsOne, Numbers DEF Ids
    <3> QED BY <2>1, <2>2, <2>6, <3>1 DEF Walk
  <2>7. ASSUME NEW j \in Ids, NEW step \in {"active", "resolved", "closed"}, MoveByHand(j, step)
        PROVE  incident[i].alarms # {}
    BY <2>2, <2>7 DEF MoveByHand
  <2> QED
    BY <2>1, <2>3, <2>4, <2>5, <2>6, <2>7
       DEF Next, vars, graph, Send, TakeUp, OpenByHand, Expire, Fails, Stops, CallStep, Shortcut, TimesOut, Find,
           Mark, Opened, Weigh, Nothing, Ingest, Check
<1>2. ASSUME NEW i \in OpenForGroup' PROVE i \in OpenForGroup
  <2>1. i \in Ids' /\ incident'[i].alarms # {} /\ incident'[i].step # "closed"
    BY <1>2 DEF OpenForGroup
  <2>2. i \in Ids
    BY <1>0, <2>1 DEF Grow, Ids
  <2> QED BY <1>0, <1>1, <2>1, <2>2 DEF Grow, OpenForGroup
<1> QED BY <1>2

\* The incident of a link becomes the group's.
LEMMA LinkOpens ==
  ASSUME TypeInv, [Next]_vars, NEW c \in Calls, Link(c)
  PROVE  OpenForGroup' \subseteq OpenForGroup \cup {call[c].incident}
<1> DEFINE k == call[c].incident
<1>1. incident \in Seq(Incident) /\ Grow /\ k \in Ids
  BY StepGrows DEF TypeInv, GroupingTypeOK, Link, Good
<1>2. incident' = [incident EXCEPT ![k].alarms = @ \cup {Its(c)}]
  BY DEF Link
<1> HIDE DEF k
<1>3. Ids' = Ids /\ \A i \in Ids : i # k => incident'[i] = incident[i]
  BY <1>1, <1>2 DEF Ids
<1> QED BY <1>3 DEF OpenForGroup, k

\* A call that moves stands where it should.
LEMMA MovedStands ==
  ASSUME TypeInv, Stages, [Next]_vars, NEW c \in Calls, CallStep(c)
  PROVE  \/ call' = call
         \/ \E r : call' = [call EXCEPT ![c] = r] /\ Stage(r, incident', OpenForGroup')
<1> DEFINE x == call[c]
           Stands == \E r : call' = [call EXCEPT ![c] = r] /\ Stage(r, incident', OpenForGroup')
<1>x. x \in Call /\ x.section # "late" /\ Stage(x, incident, OpenForGroup) /\ Good(c, x, Ids, Len(payload))
  BY DEF TypeInv, Good, Stages, Stage
<1>0. Grow
  BY StepGrows
<1>o. OpenForGroup # {} => Latest(OpenForGroup) \in OpenForGroup
  BY LatestIsOne, Numbers DEF OpenForGroup, Ids
<1>i. Idle.section = "out" /\ Idle.pc = "idle"
  BY DEF Idle
<1>a. ASSUME Again(c), x.pc # "idle" PROVE Stands
  BY <1>a, AgainIsGood DEF Stage
<1>b. ASSUME call' = [call EXCEPT ![c] = Idle] PROVE Stands
  BY <1>b, <1>i DEF Stage
<1>c. ASSUME NEW pc \in {"walk", "mark", "opened", "waiting"}, NEW r, call' = [call EXCEPT ![c] = r],
             r.pc = pc, r.section # "late"
      PROVE  Stands
  <2>1. r.pc \notin {"create", "link", "join", "reopen"} /\ r.section # "late"
    BY <1>c
  <2>2. Stage(r, incident', OpenForGroup')
    BY <2>1 DEF Stage
  <2> QED BY <1>c, <2>2
<1>d. ASSUME NEW pc, NEW i, NEW todo, Enters(c, pc, i, todo)
      PROVE  \E r : /\ call' = [call EXCEPT ![c] = r]
                    /\ r.pc = pc /\ r.section = "in" /\ r.incident = i /\ r.mode = x.mode
  <2> DEFINE r == [x EXCEPT !.pc = pc, !.section = "in", !.incident = i, !.todo = todo]
  <2>1. call' = [call EXCEPT ![c] = r]
    BY <1>d DEF Enters
  <2>2. r.pc = pc /\ r.section = "in" /\ r.incident = i /\ r.mode = x.mode
    BY <1>x DEF Call
  <2> QED BY <2>1, <2>2
<1>1. ASSUME Shortcut(c) PROVE Stands
  <2> DEFINE i == Latest(OpenForGroup)
             r == [x EXCEPT !.pc = "join", !.incident = i]
  <2>1. i \in OpenForGroup /\ call' = [call EXCEPT ![c] = r] /\ incident' = incident
    BY <1>1, <1>o DEF Shortcut, graph
  <2> HIDE DEF i
  <2>2. r.pc = "join" /\ r.section = x.section /\ r.incident = i
    BY <1>x DEF Call
  <2> HIDE DEF r
  <2> QED BY <1>x, <2>1, <2>2 DEF Stage, OpenForGroup
<1>2. ASSUME TimesOut(c) PROVE Stands
  BY <1>2, <1>a DEF TimesOut
<1>3. ASSUME Find(c) PROVE Stands
  <2>1. incident' = incident /\ x.mode = "firing" /\ OpenForGroup' = OpenForGroup
    BY <1>3 DEF Find, graph, OpenForGroup, Ids
  <2>2. CASE OpenForGroup = {}
    <3>1. Enters(c, "create", 0, {})
      BY <1>3, <2>2 DEF Find
    <3> QED BY <1>d, <2>1, <2>2, <3>1 DEF Stage
  <2>3. CASE OpenForGroup # {}
    <3> DEFINE i == Latest(OpenForGroup)
               pc == IF incident[i].step = "resolved" THEN "reopen" ELSE "join"
    <3>1. Enters(c, pc, i, {}) /\ i \in OpenForGroup /\ pc \in {"reopen", "join"}
      BY <1>3, <1>o, <2>3 DEF Find
    <3> HIDE DEF i, pc
    <3>2. PICK r : call' = [call EXCEPT ![c] = r] /\ r.pc = pc /\ r.section = "in" /\ r.incident = i
      BY <1>d, <3>1
    <3> QED BY <2>1, <3>1, <3>2 DEF Stage, OpenForGroup
  <2> QED BY <2>2, <2>3
<1>4. ASSUME Reopen(c) PROVE Stands
  <2>1. CASE incident[x.incident].step = "resolved"
    <3> DEFINE r == [x EXCEPT !.pc = "join"]
    <3>1. x.incident \in Ids /\ incident[x.incident].alarms # {} /\ call' = [call EXCEPT ![c] = r]
      BY <1>4, <1>x, <2>1 DEF Reopen, Goes, Good, Stage
    <3>2. r.pc = "join" /\ r.section = x.section /\ r.incident = x.incident
      BY <1>x DEF Call
    <3> HIDE DEF r
    <3>3. incident'[x.incident].alarms # {}
      BY <1>0, <3>1 DEF Grow
    <3> QED BY <1>x, <3>1, <3>2, <3>3 DEF Stage
  <2>2. CASE incident[x.incident].step # "resolved"
    BY <1>4, <1>a, <2>2 DEF Reopen, Throws
  <2> QED BY <2>1, <2>2
<1>5. ASSUME Join(c) PROVE Stands
  <2> DEFINE r == [x EXCEPT !.pc = "mark", !.section = "out"]
  <2>1. call' = [call EXCEPT ![c] = r]
    BY <1>5 DEF Join, Leaves
  <2>2. r.pc = "mark" /\ r.section = "out"
    BY <1>x DEF Call
  <2> HIDE DEF r
  <2> QED BY <1>c, <2>1, <2>2
<1>6. ASSUME Mark(c) PROVE Stands
  BY <1>6, <1>b DEF Mark
<1>7. ASSUME Create(c) PROVE Stands
  <2> DEFINE n == Len(incident) + 1
             r == [x EXCEPT !.pc = "link", !.incident = n]
             y == [step |-> "new", alarms |-> {}, auto |-> x.mode = "firing"]
  <2>1. x.pc = "create" /\ call' = [call EXCEPT ![c] = r] /\ incident' = Append(incident, y)
    BY <1>7 DEF Create
  <2>2. y.auto = (x.mode = "firing")
    OBVIOUS
  <2> HIDE DEF y
  <2>3. incident'[n] = y
    BY <2>1 DEF TypeInv, GroupingTypeOK
  <2> HIDE DEF n
  <2>4. r.pc = "link" /\ r.section = x.section /\ r.incident = n /\ r.mode = x.mode
    BY <1>x DEF Call
  <2> HIDE DEF r
  <2>5. x.mode = "firing" => OpenForGroup' = {}
    <3>1. \A d \in Calls : ~Link(d)
      BY <2>1, <2>3, <1>7 DEF Link, Create, TypeInv, GroupingTypeOK, Good
    <3> QED BY <1>x, <2>1, <3>1, OpenShrinks DEF Stage
  <2>6. x.section = "in"
    BY <1>x, <2>1 DEF Stage
  <2> QED BY <2>1, <2>2, <2>3, <2>4, <2>5, <2>6 DEF Stage
<1>8. ASSUME Link(c) PROVE Stands
  <2> DEFINE r == [x EXCEPT !.pc = "opened"]
  <2>1. call' = [call EXCEPT ![c] = r]
    BY <1>8 DEF Link, Goes
  <2>2. r.pc = "opened" /\ r.section = x.section
    BY <1>x DEF Call
  <2> HIDE DEF r
  <2> QED BY <1>c, <1>x, <2>1, <2>2
<1>13. ASSUME Opened(c) PROVE Stands
  BY <1>13, <1>a, <1>b DEF Opened, Leaves, Throws
<1>9. ASSUME Weigh(c) PROVE Stands
  <2>1. CASE Over(Its(c)) = {}
    BY <1>9, <1>b, <2>1 DEF Weigh, Nothing
  <2>2. CASE Over(Its(c)) # {}
    <3>1. Enters(c, "walk", 0, Over(Its(c)))
      BY <1>9, <2>2 DEF Weigh
    <3> QED BY <1>c, <1>d, <3>1
  <2> QED BY <2>1, <2>2
<1>10. ASSUME Walk(c), call' # call PROVE Stands
  <2> DEFINE i == Latest(x.todo)
             r == [x EXCEPT !.todo = x.todo \ {i}]
  <2>1. x.pc = "walk"
    BY <1>10 DEF Walk
  <2>2. CASE Throws(c)
    BY <1>a, <2>1, <2>2 DEF Throws
  <2>3. CASE Done(c, i) /\ x.todo = {i}
    BY <1>b, <2>3 DEF Done, Leaves
  <2>4. CASE Done(c, i) /\ x.todo # {i}
    <3>1. call' = [call EXCEPT ![c] = r]
      BY <2>4 DEF Done
    <3> HIDE DEF i
    <3>2. r.pc = "walk" /\ r.section = x.section
      BY <1>x, <2>1 DEF Call
    <3> HIDE DEF r
    <3> QED BY <1>c, <1>x, <3>1, <3>2
  <2> QED BY <1>10, <2>2, <2>3, <2>4 DEF Walk
<1>11. ASSUME c \in Jobs, Ingest(c) PROVE Stands
  <2> DEFINE mode == Written(c, alarm[Its(c)]).status
             r == [x EXCEPT !.pc = "waiting", !.mode = mode]
  <2>1. call' = [call EXCEPT ![c] = r]
    BY <1>11 DEF Ingest
  <2> HIDE DEF mode
  <2>2. r.pc = "waiting" /\ r.section = x.section
    BY <1>x DEF Call
  <2> HIDE DEF r
  <2> QED BY <1>c, <1>x, <2>1, <2>2
<1>12. ASSUME c = Person, Check PROVE Stands
  <2>1. CASE Nothing(Person)
    BY <1>12, <1>b, <2>1 DEF Nothing
  <2>2. CASE Enters(Person, "create", 0, {})
    BY <1>12, <1>d, <2>2 DEF Check, Stage
  <2> QED BY <1>12, <2>1, <2>2 DEF Check
<1> QED
  BY <1>1, <1>2, <1>3, <1>4, <1>5, <1>6, <1>7, <1>8, <1>9, <1>10, <1>11, <1>12, <1>13 DEF CallStep

LEMMA InitStands == Init => GroupInv
<1> SUFFICES ASSUME Init PROVE Stages /\ OneAuto
  BY DEF GroupInv
<1>1. \A c \in Calls : call[c].pc = "idle" /\ call[c].section = "out"
  BY DEF Init, Idle
<1>2. Stages
  BY <1>1 DEF Stages, Stage
<1>3. Ids \subseteq {1}
  <2>1. CASE incident = <<>>
    BY <2>1 DEF Ids
  <2>2. CASE incident = <<[step |-> "resolved", alarms |-> Alarms, auto |-> TRUE]>>
    <3>1. Len(incident) = 1
      BY <2>2
    <3> QED BY <3>1 DEF Ids
  <2> QED BY <2>1, <2>2 DEF Init
<1>4. OneAuto
  BY <1>3 DEF OneAuto, OpenForGroup
<1> QED BY <1>2, <1>4

\* One call moves to where it may stand and the others stay where they are.
LEMMA OneStage ==
  ASSUME TypeInv, Stages, [Next]_vars, \A c \in Calls : ~Link(c),
         NEW c \in Calls, NEW r, call' = [call EXCEPT ![c] = r], Stage(r, incident', OpenForGroup')
  PROVE  Stages'
<1>1. \A d \in Calls : d # c => call'[d] = call[d]
  OBVIOUS
<1>2. call'[c] = r
  BY DEF TypeInv, GroupingTypeOK
<1>3. ASSUME NEW d \in Calls PROVE Stage(call[d], incident', OpenForGroup')
  <2>1. Stage(call[d], incident, OpenForGroup) /\ Good(d, call[d], Ids, Len(payload))
    BY DEF Stages, TypeInv
  <2>2. Grow /\ OpenForGroup' \subseteq OpenForGroup
    BY StepGrows, OpenShrinks
  <2> QED BY <2>1, <2>2 DEF Stage, Good, Grow
<1> QED BY <1>1, <1>2, <1>3 DEF Stages

LEMMA StepStands ==
  ASSUME TypeInv, SectionInv, GroupInv, [Next]_vars PROVE GroupInv'
<1> SUFFICES ASSUME ~outlived' PROVE Stages' /\ OneAuto'
  BY DEF GroupInv
<1>0. ~outlived
  BY DEF Next, vars, bounds, Send, TakeUp, OpenByHand, MoveByHand, Expire, Fails, Stops, CallStep, Shortcut,
         TimesOut, Find, Reopen, Join, Mark, Create, Link, Opened, Weigh, Walk, Nothing, Ingest, Check
<1>1. Stages /\ OneAuto
  BY <1>0 DEF GroupInv
<1>2. Grow
  BY StepGrows
<1>3. CASE \A c \in Calls : ~Link(c)
  <2>1. OpenForGroup' \subseteq OpenForGroup /\ OpenForGroup \subseteq Ids
    BY <1>1, <1>3, OpenShrinks DEF OpenForGroup
  <2>2. OneAuto'
    BY <1>1, <1>2, <2>1 DEF OneAuto, Grow
  <2>i. Idle.section = "out" /\ Idle.pc = "idle" /\ Idle \in Call
    BY IdleType DEF Idle
  <2>3. CASE call' = call
    <3>1. ASSUME NEW d \in Calls PROVE Stage(call'[d], incident', OpenForGroup')
      <4>1. Stage(call[d], incident, OpenForGroup) /\ Good(d, call[d], Ids, Len(payload))
        BY <1>1 DEF Stages, TypeInv
      <4> QED BY <1>2, <2>1, <2>3, <4>1 DEF Stage, Good, Grow
    <3> QED BY <2>2, <3>1 DEF Stages
  <2>4. ASSUME NEW c \in Calls, CallStep(c) PROVE Stages'
    BY <1>1, <1>3, <2>3, <2>4, MovedStands, OneStage
  <2>5. ASSUME NEW c \in Calls, NEW r, call' = [call EXCEPT ![c] = r],
               r.section = "out", r.pc \in Waits \cup {"idle", "waiting"}
        PROVE  Stages'
    <3>1. r.pc \notin {"create", "link", "join", "reopen"} /\ r.section # "late"
      BY <2>5 DEF Waits
    <3>2. Stage(r, incident', OpenForGroup')
      BY <3>1 DEF Stage
    <3> QED BY <1>1, <1>3, <2>5, <3>2, OneStage
  <2>6. ASSUME NEW a \in Alarms, NEW s \in {"firing", "resolved"}, Send(a, s) PROVE Stages'
    <3> DEFINE r == [Idle EXCEPT !.pc = "queued", !.alarm = a]
               n == Len(payload) + 1
    <3>1. call' = [call EXCEPT ![n] = r] /\ n \in Calls
      <4>1. Len(payload) < MaxPayloads
        BY <2>6 DEF Send
      <4> QED BY <2>6, <4>1, Numbers DEF Send
    <3>2. r.section = "out" /\ r.pc = "queued"
      BY <2>i DEF Call
    <3> HIDE DEF r, n
    <3> QED BY <2>5, <3>1, <3>2 DEF Waits
  <2>7. ASSUME NEW a \in Alarms, NEW mode, NEW c \in Calls,
               call' = [call EXCEPT ![c] = [Idle EXCEPT !.pc = "waiting", !.alarm = a, !.mode = mode]]
        PROVE  Stages'
    <3> DEFINE r == [Idle EXCEPT !.pc = "waiting", !.alarm = a, !.mode = mode]
    <3>1. r.section = "out" /\ r.pc = "waiting"
      BY <2>i DEF Call
    <3>2. call' = [call EXCEPT ![c] = r]
      BY <2>7
    <3> HIDE DEF r
    <3> QED BY <2>5, <3>1, <3>2 DEF Waits
  <2>8. ASSUME NEW a \in Alarms, TakeUp(a) PROVE Stages'
    <3>1. [Idle EXCEPT !.pc = "waiting", !.alarm = a] = [Idle EXCEPT !.pc = "waiting", !.alarm = a, !.mode = "firing"]
      <4>1. Idle.mode = "firing"
        BY DEF Idle
      <4> QED BY <2>i, <4>1 DEF Call
    <3> QED BY <2>7, <2>8, <3>1, Numbers DEF TakeUp
  <2>9. ASSUME NEW a \in Alarms, OpenByHand(a) PROVE Stages'
    BY <2>7, <2>9, Numbers DEF OpenByHand
  <2>10. ASSUME NEW c \in Calls, Fails(c) PROVE Stages'
    <3>1. Again(c) /\ call[c].pc # "idle"
      BY <2>10 DEF Fails, Throws
    <3> QED BY <2>5, <3>1, AgainIsGood DEF Waits
  <2>11. ASSUME NEW c \in Calls, Stops(c) PROVE Stages'
    <3>1. CASE c \in Jobs
      <4> DEFINE r == [Idle EXCEPT !.pc = "stalled", !.alarm = call[c].alarm, !.tries = call[c].tries]
      <4>1. call' = [call EXCEPT ![c] = r]
        BY <2>11, <3>1 DEF Stops
      <4>2. r.section = "out" /\ r.pc = "stalled"
        BY <2>i DEF Call
      <4> HIDE DEF r
      <4> QED BY <2>5, <4>1, <4>2 DEF Waits
    <3>2. CASE c \notin Jobs
      BY <2>5, <2>11, <2>i, <3>2 DEF Stops
    <3> QED BY <3>1, <3>2
  <2>12. ASSUME Expire PROVE Stages'
    <3>1. call[lock].section # "in"
      BY <2>12 DEF Expire
    <3> QED BY <2>3, <2>12, <3>1 DEF Expire
  <2>13. Stages'
    BY <2>3, <2>4, <2>6, <2>8, <2>9, <2>10, <2>11, <2>12 DEF Next, vars, MoveByHand
  <2> QED BY <2>2, <2>13
<1>4. ASSUME NEW c \in Calls, Link(c) PROVE Stages' /\ OneAuto'
  <2> DEFINE k == call[c].incident
  <2>1. call[c].pc = "link" /\ call[c].section = "in" /\ k \in Ids
    BY <1>1, <1>4 DEF Link, Stages, Stage, TypeInv, Good
  <2>2. \A d \in Calls : d # c => call[d].pc \notin {"create", "link"}
    BY <1>1, <2>1 DEF SectionInv, Stages, Stage
  <2>3. PICK r : call' = [call EXCEPT ![c] = r] /\ r.pc \notin {"create", "link", "join", "reopen"} /\ r.section # "late"
    <3> DEFINE r == [call[c] EXCEPT !.pc = "opened"]
    <3>1. call' = [call EXCEPT ![c] = r]
      BY <1>4 DEF Link, Goes
    <3>2. r.pc = "opened" /\ r.section = "in"
      BY <2>1 DEF TypeInv, GroupingTypeOK, Call
    <3> HIDE DEF r
    <3> QED BY <3>1, <3>2
  <2>4. ASSUME NEW d \in Calls PROVE Stage(call'[d], incident', OpenForGroup')
    <3>1. CASE d = c
      <4>1. call'[d] = r
        BY <2>3, <3>1 DEF TypeInv, GroupingTypeOK
      <4> QED BY <2>3, <4>1 DEF Stage
    <3>2. CASE d # c
      <4>1. call'[d] = call[d]
        BY <2>3, <3>2
      <4>2. Stage(call[d], incident, OpenForGroup) /\ Good(d, call[d], Ids, Len(payload))
        BY <1>1 DEF Stages, TypeInv
      <4> QED BY <1>2, <2>2, <3>2, <4>1, <4>2 DEF Stage, Good, Grow
    <3> QED BY <3>1, <3>2
  <2>5. OpenForGroup' \subseteq OpenForGroup \cup {k} /\ OpenForGroup \subseteq Ids
    BY <1>4, LinkOpens DEF OpenForGroup
  <2>6. OpenForGroup = {} \/ ~incident[k].auto
    BY <1>1, <2>1 DEF Stages, Stage
  <2>7. \A i \in Ids : incident'[i].auto = incident[i].auto
    BY <1>2 DEF Grow
  <2> HIDE DEF k
  <2>8. OneAuto'
    BY <1>1, <2>1, <2>5, <2>6, <2>7 DEF OneAuto
  <2> QED BY <2>4, <2>8 DEF Stages
<1> QED BY <1>3, <1>4

\* "Never two incidents for one group": of the incidents the correlation opened,
\* one at most is not closed, however many payloads, attempts and faults, as
\* long as no section outlives its lock.
THEOREM OneIncident == Spec => []OneIncidentPerGroup
<1> DEFINE IInv == TypeInv /\ SectionInv /\ GroupInv
<1>1. Init => IInv
  BY InitTypes, InitStands
<1>2. IInv /\ [Next]_vars => IInv'
  BY StepTypes, StepSection, StepStands
<1>3. IInv => OneIncidentPerGroup
  BY DEF GroupInv, OneAuto, OneIncidentPerGroup
<1> QED BY <1>1, <1>2, <1>3, PTL DEF Spec
=============================================================================

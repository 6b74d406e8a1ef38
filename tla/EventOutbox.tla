----------------------------- MODULE EventOutbox -----------------------------
(***************************************************************************)
(* How a domain event leaves (packages/events/src/publisher.ts and         *)
(* outbox.ts, apps/api/src/lib/outbox.ts).  It is written down as a node   *)
(* of the graph - for a ticket born or entering a step inside the very     *)
(* transaction of the change - then added to the queue of every consumer,  *)
(* then to the outbound webhooks, then marked sent.  A repeater sends      *)
(* again what stayed unmarked, oldest first, a batch per pass.             *)
(*                                                                         *)
(* Each event is published by one call; the process that runs it, or the   *)
(* repeater's, may stop at any step.  The five adds of sendToConsumers are *)
(* one step that any subset of them survives.                              *)
(***************************************************************************)
EXTENDS EventQueue, Sequences

CONSTANTS Atomic,    \* events recorded in the transaction of their change
          Webhooks,  \* events published with the webhooks option
          Stuck,     \* events whose webhooks can never be enqueued
          Batch,     \* events of a repeater pass (OUTBOX_RESEND_BATCH)
          Failures,  \* whether the database and Redis may fail
          Crashes    \* whether a process may stop

ASSUME OutboxAssumption ==
  /\ Atomic \subseteq Events
  /\ Stuck \subseteq Webhooks /\ Webhooks \subseteq Events
  /\ Batch \in Nat \ {0}
  /\ Failures \in BOOLEAN /\ Crashes \in BOOLEAN

VARIABLES
  node,     \* [Events -> absent, pending, sent, purged]: the OutboxEvent
  log,      \* the recorded events in the order of created_at
  overdue,  \* the events recorded longer than OUTBOX_RESEND_AFTER_MS ago
  hooked,   \* the events whose webhook deliveries are enqueued
  pub,      \* [Events -> [at, wrote]]: the publish call of the event
  pass      \* the repeater's pass: [at, todo]

outboxVars == <<node, log, overdue, hooked, pub, pass>>
sendVars == <<queueVars, outboxVars>>

PubSteps == {"before", "record", "send", "extras", "mark", "returned", "thrown", "crashed"}
PassSteps == {"idle", "send", "extras", "mark"}

\* The types of the outbox and its senders; a pass under way has an event at its
\* head (lib/outbox.ts 100-139).
OutboxTypeOK ==
  /\ QueueTypeOK
  /\ node \in [Events -> {"absent", "pending", "sent", "purged"}]
  /\ log \in Seq(Events)
  /\ overdue \subseteq Events
  /\ hooked \subseteq Webhooks
  /\ pub \in [Events -> [at : PubSteps, wrote : BOOLEAN]]
  /\ pass \in [at : PassSteps, todo : Seq(Events)]
  /\ pass.at # "idle" => pass.todo # <<>>

OutboxInit ==
  /\ QueueInit
  /\ node = [e \in Events |-> "absent"]
  /\ log = <<>>
  /\ overdue = {}
  /\ hooked = {}
  /\ pub = [e \in Events |-> [at |-> "before", wrote |-> FALSE]]
  /\ pass = [at |-> "idle", todo |-> <<>>]

-----------------------------------------------------------------------------
\* MERGE ... ON CREATE SET: an event already recorded is left as it is.
Recorded(e) == node[e] # "absent"

Record(e) ==
  IF Recorded(e) THEN UNCHANGED <<node, log>>
  ELSE node' = [node EXCEPT ![e] = "pending"] /\ log' = Append(log, e)

\* What a sender does: the adds of e reach the consumers cs.
Send(e, cs) ==
  /\ Failures \/ cs = Consumers
  /\ job' = Added(e, cs)
  /\ UNCHANGED <<handler, marked, handled, counted>>

\* Mutant: one add that reached its queue is enough.
AllAddedMutant(cs) == cs # {}

\* Promise.all: every add must have reached its queue.
AllAdded(cs) == cs = Consumers

\* Mutant: a failure to enqueue the webhooks is swallowed.
ExtrasMutant(e, ok) ==
  /\ ok
  /\ hooked' \in {hooked, hooked \cup ({e} \cap Webhooks)}

\* The webhooks are enqueued, or fail before or after they were: a job keyed by
\* the event is added at most once, so only whether all are there is told apart.
Extras(e, ok) ==
  /\ ok => e \notin Stuck
  /\ ok \/ Failures \/ e \in Stuck
  /\ ok \/ e \in Webhooks
  /\ hooked' = IF ok /\ e \in Webhooks THEN hooked \cup {e} ELSE hooked

\* REMOVE pending, SET sent_at; a node that is gone is not matched.
MarkSent(e) ==
  node' = IF node[e] \in {"pending", "sent"} THEN [node EXCEPT ![e] = "sent"] ELSE node

Goes(e, at) == pub' = [pub EXCEPT ![e].at = at]

\* The change commits; a ticket event is recorded with it.
Change(e) ==
  /\ pub[e].at = "before"
  /\ Goes(e, "record")
  /\ IF e \in Atomic THEN Record(e) ELSE UNCHANGED <<node, log>>
  /\ UNCHANGED <<queueVars, overdue, hooked, pass>>

PublishRecord(e, ok) ==
  /\ pub[e].at = "record"
  /\ ok \/ Failures
  /\ pub' = [pub EXCEPT ![e] = [at |-> "send", wrote |-> ok]]
  /\ IF ok THEN Record(e) ELSE UNCHANGED <<node, log>>
  /\ UNCHANGED <<queueVars, overdue, hooked, pass>>

\* Mutant: the failure is never thrown.
SendFailedMutant(e) == "returned"

\* A failed send of an event that was written down is not the caller's failure.
SendFailed(e) == IF pub[e].wrote THEN "returned" ELSE "thrown"

PublishSend(e) ==
  /\ pub[e].at = "send"
  /\ \E cs \in SUBSET Consumers :
       /\ Send(e, cs)
       /\ Goes(e, IF AllAdded(cs) THEN "extras" ELSE SendFailed(e))
  /\ UNCHANGED <<node, log, overdue, hooked, pass>>

PublishExtras(e, ok) ==
  /\ pub[e].at = "extras"
  /\ Extras(e, ok)
  /\ Goes(e, IF ok THEN "mark" ELSE SendFailed(e))
  /\ UNCHANGED <<queueVars, node, log, overdue, pass>>

\* A failure to mark is logged: publish returns all the same.
PublishMark(e, ok) ==
  /\ pub[e].at = "mark"
  /\ ok \/ Failures
  /\ IF ok THEN MarkSent(e) ELSE UNCHANGED node
  /\ Goes(e, "returned")
  /\ UNCHANGED <<queueVars, log, overdue, hooked, pass>>

Publish(e) ==
  \/ Change(e) \/ PublishSend(e)
  \/ \E ok \in BOOLEAN : PublishRecord(e, ok) \/ PublishExtras(e, ok) \/ PublishMark(e, ok)

-----------------------------------------------------------------------------
\* Thirty seconds after it was recorded an event is the repeater's to send.
Age(e) ==
  /\ node[e] = "pending" /\ e \notin overdue
  /\ \A i, j \in DOMAIN log :
       i < j /\ log[j] = e /\ node[log[i]] = "pending" => log[i] \in overdue
  /\ overdue' = overdue \cup {e}
  /\ UNCHANGED <<queueVars, node, log, hooked, pub, pass>>

\* The places in the log of the pending events past the grace.
Waiting == {i \in DOMAIN log : node[log[i]] = "pending" /\ log[i] \in overdue}

\* ORDER BY created_at LIMIT: the oldest of them, in their order, a batch at most.
Rows == IF Cardinality(Waiting) < Batch THEN Cardinality(Waiting) ELSE Batch
Due == {row \in [1..Rows -> Waiting] :
          \A k \in 1..Rows, i \in Waiting : i < row[k] <=> \E j \in 1..k - 1 : row[j] = i}

StartPass ==
  /\ pass.at = "idle" /\ Waiting # {}
  /\ \E row \in Due : pass' = [at |-> "send", todo |-> [k \in 1..Rows |-> log[row[k]]]]
  /\ UNCHANGED <<queueVars, node, log, overdue, hooked, pub>>

\* Mutant: the pass ends with its first event.
NextOfPassMutantEnd == pass' = [at |-> "idle", todo |-> <<>>]
\* Mutant: the end of the pass is not noticed.
NextOfPassMutantOn == pass' = [at |-> "send", todo |-> Tail(pass.todo)]

\* Sent or failed, the pass goes on with the next event.
NextOfPass ==
  pass' = IF Len(pass.todo) = 1 THEN [at |-> "idle", todo |-> <<>>]
          ELSE [at |-> "send", todo |-> Tail(pass.todo)]

ResendSend ==
  /\ pass.at = "send"
  /\ \E cs \in SUBSET Consumers :
       /\ Send(Head(pass.todo), cs)
       /\ IF AllAdded(cs) THEN pass' = [pass EXCEPT !.at = "extras"] ELSE NextOfPass
  /\ UNCHANGED <<node, log, overdue, hooked, pub>>

ResendExtras(ok) ==
  /\ pass.at = "extras"
  /\ Extras(Head(pass.todo), ok)
  /\ IF ok THEN pass' = [pass EXCEPT !.at = "mark"] ELSE NextOfPass
  /\ UNCHANGED <<queueVars, node, log, overdue, pub>>

ResendMark(ok) ==
  /\ pass.at = "mark"
  /\ ok \/ Failures
  /\ IF ok THEN MarkSent(Head(pass.todo)) ELSE UNCHANGED node
  /\ NextOfPass
  /\ UNCHANGED <<queueVars, log, overdue, hooked, pub>>

Resend == ResendSend \/ \E ok \in BOOLEAN : ResendExtras(ok) \/ ResendMark(ok)

\* Mutant: whatever was recorded is purged with age.
PurgeableMutant(e) == node[e] \in {"pending", "sent"}

\* Only what was sent is purged, a week later: no call of the event is left.
Purgeable(e) == node[e] = "sent"

Purge(e) ==
  /\ Purgeable(e)
  /\ pub[e].at \in {"returned", "thrown", "crashed"}
  /\ \A i \in DOMAIN pass.todo : pass.todo[i] # e
  /\ node' = [node EXCEPT ![e] = "purged"]
  /\ UNCHANGED <<queueVars, log, overdue, hooked, pub, pass>>

\* A process stops: the publish call, or the pass, ends where it is.
Crash ==
  /\ Crashes
  /\ \/ \E e \in Events : /\ pub[e].at \in {"record", "send", "extras", "mark"}
                          /\ Goes(e, "crashed")
                          /\ UNCHANGED pass
     \/ /\ pass.at # "idle"
        /\ pass' = [at |-> "idle", todo |-> <<>>]
        /\ UNCHANGED pub
  /\ UNCHANGED <<queueVars, node, log, overdue, hooked>>

OutboxNext ==
  \/ \E e \in Events : Publish(e) \/ Age(e) \/ Purge(e)
  \/ StartPass \/ Resend \/ Crash
  \/ \E p \in Pairs : Consume(p) /\ UNCHANGED outboxVars

OutboxSpec == OutboxInit /\ [][OutboxNext]_sendVars
-----------------------------------------------------------------------------
Given(e) == \A c \in Consumers : job[<<c, e>>].state # "none"
Delivered(e) == Given(e) /\ (e \in Webhooks => e \in hooked)

\* A ticket event exists if and only if its change does (packages/events/src/
\* outbox.ts 17-19), and no event that was written down is lost, whatever
\* fails or stops: it is still the repeater's, or every queue and the webhooks
\* were given it.
NothingLost ==
  \A e \in Events :
    Recorded(e) \/ (e \in Atomic /\ pub[e].at # "before") =>
      node[e] = "pending" \/ Delivered(e)

\* "it is lost, loudly" (publisher.ts 57-58): an event whose publish returned to
\* its caller without throwing is in the same hands, recorded or not.
LossIsLoud ==
  \A e \in Events :
    pub[e].at = "returned" => node[e] = "pending" \/ Delivered(e)

\* The promise this module keeps.
Delivery == INSTANCE EventDelivery WITH
  owed    <- {e \in Events : node[e] = "pending"},
  settled <- {e \in Events : node[e] \in {"sent", "purged"}},
  given   <- {p \in Pairs : job[p].state # "none"}

Promise == Delivery!DeliverySpec

-----------------------------------------------------------------------------
(***************************************************************************)
(* Fairness.  A recorded event ages; the repeater's job runs every thirty  *)
(* seconds and its pass goes on (workflowJobWorker.ts 135-140); Neo4j and  *)
(* Redis, tried for an event again and again, answer again and again; a    *)
(* worker takes the jobs of its queue.  Nothing is assumed of the publish  *)
(* calls, which may stop.                                                  *)
(***************************************************************************)
HandlerStep(p) ==
  /\ \E h \in Handlers : \/ Take(p, h) \/ ProcessDone(p, h) \/ ProcessFailed(p, h)
                         \/ Mark(p, h, TRUE) \/ Return(p, h)
  /\ UNCHANGED outboxVars

OutboxFairness ==
  /\ WF_sendVars(StartPass)
  /\ WF_sendVars(Resend)
  /\ \A e \in Events :
       /\ WF_sendVars(Age(e))
       /\ SF_sendVars(pass.at = "send" /\ Head(pass.todo) = e /\ ResendSend /\ pass'.at = "extras")
       /\ SF_sendVars(pass.at = "extras" /\ Head(pass.todo) = e /\ ResendExtras(TRUE))
       /\ SF_sendVars(pass.at = "mark" /\ Head(pass.todo) = e /\ ResendMark(TRUE))
  /\ \A p \in Handles : WF_sendVars(HandlerStep(p))

OutboxFairSpec == OutboxSpec /\ OutboxFairness

\* "each one on its own: one that fails does not hold the others" (lib/outbox.ts
\* 95-96): a pending event whose own webhooks can be enqueued is sent, whatever
\* happens to the events before it, as long as fewer than a batch of them can never
\* be (a batch is the oldest, so as many as fill it would be sent for ever).
EachOnItsOwn ==
  \A e \in Events \ Stuck : node[e] = "pending" ~> node[e] # "pending"

\* An event written down reaches every consumer that treats its type: its work is
\* done, or its job is given up - counted after its last attempt, or uncounted
\* after too many stalls.
Reached(p) == handled[p] > 0 \/ job[p].state \in {"failed", "stalled"}

EveryConsumerReached ==
  \A p \in Handles : node[p[2]] = "pending" ~> Reached(p)
=============================================================================

-------------------------- MODULE EventOutboxProofs --------------------------
(***************************************************************************)
(* EventOutbox proved for any events, consumers, batch and failures: its   *)
(* types; the promise of EventDelivery is kept, so nothing recorded is     *)
(* lost and a loss is told to the caller; and what is sent again is        *)
(* handled once where no job stalls and markers are written.  The          *)
(* invariant says what each sender knows at each of its steps; a sender    *)
(* acts on it later, when others may have moved, so the proof rests on     *)
(* what never goes back: a queue that was given an event (Keeps), the      *)
(* webhooks that are enqueued, and a record.                               *)
(***************************************************************************)
EXTENDS EventOutbox, SequenceTheorems, FiniteSetTheorems, TLAPS

JobRecord == [state : JobStates, tries : Nat, stalls : Nat, owner : Handlers \cup {NoHandler}]

\* The shapes the proof needs; the contents of a pass are not among them.
Shape ==
  /\ job \in [Pairs -> JobRecord]
  /\ node \in [Events -> {"absent", "pending", "sent", "purged"}]
  /\ hooked \subseteq Webhooks
  /\ pub \in [Events -> [at : PubSteps, wrote : BOOLEAN]]
  /\ DOMAIN pass = {"at", "todo"}

\* What a publish call knows where it stands.
PublisherKnows(e) ==
  /\ pub[e].at = "extras" => Given(e)
  /\ pub[e].at = "mark" => Delivered(e)
  /\ pub[e].at = "returned" => node[e] = "pending" \/ Delivered(e)
  /\ pub[e].wrote => Recorded(e)
  /\ e \in Atomic /\ pub[e].at # "before" => Recorded(e)

\* What the pass knows of the event it is at.
PassKnows(e) ==
  e = Head(pass.todo) =>
    /\ pass.at = "extras" => Given(e)
    /\ pass.at = "mark" => Delivered(e)

SentIsDelivered(e) == node[e] \in {"sent", "purged"} => Delivered(e)

Inv ==
  /\ Shape
  /\ \A e \in Events : PublisherKnows(e) /\ PassKnows(e) /\ SentIsDelivered(e)

\* What no step takes back.
Keeps ==
  \A e \in Events :
    /\ Given(e) => Given(e)'
    /\ Delivered(e) => Delivered(e)'
    /\ Recorded(e) => Recorded(e)'

-----------------------------------------------------------------------------
(***************************************************************************)
(* The queues.                                                             *)
(***************************************************************************)
JobShape == job \in [Pairs -> JobRecord]

JobsStay == \A q \in Pairs : job[q].state # "none" => job'[q].state # "none"

LEMMA FinishShape ==
  ASSUME JobShape, NEW p \in Pairs, NEW state \in JobStates \ {"none"}
  PROVE  /\ Finish(p, state) \in [Pairs -> JobRecord]
         /\ \A q \in Pairs : job[q].state # "none" => Finish(p, state)[q].state # "none"
BY DEF JobShape, Finish, JobRecord

\* Counting a try or a stall changes no state.
LEMMA CountShape ==
  ASSUME NEW F \in [Pairs -> JobRecord], NEW p \in Pairs
  PROVE  /\ [F EXCEPT ![p].tries = @ + 1] \in [Pairs -> JobRecord]
         /\ [F EXCEPT ![p].stalls = @ + 1] \in [Pairs -> JobRecord]
         /\ \A q \in Pairs : /\ [F EXCEPT ![p].tries = @ + 1][q].state = F[q].state
                             /\ [F EXCEPT ![p].stalls = @ + 1][q].state = F[q].state
<1>1. F[p] \in JobRecord
  OBVIOUS
<1>2. F[p].tries + 1 \in Nat /\ F[p].stalls + 1 \in Nat
  BY <1>1 DEF JobRecord
<1>3. /\ [F[p] EXCEPT !.tries = F[p].tries + 1] \in JobRecord
      /\ [F[p] EXCEPT !.stalls = F[p].stalls + 1] \in JobRecord
      /\ [F[p] EXCEPT !.tries = F[p].tries + 1].state = F[p].state
      /\ [F[p] EXCEPT !.stalls = F[p].stalls + 1].state = F[p].state
  BY <1>1, <1>2 DEF JobRecord
<1> QED BY <1>3

\* Adding an event leaves every job in its queue, and gives it to those added.
LEMMA SendAdds ==
  ASSUME JobShape, NEW e, NEW cs \in SUBSET Consumers, Send(e, cs)
  PROVE  /\ JobShape' /\ JobsStay
         /\ e \in Events => \A c \in cs : job'[<<c, e>>].state # "none"
<1>1. NewJob \in JobRecord
  BY DEF NewJob, JobStates, JobRecord
<1>2. job' = [p \in Pairs |-> IF p[2] = e /\ p[1] \in cs /\ AddOnce(p) THEN NewJob ELSE job[p]]
  BY DEF Send, Added
<1>3. JobShape'
  BY <1>1, <1>2 DEF JobShape
<1>4. NewJob.state = "waiting"
  BY DEF NewJob
<1>5. JobsStay
  BY <1>2, <1>4 DEF JobsStay
<1>6. ASSUME e \in Events, NEW c \in cs PROVE job'[<<c, e>>].state # "none"
  <2>1. <<c, e>> \in Pairs
    BY <1>6 DEF Pairs
  <2>2. CASE AddOnce(<<c, e>>)
    BY <2>1, <2>2, <1>2, <1>4
  <2>3. CASE ~AddOnce(<<c, e>>)
    BY <2>1, <2>3, <1>2 DEF AddOnce
  <2> QED BY <2>2, <2>3
<1> QED BY <1>3, <1>5, <1>6

\* A consumer leaves every job in its queue: a completed job counts as given.
LEMMA ConsumeKeeps ==
  ASSUME JobShape, NEW p \in Pairs, Consume(p)
  PROVE  JobShape' /\ JobsStay
<1>1. \A state \in {"waiting", "failed", "stalled", "done"} :
        /\ Finish(p, state) \in [Pairs -> JobRecord]
        /\ \A q \in Pairs : job[q].state # "none" => Finish(p, state)[q].state # "none"
  BY FinishShape DEF JobStates
<1>2. ASSUME NEW h \in Handlers, Take(p, h) PROVE JobShape' /\ JobsStay
  <2>1. CASE Skips(p)
    BY <1>1, <1>2, <2>1 DEF Take, JobShape, JobsStay
  <2>2. CASE ~Skips(p)
    BY <1>2, <2>2 DEF Take, JobShape, JobsStay, JobStates, JobRecord
  <2> QED BY <2>1, <2>2
<1>3. ASSUME NEW h \in Handlers, ProcessDone(p, h) PROVE JobShape' /\ JobsStay
  BY <1>3 DEF ProcessDone, JobShape, JobsStay
<1>4. ASSUME NEW h \in Handlers, ProcessFailed(p, h) PROVE JobShape' /\ JobsStay
  <2>1. PICK state \in {"waiting", "failed"} :
          Ends(p, h, [Finish(p, state) EXCEPT ![p].tries = @ + 1])
    <3>1. CASE LastTry(p)
      BY <1>4, <3>1 DEF ProcessFailed
    <3>2. CASE ~LastTry(p)
      BY <1>4, <3>2 DEF ProcessFailed
    <3> QED BY <3>1, <3>2
  <2>2. CASE job' = job
    BY <2>2 DEF JobShape, JobsStay
  <2>3. CASE job' = [Finish(p, state) EXCEPT ![p].tries = @ + 1]
    <3> DEFINE F == Finish(p, state)
    <3>1. F \in [Pairs -> JobRecord] /\ \A q \in Pairs : job[q].state # "none" => F[q].state # "none"
      BY <1>1
    <3>2. job' = [F EXCEPT ![p].tries = @ + 1]
      BY <2>3
    <3> HIDE DEF F
    <3>3. job' \in [Pairs -> JobRecord] /\ \A q \in Pairs : job'[q].state = F[q].state
      BY <3>1, <3>2, CountShape
    <3> QED BY <3>1, <3>3 DEF JobShape, JobsStay
  <2> QED BY <2>1, <2>2, <2>3 DEF Ends
<1>5. ASSUME NEW h \in Handlers, NEW ok \in BOOLEAN, Mark(p, h, ok)
      PROVE  JobShape' /\ JobsStay
  BY <1>5 DEF Mark, JobShape, JobsStay
<1>7. ASSUME NEW h \in Handlers, Return(p, h) PROVE JobShape' /\ JobsStay
  BY <1>1, <1>7 DEF Return, Ends, JobShape, JobsStay
<1>6. ASSUME Stall(p) PROVE JobShape' /\ JobsStay
  <2>1. CASE job' = [Finish(p, "waiting") EXCEPT ![p].stalls = @ + 1]
    <3> DEFINE F == Finish(p, "waiting")
    <3>1. F \in [Pairs -> JobRecord] /\ \A q \in Pairs : job[q].state # "none" => F[q].state # "none"
      BY <1>1
    <3>2. job' = [F EXCEPT ![p].stalls = @ + 1]
      BY <2>1
    <3> HIDE DEF F
    <3>3. job' \in [Pairs -> JobRecord] /\ \A q \in Pairs : job'[q].state = F[q].state
      BY <3>1, <3>2, CountShape
    <3> QED BY <3>1, <3>3 DEF JobShape, JobsStay
  <2>2. CASE job' = Finish(p, "stalled")
    BY <1>1, <2>2 DEF JobShape, JobsStay
  <2> QED BY <1>6, <2>1, <2>2 DEF Stall
<1> QED BY <1>2, <1>3, <1>4, <1>5, <1>6, <1>7 DEF Consume

-----------------------------------------------------------------------------
(***************************************************************************)
(* What no step takes back.                                                *)
(***************************************************************************)
LEMMA StepKeeps ==
  ASSUME Shape, [OutboxNext]_sendVars
  PROVE  Shape' /\ Keeps
<1> USE DEF Shape
<1>q. JobShape
  BY DEF JobShape
<1>1. (UNCHANGED job \/ (\E p \in Pairs : Consume(p)) \/ (\E e, cs : cs \in SUBSET Consumers /\ Send(e, cs)))
        => JobShape' /\ JobsStay
  BY <1>q, SendAdds, ConsumeKeeps DEF JobShape, JobsStay
<1> DEFINE NodeStays == /\ node' \in [Events -> {"absent", "pending", "sent", "purged"}]
                        /\ \A e \in Events : node[e] # "absent" => node'[e] # "absent"
           HooksStay == hooked \subseteq hooked' /\ hooked' \subseteq Webhooks
           CallsShape == /\ pub' \in [Events -> [at : PubSteps, wrote : BOOLEAN]]
                         /\ DOMAIN pass' = {"at", "todo"}
<1>2. JobShape' /\ JobsStay /\ NodeStays /\ HooksStay /\ CallsShape => Shape' /\ Keeps
  BY <1>q DEF Keeps, JobShape, JobsStay, Given, Delivered, Recorded, Pairs
<1>r. \A e \in Events : Record(e) => NodeStays
  BY DEF Record, Recorded
<1>m. \A e : MarkSent(e) => NodeStays
  BY DEF MarkSent
<1>g. \A e \in Events, at \in PubSteps : Goes(e, at) => pub' \in [Events -> [at : PubSteps, wrote : BOOLEAN]]
  BY DEF Goes
<1>n. NextOfPass => DOMAIN pass' = {"at", "todo"}
  BY DEF NextOfPass
<1>x. \A e, ok : Extras(e, ok) => HooksStay
  BY DEF Extras
<1>s. \A e : SendFailed(e) \in PubSteps
  BY DEF SendFailed, PubSteps
<1>3. ASSUME NEW e \in Events, Change(e) PROVE Shape' /\ Keeps
  BY <1>3, <1>1, <1>2, <1>r, <1>g DEF Change, queueVars, PubSteps
<1>4. ASSUME NEW e \in Events, NEW ok \in BOOLEAN, PublishRecord(e, ok) PROVE Shape' /\ Keeps
  <2>1. CallsShape
    BY <1>4 DEF PublishRecord, PubSteps
  <2> QED BY <1>4, <1>1, <1>2, <1>r, <2>1 DEF PublishRecord, queueVars
<1>5. ASSUME NEW e \in Events, PublishSend(e) PROVE Shape' /\ Keeps
  BY <1>5, <1>1, <1>2, <1>g, <1>s DEF PublishSend, PubSteps
<1>6. ASSUME NEW e \in Events, NEW ok \in BOOLEAN, PublishExtras(e, ok) PROVE Shape' /\ Keeps
  BY <1>6, <1>1, <1>2, <1>g, <1>s, <1>x DEF PublishExtras, queueVars, PubSteps
<1>7. ASSUME NEW e \in Events, NEW ok \in BOOLEAN, PublishMark(e, ok) PROVE Shape' /\ Keeps
  BY <1>7, <1>1, <1>2, <1>g, <1>m DEF PublishMark, queueVars, PubSteps
<1>8. ASSUME NEW e \in Events, Age(e) PROVE Shape' /\ Keeps
  BY <1>8, <1>1, <1>2 DEF Age, queueVars
<1>9. ASSUME StartPass PROVE Shape' /\ Keeps
  BY <1>9, <1>1, <1>2 DEF StartPass, queueVars
<1>10. ASSUME ResendSend PROVE Shape' /\ Keeps
  BY <1>10, <1>1, <1>2, <1>n DEF ResendSend
<1>11. ASSUME NEW ok \in BOOLEAN, ResendExtras(ok) PROVE Shape' /\ Keeps
  BY <1>11, <1>1, <1>2, <1>n, <1>x DEF ResendExtras, queueVars
<1>12. ASSUME NEW ok \in BOOLEAN, ResendMark(ok) PROVE Shape' /\ Keeps
  BY <1>12, <1>1, <1>2, <1>n, <1>m DEF ResendMark, queueVars
<1>13. ASSUME NEW e \in Events, Purge(e) PROVE Shape' /\ Keeps
  BY <1>13, <1>1, <1>2 DEF Purge, queueVars
<1>14. ASSUME Crash PROVE Shape' /\ Keeps
  BY <1>14, <1>1, <1>2, <1>g DEF Crash, queueVars, PubSteps
<1>15. ASSUME NEW p \in Pairs, Consume(p), UNCHANGED outboxVars PROVE Shape' /\ Keeps
  BY <1>15, <1>1, <1>2 DEF outboxVars
<1>16. CASE UNCHANGED sendVars
  BY <1>16, <1>1, <1>2 DEF sendVars, queueVars, outboxVars
<1> QED
  BY <1>3, <1>4, <1>5, <1>6, <1>7, <1>8, <1>9, <1>10, <1>11, <1>12, <1>13, <1>14, <1>15, <1>16
     DEF OutboxNext, Publish, Resend

-----------------------------------------------------------------------------
(***************************************************************************)
(* The invariant.                                                          *)
(***************************************************************************)
\* A node moves only to pending, or once its event is delivered.
NodeMoves ==
  \A e \in Events : node'[e] = node[e] \/ node'[e] = "pending" \/ Delivered(e)

LEMMA NodesMove ==
  ASSUME Inv, [OutboxNext]_sendVars
  PROVE  NodeMoves
<1> USE DEF NodeMoves, Inv, Shape
<1>1. \A e \in Events : Record(e) => NodeMoves
  BY DEF Record
<1>2. \A e : MarkSent(e) /\ (e \in Events => Delivered(e)) => NodeMoves
  BY DEF MarkSent
<1>3. ASSUME NEW e \in Events, Publish(e) PROVE NodeMoves
  <2>1. CASE Change(e)
    BY <1>1, <2>1 DEF Change
  <2>2. ASSUME NEW ok \in BOOLEAN, PublishRecord(e, ok) PROVE NodeMoves
    BY <1>1, <2>2 DEF PublishRecord
  <2>3. CASE PublishSend(e)
    BY <2>3 DEF PublishSend
  <2>4. ASSUME NEW ok \in BOOLEAN, PublishExtras(e, ok) PROVE NodeMoves
    BY <2>4 DEF PublishExtras
  <2>5. ASSUME NEW ok \in BOOLEAN, PublishMark(e, ok) PROVE NodeMoves
    BY <1>2, <2>5 DEF PublishMark, PublisherKnows
  <2> QED BY <1>3, <2>1, <2>2, <2>3, <2>4, <2>5 DEF Publish
<1>4. ASSUME NEW e \in Events, Age(e) PROVE NodeMoves
  BY <1>4 DEF Age
<1>5. ASSUME NEW e \in Events, Purge(e) PROVE NodeMoves
  BY <1>5 DEF Purge, Purgeable, SentIsDelivered
<1>6. CASE StartPass
  BY <1>6 DEF StartPass
<1>7. CASE Resend
  <2>1. CASE ResendSend
    BY <2>1 DEF ResendSend
  <2>2. ASSUME NEW ok \in BOOLEAN, ResendExtras(ok) PROVE NodeMoves
    BY <2>2 DEF ResendExtras
  <2>3. ASSUME NEW ok \in BOOLEAN, ResendMark(ok) PROVE NodeMoves
    BY <1>2, <2>3 DEF ResendMark, PassKnows
  <2> QED BY <1>7, <2>1, <2>2, <2>3 DEF Resend
<1>8. CASE Crash
  BY <1>8 DEF Crash
<1>9. CASE UNCHANGED node
  BY <1>9
<1> QED
  BY <1>3, <1>4, <1>5, <1>6, <1>7, <1>8, <1>9 DEF OutboxNext, sendVars, outboxVars

\* Init establishes the invariant and every step keeps it.
LEMMA InitInv == OutboxInit => Inv
<1> SUFFICES ASSUME OutboxInit PROVE Inv
  OBVIOUS
<1>1. Shape
  BY DEF OutboxInit, QueueInit, NewJob, Shape, JobStates, JobRecord, PubSteps
<1>2. ASSUME NEW e \in Events PROVE PublisherKnows(e) /\ PassKnows(e) /\ SentIsDelivered(e)
  BY DEF OutboxInit, PublisherKnows, PassKnows, SentIsDelivered
<1> QED BY <1>1, <1>2 DEF Inv

LEMMA StepInv == Inv /\ [OutboxNext]_sendVars => Inv'
<1> SUFFICES ASSUME Inv, [OutboxNext]_sendVars PROVE Inv'
  OBVIOUS
<1>1. Shape /\ Shape' /\ Keeps
  BY StepKeeps DEF Inv
<1>2. NodeMoves
  BY NodesMove
<1>3. \A e \in Events : SentIsDelivered(e)'
  BY <1>1, <1>2 DEF Inv, Keeps, NodeMoves, SentIsDelivered
<1>4. \A e \in Events : pub'[e] = pub[e] => PublisherKnows(e)'
  BY <1>1, <1>2 DEF Inv, Keeps, NodeMoves, PublisherKnows
<1>5. pass' = pass \/ pass'.at \in {"idle", "send"} => \A e \in Events : PassKnows(e)'
  BY <1>1 DEF Inv, Keeps, PassKnows
<1> DEFINE Publishers == \A e \in Events : PublisherKnows(e)'
           Pass == \A e \in Events : PassKnows(e)'
<1>6. NextOfPass => Pass
  BY <1>5 DEF NextOfPass
<1>7. \A e \in Events, at \in PubSteps :
        Goes(e, at) => /\ pub'[e] = [pub[e] EXCEPT !.at = at]
                       /\ \A d \in Events : d # e => pub'[d] = pub[d]
  BY <1>1 DEF Goes, Shape
<1>8. ASSUME NEW e \in Events, NEW at \in PubSteps, Goes(e, at), pub[e].at # "before",
             at = "extras" => Given(e)', at = "mark" => Delivered(e)',
             at = "returned" => node'[e] = "pending" \/ Delivered(e)'
      PROVE  Publishers
  <2>1. PublisherKnows(e)'
    <3>1. pub'[e].at = at /\ pub'[e].wrote = pub[e].wrote
      BY <1>1, <1>7, <1>8 DEF Shape
    <3>2. (pub[e].wrote => Recorded(e)') /\ (e \in Atomic => Recorded(e)')
      BY <1>1, <1>8 DEF Inv, PublisherKnows, Keeps
    <3> QED BY <3>1, <3>2, <1>8 DEF PublisherKnows, Recorded, Given, Delivered
  <2> QED BY <2>1, <1>4, <1>7, <1>8
\* A publish call that gives up returns only when the event was written down.
<1>9. \A e \in Events : node'[e] = node[e] /\ SendFailed(e) = "returned" =>
                         node'[e] = "pending" \/ Delivered(e)'
  BY <1>1, <1>3 DEF Inv, SendFailed, PublisherKnows, Recorded, Shape, SentIsDelivered
<1> SUFFICES Publishers /\ Pass
  BY <1>1, <1>3 DEF Inv
<1>10. ASSUME NEW e \in Events, Publish(e) PROVE Publishers /\ Pass
  <2>1. CASE Change(e)
    <3>1. Recorded(e)' \/ e \notin Atomic
      BY <1>1, <2>1 DEF Change, Record, Recorded, Shape
    <3>2. pub'[e].at = "record" /\ pub'[e].wrote = pub[e].wrote
      BY <1>1, <1>7, <2>1 DEF Change, PubSteps, Shape
    <3>3. PublisherKnows(e)'
      BY <1>1, <3>1, <3>2 DEF Inv, PublisherKnows, Keeps, Recorded
    <3> QED BY <3>3, <1>4, <1>5, <1>7, <2>1 DEF Change, PubSteps
  <2>2. ASSUME NEW ok \in BOOLEAN, PublishRecord(e, ok) PROVE Publishers /\ Pass
    <3>1. pub'[e] = [at |-> "send", wrote |-> ok] /\ \A d \in Events : d # e => pub'[d] = pub[d]
      BY <1>1, <2>2 DEF PublishRecord, Shape
    <3>2. (ok => Recorded(e)') /\ (e \in Atomic => Recorded(e)')
      BY <1>1, <2>2 DEF PublishRecord, Record, Recorded, Shape, Inv, PublisherKnows, Keeps
    <3>3. PublisherKnows(e)'
      BY <3>1, <3>2 DEF PublisherKnows, Recorded
    <3> QED BY <3>1, <3>3, <1>4, <1>5, <2>2 DEF PublishRecord
  <2>3. CASE PublishSend(e)
    <3>1. PICK cs \in SUBSET Consumers :
            Send(e, cs) /\ Goes(e, IF AllAdded(cs) THEN "extras" ELSE SendFailed(e))
      BY <2>3 DEF PublishSend
    <3>2. CASE AllAdded(cs)
      <4>1. Given(e)'
        BY <1>1, <3>1, <3>2, SendAdds DEF Shape, JobShape, AllAdded, Given
      <4> QED BY <1>5, <1>8, <2>3, <3>1, <3>2, <4>1 DEF PublishSend, PubSteps
    <3>3. CASE ~AllAdded(cs)
      BY <1>5, <1>8, <1>9, <2>3, <3>1, <3>3 DEF PublishSend, PubSteps, SendFailed
    <3> QED BY <3>2, <3>3
  <2>4. ASSUME NEW ok \in BOOLEAN, PublishExtras(e, ok) PROVE Publishers /\ Pass
    <3>1. CASE ok
      <4>1. Delivered(e)'
        BY <1>1, <2>4, <3>1 DEF PublishExtras, Extras, Inv, PublisherKnows, Keeps, Given, Delivered
      <4> QED BY <1>5, <1>8, <2>4, <3>1, <4>1 DEF PublishExtras, PubSteps
    <3>2. CASE ~ok
      BY <1>5, <1>8, <1>9, <2>4, <3>2 DEF PublishExtras, PubSteps, SendFailed
    <3> QED BY <3>1, <3>2
  <2>5. ASSUME NEW ok \in BOOLEAN, PublishMark(e, ok) PROVE Publishers /\ Pass
    <3>1. Delivered(e)'
      BY <1>1, <2>5 DEF PublishMark, Inv, PublisherKnows, Keeps
    <3> QED BY <1>5, <1>8, <2>5, <3>1 DEF PublishMark, PubSteps
  <2> QED BY <1>10, <2>1, <2>2, <2>3, <2>4, <2>5 DEF Publish
<1>11. ASSUME NEW e \in Events, Age(e) \/ Purge(e) PROVE Publishers /\ Pass
  BY <1>4, <1>5, <1>11 DEF Age, Purge
<1>12. CASE StartPass
  BY <1>4, <1>5, <1>12 DEF StartPass
<1>13. CASE Resend
  <2>1. CASE ResendSend
    <3>1. PICK cs \in SUBSET Consumers :
            Send(Head(pass.todo), cs) /\ IF AllAdded(cs) THEN pass' = [pass EXCEPT !.at = "extras"] ELSE NextOfPass
      BY <2>1 DEF ResendSend
    <3>2. CASE AllAdded(cs)
      <4>1. \A e \in Events : e = Head(pass.todo) => Given(e)'
        BY <1>1, <3>1, <3>2, SendAdds DEF Shape, JobShape, AllAdded, Given
      <4>2. pass'.at = "extras" /\ pass'.todo = pass.todo
        BY <1>1, <3>1, <3>2 DEF Shape
      <4> QED BY <1>4, <2>1, <4>1, <4>2 DEF ResendSend, PassKnows, Given, Delivered
    <3>3. CASE ~AllAdded(cs)
      BY <1>4, <1>6, <2>1, <3>1, <3>3 DEF ResendSend
    <3> QED BY <3>2, <3>3
  <2>2. ASSUME NEW ok \in BOOLEAN, ResendExtras(ok) PROVE Publishers /\ Pass
    <3>1. CASE ok
      <4>1. \A e \in Events : e = Head(pass.todo) => Delivered(e)'
        <5>1. \A e \in Events : e = Head(pass.todo) => Given(e)'
          BY <1>1, <2>2 DEF ResendExtras, Inv, PassKnows, Keeps
        <5>2. \A e \in Webhooks : e = Head(pass.todo) => e \in hooked'
          BY <2>2, <3>1 DEF ResendExtras, Extras
        <5> QED BY <5>1, <5>2 DEF Given, Delivered
      <4>2. pass'.at = "mark" /\ pass'.todo = pass.todo
        BY <1>1, <2>2, <3>1 DEF Shape, ResendExtras
      <4> QED BY <1>4, <2>2, <4>1, <4>2 DEF ResendExtras, PassKnows, Given, Delivered
    <3>2. CASE ~ok
      BY <1>4, <1>6, <2>2, <3>2 DEF ResendExtras
    <3> QED BY <3>1, <3>2
  <2>3. ASSUME NEW ok \in BOOLEAN, ResendMark(ok) PROVE Publishers /\ Pass
    BY <1>4, <1>6, <2>3 DEF ResendMark
  <2> QED BY <1>13, <2>1, <2>2, <2>3 DEF Resend
<1>14. CASE Crash
  <2>1. ASSUME NEW e \in Events, Goes(e, "crashed"), pub[e].at # "before" PROVE Publishers
    BY <1>8, <2>1 DEF PubSteps
  <2>2. UNCHANGED pub => Publishers
    BY <1>4
  <2>3. Publishers
    BY <1>14, <2>1, <2>2 DEF Crash
  <2> QED BY <1>5, <1>14, <2>3 DEF Crash
<1>15. CASE UNCHANGED outboxVars
  BY <1>4, <1>5, <1>15 DEF outboxVars
<1>16. Publishers /\ Pass
  BY <1>10, <1>11, <1>12, <1>13, <1>14, <1>15 DEF OutboxNext, sendVars
<1> QED BY <1>16

THEOREM Invariance == OutboxSpec => []Inv
BY InitInv, StepInv, PTL DEF OutboxSpec

-----------------------------------------------------------------------------
\* NothingLost: an event that was written down, by publish or with its change
\* (lib/outbox.ts, RECORD), is pending or was given to every queue and webhook.
THEOREM NothingIsLost == OutboxSpec => []NothingLost
<1>1. Inv => NothingLost
  BY DEF Inv, Shape, NothingLost, PublisherKnows, SentIsDelivered, Recorded
<1> QED BY <1>1, Invariance, PTL

\* LossIsLoud: a publish call that returned (publisher.ts 74-84) left its event
\* in the same hands.
THEOREM LossIsAlwaysLoud == OutboxSpec => []LossIsLoud
<1>1. Inv => LossIsLoud
  BY DEF Inv, LossIsLoud, PublisherKnows
<1> QED BY <1>1, Invariance, PTL

-----------------------------------------------------------------------------
(***************************************************************************)
(* The refinement: one lemma for each way a step of the code can look to   *)
(* EventDelivery, then every action is one of them.                        *)
(***************************************************************************)
owedNow == {e \in Events : node[e] = "pending"}
settledNow == {e \in Events : node[e] \in {"sent", "purged"}}
givenNow == {p \in Pairs : job[p].state # "none"}

Mapped == [Delivery!DeliveryNext]_(Delivery!deliveryVars)

LEMMA Stutters ==
  ASSUME owedNow' = owedNow, settledNow' = settledNow, givenNow' = givenNow, hooked' = hooked
  PROVE  Mapped
BY DEF Mapped, Delivery!deliveryVars, owedNow, settledNow, givenNow

\* Jobs of one event alone are added.
LEMMA Hands ==
  ASSUME NEW e \in Events, JobsStay, UNCHANGED <<node, hooked>>,
         \A p \in Pairs : p[2] # e => job'[p] = job[p]
  PROVE  Mapped
<1> DEFINE cs == {c \in Consumers : <<c, e>> \in givenNow'}
<1>1. \A p \in Pairs : p[2] = e => p[1] \in Consumers /\ p = <<p[1], e>>
  BY DEF Pairs
<1>2. givenNow' = givenNow \cup (cs \X {e})
  <2>1. ASSUME NEW p \in givenNow' PROVE p \in givenNow \cup (cs \X {e})
    BY <1>1, <2>1 DEF givenNow
  <2>2. ASSUME NEW p \in givenNow PROVE p \in givenNow'
    BY <2>2 DEF givenNow, JobsStay
  <2>3. ASSUME NEW p \in cs \X {e} PROVE p \in givenNow'
    BY <2>3
  <2> QED BY <2>1, <2>2, <2>3
<1>3. cs \in SUBSET Consumers
  OBVIOUS
<1>4. owedNow' = owedNow /\ settledNow' = settledNow
  BY DEF owedNow, settledNow
<1> HIDE DEF cs
<1>5. \E ds \in SUBSET Consumers : givenNow' = givenNow \cup (ds \X {e})
  BY <1>2, <1>3
<1>6. \E ds \in SUBSET Consumers : Delivery!Hand(e, ds)
  BY <1>4, <1>5 DEF Delivery!Hand, givenNow, owedNow, settledNow
<1>7. Delivery!DeliveryNext
  BY <1>6 DEF Delivery!DeliveryNext
<1> QED BY <1>7 DEF Mapped

LEMMA Owes ==
  ASSUME Shape, NEW e \in Events, Record(e), UNCHANGED <<job, hooked>>
  PROVE  Mapped
<1>1. givenNow' = givenNow
  BY DEF givenNow
<1>2. CASE Recorded(e)
  BY <1>1, <1>2, Stutters DEF Record, owedNow, settledNow
<1>3. CASE ~Recorded(e)
  <2>1. owedNow' = owedNow \cup {e} /\ settledNow' = settledNow /\ e \notin owedNow \cup settledNow
    BY <1>3 DEF Record, Recorded, Shape, owedNow, settledNow
  <2>2. Delivery!Owe(e)
    BY <1>1, <2>1 DEF Delivery!Owe, owedNow, settledNow, givenNow
  <2> QED BY <2>2 DEF Mapped, Delivery!DeliveryNext
<1> QED BY <1>2, <1>3

LEMMA Hooks ==
  ASSUME OutboxAssumption, NEW e, NEW ok, Extras(e, ok), UNCHANGED <<job, node>>
  PROVE  Mapped
<1>1. owedNow' = owedNow /\ settledNow' = settledNow /\ givenNow' = givenNow
  BY DEF owedNow, settledNow, givenNow
<1>2. CASE ok /\ e \in Webhooks
  <2>1. e \in Events
    BY <1>2 DEF OutboxAssumption
  <2>2. Delivery!Hook(e)
    BY <1>1, <1>2 DEF Extras, Delivery!Hook, owedNow, settledNow, givenNow
  <2> QED BY <2>1, <2>2 DEF Mapped, Delivery!DeliveryNext
<1>3. CASE ~(ok /\ e \in Webhooks)
  BY <1>1, <1>3, Stutters DEF Extras
<1> QED BY <1>2, <1>3

\* The node of an event is marked only once the event is delivered.
LEMMA Settles ==
  ASSUME Shape, NEW e, MarkSent(e), e \in Events => Delivered(e), UNCHANGED <<job, hooked>>
  PROVE  Mapped
<1>1. givenNow' = givenNow
  BY DEF givenNow
<1>2. CASE e \in Events /\ node[e] = "pending"
  <2>1. owedNow' = owedNow \ {e} /\ settledNow' = settledNow \cup {e} /\ e \in owedNow
    BY <1>2 DEF MarkSent, Shape, owedNow, settledNow
  <2>2. Consumers \X {e} \subseteq givenNow
    BY <1>2 DEF Delivered, Given, givenNow, Pairs
  <2>3. Delivery!Settle(e)
    BY <1>1, <1>2, <2>1, <2>2 DEF Delivery!Settle, Delivered, owedNow, settledNow, givenNow
  <2> QED BY <1>2, <2>3 DEF Mapped, Delivery!DeliveryNext
<1>3. CASE ~(e \in Events /\ node[e] = "pending")
  BY <1>1, <1>3, Stutters DEF MarkSent, Shape, owedNow, settledNow
<1> QED BY <1>2, <1>3

\* A send hands its event; a send of anything else changes no queue.
LEMMA Sends ==
  ASSUME Shape, NEW e, NEW cs \in SUBSET Consumers, Send(e, cs), UNCHANGED <<node, hooked>>
  PROVE  Mapped
<1>1. JobsStay
  BY SendAdds DEF Shape, JobShape
<1>4. \A p \in Pairs : p[2] # e => job'[p] = job[p]
  BY DEF Send, Added
<1>2. CASE e \in Events
  BY <1>1, <1>4, <1>2, Hands
<1>3. CASE e \notin Events
  <2>1. \A p \in Pairs : job'[p] = job[p]
    BY <1>4, <1>3 DEF Pairs
  <2> QED BY <2>1, Stutters DEF owedNow, settledNow, givenNow
<1> QED BY <1>2, <1>3

LEMMA StepMaps ==
  ASSUME Inv, OutboxAssumption, [OutboxNext]_sendVars
  PROVE  Mapped
<1>1. Shape
  BY DEF Inv
<1>2. UNCHANGED <<job, node, hooked>> => Mapped
  BY Stutters DEF owedNow, settledNow, givenNow
<1>3. ASSUME NEW e \in Events, Publish(e) PROVE Mapped
  <2>1. CASE Change(e)
    <3>1. UNCHANGED <<job, hooked>>
      BY <2>1 DEF Change, queueVars
    <3> QED BY <1>1, <1>2, <2>1, <3>1, Owes DEF Change
  <2>2. ASSUME NEW ok \in BOOLEAN, PublishRecord(e, ok) PROVE Mapped
    <3>1. UNCHANGED <<job, hooked>>
      BY <2>2 DEF PublishRecord, queueVars
    <3> QED BY <1>1, <1>2, <2>2, <3>1, Owes DEF PublishRecord
  <2>3. CASE PublishSend(e)
    BY <1>1, <2>3, Sends DEF PublishSend
  <2>4. ASSUME NEW ok \in BOOLEAN, PublishExtras(e, ok) PROVE Mapped
    BY <2>4, Hooks DEF PublishExtras, queueVars
  <2>5. ASSUME NEW ok \in BOOLEAN, PublishMark(e, ok) PROVE Mapped
    <3>1. Delivered(e) /\ UNCHANGED <<job, hooked>>
      BY <2>5 DEF Inv, PublisherKnows, PublishMark, queueVars
    <3> QED BY <1>1, <1>2, <2>5, <3>1, Settles DEF PublishMark
  <2> QED BY <1>3, <2>1, <2>2, <2>3, <2>4, <2>5 DEF Publish
<1>4. ASSUME NEW e \in Events, Age(e) PROVE Mapped
  BY <1>2, <1>4 DEF Age, queueVars
<1>5. ASSUME NEW e \in Events, Purge(e) PROVE Mapped
  <2>1. owedNow' = owedNow /\ settledNow' = settledNow
    BY <1>1, <1>5 DEF Purge, Purgeable, Shape, owedNow, settledNow
  <2>2. givenNow' = givenNow /\ hooked' = hooked
    BY <1>5 DEF Purge, queueVars, givenNow
  <2> QED BY <2>1, <2>2, Stutters
<1>6. CASE StartPass
  BY <1>2, <1>6 DEF StartPass, queueVars
<1>7. CASE Resend
  <2>1. CASE ResendSend
    BY <1>1, <2>1, Sends DEF ResendSend
  <2>2. ASSUME NEW ok \in BOOLEAN, ResendExtras(ok) PROVE Mapped
    BY <2>2, Hooks DEF ResendExtras, queueVars
  <2>3. ASSUME NEW ok \in BOOLEAN, ResendMark(ok) PROVE Mapped
    <3>1. Head(pass.todo) \in Events => Delivered(Head(pass.todo))
      BY <2>3 DEF Inv, PassKnows, ResendMark
    <3>2. UNCHANGED <<job, hooked>>
      BY <2>3 DEF ResendMark, queueVars
    <3> QED BY <1>1, <1>2, <2>3, <3>1, <3>2, Settles DEF ResendMark
  <2> QED BY <1>7, <2>1, <2>2, <2>3 DEF Resend
<1>8. CASE Crash
  BY <1>2, <1>8 DEF Crash, queueVars
<1>9. ASSUME NEW p \in Pairs, Consume(p), UNCHANGED outboxVars PROVE Mapped
  <2>1. JobsStay
    BY <1>1, <1>9, ConsumeKeeps DEF Shape, JobShape
  <2>2. \A q \in Pairs : q # p => job'[q] = job[q]
    BY <1>1, <1>9 DEF Consume, Take, ProcessDone, ProcessFailed, Mark, Return, Stall, Ends, Finish, Shape
  <2>3. PICK e \in Events : p[2] = e
    BY DEF Pairs
  <2>4. \A q \in Pairs : q[2] # e => job'[q] = job[q]
    BY <2>2, <2>3
  <2>5. UNCHANGED <<node, hooked>>
    BY <1>9 DEF outboxVars
  <2> QED BY <2>1, <2>4, <2>5, Hands
<1>10. CASE UNCHANGED sendVars
  BY <1>2, <1>10 DEF sendVars, queueVars, outboxVars
<1> QED
  BY <1>3, <1>4, <1>5, <1>6, <1>7, <1>8, <1>9, <1>10 DEF OutboxNext

\* Promise: the outbox keeps what packages/events/src/outbox.ts promises; every
\* behaviour of it is one of EventDelivery, for any failures and stops.
THEOREM KeepsPromise == OutboxSpec => Promise
<1>1. OutboxInit => Delivery!DeliveryInit
  BY DEF OutboxInit, QueueInit, NewJob, Delivery!DeliveryInit
<1>2. Inv /\ [OutboxNext]_sendVars => [Delivery!DeliveryNext]_(Delivery!deliveryVars)
  BY StepMaps, OutboxAssumption DEF Mapped
<1> QED BY <1>1, <1>2, Invariance, PTL DEF OutboxSpec, Promise, Delivery!DeliverySpec
-----------------------------------------------------------------------------
(***************************************************************************)
(* The consumers.  A handler call that has come to its marker has done its *)
(* work, so a marker is earned and a job ends as completed for a reason;   *)
(* neither an add nor a stall takes a job to its end.                      *)
(***************************************************************************)
QueueShape ==
  /\ JobShape
  /\ handler \in [Pairs -> [Handlers -> CallSteps]]
  /\ marked \subseteq Pairs
  /\ handled \in [Pairs -> 0..2]

\* What a handler call that has worked knows.
HandlersKnow == \A p \in Pairs, h \in Handlers : handler[p][h] \in {"marking", "returning"} => handled[p] > 0

\* A job that completed did its work, or was none of the consumer's.
DoneIsEarned ==
  \A p \in Pairs : job[p].state = "done" => p \notin Handles \/ handled[p] > 0

QueueInv == QueueShape /\ HandlersKnow /\ DoneIsEarned /\ MarkerIsEarned

\* An add makes a job wait, or leaves it as it is.
LEMMA SendWaits ==
  ASSUME QueueInv, NEW e, NEW cs \in SUBSET Consumers, Send(e, cs)
  PROVE  QueueInv'
<1> USE DEF QueueInv, QueueShape, CallSteps
<1>1. JobShape'
  BY SendAdds
<1>2. \A p \in Pairs : job'[p].state = "done" => job[p].state = "done"
  BY DEF Send, Added, NewJob
<1>3. UNCHANGED <<handler, marked, handled>>
  BY DEF Send
<1> QED BY <1>1, <1>2, <1>3 DEF HandlersKnow, DoneIsEarned, MarkerIsEarned

\* The steps of the handler calls and of BullMQ.
LEMMA ConsumeAccounts ==
  ASSUME QueueInv, NEW p \in Pairs, Consume(p)
  PROVE  QueueInv'
<1> USE DEF QueueInv, QueueShape, CallSteps
<1>1. JobShape'
  BY ConsumeKeeps
<1> DEFINE Worked(q, g) == handler[q][g] \in {"marking", "returning"}
           Ended(q) == job'[q].state = "done" /\ job[q].state # "done"
           OthersStay == \A q \in Pairs \ {p} : job'[q] = job[q]
<1>2. ASSUME NEW h \in Handlers, Take(p, h) PROVE QueueInv'
  <2>1. OthersStay /\ (Ended(p) => Skips(p))
    BY <1>2 DEF Take, Finish, JobShape, JobRecord
  <2>2. handler' \in [Pairs -> [Handlers -> CallSteps]]
    BY <1>2 DEF Take
  <2>3. \A q \in Pairs, g \in Handlers : Worked(q, g)' => Worked(q, g)
    BY <1>2 DEF Take
  <2>4. UNCHANGED <<marked, handled>>
    BY <1>2 DEF Take
  <2> QED BY <1>1, <2>1, <2>2, <2>3, <2>4 DEF Skips, HandlersKnow, DoneIsEarned, MarkerIsEarned
<1>3. ASSUME NEW h \in Handlers, ProcessDone(p, h) PROVE QueueInv'
  <2>1. handled' \in [Pairs -> 0..2] /\ handled'[p] > 0
    BY <1>3 DEF ProcessDone
  <2>2. \A q \in Pairs : handled[q] > 0 => handled'[q] > 0
    BY <1>3 DEF ProcessDone
  <2>3. handler' \in [Pairs -> [Handlers -> CallSteps]]
    BY <1>3 DEF ProcessDone
  <2>4. \A q \in Pairs, g \in Handlers : Worked(q, g)' => Worked(q, g) \/ q = p
    BY <1>3 DEF ProcessDone
  <2>5. UNCHANGED <<job, marked>>
    BY <1>3 DEF ProcessDone
  <2> QED BY <1>1, <2>1, <2>2, <2>3, <2>4, <2>5 DEF HandlersKnow, DoneIsEarned, MarkerIsEarned
<1>4. ASSUME NEW h \in Handlers, ProcessFailed(p, h) PROVE QueueInv'
  <2>1. OthersStay /\ ~Ended(p)
    BY <1>4 DEF ProcessFailed, Ends, Finish, JobShape, JobRecord
  <2>2. handler' \in [Pairs -> [Handlers -> CallSteps]]
    BY <1>4 DEF ProcessFailed, Ends
  <2>3. \A q \in Pairs, g \in Handlers : Worked(q, g)' => Worked(q, g)
    BY <1>4 DEF ProcessFailed, Ends
  <2>4. UNCHANGED <<marked, handled>>
    BY <1>4 DEF ProcessFailed
  <2> QED BY <1>1, <2>1, <2>2, <2>3, <2>4 DEF HandlersKnow, DoneIsEarned, MarkerIsEarned
<1>5. ASSUME NEW h \in Handlers, NEW ok \in BOOLEAN, Mark(p, h, ok) PROVE QueueInv'
  <2>1. handled[p] > 0
    BY <1>5 DEF Mark, HandlersKnow
  <2>2. UNCHANGED job
    BY <1>5 DEF Mark
  <2>3. handler' \in [Pairs -> [Handlers -> CallSteps]]
    BY <1>5 DEF Mark
  <2>4. \A q \in Pairs, g \in Handlers : Worked(q, g)' => Worked(q, g)
    BY <1>5 DEF Mark
  <2>5. marked' \subseteq marked \cup {p} /\ handled' = handled
    BY <1>5 DEF Mark
  <2> QED BY <1>1, <2>1, <2>2, <2>3, <2>4, <2>5 DEF HandlersKnow, DoneIsEarned, MarkerIsEarned
<1>7. ASSUME NEW h \in Handlers, Return(p, h) PROVE QueueInv'
  <2>1. handled[p] > 0
    BY <1>7 DEF Return, HandlersKnow
  <2>2. OthersStay
    BY <1>7 DEF Return, Ends, Finish, JobShape, JobRecord
  <2>3. handler' \in [Pairs -> [Handlers -> CallSteps]]
    BY <1>7 DEF Return, Ends
  <2>4. \A q \in Pairs, g \in Handlers : Worked(q, g)' => Worked(q, g)
    BY <1>7 DEF Return, Ends
  <2>5. UNCHANGED <<marked, handled>>
    BY <1>7 DEF Return
  <2> QED BY <1>1, <2>1, <2>2, <2>3, <2>4, <2>5 DEF HandlersKnow, DoneIsEarned, MarkerIsEarned
<1>6. ASSUME Stall(p) PROVE QueueInv'
  <2>1. OthersStay /\ ~Ended(p)
    BY <1>6 DEF Stall, Finish, JobShape, JobRecord
  <2>2. handler' \in [Pairs -> [Handlers -> CallSteps]]
    BY <1>6 DEF Stall
  <2>3. \A q \in Pairs, g \in Handlers : Worked(q, g)' => Worked(q, g)
    BY <1>6 DEF Stall
  <2>4. UNCHANGED <<marked, handled>>
    BY <1>6 DEF Stall
  <2> QED BY <1>1, <2>1, <2>2, <2>3, <2>4 DEF HandlersKnow, DoneIsEarned, MarkerIsEarned
<1> QED BY <1>2, <1>3, <1>4, <1>5, <1>6, <1>7 DEF Consume

LEMMA QueueInvHolds == OutboxSpec => []QueueInv
<1>1. OutboxInit => QueueInv
  BY DEF OutboxInit, QueueInit, QueueInv, QueueShape, JobShape, JobRecord, JobStates, NewJob,
         CallSteps, HandlersKnow, DoneIsEarned, MarkerIsEarned
<1>2. ASSUME QueueInv, [OutboxNext]_sendVars PROVE QueueInv'
  <2>1. ASSUME UNCHANGED queueVars PROVE QueueInv'
    BY <1>2, <2>1 DEF queueVars, QueueInv, QueueShape, JobShape, HandlersKnow, DoneIsEarned, MarkerIsEarned
  <2>2. ASSUME NEW e \in Events, Publish(e) PROVE QueueInv'
    BY <1>2, <2>1, <2>2, SendWaits DEF Publish, Change, PublishRecord, PublishSend, PublishExtras, PublishMark
  <2>3. ASSUME Resend PROVE QueueInv'
    BY <1>2, <2>1, <2>3, SendWaits DEF Resend, ResendSend, ResendExtras, ResendMark
  <2>4. ASSUME NEW e \in Events, Age(e) \/ Purge(e) PROVE QueueInv'
    BY <2>1, <2>4 DEF Age, Purge
  <2>5. ASSUME StartPass \/ Crash PROVE QueueInv'
    BY <2>1, <2>5 DEF StartPass, Crash
  <2>6. ASSUME NEW p \in Pairs, Consume(p) PROVE QueueInv'
    BY <1>2, <2>6, ConsumeAccounts
  <2>7. CASE UNCHANGED sendVars
    BY <2>1, <2>7 DEF sendVars
  <2> QED BY <1>2, <2>2, <2>3, <2>4, <2>5, <2>6, <2>7 DEF OutboxNext
<1> QED BY <1>1, <1>2, PTL DEF OutboxSpec

\* No redelivery is skipped on the strength of a marker nobody earned.
THEOREM MarkersAreEarned == OutboxSpec => []MarkerIsEarned
BY QueueInvHolds, PTL DEF QueueInv

-----------------------------------------------------------------------------
(***************************************************************************)
(* The types, which say more than shapes: a job is tried no more than its  *)
(* attempts, active exactly while a call holds its lock, and a pass under  *)
(* way has an event at its head.                                           *)
(***************************************************************************)
BoundedJob == [state : JobStates, tries : 0..Attempts,
               stalls : 0..MaxStalls, owner : Handlers \cup {NoHandler}]

\* A job that may still be worked on has an attempt left, an exhausted one none.
TypedJob(j) ==
  /\ j \in BoundedJob
  /\ j.state = "active" <=> j.owner # NoHandler
  /\ j.state \in {"waiting", "active"} => j.tries < Attempts
  /\ j.state = "failed" => j.tries = Attempts

QueueTyped ==
  /\ job \in [Pairs -> BoundedJob]
  /\ \A p \in Pairs : TypedJob(job[p])
  /\ handler \in [Pairs -> [Handlers -> CallSteps]]
  /\ marked \subseteq Pairs
  /\ handled \in [Pairs -> 0..2]
  /\ counted = {p \in Pairs : job[p].state = "failed"}

\* The queue keeps its types when one job is replaced.
LEMMA JobReplaced ==
  ASSUME QueueTyped, NEW p \in Pairs, NEW j, TypedJob(j), job' = [job EXCEPT ![p] = j],
         handler' \in [Pairs -> [Handlers -> CallSteps]],
         marked' \subseteq marked \cup {p}, handled' = handled, job[p].state # "failed",
         counted' = IF j.state = "failed" THEN counted \cup {p} ELSE counted
  PROVE  QueueTyped'
<1>1. /\ job' \in [Pairs -> BoundedJob] /\ job'[p] = j
      /\ \A q \in Pairs : q # p => job'[q] = job[q]
  BY DEF QueueTyped, TypedJob
<1>2. counted' = {q \in Pairs : job'[q].state = "failed"}
  BY <1>1 DEF QueueTyped
<1>3. \A q \in Pairs : TypedJob(job'[q])
  BY <1>1 DEF QueueTyped
<1> QED BY <1>1, <1>2, <1>3 DEF QueueTyped

LEMMA SendTyped ==
  ASSUME QueueTyped, NEW e, NEW cs \in SUBSET Consumers, Send(e, cs)
  PROVE  QueueTyped'
<1>1. TypedJob(NewJob)
  BY QueueAssumption DEF TypedJob, NewJob, BoundedJob, JobStates
<1>2. job' = [p \in Pairs |-> IF p[2] = e /\ p[1] \in cs /\ AddOnce(p) THEN NewJob ELSE job[p]]
  BY DEF Send, Added
<1>3. \A p \in Pairs : TypedJob(job'[p])
  BY <1>1, <1>2 DEF QueueTyped
<1>4. job' \in [Pairs -> BoundedJob]
  BY <1>1, <1>2 DEF QueueTyped, TypedJob
<1>5. \A p \in Pairs : job'[p].state = "failed" <=> job[p].state = "failed"
  BY <1>2 DEF AddOnce, NewJob
<1> QED BY <1>3, <1>4, <1>5 DEF Send, QueueTyped

\* A job that ends or waits again lets go of its lock.
LEMMA JobLetGo ==
  ASSUME NEW j \in BoundedJob, NEW state
  PROVE  [j EXCEPT !.state = state, !.owner = NoHandler]
           = [state |-> state, tries |-> j.tries, stalls |-> j.stalls, owner |-> NoHandler]
<1> DEFINE k == [j EXCEPT !.state = state, !.owner = NoHandler]
<1>1. k \in [state : {state}, tries : {j.tries}, stalls : {j.stalls}, owner : {NoHandler}]
  BY DEF BoundedJob
<1> HIDE DEF k
<1>2. k = [state |-> state, tries |-> j.tries, stalls |-> j.stalls, owner |-> NoHandler]
  BY <1>1
<1> QED BY <1>2 DEF k

LEMMA ConsumeTyped ==
  ASSUME QueueTyped, NEW p \in Pairs, Consume(p)
  PROVE  QueueTyped'
<1> USE DEF CallSteps
<1> DEFINE j == job[p]
<1>0. /\ j \in BoundedJob /\ j.tries \in Nat /\ j.stalls \in Nat /\ j.tries <= Attempts
      /\ j.state = "active" <=> j.owner # NoHandler
      /\ j.state \in {"waiting", "active"} => j.tries < Attempts
      /\ job \in [Pairs -> BoundedJob]
      /\ j.owner # NoHandler => j.state # "failed"
  BY QueueAssumption DEF QueueTyped, TypedJob, BoundedJob
<1> DEFINE to(state) == [j EXCEPT !.state = state, !.owner = NoHandler]
<1>10. ASSUME NEW state
      PROVE  to(state) = [state |-> state, tries |-> j.tries, stalls |-> j.stalls, owner |-> NoHandler]
  BY <1>0, JobLetGo
<1>1. ASSUME NEW state \in {"waiting", "failed", "stalled", "done"} PROVE Finish(p, state) = [job EXCEPT ![p] = to(state)]
  BY <1>0 DEF Finish
<1>2. ASSUME NEW state \in {"stalled", "done"} PROVE TypedJob(to(state)) /\ to(state).state # "failed"
  BY <1>0 DEF TypedJob, BoundedJob, JobStates
<1>3. ASSUME NEW h \in Handlers, Take(p, h) PROVE QueueTyped'
  <2>3. handler' \in [Pairs -> [Handlers -> CallSteps]]
    <3>1. handler \in [Pairs -> [Handlers -> CallSteps]]
      BY DEF QueueTyped
    <3>2. handler' = handler \/ handler' = [handler EXCEPT ![p][h] = "processing"]
      BY <1>3 DEF Take
    <3> QED BY <3>1, <3>2
  <2>4. j.state = "waiting" /\ UNCHANGED <<marked, handled, counted>>
    BY <1>3 DEF Take
  <2>0. /\ handler' \in [Pairs -> [Handlers -> CallSteps]]
        /\ UNCHANGED <<marked, handled, counted>> /\ j.state # "failed"
    BY <2>3, <2>4
  <2>1. CASE Skips(p)
    <3>1. job' = [job EXCEPT ![p] = to("done")]
      BY <1>1, <1>3, <2>1 DEF Take
    <3> HIDE DEF to
    <3> QED BY <1>2, <2>0, <3>1, JobReplaced
  <2>2. CASE ~Skips(p)
    <3> DEFINE k == [j EXCEPT !.state = "active", !.owner = h]
    <3>1. job' = [job EXCEPT ![p] = k]
      BY <1>0, <1>3, <2>2 DEF Take
    <3>2. TypedJob(k) /\ k.state = "active"
      BY <1>0, <1>3, QueueAssumption DEF TypedJob, BoundedJob, JobStates, Take
    <3> HIDE DEF k
    <3> QED BY <2>0, <3>1, <3>2, JobReplaced
  <2> QED BY <2>1, <2>2
<1>4. ASSUME NEW h \in Handlers, ProcessDone(p, h) PROVE QueueTyped'
  <2>1. handled[p] \in 0..2
    BY DEF QueueTyped
  <2>2. (IF handled[p] = 2 THEN 2 ELSE handled[p] + 1) \in 0..2
    BY <2>1
  <2>3. handled' \in [Pairs -> 0..2]
    BY <1>4, <2>2 DEF ProcessDone, QueueTyped
  <2>4. handler' \in [Pairs -> [Handlers -> CallSteps]]
    BY <1>4 DEF ProcessDone, QueueTyped
  <2> QED BY <1>4, <2>3, <2>4 DEF ProcessDone, QueueTyped
<1>5. ASSUME handler' \in [Pairs -> [Handlers -> CallSteps]],
             marked' \subseteq marked \cup {p}, handled' = handled, job' = job,
             counted' = counted
      PROVE  QueueTyped'
  BY <1>5 DEF QueueTyped
<1>6. ASSUME NEW h \in Handlers, ProcessFailed(p, h) PROVE QueueTyped'
  <2>0. /\ handler' \in [Pairs -> [Handlers -> CallSteps]]
        /\ UNCHANGED <<marked, handled>>
        /\ counted' = IF j.owner = h /\ Exhausted(p) THEN counted \cup {p} ELSE counted
    BY <1>6 DEF ProcessFailed, Ends, QueueTyped
  <2>1. CASE job[p].owner # h
    BY <1>5, <1>6, <2>0, <2>1 DEF ProcessFailed, Ends
  <2>2. CASE job[p].owner = h
    <3>1. j.state = "active" /\ j.tries < Attempts
      BY <1>0, <2>2, QueueAssumption
    <3> DEFINE state == IF j.tries + 1 >= Attempts THEN "failed" ELSE "waiting"
               k == [to(state) EXCEPT !.tries = j.tries + 1]
    <3>2. job' = [[job EXCEPT ![p] = to(state)] EXCEPT ![p].tries = @ + 1]
      BY <1>1, <1>6, <2>2 DEF ProcessFailed, Ends, LastTry
    <3>3. job' = [job EXCEPT ![p] = k]
      BY <1>0, <3>2
    <3>4. k.tries = j.tries + 1 /\ k.state = state /\ k.owner = NoHandler /\ k.stalls = j.stalls
          /\ k = [state |-> state, tries |-> j.tries + 1, stalls |-> j.stalls, owner |-> NoHandler]
      <4>1. to(state) = [state |-> state, tries |-> j.tries, stalls |-> j.stalls, owner |-> NoHandler]
        BY <1>10
      <4> HIDE DEF to, state, j
      <4> QED BY <4>1
    <3>5. j.tries + 1 \in 0..Attempts /\ j.stalls \in 0..MaxStalls /\ (state = "waiting" => j.tries + 1 < Attempts)
          /\ (state = "failed" => j.tries + 1 = Attempts) /\ j.state # "failed"
          /\ counted' = (IF state = "failed" THEN counted \cup {p} ELSE counted)
          /\ state \in {"waiting", "failed"}
      <4>1. j.tries + 1 \in 0..Attempts /\ j.stalls \in 0..MaxStalls
        BY <1>0, <3>1, QueueAssumption DEF BoundedJob
      <4>2. CASE j.tries + 1 >= Attempts
        <5>1. state = "failed" /\ Exhausted(p)
          BY <4>2 DEF Exhausted
        <5>2. j.tries + 1 = Attempts
          BY <3>1, <4>1, <4>2, QueueAssumption
        <5> QED BY <2>0, <2>2, <3>1, <4>1, <5>1, <5>2
      <4>3. CASE ~(j.tries + 1 >= Attempts)
        <5>1. state = "waiting" /\ ~Exhausted(p)
          BY <4>3 DEF Exhausted
        <5>2. j.tries + 1 < Attempts
          BY <4>1, <4>3, QueueAssumption
        <5> QED BY <2>0, <3>1, <4>1, <5>1, <5>2
      <4> QED BY <4>2, <4>3
    <3> HIDE DEF k, state
    <3>6. TypedJob(k)
      BY <3>4, <3>5 DEF TypedJob, BoundedJob, JobStates
    <3> QED BY <2>0, <3>3, <3>4, <3>5, <3>6, JobReplaced
  <2> QED BY <2>1, <2>2
<1>7. ASSUME NEW h \in Handlers, NEW ok \in BOOLEAN, Mark(p, h, ok) PROVE QueueTyped'
  <2>1. /\ handler' \in [Pairs -> [Handlers -> CallSteps]]
        /\ marked' \subseteq marked \cup {p} /\ UNCHANGED <<job, handled, counted>>
    BY <1>7 DEF Mark, QueueTyped
  <2> QED BY <1>5, <2>1
<1>9. ASSUME NEW h \in Handlers, Return(p, h) PROVE QueueTyped'
  <2>0. /\ handler' \in [Pairs -> [Handlers -> CallSteps]]
        /\ UNCHANGED <<marked, handled, counted>>
    BY <1>9 DEF Return, Ends, QueueTyped
  <2>1. job' = job \/ (job' = [job EXCEPT ![p] = to("done")] /\ j.state # "failed")
    BY <1>0, <1>1, <1>9, QueueAssumption DEF Return, Ends
  <2> HIDE DEF to
  <2> QED BY <1>2, <1>5, <2>0, <2>1, JobReplaced
<1>8. ASSUME Stall(p) PROVE QueueTyped'
  <2>0. /\ handler' \in [Pairs -> [Handlers -> CallSteps]]
        /\ UNCHANGED <<marked, handled, counted>> /\ j.state # "failed"
    <3>1. j.owner \in Handlers
      BY <1>0, <1>8 DEF Stall, BoundedJob
    <3>2. handler' \in [Pairs -> [Handlers -> CallSteps]]
      <4>1. handler \in [Pairs -> [Handlers -> CallSteps]]
        BY DEF QueueTyped
      <4>2. handler' = handler \/ handler' = [handler EXCEPT ![p][j.owner] = "idle"]
        BY <1>8 DEF Stall
      <4> HIDE DEF j
      <4> QED BY <3>1, <4>1, <4>2
    <3>3. j.state = "active" /\ UNCHANGED <<marked, handled, counted>>
      BY <1>8 DEF Stall
    <3> QED BY <3>2, <3>3
  <2>1. CASE job' = Finish(p, "stalled")
    <3>1. job' = [job EXCEPT ![p] = to("stalled")]
      BY <1>1, <2>1
    <3> HIDE DEF to
    <3> QED BY <1>2, <2>0, <3>1, JobReplaced
  <2>2. CASE j.stalls < MaxStalls /\ job' = [Finish(p, "waiting") EXCEPT ![p].stalls = @ + 1]
    <3> DEFINE k == [state |-> "waiting", tries |-> j.tries, stalls |-> j.stalls + 1, owner |-> NoHandler]
    <3>1. job' = [[job EXCEPT ![p] = to("waiting")] EXCEPT ![p].stalls = @ + 1]
      BY <1>1, <2>2
    <3>2. [to("waiting") EXCEPT !.stalls = @ + 1] = k
      <4>1. to("waiting") = [state |-> "waiting", tries |-> j.tries, stalls |-> j.stalls, owner |-> NoHandler]
        BY <1>10
      <4> HIDE DEF to, j
      <4> QED BY <4>1
    <3>3. job' = [job EXCEPT ![p] = k]
      BY <1>0, <3>1, <3>2
    <3>4. TypedJob(k) /\ k.state = "waiting"
      BY <1>0, <1>8, <2>2, QueueAssumption DEF TypedJob, BoundedJob, JobStates, Stall
    <3> HIDE DEF k
    <3> QED BY <2>0, <3>3, <3>4, JobReplaced
  <2> QED BY <1>8, <2>1, <2>2 DEF Stall
<1> QED BY <1>3, <1>4, <1>6, <1>7, <1>8, <1>9 DEF Consume

LEMMA StepQueueTyped ==
  ASSUME QueueTyped, [OutboxNext]_sendVars
  PROVE  QueueTyped'
<1>1. ASSUME UNCHANGED queueVars PROVE QueueTyped'
  BY <1>1 DEF queueVars, QueueTyped
<1>2. ASSUME NEW e \in Events, Publish(e) PROVE QueueTyped'
  BY <1>1, <1>2, SendTyped DEF Publish, Change, PublishRecord, PublishSend, PublishExtras, PublishMark
<1>3. ASSUME Resend PROVE QueueTyped'
  BY <1>1, <1>3, SendTyped DEF Resend, ResendSend, ResendExtras, ResendMark
<1>4. ASSUME StartPass \/ Crash \/ \E e \in Events : Age(e) \/ Purge(e) PROVE QueueTyped'
  BY <1>1, <1>4 DEF Age, Purge, StartPass, Crash
<1>5. ASSUME NEW p \in Pairs, Consume(p) PROVE QueueTyped'
  BY <1>5, ConsumeTyped
<1>6. CASE UNCHANGED sendVars
  BY <1>1, <1>6 DEF sendVars
<1> QED BY <1>2, <1>3, <1>4, <1>5, <1>6 DEF OutboxNext

LEMMA QueueTypedHolds == OutboxSpec => []QueueTyped
<1>1. OutboxInit => QueueTyped
  <2>1. [NewJob EXCEPT !.state = "none"] = [state |-> "none", tries |-> 0, stalls |-> 0, owner |-> NoHandler]
    BY DEF NewJob
  <2>2. TypedJob([state |-> "none", tries |-> 0, stalls |-> 0, owner |-> NoHandler])
    BY QueueAssumption DEF TypedJob, BoundedJob, JobStates
  <2>3. ASSUME OutboxInit
        PROVE  job = [p \in Pairs |-> [state |-> "none", tries |-> 0, stalls |-> 0, owner |-> NoHandler]]
    BY <2>1, <2>3 DEF OutboxInit, QueueInit
  <2>4. ASSUME OutboxInit PROVE counted = {p \in Pairs : job[p].state = "failed"}
    BY <2>3, <2>4 DEF OutboxInit, QueueInit
  <2>5. ASSUME OutboxInit PROVE /\ marked \subseteq Pairs /\ handled \in [Pairs -> 0..2]
                                /\ handler \in [Pairs -> [Handlers -> CallSteps]]
    BY <2>5 DEF OutboxInit, QueueInit, CallSteps
  <2>6. ASSUME OutboxInit PROVE \A p \in Pairs : TypedJob(job[p])
    BY <2>2, <2>3, <2>6
  <2>7. ASSUME OutboxInit PROVE job \in [Pairs -> BoundedJob]
    BY <2>2, <2>3, <2>7 DEF TypedJob
  <2> QED BY <2>4, <2>5, <2>6, <2>7 DEF QueueTyped
<1>2. QueueTyped /\ [OutboxNext]_sendVars => QueueTyped'
  BY StepQueueTyped
<1> QED BY <1>1, <1>2, PTL DEF OutboxSpec

\* GivenIsAccountedFor: for any number of handler calls, attempts and stalls, and
\* whatever the writing of markers does, no job completes with its work not done,
\* and the events counted as lost are those whose job failed its last attempt.
THEOREM NoEventUnaccounted == OutboxSpec => []GivenIsAccountedFor
<1>1. QueueInv /\ QueueTyped => GivenIsAccountedFor
  BY DEF QueueInv, DoneIsEarned, QueueTyped, TypedJob, GivenIsAccountedFor
<1> QED BY <1>1, QueueInvHolds, QueueTypedHolds, PTL

\* The log, what is overdue and the pass.
PassShape ==
  /\ log \in Seq(Events) /\ overdue \subseteq Events
  /\ pass \in [at : PassSteps, todo : Seq(Events)]
  /\ pass.at # "idle" => pass.todo # <<>>

LEMMA StepPassShape ==
  ASSUME PassShape, [OutboxNext]_sendVars
  PROVE  PassShape'
<1> USE DEF PassShape
<1> DEFINE PassTyped == /\ pass' \in [at : PassSteps, todo : Seq(Events)]
                        /\ pass'.at # "idle" => pass'.todo # <<>>
<1>1. ASSUME NEW e \in Events, Record(e) PROVE log' \in Seq(Events)
  BY <1>1 DEF Record
<1>2. pass' = pass => PassTyped
  OBVIOUS
<1>3. ASSUME pass' = [at |-> "idle", todo |-> <<>>] PROVE PassTyped
  BY <1>3 DEF PassSteps
<1>4. ASSUME pass.at # "idle", NextOfPass PROVE PassTyped
  <2>1. CASE Len(pass.todo) = 1
    BY <1>3, <1>4, <2>1 DEF NextOfPass
  <2>2. CASE Len(pass.todo) # 1
    <3> DEFINE todo == pass.todo
    <3>1. todo \in Seq(Events) /\ todo # <<>> /\ Len(todo) # 1
      BY <1>4, <2>2
    <3>2. pass' = [at |-> "send", todo |-> Tail(todo)]
      BY <1>4, <2>2 DEF NextOfPass
    <3> HIDE DEF todo
    <3>3. Tail(todo) \in Seq(Events) /\ Len(Tail(todo)) = Len(todo) - 1
      BY <3>1, HeadTailProperties
    <3>4. Len(todo) \in Nat \ {0} /\ Len(<<>>) = 0
      BY <3>1, EmptySeq, Zenon
    <3>5. ASSUME Tail(todo) = <<>> PROVE FALSE
      <4>1. Len(todo) - 1 = 0
        BY <3>3, <3>4, <3>5, Zenon
      <4> DEFINE n == Len(todo)
      <4>2. n \in Nat \ {0} /\ n - 1 = 0 /\ n # 1
        BY <3>1, <3>4, <4>1
      <4> HIDE DEF n
      <4> QED BY <4>2
    <3> QED BY <3>2, <3>3, <3>5 DEF PassSteps
  <2> QED BY <2>1, <2>2
<1>5. ASSUME pass.at # "idle", NEW at \in PassSteps, pass' = [pass EXCEPT !.at = at] PROVE PassTyped
  BY <1>5
<1>6. ASSUME NEW e \in Events, Publish(e) PROVE PassShape'
  BY <1>1, <1>2, <1>6 DEF Publish, Change, PublishRecord, PublishSend, PublishExtras, PublishMark
<1>7. ASSUME NEW e \in Events, Age(e) \/ Purge(e) PROVE PassShape'
  BY <1>7 DEF Age, Purge
<1>8. CASE StartPass
  <2>1. PICK row \in [1..Rows -> Waiting] : pass' = [at |-> "send", todo |-> [k \in 1..Rows |-> log[row[k]]]]
    BY <1>8 DEF StartPass, Due
  <2> DEFINE n == Rows
             todo == [k \in 1..n |-> log[row[k]]]
  <2>2. n \in Nat /\ n # 0
    <3>1. IsFiniteSet(1..Len(log)) /\ Waiting \subseteq 1..Len(log)
      BY FS_Interval DEF Waiting
    <3>2. IsFiniteSet(Waiting)
      BY <3>1, FS_Subset
    <3>3. Cardinality(Waiting) \in Nat /\ Cardinality(Waiting) # 0
      BY <1>8, <3>2, FS_CardinalityType, FS_EmptySet DEF StartPass
    <3> QED BY <3>3, OutboxAssumption DEF Rows
  <2>3. pass' = [at |-> "send", todo |-> todo] /\ \A k \in 1..n : log[row[k]] \in Events
    BY <2>1 DEF Waiting
  <2> HIDE DEF n
  <2>4. todo \in Seq(Events) /\ Len(todo) = n
    BY <2>2, <2>3
  <2>5. todo # <<>>
    BY <2>2, <2>4
  <2> HIDE DEF todo
  <2>6. PassTyped
    BY <2>3, <2>4, <2>5 DEF PassSteps
  <2> QED BY <1>8, <2>6 DEF StartPass
<1>9. CASE Resend
  <2>1. CASE ResendSend
    <3>1. PassTyped
      BY <1>4, <1>5, <2>1 DEF ResendSend, PassSteps
    <3> QED BY <2>1, <3>1 DEF ResendSend
  <2>2. ASSUME NEW ok \in BOOLEAN, ResendExtras(ok) PROVE PassShape'
    <3>1. PassTyped
      BY <1>4, <1>5, <2>2 DEF ResendExtras, PassSteps
    <3> QED BY <2>2, <3>1 DEF ResendExtras
  <2>3. ASSUME NEW ok \in BOOLEAN, ResendMark(ok) PROVE PassShape'
    <3>1. PassTyped
      BY <1>4, <2>3 DEF ResendMark
    <3> QED BY <2>3, <3>1 DEF ResendMark
  <2> QED BY <1>9, <2>1, <2>2, <2>3 DEF Resend
<1>10. CASE Crash
  BY <1>2, <1>3, <1>10 DEF Crash
<1>11. CASE UNCHANGED outboxVars
  BY <1>11 DEF outboxVars
<1> QED BY <1>6, <1>7, <1>8, <1>9, <1>10, <1>11 DEF OutboxNext, sendVars

\* OutboxTypeOK: the types of the queues, the outbox and its senders, for any
\* number of events, consumers, handler calls, attempts and stalls; no job is
\* tried past its attempts and no pass under way is empty.
THEOREM OutboxTypesHold == OutboxSpec => []OutboxTypeOK
<1>1. OutboxInit => PassShape
  BY DEF OutboxInit, PassShape, PassSteps
<1>2. PassShape /\ [OutboxNext]_sendVars => PassShape'
  BY StepPassShape
<1>3. Inv /\ QueueTyped /\ PassShape => OutboxTypeOK
  BY DEF Inv, Shape, QueueTyped, TypedJob, BoundedJob, PassShape, QueueTypeOK, OutboxTypeOK
<1> QED BY <1>1, <1>2, <1>3, Invariance, QueueTypedHolds, PTL DEF OutboxSpec

-----------------------------------------------------------------------------
(***************************************************************************)
(* Handled once.  A call that works for a job holds its lock, or the job   *)
(* has failed; a job that may still be taken is nobody's, and if its work  *)
(* was done the marker says so.  Both need that a stalled job is not given *)
(* to another call while the first goes on, and that the marker is         *)
(* written: with a stall allowed, or a marker that fails, an event may be  *)
(* handled twice.                                                          *)
(***************************************************************************)
NoRedelivery == MaxStalls = 0 /\ ~RedisFails

OneAtWork(p) ==
  /\ \A g, h \in Handlers : handler[p][g] # "idle" /\ handler[p][h] # "idle" => g = h
  /\ \A h \in Handlers : handler[p][h] = "processing" => handled[p] = 0
  /\ \A h \in Handlers : handler[p][h] = "returning" => p \in marked
  /\ handled[p] <= 1
  /\ job[p].state \notin {"active", "stalled"} =>
       /\ \A h \in Handlers : handler[p][h] = "idle"
       /\ handled[p] = 0 \/ p \in marked
  /\ job[p].state = "active" => \A h \in Handlers : handler[p][h] # "idle" => h = job[p].owner

OnceInv == \A p \in Pairs : OneAtWork(p)

LEMMA ConsumeOnce ==
  ASSUME NoRedelivery, QueueTyped, MarkerIsEarned, OnceInv, NEW p \in Pairs, Consume(p)
  PROVE  OnceInv'
<1>0. /\ job \in [Pairs -> BoundedJob]
      /\ handler \in [Pairs -> [Handlers -> CallSteps]]
      /\ marked \subseteq Pairs /\ handled \in [Pairs -> 0..2]
      /\ job[p].state = "active" <=> job[p].owner # NoHandler
      /\ NoHandler \notin Handlers
      /\ p \in marked => handled[p] > 0
  BY QueueAssumption DEF QueueTyped, TypedJob, MarkerIsEarned
<1> DEFINE Others == \A q \in Pairs \ {p} : /\ job'[q] = job[q] /\ handler'[q] = handler[q]
                                            /\ handled'[q] = handled[q] /\ (q \in marked => q \in marked')
<1>1. Others /\ OneAtWork(p)' => OnceInv'
  BY DEF OnceInv, OneAtWork
<1>2. OneAtWork(p)
  BY DEF OnceInv
<1>3. \A state \in JobStates : /\ Finish(p, state)[p].state = state
                               /\ \A q \in Pairs \ {p} : Finish(p, state)[q] = job[q]
  BY <1>0 DEF Finish, BoundedJob
<1>4. ASSUME NEW h \in Handlers, Take(p, h) PROVE OnceInv'
  <2>1. CASE Skips(p)
    <3>1. Others /\ job'[p].state = "done" /\ UNCHANGED <<handler, marked, handled>>
      BY <1>3, <1>4, <2>1 DEF Take, JobStates
    <3>2. job[p].state \notin {"active", "stalled"}
      BY <1>4 DEF Take
    <3> QED BY <1>1, <1>2, <3>1, <3>2 DEF OneAtWork
  <2>2. CASE ~Skips(p)
    <3>1. /\ Others /\ job'[p].state = "active" /\ job'[p].owner = h /\ UNCHANGED <<marked, handled>>
          /\ handler'[p][h] = "processing" /\ \A g \in Handlers \ {h} : handler'[p][g] = handler[p][g]
      BY <1>0, <1>4, <2>2 DEF Take, BoundedJob
    <3>2. handled[p] = 0 /\ \A g \in Handlers : handler[p][g] = "idle"
      BY <1>2, <1>4, <2>2 DEF Take, Skips, OneAtWork
    <3> QED BY <1>1, <3>1, <3>2 DEF OneAtWork
  <2> QED BY <2>1, <2>2
<1>5. ASSUME NEW h \in Handlers, ProcessDone(p, h) PROVE OnceInv'
  <2>1. handled[p] = 0 /\ \A g \in Handlers \ {h} : handler[p][g] = "idle"
    BY <1>2, <1>5 DEF ProcessDone, OneAtWork
  <2>2. /\ Others /\ handled'[p] = 1 /\ UNCHANGED <<job, marked>>
        /\ handler'[p][h] = "marking" /\ \A g \in Handlers \ {h} : handler'[p][g] = handler[p][g]
    BY <1>0, <1>5, <2>1 DEF ProcessDone
  <2>3. /\ job[p].state \in {"active", "stalled"}
        /\ job[p].state = "active" => h = job[p].owner
    BY <1>2, <1>5 DEF ProcessDone, OneAtWork
  <2> QED BY <1>1, <2>1, <2>2, <2>3 DEF OneAtWork
<1>6. ASSUME NEW h \in Handlers, handler[p][h] # "idle", handler' = [handler EXCEPT ![p][h] = "idle"],
             handled' = handled, marked \subseteq marked',
             \A q \in Pairs \ {p} : job'[q] = job[q],
             \/ job' = job /\ job[p].owner # h
             \/ job'[p].state \in {"waiting", "done", "failed"} /\ (handled[p] = 0 \/ p \in marked')
      PROVE  OnceInv'
  <2>1. handler'[p][h] = "idle" /\ \A g \in Handlers \ {h} : handler'[p][g] = handler[p][g]
    BY <1>0, <1>6
  <2>2. Others
    BY <1>0, <1>6
  <2>3. \A g \in Handlers : handler'[p][g] = "idle"
    BY <1>2, <1>6, <2>1 DEF OneAtWork
  <2>4. job[p].state \in {"active", "stalled"} /\ (job[p].state = "active" => h = job[p].owner) /\ handled[p] <= 1
    BY <1>2, <1>6 DEF OneAtWork
  <2> HIDE DEF Others
  <2>5. OneAtWork(p)'
    BY <1>6, <2>3, <2>4 DEF OneAtWork
  <2> QED BY <1>1, <2>2, <2>5
<1>7. ASSUME NEW h \in Handlers, ProcessFailed(p, h) PROVE OnceInv'
  <2>1. handler[p][h] = "processing" /\ handled[p] = 0 /\ UNCHANGED <<marked, handled>>
    BY <1>2, <1>7 DEF ProcessFailed, OneAtWork
  <2> DEFINE state == IF LastTry(p) THEN "failed" ELSE "waiting"
  <2>2. Ends(p, h, [Finish(p, state) EXCEPT ![p].tries = @ + 1])
    BY <1>7 DEF ProcessFailed
  <2>3. state \in {"failed", "waiting"}
    OBVIOUS
  <2> HIDE DEF state
  <2> DEFINE F == Finish(p, state)
  <2>4. F[p].state = state /\ \A q \in Pairs \ {p} : F[q] = job[q]
    BY <1>3, <2>3 DEF JobStates
  <2>5. F \in [Pairs -> BoundedJob]
    BY <1>0, <2>3 DEF Finish, BoundedJob, JobStates
  <2>6. (job' = job /\ job[p].owner # h) \/ job' = [F EXCEPT ![p].tries = @ + 1]
    BY <2>2 DEF Ends
  <2> HIDE DEF F
  <2>7. \A q \in Pairs \ {p} : job'[q] = job[q]
    BY <2>4, <2>5, <2>6
  <2>8. job' = [F EXCEPT ![p].tries = @ + 1] => job'[p].state = state
    BY <2>4, <2>5 DEF BoundedJob
  <2>9. handler' = [handler EXCEPT ![p][h] = "idle"]
    BY <2>2 DEF Ends
  <2> QED BY <1>6, <2>1, <2>3, <2>6, <2>7, <2>8, <2>9
<1>8. ASSUME NEW h \in Handlers, NEW ok \in BOOLEAN, Mark(p, h, ok), ok \/ RedisFails PROVE OnceInv'
  <2>1. marked' = marked \cup {p} /\ UNCHANGED <<job, handled>> /\ handler[p][h] = "marking"
    BY <1>8 DEF NoRedelivery, Mark
  <2>2. handler'[p][h] = "returning" /\ \A g \in Handlers \ {h} : handler'[p][g] = handler[p][g]
    BY <1>0, <1>8 DEF Mark
  <2>3. Others
    BY <1>0, <1>8, <2>1 DEF Mark
  <2> HIDE DEF Others
  <2> QED BY <1>1, <1>2, <2>1, <2>2, <2>3 DEF OneAtWork
<1>10. ASSUME NEW h \in Handlers, Return(p, h) PROVE OnceInv'
  <2>1. p \in marked /\ UNCHANGED <<marked, handled>> /\ handler[p][h] = "returning"
    BY <1>2, <1>10 DEF Return, OneAtWork
  <2>2. /\ handler' = [handler EXCEPT ![p][h] = "idle"]
        /\ (job' = job /\ job[p].owner # h) \/ job' = Finish(p, "done")
    BY <1>10 DEF Return, Ends
  <2>3. /\ \A q \in Pairs \ {p} : job'[q] = job[q]
        /\ job' = Finish(p, "done") => job'[p].state = "done"
    BY <1>3, <2>2 DEF JobStates
  <2> QED BY <1>6, <2>1, <2>2, <2>3
<1>9. ASSUME Stall(p) PROVE OnceInv'
  <2>1. job[p].state = "active" /\ UNCHANGED <<marked, handled>>
    BY <1>9 DEF Stall
  <2>2. job' = Finish(p, "stalled")
    <3>1. ~(job[p].stalls < MaxStalls)
      BY <1>0 DEF NoRedelivery, BoundedJob
    <3> QED BY <1>9, <3>1 DEF Stall
  <2>3. job'[p].state = "stalled" /\ \A q \in Pairs \ {p} : job'[q] = job[q]
    BY <1>3, <2>2 DEF JobStates
  <2>4. /\ \A q \in Pairs \ {p} : handler'[q] = handler[q]
        /\ \A h \in Handlers : handler'[p][h] = handler[p][h] \/ handler'[p][h] = "idle"
    BY <1>0, <1>9 DEF Stall
  <2> QED BY <1>1, <1>2, <2>1, <2>3, <2>4 DEF OneAtWork
<1> QED BY <1>4, <1>5, <1>7, <1>8, <1>9, <1>10 DEF Consume

\* HandledOnce: while no stalled job is given to another call and every marker
\* is written, no redelivery does the work of an event twice, for any number
\* of attempts, handler calls, senders and passes.
THEOREM EventsHandledOnce ==
  ASSUME NoRedelivery
  PROVE  OutboxSpec => []HandledOnce
<1>1. OutboxInit => OnceInv
  BY DEF OutboxInit, QueueInit, NewJob, OnceInv, OneAtWork
<1>2. ASSUME QueueTyped, MarkerIsEarned, OnceInv, [OutboxNext]_sendVars PROVE OnceInv'
  <2>1. ASSUME UNCHANGED queueVars PROVE OnceInv'
    BY <1>2, <2>1 DEF queueVars, OnceInv, OneAtWork
  <2>2. ASSUME NEW e, NEW cs \in SUBSET Consumers, Send(e, cs) PROVE OnceInv'
    <3>1. \A p \in Pairs : job'[p] = job[p] \/ (job[p].state \notin {"active", "stalled"} /\ job'[p].state = "waiting")
      BY <2>2 DEF Send, Added, AddOnce, NewJob
    <3>2. UNCHANGED <<handler, marked, handled>>
      BY <2>2 DEF Send
    <3> QED BY <1>2, <3>1, <3>2 DEF OnceInv, OneAtWork
  <2>3. ASSUME NEW e \in Events, Publish(e) PROVE OnceInv'
    BY <2>1, <2>2, <2>3 DEF Publish, Change, PublishRecord, PublishSend, PublishExtras, PublishMark
  <2>4. ASSUME Resend PROVE OnceInv'
    BY <2>1, <2>2, <2>4 DEF Resend, ResendSend, ResendExtras, ResendMark
  <2>5. ASSUME StartPass \/ Crash \/ \E e \in Events : Age(e) \/ Purge(e) PROVE OnceInv'
    BY <2>1, <2>5 DEF Age, Purge, StartPass, Crash
  <2>6. ASSUME NEW p \in Pairs, Consume(p) PROVE OnceInv'
    BY <1>2, <2>6, ConsumeOnce
  <2>7. CASE UNCHANGED sendVars
    BY <2>1, <2>7 DEF sendVars
  <2> QED BY <1>2, <2>3, <2>4, <2>5, <2>6, <2>7 DEF OutboxNext
<1>3. OnceInv => HandledOnce
  BY DEF OnceInv, OneAtWork, HandledOnce
<1> QED BY <1>1, <1>2, <1>3, MarkersAreEarned, QueueTypedHolds, PTL DEF OutboxSpec
=============================================================================

----------------------------- MODULE EventQueue -----------------------------
(***************************************************************************)
(* The queues of the domain events' consumers and the handler every        *)
(* consumer shares (packages/events/src/publisher.ts, consumer.ts).  Each  *)
(* consumer has one queue per tenant; the job of an event carries the      *)
(* event's id, so a queue holds at most one job per event: adding it again *)
(* while it waits, runs or is kept as failed does nothing.  A completed    *)
(* job is removed, and the same event may be added once more: what stops   *)
(* it then is the marker the handler leaves in Redis.                      *)
(*                                                                         *)
(* BullMQ is external: a job that stops renewing its lock is stalled and   *)
(* given to another handler, while the first may still be running; one     *)
(* that stalls too often is failed without using up its attempts, and the  *)
(* consumer does not count it as lost.  The marker's 24 hours are taken as *)
(* longer than any behaviour; a failed job is not one of those evicted     *)
(* beyond the hundred a queue keeps; looking at the marker does not fail.  *)
(***************************************************************************)
EXTENDS Naturals, FiniteSets

CONSTANTS Events, Consumers,
          Handles,     \* the <<consumer, event>> whose type the consumer treats
          Attempts,    \* of a job, the first one included
          MaxStalls,   \* stalls of a job before BullMQ fails it
          Handlers,    \* the handler calls that may run for one job at a time
          NoHandler,
          RedisFails   \* whether writing a marker may fail

Pairs == Consumers \X Events

ASSUME QueueAssumption ==
  /\ Handles \subseteq Pairs
  /\ Attempts \in Nat \ {0}
  /\ MaxStalls \in Nat
  /\ NoHandler \notin Handlers

VARIABLES
  job,      \* [Pairs -> [state, tries, stalls, owner]]
  handler,  \* [Pairs -> [Handlers -> CallSteps]]
  marked,   \* the pairs with a marker in Redis
  handled,  \* how many times the consumer's process() did its work, up to 2
  counted   \* the pairs counted as lost

queueVars == <<job, handler, marked, handled, counted>>

\* A stalled job stalled too often: BullMQ keeps it among the failed ones.
JobStates == {"none", "waiting", "active", "failed", "stalled", "done"}
CallSteps == {"idle", "processing", "marking", "returning"}
NewJob == [state |-> "waiting", tries |-> 0, stalls |-> 0, owner |-> NoHandler]

\* The types of the queues; a job is active exactly while a handler call holds
\* its lock (consumer.ts 116-154).
QueueTypeOK ==
  /\ job \in [Pairs -> [state : JobStates, tries : 0..Attempts,
                        stalls : 0..MaxStalls, owner : Handlers \cup {NoHandler}]]
  /\ handler \in [Pairs -> [Handlers -> CallSteps]]
  /\ marked \subseteq Pairs /\ counted \subseteq Pairs
  /\ handled \in [Pairs -> 0..2]
  /\ \A p \in Pairs : job[p].state = "active" <=> job[p].owner # NoHandler

QueueInit ==
  /\ job = [p \in Pairs |-> [NewJob EXCEPT !.state = "none"]]
  /\ handler = [p \in Pairs |-> [h \in Handlers |-> "idle"]]
  /\ marked = {} /\ counted = {}
  /\ handled = [p \in Pairs |-> 0]

-----------------------------------------------------------------------------
\* The queues after the adds of e that reached Redis, those of the consumers cs.
AddOnce(p) == job[p].state \in {"none", "done"}

Added(e, cs) ==
  [p \in Pairs |-> IF p[2] = e /\ p[1] \in cs /\ AddOnce(p) THEN NewJob ELSE job[p]]

Finish(p, state) == [job EXCEPT ![p].state = state, ![p].owner = NoHandler]

\* The end of call h: it counts only while h still holds the job's lock.
Ends(p, h, after) ==
  /\ handler' = [handler EXCEPT ![p][h] = "idle"]
  /\ job' = IF job[p].owner = h THEN after ELSE job

\* Mutant: the marker is not looked at.
SkipsMutant(p) == p \notin Handles

\* What handleJob looks at before it works: its type, then the marker.
Skips(p) == p \notin Handles \/ p \in marked

\* Mutant: the marker is written before the work.
TakeMutant(p, h) ==
  /\ job[p].state = "waiting"
  /\ handler[p][h] = "idle"
  /\ IF Skips(p)
       THEN job' = Finish(p, "done") /\ UNCHANGED <<handler, marked>>
       ELSE /\ job' = [job EXCEPT ![p].state = "active", ![p].owner = h]
            /\ handler' = [handler EXCEPT ![p][h] = "processing"]
            /\ marked' = marked \cup {p}
  /\ UNCHANGED <<handled, counted>>

Take(p, h) ==
  /\ job[p].state = "waiting"
  /\ handler[p][h] = "idle"
  /\ IF Skips(p)
       THEN job' = Finish(p, "done") /\ UNCHANGED handler
       ELSE /\ job' = [job EXCEPT ![p].state = "active", ![p].owner = h]
            /\ handler' = [handler EXCEPT ![p][h] = "processing"]
  /\ UNCHANGED <<marked, handled, counted>>

ProcessDone(p, h) ==
  /\ handler[p][h] = "processing"
  /\ handled' = [handled EXCEPT ![p] = IF @ = 2 THEN 2 ELSE @ + 1]
  /\ handler' = [handler EXCEPT ![p][h] = "marking"]
  /\ UNCHANGED <<job, marked, counted>>

\* BullMQ tries a job again until its attempts are used up.
LastTry(p) == job[p].tries + 1 >= Attempts

\* Mutant: the try that has just failed is not among those made.
ExhaustedMutant(p) == job[p].tries >= Attempts

\* What handleFailure takes for a lost event, the failed try included.
Exhausted(p) == job[p].tries + 1 >= Attempts

\* process() threw: the job is tried again, or is kept as failed and counted.
ProcessFailed(p, h) ==
  /\ handler[p][h] = "processing"
  /\ Ends(p, h, [Finish(p, IF LastTry(p) THEN "failed" ELSE "waiting") EXCEPT ![p].tries = @ + 1])
  /\ counted' = IF job[p].owner = h /\ Exhausted(p) THEN counted \cup {p} ELSE counted
  /\ UNCHANGED <<marked, handled>>

\* The marker is written, or its failure is only logged.
Mark(p, h, ok) ==
  /\ handler[p][h] = "marking"
  /\ marked' = IF ok THEN marked \cup {p} ELSE marked
  /\ handler' = [handler EXCEPT ![p][h] = "returning"]
  /\ UNCHANGED <<job, handled, counted>>

\* handleJob returned: the job completes.
Return(p, h) ==
  /\ handler[p][h] = "returning"
  /\ Ends(p, h, Finish(p, "done"))
  /\ UNCHANGED <<marked, handled, counted>>

\* The lock is lost: the job waits again, or is failed when it stalled too often.
\* The call that had it dies with its process or goes on without the lock.
Stall(p) ==
  /\ job[p].state = "active"
  /\ IF job[p].stalls < MaxStalls
       THEN job' = [Finish(p, "waiting") EXCEPT ![p].stalls = @ + 1]
       ELSE job' = Finish(p, "stalled")
  /\ \/ handler' = [handler EXCEPT ![p][job[p].owner] = "idle"]
     \/ UNCHANGED handler
  /\ UNCHANGED <<marked, handled, counted>>

Consume(p) ==
  \/ \E h \in Handlers : \/ Take(p, h)
                         \/ ProcessDone(p, h)
                         \/ ProcessFailed(p, h)
                         \/ Mark(p, h, TRUE)
                         \/ RedisFails /\ Mark(p, h, FALSE)
                         \/ Return(p, h)
  \/ Stall(p)

-----------------------------------------------------------------------------
\* "An event that failed its LAST attempt is lost for good" and is counted
\* (consumer.ts 28-32, 156-174).  Whatever fails and stalls: a job that completed
\* did its work or was none of the consumer's; a job that failed its last attempt
\* is counted, and one is counted only then, with all its attempts made.  A job
\* that stalled too often is in neither case (see LossIsCounted).
GivenIsAccountedFor ==
  \A p \in Pairs :
    /\ job[p].state = "done" => p \notin Handles \/ handled[p] > 0
    /\ job[p].state = "failed" => p \in counted
    /\ p \in counted => job[p].state = "failed" /\ job[p].tries = Attempts

\* A marker stands only for work that was done (consumer.ts 132-145).
MarkerIsEarned == \A p \in marked : handled[p] > 0

\* "Already processed, skipping" (consumer.ts 126-130): an event the repeater
\* sends again after its job completed and was removed, and a job tried again
\* after failures, are handled once.  With a stall between the work and its
\* marker the code does not keep it: the job is given to another call.
HandledOnce == \A p \in Pairs : handled[p] <= 1

\* No event is lost without being counted.  The code does not keep it: a job
\* BullMQ fails for its stalls has attempts left, and handleFailure counts only a
\* job that has none (consumer.ts 160).
LossIsCounted ==
  \A p \in Pairs : job[p].state \in {"failed", "stalled"} => p \in counted
=============================================================================

---------------------------- MODULE StepDeadlines ----------------------------
(***************************************************************************)
(* Deadlines of workflow steps (apps/api lib/stepDeadlines.ts).  Every     *)
(* minute a pass looks for tickets that sit in a step with a deadline,     *)
(* claims the execution of each one that is due, reads everything again,   *)
(* writes the fields of the deadline, moves the ticket through the         *)
(* pipeline and records the outcome on the execution.  Passes overlap: the *)
(* worker runs five jobs of a tenant at a time, in several processes.      *)
(*                                                                         *)
(* The pipeline appears at its commit, where TicketTransition shows that   *)
(* the step read is still the current one; what the other paths do is a    *)
(* move along an arc.  One ticket: a pass holds one candidate at a time.   *)
(*                                                                         *)
(* Time is what the code compares: whether the open visit is due, whether  *)
(* an hour has passed since a refusal, whether a claim is older than ten   *)
(* minutes.                                                                *)
(***************************************************************************)
EXTENDS WorkflowGraph, Sequences

CONSTANTS DeadlineSteps, \* the steps that may have a deadline
          Target,        \* the step each deadline moves to
          Passes,        \* passes of the tenant that may run at once
          SlowPasses,    \* a pass may take longer than ten minutes
          Failing,       \* those whose process may stop and whose queries may fail
          MaxVisits      \* bound: executions in the history of the ticket

\* assertDefinitionDeadlines: a deadline follows an arc that leaves its step.
ASSUME DeadlineAssumption ==
  /\ DeadlineSteps \subseteq Steps
  /\ Target \in [DeadlineSteps -> Steps]
  /\ \A s \in DeadlineSteps : Target[s] # s /\ Candidates(s, Target[s]) # {}
  /\ SlowPasses \in BOOLEAN
  /\ Failing \subseteq Passes
  /\ MaxVisits \in Nat \ {0}

VARIABLES
  history,  \* the executions in order of entry; the last one is open
  armed,    \* the steps whose deadline is set
  due,      \* the deadline of the open visit is over
  mark,     \* deadline_outcome, deadline_retry_at and the age of the claim, per visit
  pass,     \* what each pass is doing
  refusal   \* the timer of a wait was refused and has yet to write it

ticketVars == <<history, armed, due>>
vars == <<ticketVars, mark, pass, refusal>>

-----------------------------------------------------------------------------
Visits == 1..MaxVisits

\* by is the visit whose deadline made the move, 0 for any other path.
Execution == [step: Steps, by: Nat]

\* retry is deadline_retry_at: absent, in the future, or reached.
Mark == [outcome: {"none", "running", "refused", "failed", "moved"},
         retry: {"none", "later", "now"}, stale: BOOLEAN]
Unmarked == [outcome |-> "none", retry |-> "none", stale |-> FALSE]

Phases == {"idle", "found", "claimed", "release", "read", "arc", "checked", "written",
           "moved", "refused", "failed"}

\* The candidate of a pass: its visit, the outcome it was read with, and
\* whether the pass has claimed it.
Pass == [pc: Phases, visit: 0..MaxVisits, previous: {"none", "running", "refused", "failed"},
         claimed: BOOLEAN]
Idle == [pc |-> "idle", visit |-> 0, previous |-> "none", claimed |-> FALSE]

Open == Len(history)
Current == history[Open].step

\* The types of the ticket, of the marks and of the passes
\* (stepDeadlines.ts 67-84).
DeadlinesTypeOK ==
  /\ history \in Seq(Execution) /\ Open \in Visits
  /\ armed \subseteq DeadlineSteps
  /\ due \in BOOLEAN
  /\ mark \in [Visits -> Mark]
  /\ pass \in [Passes -> Pass]
  /\ refusal \in BOOLEAN

Init ==
  /\ history = <<[step |-> Initial, by |-> 0]>>
  /\ armed = DeadlineSteps
  /\ due = FALSE
  /\ mark = [v \in Visits |-> Unmarked]
  /\ pass = [p \in Passes |-> Idle]
  /\ refusal = FALSE

-----------------------------------------------------------------------------
(* The ticket, the designer and the clock. *)

Enter(step, by) ==
  /\ Open < MaxVisits
  /\ history' = Append(history, [step |-> step, by |-> by])
  /\ due' = FALSE
  /\ UNCHANGED armed

\* A person, a rule, a timer: any other path moves the ticket along an arc.
OtherMove(a) ==
  /\ a.from = Current
  /\ Enter(a.to, 0)
  /\ UNCHANGED <<mark, pass, refusal>>

\* The deadline of a step is removed in the designer (the other edits are not
\* modelled).
RemoveDeadline(s) ==
  /\ s \in armed
  /\ armed' = armed \ {s}
  /\ UNCHANGED <<history, due, mark, pass, refusal>>

DeadlinePasses ==
  /\ Current \in DeadlineSteps /\ ~due
  /\ due' = TRUE
  /\ UNCHANGED <<history, armed, mark, pass, refusal>>

AtWork(p, v) == pass[p].claimed /\ pass[p].visit = v

\* A pass ends before its claim is ten minutes old, and so does the worker of a
\* timer, unless they are slow.
TimeIsUp(v) == SlowPasses \/ ~(refusal \/ \E p \in Passes : AtWork(p, v))

\* Only the open visit can be claimed: the dates of the others do not matter.
RetryComes ==
  /\ mark[Open].retry = "later" /\ TimeIsUp(Open)
  /\ mark' = [mark EXCEPT ![Open].retry = "now"]
  /\ UNCHANGED <<ticketVars, pass, refusal>>

ClaimAges ==
  /\ mark[Open].outcome = "running" /\ ~mark[Open].stale /\ TimeIsUp(Open)
  /\ mark' = [mark EXCEPT ![Open].stale = TRUE]
  /\ UNCHANGED <<ticketVars, pass, refusal>>

\* A timer of a wait is refused by a guard (WaitTimers) and its worker writes
\* that on the execution open by then, leaving the retry date as it is.
TimerIsRefused ==
  /\ ~refusal
  /\ \E v \in 1..Open : history[v].step \in WaitSteps
  /\ WaitTargets(Current) # {}
  /\ refusal' = TRUE
  /\ UNCHANGED <<ticketVars, mark, pass>>

WriteTimerRefusal ==
  /\ refusal
  /\ mark' = [mark EXCEPT ![Open].outcome = "refused", ![Open].stale = FALSE]
  /\ refusal' = FALSE
  /\ UNCHANGED <<ticketVars, pass>>

-----------------------------------------------------------------------------
(* A pass, for one candidate. *)

\* Mutant: a claim is taken whatever the execution carries.
ClaimableMutantAny(v) == mark[v].outcome # "moved"

\* Mutant: the claim of a pass that stopped is nobody's for ever.
ClaimableMutantNever(v) ==
  \/ mark[v].outcome = "none"
  \/ mark[v].outcome \in {"refused", "failed"} /\ mark[v].retry = "now"

Claimable(v) ==
  \/ mark[v].outcome = "none"
  \/ mark[v].outcome \in {"refused", "failed"} /\ mark[v].retry = "now"
  \/ mark[v].outcome = "running" /\ mark[v].stale

Go(p, pc) == pass' = [pass EXCEPT ![p].pc = pc]
Ends(p) == pass' = [pass EXCEPT ![p] = Idle]

\* stepDeadlineCandidates, and the ones that are due; a deadline or a calendar
\* that cannot be read is recorded as failed, without a claim.
FindDue(p) ==
  /\ pass[p].pc = "idle"
  /\ Current \in armed /\ Claimable(Open)
  /\ LET found(pc) == [pc |-> pc, visit |-> Open, previous |-> mark[Open].outcome, claimed |-> FALSE]
     IN \/ due /\ pass' = [pass EXCEPT ![p] = found("found")]
        \/ p \in Failing /\ pass' = [pass EXCEPT ![p] = found("failed")]
  /\ UNCHANGED <<ticketVars, mark, refusal>>

\* The claim, in one write; its date is the start of the pass.
Claim(p) ==
  LET v == pass[p].visit
  IN /\ pass[p].pc = "found"
     /\ v = Open /\ Claimable(v)
     /\ \E stale \in {FALSE, SlowPasses} :
          mark' = [mark EXCEPT ![v].outcome = "running", ![v].stale = stale]
     /\ pass' = [pass EXCEPT ![p].pc = "claimed", ![p].claimed = TRUE]
     /\ UNCHANGED <<ticketVars, refusal>>

ClaimRefused(p) ==
  /\ pass[p].pc = "found"
  /\ ~(pass[p].visit = Open /\ Claimable(pass[p].visit))
  /\ Ends(p)
  /\ UNCHANGED <<ticketVars, mark, refusal>>

From(p) == history[pass[p].visit].step
To(p) == Target[From(p)]

\* The step, by name, and its deadline are read again; the earlier outcome
\* serves a release only.
Reread(p) ==
  /\ pass[p].pc = "claimed"
  /\ IF Current = From(p) /\ Current \in armed
       THEN pass' = [pass EXCEPT ![p].pc = "read", ![p].previous = "none"]
       ELSE Go(p, "release")
  /\ UNCHANGED <<ticketVars, mark, refusal>>

\* Mutant: a released execution is recorded as skipped.
ReleasedMutant(previous) == "skipped"

\* The outcome a released execution goes back to.
Released(previous) == IF previous = "running" THEN "none" ELSE previous

ReleaseClaim(p) ==
  /\ pass[p].pc = "release"
  /\ mark' = [mark EXCEPT ![pass[p].visit].outcome =
                IF @ = "running" THEN Released(pass[p].previous) ELSE @]
  /\ Ends(p)
  /\ UNCHANGED <<ticketVars, refusal>>

\* Without an arc from the step the ticket is in now, the deadline failed.
FindArc(p) ==
  /\ pass[p].pc = "read"
  /\ Go(p, IF Candidates(Current, To(p)) = {} THEN "failed" ELSE "arc")
  /\ UNCHANGED <<ticketVars, mark, refusal>>

\* checkTicketTransition: the guards may answer either way.
CheckGuards(p) ==
  /\ pass[p].pc = "arc"
  /\ Go(p, "checked") \/ Go(p, "refused")
  /\ UNCHANGED <<ticketVars, mark, refusal>>

\* The values are validated and the fields written, before the move.
WriteFields(p) ==
  /\ pass[p].pc = "checked"
  /\ \/ Go(p, "written")
     \/ p \in Failing /\ Go(p, "failed")
  /\ UNCHANGED <<ticketVars, mark, refusal>>

\* transitionTicket, from the step the ticket is in at its commit.
Move(p) ==
  /\ pass[p].pc = "written"
  /\ Candidates(Current, To(p)) # {}
  /\ Enter(To(p), pass[p].visit)
  /\ Go(p, "moved")
  /\ UNCHANGED <<mark, refusal>>

\* Mutant: a move that was refused is taken for a move.
NotMovedMutant(p) ==
  /\ pass[p].pc = "written"
  /\ Go(p, "moved")
  /\ UNCHANGED <<ticketVars, mark, refusal>>

\* A guard that changed, the condition of the arc, a lost race, no arc.
NotMoved(p) ==
  /\ pass[p].pc = "written"
  /\ Go(p, "refused") \/ Go(p, "failed")
  /\ UNCHANGED <<ticketVars, mark, refusal>>

RetryAfter(outcome) == IF outcome = "moved" THEN "none" ELSE "later"

\* recordOutcome: by the id of the execution, whatever it carries by then.
RecordOutcome(p) ==
  LET outcome == pass[p].pc
  IN /\ outcome \in {"moved", "refused", "failed"}
     /\ mark' = [mark EXCEPT ![pass[p].visit] =
                   [outcome |-> outcome, retry |-> RetryAfter(outcome), stale |-> FALSE]]
     /\ Ends(p)
     /\ UNCHANGED <<ticketVars, refusal>>

\* An await throws: the outcome is failed, also when the ticket has moved.
Throws(p) ==
  /\ p \in Failing
  /\ pass[p].pc \notin {"idle", "failed"}
  /\ Go(p, "failed")
  /\ UNCHANGED <<ticketVars, mark, refusal>>

\* The process stops, or the outcome cannot be written.
Stops(p) ==
  /\ p \in Failing
  /\ pass[p].pc # "idle"
  /\ Ends(p)
  /\ UNCHANGED <<ticketVars, mark, refusal>>

PassStep(p) ==
  \/ Claim(p) \/ ClaimRefused(p) \/ Reread(p) \/ ReleaseClaim(p) \/ FindArc(p)
  \/ CheckGuards(p) \/ WriteFields(p) \/ Move(p) \/ NotMoved(p) \/ RecordOutcome(p)

Next ==
  \/ \E a \in Arcs : OtherMove(a)
  \/ \E s \in DeadlineSteps : RemoveDeadline(s)
  \/ DeadlinePasses
  \/ RetryComes
  \/ ClaimAges
  \/ TimerIsRefused
  \/ WriteTimerRefusal
  \/ \E p \in Passes : FindDue(p) \/ PassStep(p) \/ Throws(p) \/ Stops(p)

Spec == Init /\ [][Next]_vars

\* The hour and the ten minutes pass, and a pass that began goes on or stops.
\* Again and again a pass in which nothing fails begins; the guards let it
\* through again and again, not always.
LetThrough(p) == CheckGuards(p) /\ pass'[p].pc = "checked"

Fairness ==
  /\ WF_vars(RetryComes) /\ WF_vars(ClaimAges) /\ WF_vars(WriteTimerRefusal)
  /\ \A p \in Passes : WF_vars(PassStep(p))
  /\ \A p \in Passes \ Failing : SF_vars(FindDue(p)) /\ SF_vars(Claim(p)) /\ SF_vars(LetThrough(p)) /\ SF_vars(Move(p))

FairSpec == Spec /\ Fairness

-----------------------------------------------------------------------------
(***************************************************************************)
(* Properties.                                                             *)
(***************************************************************************)

\* What the execution says happened did happen: moved is written only on a
\* visit that is over, and its deadline has brought the ticket to its target
\* after it.
MovedIsTrue ==
  \A v \in Visits :
    mark[v].outcome = "moved" =>
      \E w \in v + 1 .. Open : history[w].by = v /\ history[w].step = Target[history[v].step]

\* "Two passes do not run it twice" (fireStepDeadline): the deadline of a visit
\* moves the ticket at most once, through claims left by passes that stopped
\* and visits that come back to the step.
MovesOnce ==
  \A w, x \in 1..Open : history[w].by # 0 /\ history[w].by = history[x].by => w = x

\* At most one pass is at work on a visit.
OnePassAtWork ==
  \A p, q \in Passes : \A v \in Visits : AtWork(p, v) /\ AtWork(q, v) => p = q

\* "A refusal or a failure is tried again every hour" (the header of
\* stepDeadlines.ts): the execution in which the ticket sits never carries a
\* refusal without the date of the next attempt.  The code does not keep it where
\* the step is also a timed wait (MCWaitArcs, review in WaitSteps): the refusal of
\* the timer is written without a date.
RefusalIsRetried == mark[Open].outcome \in {"refused", "failed"} => mark[Open].retry # "none"

\* A deadline that is due in the end moves the ticket, unless another path does,
\* it is removed, or a timer's refusal took away its date (RefusalIsRetried): no
\* refusal, failure or stopped pass keeps it for ever (below the bound on visits).
DeadlineIsKept ==
  (due /\ Open < MaxVisits) ~> (~due \/ Current \notin armed \/ ~RefusalIsRetried)
=============================================================================

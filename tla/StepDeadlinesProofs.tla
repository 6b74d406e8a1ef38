------------------------- MODULE StepDeadlinesProofs -------------------------
(***************************************************************************)
(* StepDeadlines proved for any definition, passes and number of visits.   *)
(* That an outcome is true holds whatever passes do.  That a deadline runs *)
(* once holds of passes that end within ten minutes, where no step with a  *)
(* deadline is left by a timer: the refusal of a timer takes the claim     *)
(* away from the pass at work.                                             *)
(***************************************************************************)
EXTENDS StepDeadlines, TLAPS

\* The ticket's visits grow at their end only, and with them what was moved.
Grows ==
  /\ Open <= Open' /\ Open' \in Visits
  /\ \A v \in 1..Open : history'[v] = history[v]

LEMMA EntersOne ==
  ASSUME DeadlinesTypeOK, NEW step \in Steps, NEW by \in Nat, Enter(step, by)
  PROVE  /\ history' \in Seq(Execution)
         /\ Grows /\ Open' = Open + 1
         /\ history'[Open + 1] = [step |-> step, by |-> by]
         /\ due' = FALSE /\ armed' = armed
<1> DEFINE e == [step |-> step, by |-> by]
<1>1. e \in Execution
  BY DEF Execution
<1>2. history \in Seq(Execution) /\ history' = Append(history, e) /\ Open < MaxVisits
  BY DEF DeadlinesTypeOK, Enter
<1> HIDE DEF e
<1>3. /\ history' \in Seq(Execution) /\ Len(history') = Len(history) + 1
      /\ history'[Len(history) + 1] = e
      /\ \A v \in 1..Len(history) : history'[v] = history[v]
  BY <1>1, <1>2
<1> QED BY <1>2, <1>3, DeadlineAssumption DEF Grows, Open, Visits, Enter, DeadlinesTypeOK, e

\* Both ways a ticket enters a step.
LEMMA MovesEnter ==
  ASSUME DeadlinesTypeOK
  PROVE  /\ \A a \in Arcs : OtherMove(a) => Enter(a.to, 0) /\ a.to \in Steps
         /\ \A p \in Passes : Move(p) => /\ Enter(To(p), pass[p].visit)
                                         /\ To(p) \in Steps /\ pass[p].visit \in Nat
<1>1. \A a \in Arcs : a.to \in Steps
  BY GraphAssumption DEF ArcType
<1>2. \A p \in Passes : Move(p) => To(p) \in Steps
  BY <1>1 DEF Move, Candidates
<1>3. \A p \in Passes : pass[p].visit \in Nat
  BY DeadlineAssumption DEF DeadlinesTypeOK, Pass
<1> QED BY <1>1, <1>2, <1>3 DEF OtherMove, Move

-----------------------------------------------------------------------------
(***************************************************************************)
(* Types.                                                                  *)
(***************************************************************************)
LEMMA GoesType ==
  ASSUME DeadlinesTypeOK, NEW p \in Passes
  PROVE  /\ \A pc \in Phases : Go(p, pc) => pass' \in [Passes -> Pass]
         /\ Ends(p) => pass' \in [Passes -> Pass]
<1>1. Idle \in Pass
  BY DeadlineAssumption DEF Idle, Pass, Phases
<1>2. pass \in [Passes -> Pass] /\ pass[p] \in Pass
  BY DEF DeadlinesTypeOK
<1>3. \A pc \in Phases : [pass[p] EXCEPT !.pc = pc] \in Pass
  BY <1>2 DEF Pass
<1> QED BY <1>1, <1>2, <1>3 DEF Go, Ends

LEMMA FindsType ==
  ASSUME DeadlinesTypeOK, NEW p \in Passes, FindDue(p)
  PROVE  pass' \in [Passes -> Pass]
<1>1. Open \in 0..MaxVisits /\ mark[Open].outcome \in {"none", "running", "refused", "failed"}
  BY DeadlineAssumption DEF DeadlinesTypeOK, FindDue, Claimable, Visits
<1>2. \A pc \in Phases :
        [pc |-> pc, visit |-> Open, previous |-> mark[Open].outcome, claimed |-> FALSE] \in Pass
  BY <1>1 DEF Pass
<1>3. \E pc \in Phases : pass' = [pass EXCEPT ![p] =
        [pc |-> pc, visit |-> Open, previous |-> mark[Open].outcome, claimed |-> FALSE]]
  BY DEF FindDue, Phases
<1> QED BY <1>2, <1>3 DEF DeadlinesTypeOK

LEMMA StepTypes == ASSUME DeadlinesTypeOK, [Next]_vars PROVE DeadlinesTypeOK'
<1> USE DEF DeadlinesTypeOK
<1> DEFINE TicketKept == UNCHANGED ticketVars
           HistoryOK == history' \in Seq(Execution) /\ Open' \in Visits /\ armed' \subseteq DeadlineSteps /\ due' \in BOOLEAN
<1>1. TicketKept => HistoryOK
  BY DEF ticketVars, Open
<1>2. \A step \in Steps, by \in Nat : Enter(step, by) => HistoryOK
  BY EntersOne DEF Grows
<1>3. \A v \in Visits : mark[v] \in Mark
  OBVIOUS
<1>o. Open \in Visits
  OBVIOUS
<1>4. ASSUME NEW a \in Arcs, OtherMove(a) PROVE DeadlinesTypeOK'
  <2>1. HistoryOK
    BY <1>2, <1>4, MovesEnter
  <2> QED BY <1>4, <2>1 DEF OtherMove, Open
<1>5. ASSUME NEW s \in DeadlineSteps, RemoveDeadline(s) PROVE DeadlinesTypeOK'
  BY <1>5 DEF RemoveDeadline, Open
<1>6. CASE DeadlinePasses
  BY <1>6 DEF DeadlinePasses, Open
<1>7. CASE RetryComes
  BY <1>1, <1>7, <1>o DEF RetryComes, Mark, Open
<1>8. CASE ClaimAges
  BY <1>1, <1>8, <1>o DEF ClaimAges, Mark, Open
<1>9. CASE TimerIsRefused
  BY <1>1, <1>9 DEF TimerIsRefused, Open
<1>10. CASE WriteTimerRefusal
  BY <1>1, <1>10, <1>o DEF WriteTimerRefusal, Mark, Open
<1>11. ASSUME NEW p \in Passes, FindDue(p) PROVE DeadlinesTypeOK'
  BY <1>1, <1>11, FindsType DEF FindDue, Open
<1>12. ASSUME NEW p \in Passes, PassStep(p) \/ Throws(p) \/ Stops(p) PROVE DeadlinesTypeOK'
  <2> USE <1>1, GoesType DEF Open
  <2>1. CASE Claim(p)
    <3>1. [pass[p] EXCEPT !.pc = "claimed", !.claimed = TRUE] \in Pass
      BY DEF Pass, Phases
    <3>2. pass' = [pass EXCEPT ![p] = [pass[p] EXCEPT !.pc = "claimed", !.claimed = TRUE]]
      BY <2>1 DEF Claim
    <3>3. pass[p].visit \in Visits
      BY <2>1, <1>o DEF Claim
    <3>4. PICK stale \in BOOLEAN :
            mark' = [mark EXCEPT ![pass[p].visit].outcome = "running", ![pass[p].visit].stale = stale]
      BY <2>1, DeadlineAssumption DEF Claim
    <3>5. [mark[pass[p].visit] EXCEPT !.outcome = "running", !.stale = stale] \in Mark
      BY <1>3, <3>3 DEF Mark
    <3>6. mark' = [mark EXCEPT ![pass[p].visit] = [mark[pass[p].visit] EXCEPT !.outcome = "running", !.stale = stale]]
      BY <3>4
    <3>7. pass' \in [Passes -> Pass] /\ mark' \in [Visits -> Mark]
      BY <3>1, <3>2, <3>5, <3>6
    <3> QED BY <2>1, <3>7 DEF Claim
  <2>2. CASE ClaimRefused(p)
    BY <2>2 DEF ClaimRefused
  <2>3. CASE Reread(p)
    <3>1. [pass[p] EXCEPT !.pc = "read", !.previous = "none"] \in Pass
      BY DEF Pass, Phases
    <3>2. \/ pass' = [pass EXCEPT ![p] = [pass[p] EXCEPT !.pc = "read", !.previous = "none"]]
          \/ Go(p, "release")
      BY <2>3 DEF Reread
    <3> QED BY <2>3, <3>1, <3>2 DEF Reread, Phases
  <2>4. CASE ReleaseClaim(p)
    <3>1. Released(pass[p].previous) \in {"none", "refused", "failed"}
      BY DEF Released, Pass
    <3>2. mark' \in [Visits -> Mark]
      BY <2>4, <3>1 DEF ReleaseClaim, Mark
    <3> QED BY <2>4, <3>2 DEF ReleaseClaim
  <2>5. CASE FindArc(p)
    BY <2>5 DEF FindArc, Phases
  <2>6. CASE CheckGuards(p)
    BY <2>6 DEF CheckGuards, Phases
  <2>7. CASE WriteFields(p)
    BY <2>7 DEF WriteFields, Phases
  <2>8. CASE Move(p)
    <3>1. HistoryOK
      BY <1>2, <2>8, MovesEnter
    <3> QED BY <2>8, <3>1 DEF Move, Phases
  <2>9. CASE NotMoved(p)
    BY <2>9 DEF NotMoved, Phases
  <2>10. CASE RecordOutcome(p)
    <3>1. mark' \in [Visits -> Mark]
      BY <2>10 DEF RecordOutcome, RetryAfter, Mark
    <3> QED BY <2>10, <3>1 DEF RecordOutcome
  <2>11. CASE Throws(p)
    BY <2>11 DEF Throws, Phases
  <2>12. CASE Stops(p)
    BY <2>12 DEF Stops
  <2> QED BY <1>12, <2>1, <2>2, <2>3, <2>4, <2>5, <2>6, <2>7, <2>8, <2>9, <2>10, <2>11, <2>12 DEF PassStep
<1>13. CASE UNCHANGED vars
  BY <1>1, <1>13 DEF vars, Open
<1> QED BY <1>4, <1>5, <1>6, <1>7, <1>8, <1>9, <1>10, <1>11, <1>12, <1>13 DEF Next

LEMMA InitTypes == Init => DeadlinesTypeOK
<1>1. [step |-> Initial, by |-> 0] \in Execution
  BY GraphAssumption DEF Execution
<1>2. <<[step |-> Initial, by |-> 0]>> \in Seq(Execution) /\ Len(<<[step |-> Initial, by |-> 0]>>) = 1
  BY <1>1
<1>3. Idle \in Pass /\ Unmarked \in Mark
  BY DeadlineAssumption DEF Idle, Pass, Phases, Unmarked, Mark
<1>4. ASSUME Init PROVE Open \in Visits
  BY <1>2, <1>4, DeadlineAssumption DEF Init, Open, Visits
<1> QED BY <1>2, <1>3, <1>4 DEF Init, DeadlinesTypeOK

\* A deadline's passes keep the types of stepDeadlines.ts.
THEOREM TypesHold == Spec => []DeadlinesTypeOK
<1>1. Init => DeadlinesTypeOK
  BY InitTypes
<1>2. DeadlinesTypeOK /\ [Next]_vars => DeadlinesTypeOK'
  BY StepTypes
<1> QED BY <1>1, <1>2, PTL DEF Spec
-----------------------------------------------------------------------------
(***************************************************************************)
(* What a step does to a pass, to the visits and to the outcomes.          *)
(***************************************************************************)
UnderWay == {"claimed", "read", "arc", "checked", "written"}

\* A pass stays, ends, finds its candidate, claims it, goes on with it, or fails.
PassMoves(q) ==
  \/ pass'[q] = pass[q]
  \/ pass'[q] = Idle
  \/ pass'[q].visit = Open /\ Current \in armed /\ ~pass'[q].claimed /\ pass'[q].pc \in {"found", "failed"}
  \/ Claim(q) /\ pass'[q].visit = pass[q].visit /\ pass'[q].claimed /\ pass'[q].pc = "claimed"
  \/ /\ pass'[q].visit = pass[q].visit /\ pass'[q].claimed = pass[q].claimed
     /\ pass[q].pc \in UnderWay /\ pass'[q].pc \notin {"idle", "found"}
     /\ pass'[q].pc = "moved" => Move(q)
  \/ /\ pass'[q].visit = pass[q].visit /\ pass'[q].claimed = pass[q].claimed
     /\ pass[q].pc # "idle" /\ pass'[q].pc = "failed"

LEMMA PassesMove ==
  ASSUME DeadlinesTypeOK, [Next]_vars
  PROVE  \A q \in Passes : PassMoves(q)
<1>1. \A q \in Passes : pass[q] \in Pass
  BY DEF DeadlinesTypeOK
<1>2. ASSUME UNCHANGED pass PROVE \A q \in Passes : PassMoves(q)
  BY <1>2 DEF PassMoves
<1>3. ASSUME NEW p \in Passes, FindDue(p) PROVE \A q \in Passes : PassMoves(q)
  BY <1>3 DEF FindDue, PassMoves, DeadlinesTypeOK
<1>4. ASSUME NEW p \in Passes, PassStep(p) \/ Throws(p) \/ Stops(p) PROVE \A q \in Passes : PassMoves(q)
  <2>0. pass \in [Passes -> Pass]
    BY DEF DeadlinesTypeOK
  <2>1. \A q \in Passes : q # p => pass'[q] = pass[q]
    BY <1>4, <2>0 DEF PassStep, Throws, Stops, Claim, ClaimRefused, Reread, ReleaseClaim, FindArc, CheckGuards,
                      WriteFields, Move, NotMoved, RecordOutcome, Go, Ends
  <2>2. Ends(p) => pass'[p] = Idle
    BY <2>0 DEF Ends
  <2>3. \A pc \in Phases : Go(p, pc) => /\ pass'[p].visit = pass[p].visit /\ pass'[p].claimed = pass[p].claimed
                                        /\ pass'[p].pc = pc
    BY <2>0 DEF Go, Pass
  <2>4. PassMoves(p)
    <3>1. CASE Claim(p)
      BY <3>1, <2>0 DEF Claim, PassMoves, Pass
    <3>2. CASE ClaimRefused(p) \/ ReleaseClaim(p) \/ RecordOutcome(p) \/ Stops(p)
      BY <3>2, <2>2 DEF ClaimRefused, ReleaseClaim, RecordOutcome, Stops, PassMoves
    <3>3. CASE Reread(p)
      <4>1. pass[p].pc \in UnderWay
        BY <3>3 DEF Reread, UnderWay
      <4>2. CASE Go(p, "release")
        BY <4>1, <4>2, <2>3 DEF PassMoves, Phases
      <4>3. CASE pass' = [pass EXCEPT ![p].pc = "read", ![p].previous = "none"]
        BY <4>1, <4>3, <2>0 DEF PassMoves, Pass
      <4> QED BY <3>3, <4>2, <4>3 DEF Reread
    <3>4. CASE FindArc(p) \/ CheckGuards(p) \/ WriteFields(p) \/ Move(p) \/ NotMoved(p)
      <4>1. pass[p].pc \in UnderWay
        BY <3>4 DEF FindArc, CheckGuards, WriteFields, Move, NotMoved, UnderWay
      <4>2. CASE Move(p)
        BY <4>1, <4>2, <2>3 DEF Move, PassMoves, Phases
      <4>3. CASE \E pc \in {"failed", "arc", "checked", "refused", "written"} : Go(p, pc)
        BY <4>1, <4>3, <2>3 DEF PassMoves, Phases
      <4> QED BY <3>4, <4>2, <4>3 DEF FindArc, CheckGuards, WriteFields, NotMoved
    <3>5. CASE Throws(p)
      BY <3>5, <2>3 DEF Throws, PassMoves, Phases
    <3> QED BY <1>4, <3>1, <3>2, <3>3, <3>4, <3>5 DEF PassStep
  <2>5. \A q \in Passes : q # p => PassMoves(q)
    BY <2>1 DEF PassMoves
  <2> QED BY <2>4, <2>5
<1> QED BY <1>2, <1>3, <1>4
     DEF Next, vars, OtherMove, RemoveDeadline, DeadlinePasses, RetryComes, ClaimAges, TimerIsRefused, WriteTimerRefusal

\* The visits are what they were, or a path or a pass has moved the ticket.
LEMMA HistoryMoves ==
  ASSUME DeadlinesTypeOK, [Next]_vars
  PROVE  \/ history' = history
         \/ \E a \in Arcs : Enter(a.to, 0) /\ a.to \in Steps /\ UNCHANGED <<mark, pass>>
         \/ \E p \in Passes : Move(p) /\ Enter(To(p), pass[p].visit) /\ To(p) \in Steps /\ pass[p].visit \in Nat
<1>1. \A p \in Passes : FindDue(p) \/ (PassStep(p) /\ ~Move(p)) \/ Throws(p) \/ Stops(p) => history' = history
  BY DEF FindDue, PassStep, Throws, Stops, Claim, ClaimRefused, Reread, ReleaseClaim, FindArc, CheckGuards,
         WriteFields, NotMoved, RecordOutcome, ticketVars
<1>2. (\E s \in DeadlineSteps : RemoveDeadline(s)) \/ DeadlinePasses \/ RetryComes
        \/ ClaimAges \/ TimerIsRefused \/ WriteTimerRefusal \/ UNCHANGED vars
      => history' = history
  BY DEF RemoveDeadline, DeadlinePasses, RetryComes, ClaimAges, TimerIsRefused, WriteTimerRefusal, vars, ticketVars
<1>3. \A a \in Arcs : OtherMove(a) => Enter(a.to, 0) /\ a.to \in Steps /\ UNCHANGED <<mark, pass>>
  BY MovesEnter DEF OtherMove
<1> QED BY <1>1, <1>2, <1>3, MovesEnter DEF Next

LEMMA StepGrows == ASSUME DeadlinesTypeOK, [Next]_vars PROVE Grows
<1>1. CASE history' = history
  BY <1>1, DeadlineAssumption DEF Grows, Open, Visits, DeadlinesTypeOK
<1> QED BY <1>1, HistoryMoves, EntersOne, 0 \in Nat

-----------------------------------------------------------------------------
(***************************************************************************)
(* The outcome is true.                                                    *)
(***************************************************************************)
Happened(v) == \E w \in v + 1 .. Open : history[w].by = v /\ history[w].step = Target[history[v].step]

\* A pass's candidate is a visit there was, and the move it goes by was made.
PassesKnow ==
  \A p \in Passes : pass[p].pc # "idle" =>
    \E v \in 1..Open : pass[p].visit = v /\ (pass[p].pc = "moved" => Happened(v))

TrueInv == DeadlinesTypeOK /\ PassesKnow /\ MovedIsTrue

LEMMA HappenedStays ==
  ASSUME Open \in Nat, Grows, NEW v \in 1..Open, Happened(v)
  PROVE  Happened(v)'
<1>1. Open' \in Nat /\ Open <= Open'
  BY DeadlineAssumption DEF Grows, Visits
<1>2. PICK w \in v + 1 .. Open : history[w].by = v /\ history[w].step = Target[history[v].step]
  BY DEF Happened
<1>3. w \in 1..Open /\ w \in v + 1 .. Open'
  BY <1>1, <1>2
<1>4. history'[w] = history[w] /\ history'[v] = history[v]
  BY <1>3 DEF Grows
<1> QED BY <1>2, <1>3, <1>4 DEF Happened

\* Moved is written by a pass that has moved the ticket.
LEMMA MarksMove ==
  ASSUME DeadlinesTypeOK, [Next]_vars, NEW v \in Visits, mark'[v].outcome = "moved"
  PROVE  \/ mark[v].outcome = "moved"
         \/ \E p \in Passes : pass[p].pc = "moved" /\ pass[p].visit = v
<1>1. mark \in [Visits -> Mark] /\ pass \in [Passes -> Pass]
  BY DEF DeadlinesTypeOK
<1>2. CASE RetryComes \/ ClaimAges
  BY <1>1, <1>2 DEF RetryComes, ClaimAges, Mark
<1>3. CASE WriteTimerRefusal
  BY <1>1, <1>3 DEF WriteTimerRefusal, Mark
<1>4. ASSUME NEW p \in Passes, Claim(p) PROVE mark[v].outcome = "moved"
  BY <1>1, <1>4 DEF Claim, Mark
<1>5. ASSUME NEW p \in Passes, ReleaseClaim(p) PROVE mark[v].outcome = "moved"
  <2>1. Released(pass[p].previous) # "moved"
    BY <1>1 DEF Released, Pass
  <2> QED BY <1>1, <1>5, <2>1 DEF ReleaseClaim, Mark
<1>6. ASSUME NEW p \in Passes, RecordOutcome(p), mark[v].outcome # "moved"
      PROVE  pass[p].pc = "moved" /\ pass[p].visit = v
  BY <1>1, <1>6 DEF RecordOutcome, Mark
<1>7. CASE UNCHANGED mark
  BY <1>7
<1> QED
  BY <1>2, <1>3, <1>4, <1>5, <1>6, <1>7
     DEF Next, vars, OtherMove, RemoveDeadline, DeadlinePasses, TimerIsRefused, FindDue, PassStep, Throws, Stops,
         ClaimRefused, Reread, FindArc, CheckGuards, WriteFields, Move, NotMoved

LEMMA StepTrue == ASSUME TrueInv, [Next]_vars PROVE TrueInv'
<1> USE DEF TrueInv
<1>1. DeadlinesTypeOK' /\ Grows
  BY StepTypes, StepGrows
<1>2. Open \in Nat /\ Open >= 1 /\ Open' \in Nat /\ Open <= Open'
  BY <1>1, DeadlineAssumption DEF DeadlinesTypeOK, Grows, Visits
<1>3. ASSUME NEW q \in Passes, pass'[q].pc # "idle"
      PROVE  \E v \in 1..Open' : pass'[q].visit = v /\ (pass'[q].pc = "moved" => Happened(v)')
  <2>1. CASE pass'[q] = pass[q]
    <3>1. PICK v \in 1..Open : pass[q].visit = v /\ (pass[q].pc = "moved" => Happened(v))
      BY <1>3, <2>1 DEF PassesKnow
    <3>2. pass[q].pc = "moved" => Happened(v)'
      BY <1>1, <1>2, <3>1, HappenedStays
    <3> QED BY <1>2, <2>1, <3>1, <3>2
  <2>2. CASE pass'[q] = Idle
    BY <1>3, <2>2 DEF Idle
  <2>3. CASE pass'[q].visit = Open /\ pass'[q].pc \in {"found", "failed"}
    BY <1>2, <2>3
  <2>4. CASE /\ pass'[q].visit = pass[q].visit /\ pass[q].pc # "idle"
             /\ pass'[q].pc = "moved" => Move(q)
    <3>1. PICK v \in 1..Open : pass[q].visit = v
      BY <2>4 DEF PassesKnow
    <3>2. ASSUME Move(q) PROVE Happened(v)'
      <4>1. Enter(To(q), v) /\ To(q) \in Steps /\ v \in Nat
        BY <3>1, <3>2, MovesEnter
      <4>2. Open' = Open + 1 /\ history'[Open + 1] = [step |-> To(q), by |-> v]
        BY <4>1, EntersOne
      <4>3. history'[v] = history[v]
        BY <1>1 DEF Grows
      <4>4. To(q) = Target[history[v].step]
        BY <3>1 DEF To, From
      <4>5. Open + 1 \in v + 1 .. Open'
        BY <1>2, <4>2
      <4> QED BY <4>2, <4>3, <4>4, <4>5 DEF Happened
    <3> QED BY <1>2, <2>4, <3>1, <3>2
  <2> QED BY <2>1, <2>2, <2>3, <2>4, PassesMove DEF PassMoves, Claim, UnderWay
<1>4. ASSUME NEW v \in Visits, mark'[v].outcome = "moved" PROVE Happened(v)'
  <2>1. v \in Nat /\ v >= 1
    BY DeadlineAssumption DEF Visits
  <2>2. CASE mark[v].outcome = "moved"
    <3>1. Happened(v)
      BY <2>2 DEF MovedIsTrue, Happened
    <3>2. v \in 1..Open
      BY <1>2, <2>1, <3>1 DEF Happened
    <3> QED BY <1>1, <1>2, <3>1, <3>2, HappenedStays
  <2>3. ASSUME NEW p \in Passes, pass[p].pc = "moved", pass[p].visit = v PROVE Happened(v)'
    BY <1>1, <1>2, <2>3, HappenedStays DEF PassesKnow
  <2> QED BY <1>4, <2>2, <2>3, MarksMove
<1>5. PassesKnow'
  BY <1>3 DEF PassesKnow
<1>6. MovedIsTrue'
  BY <1>4 DEF MovedIsTrue, Happened
<1> QED BY <1>1, <1>5, <1>6

\* Whatever passes fail, stop or outlive their claim, an execution marked moved
\* was left by its deadline, for the target of its step.
THEOREM MovedHappened == Spec => []MovedIsTrue
<1>1. Init => PassesKnow /\ MovedIsTrue
  <2>1. ASSUME Init PROVE \A v \in Visits : mark[v].outcome = "none"
    BY <2>1 DEF Init, Unmarked
  <2>2. ASSUME Init PROVE \A p \in Passes : pass[p].pc = "idle"
    BY <2>2 DEF Init, Idle
  <2> QED BY <2>1, <2>2 DEF PassesKnow, MovedIsTrue
<1>2. TrueInv /\ [Next]_vars => TrueInv'
  BY StepTrue
<1>3. Spec => []TrueInv
  <2>1. Init /\ DeadlinesTypeOK => TrueInv
    BY <1>1 DEF TrueInv
  <2> QED BY <1>2, <2>1, TypesHold, PTL DEF Spec
<1> QED BY <1>3, PTL DEF TrueInv
-----------------------------------------------------------------------------
(***************************************************************************)
(* A deadline runs once.  While a pass is at work its visit cannot be      *)
(* claimed: the mark is a fresh claim, or an outcome whose retry has not   *)
(* come, and time does not pass for it.  A refusal that a timer has yet to *)
(* write meets no retry that has come.  A visit whose deadline has moved   *)
(* the ticket is over, and a pass at work on it has nothing left to do but *)
(* record it.                                                              *)
(***************************************************************************)
Prompt == ~SlowPasses /\ \A s \in DeadlineSteps : WaitTargets(s) = {}

Held(v) ==
  \/ mark[v].outcome = "running" /\ ~mark[v].stale
  \/ mark[v].outcome \in {"refused", "failed", "moved"} /\ mark[v].retry # "now"

PassesAtWork ==
  \A p \in Passes :
    /\ pass[p].pc # "idle" => \E v \in 1..Open : pass[p].visit = v /\ history[v].step \in DeadlineSteps
    /\ pass[p].claimed => pass[p].pc # "idle"
    /\ pass[p].pc \notin {"idle", "found", "failed"} => pass[p].claimed
    /\ AtWork(p, Open) => Held(Open)

FreshVisits == \A v \in Visits : v > Open => mark[v] = Unmarked

RefusalWaits == refusal /\ Current \in DeadlineSteps => mark[Open].retry # "now"

\* A visit that made a move is before it, and none is at work on it any more.
MoversAreDone ==
  \A w \in 1..Open : \A v \in Nat : history[w].by = v /\ v # 0 =>
    v < w /\ \A p \in Passes : AtWork(p, v) => pass[p].pc \in {"moved", "failed"}

WorkInv ==
  /\ DeadlinesTypeOK
  /\ PassesAtWork /\ OnePassAtWork
  /\ FreshVisits /\ RefusalWaits
  /\ MoversAreDone /\ MovesOnce

LEMMA HeldIsNotClaimable ==
  ASSUME NEW v, Held(v) PROVE ~Claimable(v)
BY DEF Held, Claimable

\* Only the open visit is claimed, and by one pass.
LEMMA ClaimsAlone ==
  ASSUME WorkInv, NEW p \in Passes, Claim(p)
  PROVE  pass[p].visit = Open /\ \A q \in Passes : ~AtWork(q, Open)
BY HeldIsNotClaimable DEF WorkInv, PassesAtWork, Claim

\* Being at work goes on as it was, or begins with a claim.
LEMMA WorkGoesOn ==
  ASSUME WorkInv, [Next]_vars, NEW q \in Passes, NEW v \in Nat, AtWork(q, v)'
  PROVE  \/ /\ AtWork(q, v)
            /\ \/ pass'[q] = pass[q]
               \/ pass[q].pc \in UnderWay /\ (pass'[q].pc = "moved" => Move(q))
               \/ pass'[q].pc = "failed"
         \/ Claim(q) /\ v = Open
<1>1. PassMoves(q)
  BY PassesMove DEF WorkInv
<1>2. pass'[q] # Idle
  BY DEF AtWork, Idle
<1>3. Claim(q) => pass[q].visit = Open
  BY ClaimsAlone
<1> QED BY <1>1, <1>2, <1>3 DEF PassMoves, AtWork

\* At most one pass is at work on a visit after a step.
LEMMA StepAlone == ASSUME WorkInv, [Next]_vars PROVE OnePassAtWork'
<1>1. SUFFICES ASSUME NEW p \in Passes, NEW q \in Passes, NEW v \in Visits,
                      AtWork(p, v)', AtWork(q, v)'
               PROVE  p = q
  BY DEF OnePassAtWork
<1>2. v \in Nat
  BY DeadlineAssumption DEF Visits
<1>3. AtWork(p, v) \/ (Claim(p) /\ v = Open)
  BY <1>1, <1>2, WorkGoesOn
<1>4. AtWork(q, v) \/ (Claim(q) /\ v = Open)
  BY <1>1, <1>2, WorkGoesOn
<1>5. ~(AtWork(p, v) /\ Claim(q) /\ v = Open) /\ ~(AtWork(q, v) /\ Claim(p) /\ v = Open)
  BY ClaimsAlone
<1>6. Claim(p) /\ Claim(q) => p = q
  <2>1. SUFFICES ASSUME Claim(p), Claim(q), p # q PROVE FALSE
    OBVIOUS
  <2>2. pass \in [Passes -> Pass]
    BY DEF WorkInv, DeadlinesTypeOK
  <2>3. pass'[q] = pass[q]
    BY <2>1, <2>2 DEF Claim
  <2>4. pass'[q].pc = "claimed"
    BY <2>1, <2>2 DEF Claim, Pass
  <2> QED BY <2>1, <2>3, <2>4 DEF Claim
<1> QED BY <1>3, <1>4, <1>5, <1>6 DEF WorkInv, OnePassAtWork

\* The candidates after a step are visits there were, and their claims stand.
LEMMA StepVisits ==
  ASSUME WorkInv, [Next]_vars
  PROVE  \A q \in Passes :
           /\ pass'[q].pc # "idle" => \E v \in 1..Open : pass'[q].visit = v /\ history[v].step \in DeadlineSteps
           /\ pass'[q].claimed => pass'[q].pc # "idle"
           /\ pass'[q].pc \notin {"idle", "found", "failed"} => pass'[q].claimed
<1>1. Open \in 1..Open /\ armed \subseteq DeadlineSteps
  BY DeadlineAssumption DEF WorkInv, DeadlinesTypeOK, Visits
<1>2. SUFFICES ASSUME NEW q \in Passes
               PROVE  /\ pass'[q].pc # "idle" =>
                           \E v \in 1..Open : pass'[q].visit = v /\ history[v].step \in DeadlineSteps
                      /\ pass'[q].claimed => pass'[q].pc # "idle"
                      /\ pass'[q].pc \notin {"idle", "found", "failed"} => pass'[q].claimed
  OBVIOUS
<1>3. PassMoves(q)
  BY PassesMove DEF WorkInv
<1>4. CASE pass'[q].visit = Open /\ Current \in armed /\ ~pass'[q].claimed /\ pass'[q].pc \in {"found", "failed"}
  BY <1>1, <1>4 DEF Current
<1> QED BY <1>3, <1>4 DEF PassMoves, WorkInv, PassesAtWork, Idle, Claim, UnderWay

\* What the marks guarantee, where the ticket does not move.
MarksStand ==
  /\ \A v \in Visits : v > Open => mark'[v] = Unmarked
  /\ refusal' /\ Current \in DeadlineSteps => mark'[Open].retry # "now"
  /\ \A p \in Passes : AtWork(p, Open)' =>
       \/ mark'[Open].outcome = "running" /\ ~mark'[Open].stale
       \/ mark'[Open].outcome \in {"refused", "failed", "moved"} /\ mark'[Open].retry # "now"

LEMMA StepMarks ==
  ASSUME Prompt, WorkInv, Next, history' = history
  PROVE  MarksStand
<1>1. /\ mark \in [Visits -> Mark] /\ pass \in [Passes -> Pass]
      /\ Open \in Visits /\ Open \in Nat /\ Open' = Open
  BY DeadlineAssumption DEF WorkInv, DeadlinesTypeOK, Visits, Open
<1>2. ASSUME NEW p \in Passes, AtWork(p, Open)'
      PROVE  AtWork(p, Open) \/ Claim(p)
  <2>1. AtWork(p, Open)' <=> pass'[p].claimed /\ pass'[p].visit = Open
    BY <1>1 DEF AtWork
  <2>2. \A v \in Nat : AtWork(p, v)' => AtWork(p, v) \/ Claim(p)
    BY WorkGoesOn
  <2> QED BY <1>1, <1>2, <2>1, <2>2 DEF AtWork
<1>3. ASSUME NEW p \in Passes, AtWork(p, Open)
      PROVE  Held(Open) /\ Current \in DeadlineSteps
  BY <1>3 DEF WorkInv, PassesAtWork, AtWork, Current
<1>4. \A v \in Visits : v > Open => mark[v] = Unmarked /\ v # Open
  BY <1>1 DEF WorkInv, FreshVisits
<1>5. ASSUME NEW p \in Passes, pass[p].pc # "idle" PROVE pass[p].visit \in 1..Open
  BY <1>5 DEF WorkInv, PassesAtWork
<1>6. ASSUME UNCHANGED mark, \A p \in Passes : ~Claim(p), refusal' => refusal \/ Current \notin DeadlineSteps
      PROVE  MarksStand
  BY <1>2, <1>3, <1>4, <1>6 DEF MarksStand, Held, WorkInv, RefusalWaits
<1>7. CASE RetryComes \/ ClaimAges
  <2>1. TimeIsUp(Open) /\ UNCHANGED <<pass, refusal>>
    BY <1>7 DEF RetryComes, ClaimAges
  <2>2. ~refusal /\ \A p \in Passes : ~AtWork(p, Open)
    BY <2>1 DEF TimeIsUp, Prompt
  <2>3. \A p \in Passes : ~AtWork(p, Open)'
    BY <1>1, <2>1, <2>2 DEF AtWork
  <2>4. \A v \in Visits : v # Open => mark'[v] = mark[v]
    BY <1>1, <1>7 DEF RetryComes, ClaimAges
  <2> QED BY <1>4, <2>1, <2>2, <2>3, <2>4 DEF MarksStand
<1>8. CASE WriteTimerRefusal
  <2>1. refusal /\ ~refusal' /\ UNCHANGED pass
    BY <1>8 DEF WriteTimerRefusal
  <2>2. /\ mark'[Open].outcome = "refused" /\ mark'[Open].retry = mark[Open].retry
        /\ \A v \in Visits : v # Open => mark'[v] = mark[v]
    BY <1>1, <1>8 DEF WriteTimerRefusal, Mark
  <2>3. \A p \in Passes : AtWork(p, Open)' => mark[Open].retry # "now"
    BY <1>1, <1>3, <2>1 DEF AtWork, WorkInv, RefusalWaits
  <2> QED BY <1>4, <2>1, <2>2, <2>3 DEF MarksStand
<1>9. ASSUME NEW p \in Passes, Claim(p) PROVE MarksStand
  <2>1. pass[p].visit = Open /\ \A q \in Passes : ~AtWork(q, Open)
    BY <1>9, ClaimsAlone
  <2>2. PICK stale \in {FALSE, SlowPasses} :
          mark' = [mark EXCEPT ![Open].outcome = "running", ![Open].stale = stale]
    BY <1>9, <2>1 DEF Claim
  <2>3. /\ mark'[Open].outcome = "running" /\ ~mark'[Open].stale /\ mark'[Open].retry = mark[Open].retry
        /\ \A v \in Visits : v # Open => mark'[v] = mark[v]
    <3>1. ~stale
      BY <2>2, DeadlineAssumption DEF Prompt
    <3>2. mark[Open] \in Mark
      BY <1>1
    <3> QED BY <1>1, <2>2, <3>1, <3>2 DEF Mark
  <2>4. refusal' = refusal
    BY <1>9 DEF Claim
  <2> QED BY <1>4, <2>3, <2>4 DEF MarksStand, WorkInv, RefusalWaits
<1>10. ASSUME NEW p \in Passes, ReleaseClaim(p) PROVE MarksStand
  <2>1. pass[p].claimed /\ pass'[p] = Idle /\ refusal' = refusal /\ \A q \in Passes : q # p => pass'[q] = pass[q]
    BY <1>1, <1>10 DEF ReleaseClaim, Ends, WorkInv, PassesAtWork
  <2>2. pass[p].visit \in 1..Open
    BY <1>5, <1>10 DEF ReleaseClaim
  <2>3. \A v \in Visits : v # pass[p].visit => mark'[v] = mark[v]
    BY <1>1, <1>10 DEF ReleaseClaim
  <2>4. \A v \in Visits : mark'[v].retry = mark[v].retry
    BY <1>1, <1>10 DEF ReleaseClaim, Mark
  <2>5. ASSUME NEW q \in Passes, AtWork(q, Open)' PROVE mark'[Open] = mark[Open] /\ Held(Open)
    <3>1. q # p
      BY <1>1, <2>1, <2>5 DEF AtWork, Idle
    <3>2. AtWork(q, Open)
      BY <1>1, <2>1, <2>5, <3>1 DEF AtWork
    <3>3. pass[p].visit # Open
      BY <1>1, <2>1, <3>1, <3>2 DEF AtWork, WorkInv, OnePassAtWork
    <3> QED BY <1>1, <1>3, <2>3, <3>2, <3>3
  <2>6. \A v \in Visits : v > Open => mark'[v] = Unmarked
    BY <1>1, <1>4, <2>2, <2>3
  <2>7. refusal' /\ Current \in DeadlineSteps => mark'[Open].retry # "now"
    BY <1>1, <2>1, <2>4 DEF WorkInv, RefusalWaits
  <2> QED BY <2>5, <2>6, <2>7 DEF MarksStand, Held
<1>11. ASSUME NEW p \in Passes, RecordOutcome(p) PROVE MarksStand
  <2>1. pass[p].visit \in 1..Open /\ pass'[p] = Idle /\ refusal' = refusal
    BY <1>1, <1>5, <1>11 DEF RecordOutcome, Ends
  <2>2. \A v \in Visits : v # pass[p].visit => mark'[v] = mark[v]
    BY <1>1, <1>11 DEF RecordOutcome
  <2>3. pass[p].visit \in Visits =>
          /\ mark'[pass[p].visit].outcome \in {"moved", "refused", "failed"}
          /\ mark'[pass[p].visit].retry # "now"
    BY <1>1, <1>11 DEF RecordOutcome, RetryAfter
  <2>4. \A v \in Visits : v > Open => mark'[v] = Unmarked
    BY <1>1, <1>4, <2>1, <2>2
  <2>5. refusal' /\ Current \in DeadlineSteps => mark'[Open].retry # "now"
    BY <1>1, <2>1, <2>2, <2>3 DEF WorkInv, RefusalWaits
  <2>6. \A q \in Passes : ~Claim(q)
    BY <1>1, <1>11, <2>1 DEF RecordOutcome, Claim, ticketVars, Idle
  <2>7. ASSUME NEW q \in Passes, AtWork(q, Open)'
        PROVE  \/ mark'[Open].outcome \in {"refused", "failed", "moved"} /\ mark'[Open].retry # "now"
               \/ mark'[Open] = mark[Open] /\ Held(Open)
    BY <1>1, <1>2, <1>3, <2>2, <2>3, <2>6, <2>7
  <2> QED BY <2>4, <2>5, <2>7 DEF MarksStand, Held
<1>12. CASE TimerIsRefused
  BY <1>6, <1>12 DEF TimerIsRefused, Prompt, Claim
<1>13. ASSUME NEW p \in Passes, FindDue(p) \/ Throws(p) \/ Stops(p) \/ (PassStep(p) /\ ~Claim(p) /\ ~ReleaseClaim(p) /\ ~RecordOutcome(p))
       PROVE  MarksStand
  BY <1>6, <1>9, <1>13 DEF FindDue, Throws, Stops, PassStep, ClaimRefused, Reread, FindArc, CheckGuards, WriteFields, Move, NotMoved
<1>14. CASE (\E a \in Arcs : OtherMove(a)) \/ (\E s \in DeadlineSteps : RemoveDeadline(s)) \/ DeadlinePasses
  BY <1>6, <1>9, <1>14 DEF OtherMove, RemoveDeadline, DeadlinePasses
<1> QED BY <1>7, <1>8, <1>9, <1>10, <1>11, <1>12, <1>13, <1>14 DEF Next
\* Moves: a deadline that made one is over, and no pass makes it again.
LEMMA StepMovers ==
  ASSUME WorkInv, [Next]_vars
  PROVE  MoversAreDone' /\ MovesOnce'
<1>1. /\ Open \in Nat /\ Open' \in Nat /\ Open >= 1 /\ Open <= Open'
      /\ \A v \in 1..Open : history'[v] = history[v]
  BY StepGrows, DeadlineAssumption DEF Grows, Visits, WorkInv, DeadlinesTypeOK
<1>2. ASSUME NEW w \in 1..Open, NEW v \in Nat, history[w].by = v, v # 0, NEW q \in Passes, AtWork(q, v)'
      PROVE  pass'[q].pc \in {"moved", "failed"}
  <2>1. v < w /\ \A p \in Passes : AtWork(p, v) => pass[p].pc \in {"moved", "failed"}
    BY <1>2 DEF WorkInv, MoversAreDone
  <2>2. v # Open
    BY <1>1, <2>1
  <2> QED BY <1>2, <2>1, <2>2, WorkGoesOn DEF UnderWay
<1>3. CASE history' = history
  BY <1>1, <1>2, <1>3 DEF MoversAreDone, MovesOnce, WorkInv, Open
<1>4. ASSUME NEW a \in Arcs, Enter(a.to, 0), a.to \in Steps PROVE MoversAreDone' /\ MovesOnce'
  <2>1. Open' = Open + 1 /\ history'[Open + 1] = [step |-> a.to, by |-> 0]
    BY <1>4, EntersOne, 0 \in Nat DEF WorkInv
  <2>2. MoversAreDone'
    BY <1>1, <1>2, <2>1 DEF MoversAreDone, WorkInv
  <2>3. MovesOnce'
    BY <1>1, <2>1 DEF MovesOnce, WorkInv
  <2> QED BY <2>2, <2>3
<1>5. ASSUME NEW p \in Passes, Move(p), Enter(To(p), pass[p].visit), To(p) \in Steps, pass[p].visit \in Nat
      PROVE  MoversAreDone' /\ MovesOnce'
  <2>1. PICK v \in 1..Open : pass[p].visit = v
    BY <1>5 DEF Move, WorkInv, PassesAtWork
  <2>2. Open' = Open + 1 /\ history'[Open + 1] = [step |-> To(p), by |-> v]
    BY <1>1, <1>5, <2>1, EntersOne DEF WorkInv
  <2>3. AtWork(p, v) /\ pass[p].pc = "written"
    BY <1>5, <2>1 DEF AtWork, Move, WorkInv, PassesAtWork
  <2>4. \A w \in 1..Open : history[w].by # v
    BY <1>1, <2>1, <2>3 DEF WorkInv, MoversAreDone
  <2>5. pass'[p].pc = "moved" /\ \A q \in Passes : q # p => pass'[q] = pass[q]
    BY <1>5 DEF Move, Go, WorkInv, DeadlinesTypeOK, Pass
  <2>6. v \in Visits
    BY <1>1, <2>1, DeadlineAssumption DEF WorkInv, DeadlinesTypeOK, Visits
  <2>7. ASSUME NEW q \in Passes, AtWork(q, v)' PROVE pass'[q].pc \in {"moved", "failed"}
    BY <2>3, <2>5, <2>6, <2>7 DEF AtWork, WorkInv, OnePassAtWork
  <2>8. MoversAreDone'
    BY <1>1, <1>2, <2>1, <2>2, <2>7 DEF MoversAreDone, WorkInv
  <2>9. MovesOnce'
    BY <1>1, <2>1, <2>2, <2>4 DEF MovesOnce, WorkInv
  <2> QED BY <2>8, <2>9
<1> QED BY <1>3, <1>4, <1>5, HistoryMoves DEF WorkInv

LEMMA StepWork == ASSUME Prompt, WorkInv, [Next]_vars PROVE WorkInv'
<1>1. DeadlinesTypeOK' /\ OnePassAtWork' /\ MoversAreDone' /\ MovesOnce'
  BY StepTypes, StepAlone, StepMovers DEF WorkInv
<1>2. /\ Open \in Nat /\ Open' \in Nat /\ Open <= Open'
      /\ \A v \in 1..Open : history'[v] = history[v]
  BY StepGrows, DeadlineAssumption DEF Grows, Visits, WorkInv, DeadlinesTypeOK
<1> DEFINE VisitsStand ==
             \A p \in Passes :
               /\ pass'[p].pc # "idle" =>
                    \E v \in 1..Open' : pass'[p].visit = v /\ history'[v].step \in DeadlineSteps
               /\ pass'[p].claimed => pass'[p].pc # "idle"
               /\ pass'[p].pc \notin {"idle", "found", "failed"} => pass'[p].claimed
<1>3. VisitsStand
  BY <1>2, StepVisits
<1>4. CASE history' = history
  <2>1. MarksStand
    <3>1. CASE Next
      BY <1>4, <3>1, StepMarks
    <3>2. CASE UNCHANGED vars
      <4>1. UNCHANGED <<mark, pass, refusal>> /\ Open' = Open
        BY <3>2 DEF vars, ticketVars, Open
      <4>2. \A p \in Passes : AtWork(p, Open)' => Held(Open)
        BY <4>1 DEF AtWork, WorkInv, PassesAtWork
      <4> QED BY <4>1, <4>2 DEF MarksStand, WorkInv, FreshVisits, RefusalWaits, Held
    <3> QED BY <3>1, <3>2
  <2>2. Open' = Open /\ Current' = Current
    BY <1>4 DEF Open, Current
  <2>3. FreshVisits' /\ RefusalWaits'
    BY <2>1, <2>2 DEF MarksStand, FreshVisits, RefusalWaits
  <2>4. \A p \in Passes : AtWork(p, Open)' => Held(Open)'
    BY <2>1, <2>2 DEF MarksStand, Held, AtWork
  <2>5. PassesAtWork'
    BY <1>3, <2>4 DEF PassesAtWork
  <2> QED BY <1>1, <2>3, <2>5 DEF WorkInv
<1>5. ASSUME Open' = Open + 1, mark' = mark PROVE WorkInv'
  <2>1. \A p \in Passes : ~AtWork(p, Open)'
    BY <1>2, <1>5, StepVisits DEF AtWork
  <2>2. PassesAtWork'
    BY <1>3, <2>1 DEF PassesAtWork
  <2>3. FreshVisits'
    BY <1>2, <1>5, DeadlineAssumption DEF WorkInv, FreshVisits, Visits
  <2>4. Open' \in Visits
    BY <1>1 DEF DeadlinesTypeOK
  <2>5. mark'[Open'].retry = "none"
    BY <1>2, <1>5, <2>4 DEF WorkInv, FreshVisits, Unmarked
  <2>6. RefusalWaits'
    BY <2>5 DEF RefusalWaits
  <2> QED BY <1>1, <2>2, <2>3, <2>6 DEF WorkInv
<1>6. ASSUME NEW a \in Arcs, Enter(a.to, 0), a.to \in Steps PROVE Open' = Open + 1
  BY <1>6, EntersOne, 0 \in Nat DEF WorkInv
<1>7. ASSUME NEW p \in Passes, Move(p), Enter(To(p), pass[p].visit), To(p) \in Steps, pass[p].visit \in Nat
      PROVE  Open' = Open + 1 /\ mark' = mark
  BY <1>7, EntersOne DEF WorkInv, Move
<1> QED BY <1>4, <1>5, <1>6, <1>7, HistoryMoves DEF WorkInv

LEMMA WorkInvHolds == ASSUME Prompt PROVE Spec => []WorkInv
<1>1. ASSUME Init PROVE WorkInv
  <2>1. Open = 1 /\ history[1].by = 0 /\ ~refusal
    BY <1>1 DEF Init, Open
  <2>2. \A p \in Passes : pass[p] = Idle
    BY <1>1 DEF Init
  <2>3. DeadlinesTypeOK
    BY <1>1, InitTypes
  <2>4. PassesAtWork /\ OnePassAtWork
    BY <2>2 DEF PassesAtWork, OnePassAtWork, AtWork, Idle
  <2>5. FreshVisits /\ RefusalWaits
    BY <1>1, <2>1 DEF Init, FreshVisits, RefusalWaits
  <2>6. MoversAreDone /\ MovesOnce
    BY <2>1 DEF MoversAreDone, MovesOnce
  <2> QED BY <2>3, <2>4, <2>5, <2>6 DEF WorkInv
<1>2. WorkInv /\ [Next]_vars => WorkInv'
  BY StepWork
<1> QED BY <1>1, <1>2, PTL DEF Spec

\* "Two passes do not run it twice": of passes that end within ten minutes, one
\* at most is at work on a visit, however many run and whatever fails or stops.
THEOREM OneAtWork == ASSUME Prompt PROVE Spec => []OnePassAtWork
BY WorkInvHolds, PTL DEF WorkInv

\* The deadline of a visit then moves its ticket at most once.
THEOREM DeadlineMovesOnce == ASSUME Prompt PROVE Spec => []MovesOnce
BY WorkInvHolds, PTL DEF WorkInv
=============================================================================

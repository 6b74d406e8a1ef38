--------------------------- MODULE WorkflowGraph ---------------------------
(***************************************************************************)
(* One workflow definition of a tenant, as the engine reads it from the    *)
(* graph: its steps, the arcs between them and the flags of the steps.     *)
(* The designer's edits are not modelled: the definition is constant.      *)
(*                                                                         *)
(* Two selections decide where a ticket goes, and both must be total       *)
(* orders: which arc stands for a move to a given step, and which arc ends *)
(* a timed wait.                                                           *)
(***************************************************************************)
EXTENDS Naturals

CONSTANTS Steps,      \* the steps of the definition
          Initial,    \* its initial step
          Terminal,   \* steps flagged is_terminal
          Resolving,  \* steps of category "resolved"
          Publishing, \* steps of category "published", when the ticket is a KB article
          WaitSteps,  \* steps of type timer_wait
          Arcs,       \* the TRANSITIONS_TO arcs
          Order       \* step_order of each step, ties broken by name

Triggers == {"manual", "automatic", "timer", "sla_breach"}

\* The triggers that end a wait (packages/types, WAIT_EXIT_TRIGGERS).
WaitExitTriggers == {"automatic", "timer"}

ArcType == [id: Nat, from: Steps, to: Steps, trigger: Triggers, guarded: BOOLEAN]

ASSUME GraphAssumption ==
  /\ Initial \in Steps \ Terminal
  /\ Terminal \subseteq Steps
  /\ Resolving \subseteq Steps
  /\ Publishing \subseteq Steps
  /\ WaitSteps \subseteq Steps
  /\ Arcs \subseteq ArcType
  /\ \A a, b \in Arcs : a.id = b.id => a = b
  /\ Order \in [Steps -> Nat]
  /\ \A s, t \in Steps : Order[s] = Order[t] => s = t

-----------------------------------------------------------------------------
\* The arcs the engine considers for a move from s to t.
Candidates(s, t) == {a \in Arcs : a.from = s /\ a.to = t}

\* The requested trigger first, then an arc with a condition; the id decides
\* between arcs of equal rank.
Rank(a, trigger) == (IF a.trigger = trigger THEN 0 ELSE 2)
                    + (IF a.guarded THEN 0 ELSE 1)

Precedes(a, b, trigger) ==
  \/ Rank(a, trigger) < Rank(b, trigger)
  \/ Rank(a, trigger) = Rank(b, trigger) /\ a.id <= b.id

\* The arc the engine takes: the first candidate (LIMIT 1), none without one.
EngineArcs(s, t, trigger) ==
  {a \in Candidates(s, t) : \A b \in Candidates(s, t) : Precedes(a, b, trigger)}

\* The arcs that end the wait in s, and the step the timer goes to: the first
\* in the order of the steps, none without such an arc.
WaitExits(s) == {a \in Arcs : a.from = s /\ a.trigger \in WaitExitTriggers}

WaitTargets(s) ==
  {a.to : a \in {x \in WaitExits(s) : \A y \in WaitExits(s) : Order[x.to] <= Order[y.to]}}
=============================================================================

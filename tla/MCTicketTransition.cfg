CONSTANTS
  wait = wait
  work = work
  resolved = resolved
  closed = closed
  Steps <- MCSteps
  Arcs <- MCArcs
  Order <- MCOrder
  Initial = work
  Terminal = {closed}
  Resolving = {resolved}
  Publishing = {}
  WaitSteps = {wait}
  Concludes = TRUE
  SystemMoves <- MCSystemMoves
  Persons = {p1}
  Systems = {s1}
  None = None
  Failures = TRUE
  MaxVisits = 3
SPECIFICATION Spec
INVARIANTS
  OneCurrentStep
  HistoryIsAWalk
  EventIffMove
  ResolutionFollowsStep
  TerminalIsCompleted
  CallsReadOneVisit

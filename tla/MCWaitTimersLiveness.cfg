CONSTANTS
  wait = wait
  hold = hold
  work = work
  done = done
  Steps <- MCSteps
  Arcs <- MCArcs
  Order <- MCOrder
  Initial = work
  Terminal = {done}
  Resolving = {}
  Publishing = {}
  WaitSteps = {wait}
  Concludes = TRUE
  SystemMoves = {}
  Persons = {p1}
  None = None
  Timer = timer
  Resume = resume
  Systems = {timer, resume}
  Failures = TRUE
  MaxVisits = 3
SPECIFICATION TimersFairSpec
PROPERTIES
  WaitEnds

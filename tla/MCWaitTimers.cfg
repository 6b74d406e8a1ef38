CONSTANTS
  wait = wait
  hold = hold
  work = work
  done = done
  Steps <- MCSteps
  Arcs <- MCArcsEarlyExit
  Order <- MCOrder
  Initial = work
  Terminal = {done}
  Resolving = {}
  Publishing = {}
  WaitSteps = {wait}
  Concludes = TRUE
  SystemMoves = {}
  Persons = {p1}
  None = None
  Timer = timer
  Resume = resume
  Systems = {timer}
  Failures = FALSE
  MaxVisits = 6
SPECIFICATION TimersSpec
INVARIANTS
  TimersTypeOK
  NoStaleTimer
CHECK_DEADLOCK FALSE

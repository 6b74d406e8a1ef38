CONSTANTS
  review = review
  hold = hold
  Steps <- MCSteps
  Arcs <- MCArcs
  Order <- MCOrder
  Initial = review
  Terminal = {}
  Resolving = {}
  Publishing = {}
  WaitSteps = {hold}
  DeadlineSteps = {review}
  Target <- MCTarget
  Passes = {d1, d2}
  SlowPasses = FALSE
  Failing = {d1}
  MaxVisits = 4
SPECIFICATION FairSpec
INVARIANTS
  DeadlinesTypeOK
  MovedIsTrue
  MovesOnce
  OnePassAtWork
PROPERTIES
  DeadlineIsKept

CONSTANTS
  submitted = submitted
  approval = approval
  in_progress = in_progress
  rejected = rejected
  Steps <- MCSteps
  Arcs <- MCFactoryArcs
  Order <- MCOrder
  Initial = submitted
  Terminal = {rejected}
  Resolving = {}
  Publishing = {}
  WaitSteps = {}
  Concludes = TRUE
  SystemMoves <- MCSystemMoves
  Persons = {p1, p2}
  Systems = {decision}
  None = None
  ApprovalSteps = {approval}
  Failed = {rejected}
  Overriders = {}
  Decision = decision
  Failures = FALSE
  MaxVisits = 5
SPECIFICATION ApprovalSpec
PROPERTIES
  GateHolds
CHECK_DEADLOCK FALSE

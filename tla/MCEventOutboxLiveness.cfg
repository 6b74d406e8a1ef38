CONSTANTS
  ticket = ticket
  other = other
  sla = sla
  notify = notify
  Events = {ticket, other}
  Consumers = {notify}
  Handles <- MCNotify
  Attempts = 2
  MaxStalls = 1
  Handlers = {h1}
  NoHandler = none
  RedisFails = TRUE
  Atomic = {}
  Webhooks = {ticket}
  Stuck = {ticket}
  Batch = 2
  Failures = TRUE
  Crashes = FALSE
SPECIFICATION OutboxFairSpec
INVARIANTS
  GivenIsAccountedFor
  MarkerIsEarned
PROPERTIES
  EachOnItsOwn
  EveryConsumerReached
CHECK_DEADLOCK FALSE

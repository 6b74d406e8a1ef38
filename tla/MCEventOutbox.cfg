CONSTANTS
  ticket = ticket
  other = other
  sla = sla
  notify = notify
  Events = {ticket, other}
  Consumers = {sla, notify}
  Handles <- MCNotify
  Attempts = 2
  MaxStalls = 0
  Handlers = {h1}
  NoHandler = none
  RedisFails = FALSE
  Atomic = {ticket}
  Webhooks = {ticket}
  Stuck = {}
  Batch = 2
  Failures = TRUE
  Crashes = TRUE
SPECIFICATION OutboxSpec
INVARIANTS
  OutboxTypeOK
  NothingLost
  LossIsLoud
  HandledOnce
PROPERTIES
  Promise
CHECK_DEADLOCK FALSE

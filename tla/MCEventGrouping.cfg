CONSTANTS
  Alarms = {a1, a2}
  Concurrency = 2
  Attempts = 1
  Slow = TRUE
  MaxPayloads = 2
  MaxIncidents = 3
  MaxMoves = 1
  MaxFaults = 1
SPECIFICATION FairSpec
INVARIANTS
  OneSection
  OneIncidentPerGroup
PROPERTIES
  AlarmIsTakenUp
CHECK_DEADLOCK FALSE

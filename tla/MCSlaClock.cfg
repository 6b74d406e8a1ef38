CONSTANTS
  low = low
  high = high
  ops = ops
  dev = dev
  Handlers = {h1}
  Tiers = {low, high}
  Resolve <- MCResolve
  FirstTier = high
  Moves <- MCMoves
  MaxMoves = 3
  MaxTime = 2
  MaxFaults = 1
  Opening = 4
  DayLength = 5
  WeekLength = 3
  Calendars <- MCCalendars
  Zones <- MCZones
  Moments <- MCMoments
  Spans <- MCSpans
  Teams <- MCTeams
  Histories <- MCHistories
  Contracts <- MCContracts
  Conclusions <- MCConclusions
  Windows <- MCWindows
  Never = Never
SPECIFICATION FairSpec
INVARIANTS
  ClockIsRight
  
  BreachStands
  DeadlineIsRight
  PauseIsCounted
  OlaTimeIsTheTeams
  OlaDeadlineIsTheTarget
PROPERTIES
  OverdueIsBreached
CHECK_DEADLOCK FALSE

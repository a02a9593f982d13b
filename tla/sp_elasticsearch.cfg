SPECIFICATION FairSpec
CONSTANTS
  s1 = s1
  s2 = s2
  Scopes = {s1}
  Processors = {p1, p2}
  Endpoints = {h1}
  Free = Free
  NoScope = NoScope
  MaxPeriod = 2
  MaxTime = 3
  TicksPerPeriod = 1
  WaitPeriods = 0
  MonthStart <- TwoPeriodMonths
  Idle <- IdleOnce
  Zones <- MCZones
  Hours <- MCHours
  Day = 4
  Months <- MCMonths
  MaxDelta = 3
  HoursPerTick = 6
  Backend = "elasticsearch"
  Budget <- Operated
INVARIANTS
  NoDuplicates
  OverrunBounded
  NoGap
  PeriodsTile
PROPERTIES
  KeepsLedger
  EventuallyRated
  ResetsComplete

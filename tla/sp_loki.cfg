SPECIFICATION Spec
CONSTANTS
  s1 = s1
  s2 = s2
  Scopes = {s1, s2}
  Processors = {p1, p2}
  Endpoints = {h1}
  Free = Free
  NoScope = NoScope
  MaxPeriod = 1
  MaxTime = 3
  TicksPerPeriod = 1
  WaitPeriods = 1
  MonthStart <- OneMonth
  Idle <- IdleOnce
  Zones <- MCZones
  Hours <- MCHours
  Day = 4
  Months <- MCMonths
  MaxDelta = 3
  HoursPerTick = 6
  Backend = "loki"
  Budget <- Faulty
SYMMETRY ProcessorSymmetry
INVARIANTS
  WaitRespected
  StoredOrBuffered
PROPERTIES
  LockedWrites
  DeletesWhatWasAsked

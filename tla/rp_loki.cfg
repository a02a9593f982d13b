SPECIFICATION FairSpec
CONSTANTS
  s1 = s1
  s2 = s2
  Scopes = {s1, s2}
  Reprocessors = {q1}
  Callers = {c1}
  Free = Free
  NoKey = NoKey
  Limit = 1
  MaxPeriod = 1
  MaxTime = 0
  TicksPerPeriod = 1
  WaitPeriods = 0
  MonthStart <- OneMonth
  Idle <- IdleOnce
  Backend = "loki"
  Budget <- Troubled
PROPERTIES
  SchedulesFinish

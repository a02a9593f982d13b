SPECIFICATION Spec
CONSTANTS
  s1 = s1
  Scopes = {s1}
  Processors = {p1}
  Endpoints = {h1}
  Reprocessors = {q1}
  Callers = {c1}
  Free = Free
  NoScope = NoScope
  NoKey = NoKey
  Limit = 1
  MaxPeriod = 2
  MaxTime = 4
  TicksPerPeriod = 1
  WaitPeriods = 1
  MonthStart <- OneMonth
  Idle = {}
  Backend = "elasticsearch"
  Budget <- OneReset
  ScheduleBudget <- OnePost
INVARIANTS
  NothingLost
  OneCopy

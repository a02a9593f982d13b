SPECIFICATION Spec
CONSTANTS
  s1 = s1
  s2 = s2
  Scopes = {s1}
  Reprocessors = {q1, q2}
  Callers = {c1, c2}
  Free = Free
  NoKey = NoKey
  Limit = 1
  MaxPeriod = 1
  MaxTime = 0
  TicksPerPeriod = 1
  WaitPeriods = 0
  MonthStart <- OneMonth
  Idle <- IdleOnce
  Backend = "elasticsearch"
  Budget <- Crowded
SYMMETRY Symmetry
INVARIANTS
  NothingLost
  OneCopyButAtEnds
  NoOverlap
PROPERTIES
  ProgressInOrder

SPECIFICATION Spec
CONSTANTS
  s1 = s1
  s2 = s2
  v1 = v1
  v2 = v2
  r1 = r1
  r2 = r2
  Scopes = {s1, s2}
  Processors = {p1, p2}
  Free = Free
  Services = {v1, v2}
  All = All
  None = None
  ScopeKey = "project_id"
  Undef = Undef
  Failure = Failure
  Metrics <- MCMetrics
  Usage <- MCUsage
  TypesBefore = {{v1, v2}, {v2}}
  MaxPeriod = 2
  Budget = 1
CHECK_DEADLOCK FALSE
SYMMETRY Symmetry
INVARIANTS
  NothingLost
  StoredOnce
  TotalsAgree

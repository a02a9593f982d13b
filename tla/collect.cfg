SPECIFICATION FairSpec
CONSTANTS
  s1 = s1
  s2 = s2
  Scopes = {s1, s2}
  NoScope = NoScope
  Resources <- MCResources
  Types <- MCTypes
  Metrics <- MCMetrics
  Measures <- MCMeasures
  Empty = Empty
  None = None
  ScopeKey = "project_id"
  PageLen = 1
  MaxThreads = 2
  IgnoreRole = FALSE
  IgnoreDisabled = TRUE
  Budget = 2
INVARIANTS
  UsageCounted
PROPERTIES
  ScopesFound
  EventuallyRated

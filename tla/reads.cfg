SPECIFICATION Spec
CONSTANTS
  Points <- MCPoints
  Frames <- MCFrames
  Requests <- MCRequests
  Groupbys <- MCGroupbys
  Users <- MCUsers
  Admin = "admin"
  ScopeKey = "project"
  Values <- MCValues
  Limits = {1, 2}
  Chunk = 3
  ShardLen = 2
  BufferSize = 2
  Budget <- MCBudget
INVARIANTS
  NothingSkipped
  ListedOnce
  TotalsAddUp
CHECK_DEADLOCK FALSE

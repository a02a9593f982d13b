SPECIFICATION Spec
CONSTANTS
  HashMap = HashMap
  PyScripts = PyScripts
  Noop = Noop
  EntryPoints <- MCEntryPoints
  FirstEnabled <- MCFirstEnabled
  Priorities = {0, 2}
  v1 = v1
  v2 = v2
  Versions = {v1, v2}
  MaxTime = 2
  MaxScripts = 2
  Budget = 2
CHECK_DEADLOCK FALSE
INVARIANTS
  EnabledModulesRate
  HighestFirst
  RatedByItsScripts
PROPERTIES
  EventuallyRated

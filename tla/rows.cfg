SPECIFICATION Spec
CONSTANTS
  Null = Null
  project = project
  gnocchi = gnocchi
  keystone = keystone
  ApiConf <- MCApiConf
  Confs <- MCConfs
  Posted <- MCPosted
  Max = 1
  Budget = 1
CHECK_DEADLOCK FALSE
INVARIANTS
  NothingTwice
  OneRowEach
PROPERTIES
  EventuallyRated

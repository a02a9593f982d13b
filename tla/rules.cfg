SPECIFICATION Spec
CONSTANTS
  Keys = {k1}
  Groups = {g1}
  NoGroup = NoGroup
  Costs = {low, high}
  Callers = {c1, c2}
  MaxTime = 2
  MaxRequests = 3
CHECK_DEADLOCK FALSE
SYMMETRY Symmetry
INVARIANTS
  OverlapsAreExplained
PROPERTIES
  PastStands

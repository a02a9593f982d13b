SPECIFICATION Spec
CONSTANTS
  s = s
  f = f
  g = g
  Services = {s}
  Fields = {f}
  Groups = {g}
  Tenant = Tenant
  Global = Global
  NoGroup = NoGroup
  NoValue = NoValue
  Word = Word
  Usage <- MCUsage
  Catalogue <- MCCatalogue
  MaxDate = 1
  Budget = 3
CHECK_DEADLOCK FALSE
INVARIANTS
  NothingStale
  NothingMissed
  PricedByTheBook
PROPERTIES
  EventuallyRated

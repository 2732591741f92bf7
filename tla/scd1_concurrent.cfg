SPECIFICATION Spec
CONSTANTS
  SqlNull = SqlNull  ByName = ByName
  k1 = k1  k2 = k2  kn = kn  j1 = j1  j2 = j2
  Keys = {k1, kn}
  JoinOf <- NullJoin
  Null = Null
  Vals = {1, 2, 3}
  Overlay <- Replace
  Scope = {1, 3}
  Jobs = {j1, j2}
  Ids = {0, 1, 2}
  TypesOf <- Mixed
  PartOf <- PartByKey
  Filtered = FALSE
INVARIANTS TypeOK UniqueKeys
PROPERTIES LandsSource BeyondReach LatchedFailure

SPECIFICATION FairSpec
CONSTANTS
  SqlNull = SqlNull  ByName = ByName
  k1 = k1  k2 = k2  kn = kn  j1 = j1  j2 = j2
  Keys <- FactKeys
  JoinOf <- SkJoin
  Null = Null
  Vals = {1, 2, 3, 4}
  Overlay <- Replace
  Scope = {1, 2, 3, 4}
  Jobs = {j1}
  Ids = {0, 1, 2, 3}
  TypesOf <- PlainUpserts
  PartOf <- PartByKey
  Filtered = TRUE
INVARIANTS Catchable
PROPERTIES LandsSource Converges

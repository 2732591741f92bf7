SPECIFICATION Spec
CONSTANTS
  SqlNull = SqlNull  ByName = ByName
  k1 = k1  k2 = k2  kn = kn  j1 = j1  j2 = j2
  Keys = {k1, k2}
  JoinOf <- PlainJoin
  Null = Null
  Vals = {1, 2, 3}
  Overlay <- Replace
  Scope = {1, 2, 3}
  Jobs = {j1}
  Ids = {0, 1, 2, 3}
  TypesOf <- Deleting
  PartOf <- PartByKey
  Filtered = TRUE
PROPERTIES LandsSource

SPECIFICATION Spec
CONSTANTS
  k1 = k1  k2 = k2  j1 = j1  j2 = j2  v = v
  Keys = {k1, k2}
  JoinOf <- PlainJoin
  Null = Null
  NoValue = NoValue
  Vals <- TwoColumns
  Overlay <- Replace
  Scope <- TwoColumns
  Jobs = {j1, j2}
  Tracked = {"p"}
  Ignores = {{}, {"p"}}
  MaxRuns = 3
SYMMETRY Symmetry
INVARIANTS TypeOK
PROPERTIES ShiftsOnce LandsFeed RerunSettles

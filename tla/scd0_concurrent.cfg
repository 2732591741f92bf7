SPECIFICATION Spec
CONSTANTS
  k1 = k1  k2 = k2  j1 = j1  j2 = j2
  Keys = {k1, k2}
  JoinOf <- PlainJoin
  Null = Null
  Vals <- FourVals
  Overlay <- Replace
  Scope <- FourVals
  Jobs = {j1, j2}
  Protected <- TwoColumns
  MaxRuns = 3
SYMMETRY Symmetry
INVARIANTS TypeOK UniqueKeys ChangesRejected
PROPERTIES FirstForever

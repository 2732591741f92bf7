SPECIFICATION Spec
CONSTANTS
  k1 = k1  k2 = k2  j1 = j1  j2 = j2
  Keys = {k1, k2}
  JoinOf <- PlainJoin
  Null = Null
  Vals <- MixedVals
  Overlay <- KeepX
  Scope <- MixedVals
  Jobs = {j1, j2}
  Seed <- OneRow
  Sources <- TwoVals
  Schemas = {TRUE, FALSE}
  MaxRuns = 3
SYMMETRY Symmetry
INVARIANTS TypeOK AuditComplete HistoryMirrors NoRepeats

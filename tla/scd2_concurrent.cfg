SPECIFICATION Spec
CONSTANTS
  k1 = k1  k2 = k2  kn = kn  v1 = v1  v2 = v2
  Keys = {k1}
  NullKeys = {}
  Unkeyed = Unkeyed
  Vals = {v1, v2}
  CsOf <- CsDistinct
  Deleted = Deleted
  Scope = {v1, v2}
  PartCol = "none"
  MonthLen = 1
  MaxRuns = 4
  Jobs = {"j1", "j2"}
  Types = {"scd2", "scd2_no_delete"}
  Seeded = TRUE
INVARIANTS UniqueCurrent UniqueBounds
PROPERTIES HistoryKept RefinesUnorderedHistory

SPECIFICATION Spec
CONSTANTS
  k1 = k1  k2 = k2  kn = kn  v1 = v1  v2 = v2
  Keys = {k1, kn}
  NullKeys = {kn}
  Unkeyed = Unkeyed
  Vals = {v1, v2}
  CsOf <- CsDistinct
  Deleted = Deleted
  Scope = {v1}
  PartCol = "none"
  MonthLen = 1
  MaxRuns = 3
  Jobs = {"j1"}
  Types = {"scd2", "scd2_no_delete"}
  Seeded = FALSE
PROPERTIES LatchedFailure

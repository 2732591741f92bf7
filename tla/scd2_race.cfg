SPECIFICATION Spec
CONSTANTS
  k1 = k1  k2 = k2  kn = kn  v1 = v1  v2 = v2
  Keys = {k1, k2}
  NullKeys = {}
  Unkeyed = Unkeyed
  Vals = {v1, v2}
  CsOf <- CsDistinct
  Deleted = Deleted
  Scope = {v1, v2}
  PartCol = "none"
  MonthLen = 1
  MaxRuns = 2
  Jobs = {"j1", "j2"}
  Types = {"scd2", "scd2_no_delete"}
  Seeded = FALSE
PROPERTIES InitialLoadOnlyOnEmpty

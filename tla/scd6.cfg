SPECIFICATION Spec
CONSTANTS
  k1 = k1  kn = kn  a = a  b = b  c = c  d = d  j1 = j1  j2 = j2
  NoPrev = NoPrev
  Scope <- NotOfD
  Keys = {k1}
  NullKeys = {}
  Unkeyed = Unkeyed
  Deleted = Deleted
  Sources = {a, b, c, d}
  BizCs <- CsDistinct
  Tracked <- TrackedOf
  PartCol = "end_dt"
  MonthLen = 2
  MaxRuns = 4
  Jobs = {j1, j2}
INVARIANTS PreviousIsBefore EndedFiled
PROPERTIES ChecksSilent RefinesScd2
SYMMETRY Symmetry

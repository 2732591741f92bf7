SPECIFICATION Spec
CONSTANTS
  SqlNull = SqlNull
  ByName <- ColumnNames
  Ignored = {"seen"}
  Tracked = {}
  Keys <- TextKeys
  NullKeys = {}
  Unkeyed = Unkeyed
  Vals <- Payloads
  CsOf <- CheckSums
  Deleted = Deleted
  Scope <- Payloads
  PartCol = "end_dt"
  MonthLen = 2
  MaxRuns = 3
  Jobs = {"j1"}
  Types = {"scd2", "scd2_no_delete"}
  Seeded = FALSE
INVARIANTS TypeOK GuardsSilent Timeline PartitionAligned Delivered ChangesSeen SurrogateUnique
PROPERTIES RefinesHistory

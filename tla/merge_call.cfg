SPECIFICATION Spec
CONSTANTS
  Calls <- SomeCalls
  Sources <- SomeSources
  Tables <- SomeTables
  SkNames <- PrefixedNames
INVARIANTS TypeOK Provenance AdmittedMerges
CHECK_DEADLOCK FALSE

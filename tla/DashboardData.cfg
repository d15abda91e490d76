SPECIFICATION Spec
CONSTANTS
  Order <- Tests
  MS_OPS <- Ops
  Patched <- ByHand
  Torn = Torn
  MaxRuns = 2
  MaxDeaths = 2
  MaxRecords = 4
INVARIANTS
  TypeOK
  RebuiltIsCurrent
  OneRecordPerOp
  OneMeasurementPerRecord
CHECK_DEADLOCK FALSE

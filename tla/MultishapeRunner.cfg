SPECIFICATION Spec
CONSTANTS
  Ledger <- TwoModels
  Matrix <- RmsnormMatrix
  Enabled = {"flydsl", "aiter"}
  Caching = {"flydsl"}
  DtypeInKey = {"flydsl"}
CHECK_DEADLOCK FALSE
INVARIANTS
  TypeOK
  NothingDropped
  DetailOfLastBuild

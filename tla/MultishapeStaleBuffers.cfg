SPECIFICATION Spec
CONSTANTS
  Ledger <- TwoDtypes
  Matrix <- RopeMatrix
  Enabled = {"flydsl", "aiter_triton"}
  Caching = {"flydsl", "aiter_triton"}
  DtypeInKey = {"flydsl"}
CHECK_DEADLOCK FALSE
INVARIANTS
  SameInputs

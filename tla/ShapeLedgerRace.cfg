SPECIFICATION Spec
CONSTANTS
  Importer = {p1, p2}
  Kind <- ServingKinds
  Owns <- ServingOwns
  IdsOf <- SharedIds
  MaxId = 3
  LongIds = {2, 3}
  MaxBatch = 2
  MaxImports = 3
  MaxCrashes = 1
CHECK_DEADLOCK FALSE
INVARIANTS
  UniqueShapes
  OneImportPerKind

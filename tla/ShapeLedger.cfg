SPECIFICATION Spec
CONSTANTS
  Importer = {p1}
  Kind <- Kinds
  Owns <- OwnSets
  IdsOf <- SourceIds
  MaxId = 3
  LongIds = {2}
  MaxBatch = 2
  MaxImports = 3
  MaxCrashes = 1
CHECK_DEADLOCK FALSE
INVARIANTS
  TypeOK
  NoStaleRows
PROPERTIES
  ImplementsUnion

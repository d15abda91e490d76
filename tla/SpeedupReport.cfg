SPECIFICATION Spec
CONSTANTS
  ShapeId = {s1, s2}
  Baseline = {"aiter"}
  FlyRow <- FlyRows
  BaseRow <- BaseRows
  MaxRuns = 2
  MaxImports = 1
SYMMETRY Symmetric
CHECK_DEADLOCK FALSE
INVARIANTS
  TypeOK
  VerdictsWithinAStep
  PassBoundsTheFall
PROPERTIES
  FasterNeverDemotes

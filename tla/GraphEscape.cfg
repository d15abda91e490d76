SPECIFICATION Spec
CONSTANTS
  Adapters <- MoeAdapters
  Warm = 1
  MaxLoops = 2
  Repeat = 2
  SideWarm = 1
  Replays = 2
INVARIANTS
  RowTimesItsKernels

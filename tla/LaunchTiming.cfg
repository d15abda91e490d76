SPECIFICATION Spec
CONSTANTS
  Adapters <- SoundAdapters
  Warm = 1
  MaxLoops = 2
  Repeat = 2
  SideWarm = 1
  Replays = 2
INVARIANTS
  TypeOK
  FreshBuffers
  RowTimesItsKernels
  IntervalsStartCold
  SumsFromZero
PROPERTIES
  BuildsBeforeTiming

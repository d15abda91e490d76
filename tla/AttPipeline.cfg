SPECIFICATION Spec
CONSTANTS
  MaxCaptures = 3
  MaxDeaths = 1
  MaxDispatches = 2
  MaxRank = 2
  Tags = {"big", "small"}
CHECK_DEADLOCK FALSE
INVARIANTS
  TypeOK
  CaptureIsWhole
  NoShellPublished
  UndeadBundle

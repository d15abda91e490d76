SPECIFICATION Spec
CONSTANTS
  MaxCaptures = 2
  MaxDeaths = 1
  MaxDispatches = 2
  MaxRank = 2
  Tags = {"big"}
CHECK_DEADLOCK FALSE
INVARIANTS
  ReadmeOfItsTrace

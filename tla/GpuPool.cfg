SPECIFICATION Spec
CONSTANTS
  Tests <- FourTests
  NGpu = 2
  Leftover <- TwoLeftovers
INVARIANTS
  TypeOK
  DedicatedGpu
  FreeListExact
  EveryTestOnce
  ReportIsOwn
  ReportIsCurrent
PROPERTIES
  AllTestsFinish
  ImplementsPool

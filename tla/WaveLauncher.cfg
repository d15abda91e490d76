SPECIFICATION Spec
CONSTANTS
  NKernels = 5
  NGpu = 3
INVARIANTS
  TypeOK
  AllDoneIsLast
PROPERTIES
  ScriptEnds
  ImplementsPool

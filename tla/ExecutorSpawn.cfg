CONSTANTS
  MaxThreads = 3
  MaxCount = 4
SPECIFICATION Spec
INVARIANTS
  ErrorsPropagate
CHECK_DEADLOCK FALSE

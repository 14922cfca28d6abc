CONSTANTS
  MaxThreads = 3
  MaxCount = 4
SPECIFICATION Spec
INVARIANTS
  TypeOK
  ClaimsExclusive
  SerialFailureSeen
  CancellationBounded
PROPERTIES
  Terminates
  ImplementsIndexedMap
CHECK_DEADLOCK FALSE

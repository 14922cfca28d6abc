SPECIFICATION Spec
CONSTANT MaxRuns <- MCMaxRuns
INVARIANTS
  TypeOK
  NothingLost
  FailureRestores
PROPERTY ImplementsAtomicPublish
CHECK_DEADLOCK FALSE

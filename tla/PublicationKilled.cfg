SPECIFICATION Spec
CONSTANT MaxRuns <- MCMaxRuns
INVARIANT PublishedStaysAvailable
CHECK_DEADLOCK FALSE

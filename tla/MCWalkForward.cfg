SPECIFICATION Spec
CONSTANTS
  Tickers = 2
  Histories <- MCHistories
  Grid <- MCGrid
  Families = 2
  Summaries <- MCSummaries
  MinTrades = 3
  Growths = {9, 12}
  G = 10
  Start = 1000
  Years = 3
  Months = 6
  Steps = {3, 6}
  TrainDays = 4
  TestDays = 3
  StepDays = 3
INVARIANTS
  SessionsTestedOnce
  SelectsFirstBest
  CapitalLinked
CHECK_DEADLOCK FALSE

CONSTANTS
  Start = 100
  Prices <- MCPrices
  MaxBars = 4
  CostNum = 1
  SlipNum = 1
  Scale = 100
  Strategies <- MCStrategies
  Earlier <- MCEarlier
SPECIFICATION StrategySpec
INVARIANTS
  CrossingsTraded
  LongOnly
  NextOpenExecution
  BasisReconciles
  CostsExplainCash
  EndsSettled
  BenchmarkParity
PROPERTIES
  ReserveCoversCosts
CHECK_DEADLOCK FALSE

SPECIFICATION MCSpec
CONSTANTS
  N = 2
  Start = 11
  Bars <- MCBars
  Targets <- MCTargets
  W = 20
  MinTrade = 1
  CostNum = 1
  SlipNum = 1
  Scale = 20
  Den = 2
  MaxSessions = 4
  Share = 12
  Passes = 8
  RawWeights <- MCRawWeights
  Caps = {840, 2520, 5040, 10080, 20160}
  Budget = 20160
  Week = 2
  Policies = {"defer", "skip_asset"}
  Values = {1, 2, 3}
INVARIANT SplitsNeutral
CHECK_DEADLOCK FALSE

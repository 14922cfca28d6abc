SPECIFICATION RunSpec
CONSTANTS
  Requests <- MCRequests
  VolatilityWindow = 2
  TrendWindow = 3
  ReturnWindow = 2
  MinVolatilities = 1
  Bits = 6
  Histories <- MCHistories
  Gaps = {{}, {8}, {1, 2, 3, 4, 6}}
  Grid <- MCGrid
  Families = 2
  Scores = {1, 2}
  Returns = {0, 1}
  Years = 1
  Months = 3
  Steps = {2, 3}
  MinObservations = 1
  Growths = {9}
  G = 10
  Start = 1000
INVARIANTS
  FilesInOrder
  SelectionSound
  PanelSound
  RegimesCausal
  DrawsEven
CHECK_DEADLOCK FALSE

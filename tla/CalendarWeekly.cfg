SPECIFICATION Spec
CONSTANTS
  Assets = {BTC, SPY}
  FirstDays <- MCFirstDays
  Gaps = {1, 2, 7}
  MaxSessions = 5
  MaxAge = 3
INVARIANTS
  WeeklyOncePerCivilWeek
CHECK_DEADLOCK FALSE

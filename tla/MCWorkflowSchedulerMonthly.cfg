CONSTANTS
  Ids = {s1, s2}
  Controllers = {k1}
  Configs <- MonthlyConfigs
  Day = 1
  IntLimit = 24
  MaxWait = 2
  MaxTime = 4
  MaxCount = 3
  MaxCalls = 3
SPECIFICATION Spec
CHECK_DEADLOCK FALSE
PROPERTY RepeatsLater

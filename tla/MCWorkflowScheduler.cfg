CONSTANTS
  Ids = {s1, s2}
  Controllers = {k1, k2}
  Configs <- MCConfigs
  Day = 1
  IntLimit = 24
  MaxWait = 2
  MaxTime = 3
  MaxCount = 3
  MaxCalls = 4
SPECIFICATION Spec
CHECK_DEADLOCK FALSE
INVARIANTS TypeOK OneEntryPerCall ExecutionsBounded PendingIsQueued TerminationNeedsOverlap
PROPERTIES StopReturns TopIsServed

CONSTANTS
  Clients = {c1, c2}
  Ids = {i1}
  Limits = {1}
  MaxCalls = 3
  MaxTime = 1
SPECIFICATION Spec
CHECK_DEADLOCK FALSE
PROPERTY InitializeReturns

CONSTANTS
  Clients = {c1, c2}
  Ids = {i1, i2}
  Limits = {1, 2}
  MaxCalls = 4
  MaxTime = 3
  FewCalls = 3
  ManyCalls = 5
  FewIds = {i1}
  ShortTime = 2
  MaxHistory = 2
SPECIFICATION Spec
CHECK_DEADLOCK FALSE
INVARIANTS TypeOK IndicesAgree NothingLost DecisionsHold
PROPERTIES BreakerImplemented LimitsKeep CallsReturn

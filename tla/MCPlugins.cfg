CONSTANTS
  Clients = {c1, c2}
  Ids = {p1, p2, p3}
  Limits = {1, 2}
  MaxCalls = 4
  MaxTime = 3
  FewClients = {c1}
  FewIds = {p1}
  SomeIds = {p1, p2}
  Timeouts = {0}
  Threads = {t1, t2}
  First = t1
  FewCalls = 3
  TaskCalls = 5
  DataCalls = 6
  SizeLimit = 8
  ShortTime = 2
SPECIFICATION Spec
CHECK_DEADLOCK FALSE
INVARIANTS TypeOK TablesAgree InOrder NothingForgotten
PROPERTIES AnswersAreFinal CallsReturn

CONSTANTS
  c1 = c1
  c2 = c2
  w1 = w1
  w2 = w2
  t1 = t1
  t2 = t2
  t3 = t3
  Clients = {c1, c2}
  Worker = Worker
  Workflows = {w1, w2}
  Tasks = {t1, t2}
  WorkflowOf <- MCWorkflowOf
  Timed = {t1}
  Failing = {t2}
  None = None
  MaxCalls = 3
  MaxResults = 1
SPECIFICATION Spec
CHECK_DEADLOCK FALSE
INVARIANTS TypeOK TasksInOrder QuietMeansDone ResultsAreFinal OverlapNeedsTimeout
PROPERTIES AwakeWorkerDrains DestructorReturns

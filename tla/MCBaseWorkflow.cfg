SPECIFICATION Spec
CONSTANTS
  Threads = {t1, t2}
  Executor = executor
  NoThread = none
  Bodies <- AllBodies
  MaxCalls = 5
INVARIANTS TypeOK RunsSerialized StopWaits
PROPERTIES AcceptedStopSettles LifecycleKept CallsReturn
CHECK_DEADLOCK FALSE

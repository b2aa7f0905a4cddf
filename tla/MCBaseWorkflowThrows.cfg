SPECIFICATION Spec
CONSTANTS
  Threads = {t1, t2}
  Executor = executor
  NoThread = none
  Bodies <- ThrowingBodies
  MaxCalls = 3
PROPERTIES ThrownErrorSettles
CHECK_DEADLOCK FALSE

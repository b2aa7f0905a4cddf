CONSTANTS
  NodeId = {1, 2, 3}
  MaxEdges = 3
  MaxStale = 1
  Clients = {c1, c2}
  NoClient = NoClient
  Tolerated = {1}
  Throwing = {2}
  Plans <- MCPlans
  MaxCalls = 4
SPECIFICATION Spec
CHECK_DEADLOCK FALSE
INVARIANTS TypeOK ListsAgree AlgorithmsAgree NoEarlyStart CompletedMeansDone StateTellsRun
PROPERTIES CallsReturn

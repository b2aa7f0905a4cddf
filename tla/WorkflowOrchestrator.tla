------------------------ MODULE WorkflowOrchestrator ------------------------
(***************************************************************************)
(* An orchestrator that runs a WorkflowGraph: its callers, and the threads *)
(* execute() starts for the nodes.  Every method takes mutex_, and         *)
(* execute() keeps it to its end; so the short methods are one step, taken *)
(* when no execute() is in progress, and the steps of execute() interleave *)
(* with those of its own threads only.  The client builds the graph before *)
(* it calls the orchestrator, and edits it no more.                        *)
(***************************************************************************)
EXTENDS WorkflowGraph

CONSTANTS
  Clients,    \* threads that call the orchestrator
  NoClient,   \* the owner of a free mutex_
  Tolerated,  \* ids of nodes with the attribute failOnError other than "true"
  Throwing,   \* ids of nodes for which the executor the client set may throw
  Plans,      \* bound: the graphs that are handed to the orchestrator
  MaxCalls    \* bound: calls made by all Clients together

ASSUME OrchestratorAssumptions ==
  /\ NoClient \notin Clients
  /\ Tolerated \cup Throwing \subseteq NodeId
  /\ MaxCalls \in Nat

VARIABLES
  graphSet,      \* graph_ is not null
  contextSet,    \* context_ is not null
  state,         \* state_
  context,       \* state_ of the context
  results,       \* nodeResults_ of the context
  strategy,      \* strategy_
  progress,      \* progress_
  shouldAbort,   \* shouldAbort_
  shouldPause,   \* shouldPause_
  owner,         \* the caller inside execute(), which holds mutex_
  mode,          \* how the latest execute() runs nodes
  todo,          \* executeSequential: the rest of order, the node in hand included
  layer,         \* executeParallel: currentLayer
  completed,     \* executeParallel: completedNodesSet
  layerResults,  \* executeParallel: ids in layerResults
  counted,       \* executeParallel: completedNodes
  at,            \* where the thread that executes a node is
  task,          \* the std::async task of the executor for a node
  nodeState,     \* state_ of a node
  outcome,       \* result.success of a node in the latest execute()
  started,       \* history: how often the latest execute() started a node
  clash,         \* history: ids whose push_back overlapped another, in the latest execute()
  alive,         \* the process has not crashed or been terminated
  call,          \* the method each client has called and not returned from
  calls          \* calls made so far

settings == <<graphSet, contextSet, strategy>>
status   == <<state, context, progress>>
flags    == <<shouldAbort, shouldPause>>
running  == <<owner, mode, todo, layer, completed, layerResults, counted>>
work     == <<at, task, nodeState, outcome, results, started, clash>>
calling  == <<call, calls>>

vars == <<graph, settings, status, flags, running, work, alive, calling>>

OrchestrationState == {"IDLE", "RUNNING", "PAUSED", "COMPLETED", "FAILED"}

Methods == {"execute", "pause", "resume", "abort", "reset", "setGraph", "clearGraph",
            "setExecutionStrategy"}

Init ==
  /\ GraphInit
  /\ graphSet = FALSE /\ contextSet = FALSE
  /\ state = "IDLE" /\ context = "IDLE"
  /\ results = [n \in NodeId |-> "none"]
  /\ strategy = "SEQUENTIAL"
  /\ progress = 0
  /\ shouldAbort = FALSE /\ shouldPause = FALSE
  /\ owner = NoClient
  /\ mode = "SEQUENTIAL"
  /\ todo = << >>
  /\ layer = {} /\ completed = {} /\ layerResults = {} /\ counted = 0
  /\ at = [n \in NodeId |-> "out"]
  /\ task = [n \in NodeId |-> "none"]
  /\ nodeState = [n \in NodeId |-> "PENDING"]
  /\ outcome = [n \in NodeId |-> "none"]
  /\ started = [n \in NodeId |-> 0]
  /\ clash = {}
  /\ alive = TRUE
  /\ call = [c \in Clients |-> "none"]
  /\ calls = 0

-----------------------------------------------------------------------------
(* Clients.                                                                *)

Build ==
  /\ calls = 0
  /\ EditGraph
  /\ UNCHANGED <<settings, status, flags, running, work, alive, calling>>

\* Clients outside the orchestrator are interchangeable.
Request ==
  /\ alive
  /\ calls < MaxCalls
  /\ graph \in Plans
  /\ \E c \in Clients : call[c] = "none"
  /\ \E m \in Methods :
       call' = [call EXCEPT ![CHOOSE c \in Clients : call[c] = "none"] = m]
  /\ calls' = calls + 1
  /\ UNCHANGED <<graph, settings, status, flags, running, work, alive>>

\* Mutant: mutex_ is not taken.
NoLock(c, m) == alive /\ call[c] = m

\* c takes mutex_ for m.
Lock(c, m) ==
  /\ alive
  /\ call[c] = m
  /\ owner = NoClient

Return(c) ==
  /\ call' = [call EXCEPT ![c] = "none"]
  /\ UNCHANGED calls

\* setGraph with a graph, or with a null pointer: either makes a new context.
SetGraph(c) ==
  /\ \/ Lock(c, "setGraph") /\ graphSet' = TRUE
     \/ Lock(c, "clearGraph") /\ graphSet' = FALSE
  /\ contextSet' = TRUE
  /\ context' = "IDLE"
  /\ results' = [n \in NodeId |-> "none"]
  /\ Return(c)
  /\ UNCHANGED <<graph, strategy, state, progress, flags, running, at, task, nodeState,
                 outcome, started, clash, alive>>

SetExecutionStrategy(c) ==
  /\ Lock(c, "setExecutionStrategy")
  /\ strategy' \in {"SEQUENTIAL", "PARALLEL"}
  /\ Return(c)
  /\ UNCHANGED <<graph, graphSet, contextSet, status, flags, running, work, alive>>

Pause(c) ==
  /\ Lock(c, "pause")
  /\ IF state = "RUNNING"
       THEN state' = "PAUSED" /\ context' = "PAUSED" /\ shouldPause' = TRUE
       ELSE UNCHANGED <<state, context, shouldPause>>
  /\ Return(c)
  /\ UNCHANGED <<graph, settings, progress, shouldAbort, running, work, alive>>

Resume(c) ==
  /\ Lock(c, "resume")
  /\ IF state = "PAUSED"
       THEN state' = "RUNNING" /\ context' = "RUNNING" /\ shouldPause' = FALSE
       ELSE UNCHANGED <<state, context, shouldPause>>
  /\ Return(c)
  /\ UNCHANGED <<graph, settings, progress, shouldAbort, running, work, alive>>

Abort(c) ==
  /\ Lock(c, "abort")
  /\ IF state \in {"RUNNING", "PAUSED"}
       THEN shouldAbort' = TRUE /\ shouldPause' = FALSE
       ELSE UNCHANGED flags
  /\ Return(c)
  /\ UNCHANGED <<graph, settings, status, running, work, alive>>

Reset(c) ==
  /\ Lock(c, "reset")
  /\ state' = "IDLE"
  /\ progress' = 0
  /\ shouldAbort' = FALSE /\ shouldPause' = FALSE
  /\ context' = "IDLE"
  /\ Return(c)
  /\ UNCHANGED <<graph, settings, running, work, alive>>

-----------------------------------------------------------------------------
(* execute().                                                              *)

\* No graph, or the state says that an execution is in progress.
Refuse(c) ==
  /\ Lock(c, "execute")
  /\ ~graphSet \/ ~contextSet \/ state = "RUNNING"
  /\ Return(c)
  /\ UNCHANGED <<graph, settings, status, flags, running, work, alive>>

RejectCycle(c) ==
  /\ Lock(c, "execute")
  /\ graphSet /\ contextSet /\ state # "RUNNING"
  /\ ~isDAG
  /\ state' = "FAILED" /\ context' = "FAILED"
  /\ Return(c)
  /\ UNCHANGED <<graph, settings, progress, flags, running, work, alive>>

\* execute() up to the first node, or to its end when there is none to start.
Execute(c) ==
  /\ Lock(c, "execute")
  /\ graphSet /\ contextSet /\ state # "RUNNING"
  /\ isDAG
  /\ state' = "RUNNING" /\ context' = "RUNNING"
  /\ shouldAbort' = FALSE /\ shouldPause' = FALSE
  /\ mode' = strategy
  /\ \/ strategy = "SEQUENTIAL" /\ todo' \in topologicalSort /\ UNCHANGED layer
     \/ strategy = "PARALLEL" /\ layer' = getStartNodes /\ UNCHANGED todo
  /\ completed' = {} /\ layerResults' = {} /\ counted' = 0
  /\ started' = [n \in NodeId |-> 0]
  /\ outcome' = [n \in NodeId |-> "none"]
  /\ clash' = {}
  /\ IF (strategy = "SEQUENTIAL" /\ todo' = << >>) \/ (strategy = "PARALLEL" /\ layer' = {})
       THEN Return(c) /\ UNCHANGED owner
       ELSE owner' = c /\ UNCHANGED calling
  /\ UNCHANGED <<graph, settings, progress, at, task, nodeState, results, alive>>

Executing == alive /\ owner # NoClient

\* Mutant: execute() returns without unlocking mutex_.
LeaveLocked == UNCHANGED owner /\ Return(owner)

Leave == owner' = NoClient /\ Return(owner)

Complete ==
  /\ state' = "COMPLETED" /\ context' = "COMPLETED"
  /\ progress' = 100
  /\ Leave

-----------------------------------------------------------------------------
(* One node: DefaultNodeExecutor::execute, on the caller's thread or on    *)
(* one of the layer's.                                                     *)

StartNode(n) ==
  /\ at' = [at EXCEPT ![n] = "await"]
  /\ task' = [task EXCEPT ![n] = "asleep"]
  /\ nodeState' = [nodeState EXCEPT ![n] = "RUNNING"]
  /\ started' = [started EXCEPT ![n] = @ + 1]

TaskEnds(n) ==
  /\ alive
  /\ task[n] = "asleep"
  /\ task' = [task EXCEPT ![n] = "ended"]
  /\ UNCHANGED <<graph, settings, status, flags, running, at, nodeState, outcome, results,
                 started, clash, alive, calling>>

\* wait_for gives up; leaving the function still waits for the task in the destructor of
\* the future.
NodeTimesOut(n) ==
  /\ alive
  /\ at[n] = "await" /\ task[n] = "asleep"
  /\ at' = [at EXCEPT ![n] = "late"]
  /\ nodeState' = [nodeState EXCEPT ![n] = "FAILED"]
  /\ outcome' = [outcome EXCEPT ![n] = "failure"]
  /\ UNCHANGED <<graph, settings, status, flags, running, task, results, started, clash,
                 alive, calling>>

NodeReturns(n) ==
  /\ alive
  /\ at[n] \in {"await", "late"} /\ task[n] = "ended"
  /\ at' = [at EXCEPT ![n] = "save"]
  /\ \/ at[n] = "late" /\ UNCHANGED <<nodeState, outcome>>
     \/ /\ at[n] = "await"
        /\ \/ /\ nodeState' = [nodeState EXCEPT ![n] = "COMPLETED"]
              /\ outcome' = [outcome EXCEPT ![n] = "success"]
           \/ /\ nodeState' = [nodeState EXCEPT ![n] = "FAILED"]
              /\ outcome' = [outcome EXCEPT ![n] = "failure"]
  /\ UNCHANGED <<graph, settings, status, flags, running, task, results, started, clash,
                 alive, calling>>

\* The client's executor throws: execute() catches it on its own thread; out of a thread
\* of the layer it terminates the process.
NodeThrows(n) ==
  /\ alive
  /\ n \in Throwing
  /\ at[n] = "await" /\ task[n] = "ended"
  /\ outcome' = [outcome EXCEPT ![n] = "thrown"]
  /\ at' = [at EXCEPT ![n] = "out"]
  /\ IF mode = "SEQUENTIAL"
       THEN /\ state' = "FAILED" /\ context' = "FAILED"
            /\ Leave
            /\ UNCHANGED alive
       ELSE alive' = FALSE /\ UNCHANGED <<state, context, owner, calling>>
  /\ UNCHANGED <<graph, settings, progress, flags, mode, todo, layer, completed,
                 layerResults, counted, task, nodeState, results, started, clash>>

\* Mutant: failOnError is read the wrong way round.
FailedInverted(n) == outcome[n] = "failure" /\ n \in Tolerated

Failed(n) == outcome[n] = "failure" /\ n \notin Tolerated

-----------------------------------------------------------------------------
(* executeSequential().                                                    *)

\* The next node.  With shouldPause_ the thread waits until that is cleared or shouldAbort_
\* is set, which ends the execution.
SequenceStart ==
  /\ Executing /\ mode = "SEQUENTIAL"
  /\ todo # << >> /\ at[Head(todo)] = "out"
  /\ IF shouldAbort
       THEN Leave /\ UNCHANGED <<progress, at, task, nodeState, started>>
       ELSE /\ ~shouldPause
            /\ progress' = ((Cardinality(nodes) - Len(todo)) * 100) \div Cardinality(nodes)
            /\ StartNode(Head(todo))
            /\ UNCHANGED <<owner, calling>>
  /\ UNCHANGED <<graph, settings, state, context, flags, mode, todo, layer, completed,
                 layerResults, counted, outcome, results, clash, alive>>

\* The result is saved and the loop goes on, unless the node failed and must not.
SequenceSave ==
  /\ Executing /\ mode = "SEQUENTIAL"
  /\ todo # << >> /\ at[Head(todo)] = "save"
  /\ LET n == Head(todo)
     IN  /\ at' = [at EXCEPT ![n] = "out"]
         /\ results' = [results EXCEPT ![n] = outcome[n]]
         /\ IF Failed(n)
              THEN Leave /\ UNCHANGED todo
              ELSE todo' = Tail(todo) /\ UNCHANGED <<owner, calling>>
  /\ UNCHANGED <<graph, settings, status, flags, mode, layer, completed, layerResults,
                 counted, task, nodeState, outcome, started, clash, alive>>

SequenceEnds ==
  /\ Executing /\ mode = "SEQUENTIAL"
  /\ todo = << >>
  /\ Complete
  /\ UNCHANGED <<graph, settings, flags, mode, todo, layer, completed, layerResults,
                 counted, work, alive>>

-----------------------------------------------------------------------------
(* executeParallel().                                                      *)

\* The threads of the layer are created.
LayerLaunch ==
  /\ Executing /\ mode = "PARALLEL"
  /\ layer # {} /\ ~shouldAbort
  /\ \A n \in NodeId : at[n] = "out"
  /\ at' = [n \in NodeId |-> IF n \in layer THEN "thread" ELSE at[n]]
  /\ layerResults' = {}
  /\ UNCHANGED <<graph, settings, status, flags, owner, mode, todo, layer, completed,
                 counted, task, nodeState, outcome, results, started, clash, alive, calling>>

LayerStart(n) ==
  /\ alive
  /\ at[n] = "thread"
  /\ StartNode(n)
  /\ UNCHANGED <<graph, settings, status, flags, running, outcome, results, clash, alive,
                 calling>>

\* setNodeResult, under the mutex of the context.
LayerSave(n) ==
  /\ alive /\ mode = "PARALLEL"
  /\ at[n] = "save"
  /\ at' = [at EXCEPT ![n] = "push"]
  /\ results' = [results EXCEPT ![n] = outcome[n]]
  /\ UNCHANGED <<graph, settings, status, flags, running, task, nodeState, outcome, started,
                 clash, alive, calling>>

Pushing == {n \in NodeId : at[n] = "pushing"}

\* layerResults.push_back begins, under no mutex.
LayerPush(n) ==
  /\ alive
  /\ at[n] = "push"
  /\ at' = [at EXCEPT ![n] = "pushing"]
  /\ clash' = IF Pushing = {} THEN clash ELSE clash \cup Pushing \cup {n}
  /\ UNCHANGED <<graph, settings, status, flags, running, task, nodeState, outcome, results,
                 started, alive, calling>>

\* It ends.  When it overlapped another, the element may be lost, or the vector may be
\* broken so that the process crashes.
LayerPushed(n) ==
  /\ alive
  /\ at[n] = "pushing"
  /\ at' = [at EXCEPT ![n] = "joined"]
  /\ \/ layerResults' = layerResults \cup {n} /\ UNCHANGED alive
     \/ n \in clash /\ UNCHANGED <<layerResults, alive>>
     \/ n \in clash /\ alive' = FALSE /\ UNCHANGED layerResults
  /\ UNCHANGED <<graph, settings, status, flags, owner, mode, todo, layer, completed,
                 counted, task, nodeState, outcome, results, started, clash, calling>>

\* Mutants: one finished predecessor is enough; finished nodes are not skipped.
NextLayerEager(done) == {n \in nodes \ done : Predecessors(n) \cap done # {}}
NextLayerAgain(done) == {n \in nodes : Predecessors(n) \subseteq done}

NextLayer(done) == {n \in nodes \ done : Predecessors(n) \subseteq done}

\* All threads of the layer are joined: the results in the vector are looked through, and
\* the next layer is formed.
LayerJoin ==
  /\ Executing /\ mode = "PARALLEL"
  /\ layer # {} /\ \A n \in layer : at[n] = "joined"
  /\ at' = [n \in NodeId |-> "out"]
  /\ counted' = counted + Cardinality(layerResults)
  /\ IF \E n \in layerResults : Failed(n)
       THEN Leave /\ UNCHANGED <<progress, completed, layer>>
       ELSE /\ progress' = (counted' * 100) \div Cardinality(nodes)
            /\ completed' = completed \cup layer
            /\ layer' = NextLayer(completed')
            /\ UNCHANGED <<owner, calling>>
  /\ UNCHANGED <<graph, settings, state, context, flags, mode, todo, layerResults, task,
                 nodeState, outcome, results, started, clash, alive>>

LayersEnd ==
  /\ Executing /\ mode = "PARALLEL"
  /\ layer = {} \/ shouldAbort
  /\ \A n \in NodeId : at[n] = "out"
  /\ IF shouldAbort
       THEN progress' = 100 /\ Leave /\ UNCHANGED <<state, context>>
       ELSE Complete
  /\ UNCHANGED <<graph, settings, flags, mode, todo, layer, completed, layerResults,
                 counted, work, alive>>

-----------------------------------------------------------------------------
Method(c) ==
  \/ SetGraph(c) \/ SetExecutionStrategy(c)
  \/ Pause(c) \/ Resume(c) \/ Abort(c) \/ Reset(c)
  \/ Refuse(c) \/ RejectCycle(c) \/ Execute(c)

Node(n) ==
  \/ TaskEnds(n) \/ NodeReturns(n) \/ NodeThrows(n)
  \/ LayerStart(n) \/ LayerSave(n) \/ LayerPush(n) \/ LayerPushed(n)

Loop == SequenceStart \/ SequenceSave \/ SequenceEnds \/ LayerLaunch \/ LayerJoin \/ LayersEnd

Next ==
  \/ Build \/ Request
  \/ \E c \in Clients : Method(c)
  \/ \E n \in NodeId : Node(n) \/ NodeTimesOut(n)
  \/ Loop

\* The threads of callers and of layers are scheduled, and the work of a node ends.
Fairness ==
  /\ \A c \in Clients : WF_vars(Method(c))
  /\ \A n \in NodeId : WF_vars(Node(n))
  /\ WF_vars(Loop)

Spec == Init /\ [][Next]_vars /\ Fairness

-----------------------------------------------------------------------------
(* Properties.                                                             *)

CoreTypeOK ==
  /\ GraphTypeOK
  /\ {graphSet, contextSet, shouldAbort, shouldPause, alive} \subseteq BOOLEAN
  /\ {state, context} \subseteq OrchestrationState
  /\ {strategy, mode} \subseteq {"SEQUENTIAL", "PARALLEL"}
  /\ owner \in Clients \cup {NoClient}
  /\ layer \cup completed \cup layerResults \cup clash \subseteq NodeId
  /\ at \in [NodeId -> {"out", "thread", "await", "late", "save", "push", "pushing", "joined"}]
  /\ task \in [NodeId -> {"none", "asleep", "ended"}]
  /\ nodeState \in [NodeId -> {"PENDING", "RUNNING", "COMPLETED", "FAILED"}]
  /\ outcome \in [NodeId -> {"none", "success", "failure", "thrown"}]
  /\ started \in [NodeId -> Nat]
  /\ call \in [Clients -> Methods \cup {"none"}]
  /\ calls \in Nat

TypeOK ==
  /\ CoreTypeOK
  /\ todo \in Seq(NodeId)
  /\ progress \in 0 .. 100
  /\ counted \in 0 .. Cardinality(nodes)
  /\ results \in [NodeId -> {"none", "success", "failure"}]
  /\ calls \in 0 .. MaxCalls

\* An execution starts a node at most once, and only after every node with an edge to it
\* was started, its task has ended (also when the executor gave up waiting for it), its
\* result is saved and it did not fail for good: in layers, and in the order of the sort
\* unless that counts the node down along the list of a node put back.
NoEarlyStart ==
  \A n \in nodes \ stale : started[n] > 0 =>
    /\ started[n] = 1
    /\ mode = "PARALLEL" \/ CountsEdges(n) =>
         \A p \in nodes \ stale : edges[p][n] > 0 =>
           /\ started[p] = 1 /\ task[p] = "ended" /\ at[p] = "out"
           /\ outcome[p] = "success" \/ p \in Tolerated \/ p \in clash

\* The part of it that executeParallel answers for.
LayersInOrder == mode = "PARALLEL" => NoEarlyStart

\* COMPLETED in the context means that every node was executed, has the saved result of that
\* execution and did not fail for good; only lost results of a layer break that, and only
\* for a graph whose lists disagree is a node passed over.
CompletedMeansDone ==
  context = "COMPLETED" /\ stale = {} =>
    \A n \in nodes :
      /\ started[n] = 1 /\ results[n] = outcome[n]
      /\ outcome[n] = "success" \/ n \in Tolerated \/ n \in clash

\* No control call reaches an execution in progress, since it waits for mutex_: until the
\* end the state is RUNNING and both flags are down.
RunUndisturbed ==
  owner # NoClient =>
    state = "RUNNING" /\ context = "RUNNING" /\ ~shouldAbort /\ ~shouldPause

\* state_ against the execution: in progress it is RUNNING and undisturbed; and an
\* orchestrator that says RUNNING or PAUSED with nothing in progress, and so refuses to
\* execute, got there by a node that failed for good, or by a graph with nothing to start.
StateTellsRun ==
  /\ RunUndisturbed
  /\ owner = NoClient /\ state \in {"RUNNING", "PAUSED"} /\ stale = {} =>
       nodes = {} \/ \E n \in nodes : Failed(n)

\* Every call returns: a control call waits no longer than the execution in progress, and
\* that runs out of nodes and of layers.
CallsReturn ==
  \A c \in Clients : call[c] # "none" ~> call[c] = "none" \/ ~alive

=============================================================================

# Verification of the workflow system

TLA+ models of the C++ workflow system in this repository, model-checked with TLC and, for the
parts that carry most weight, proved with TLAPS. Paths are relative to the repository. The text
has four parts: the inventory of the system, what is modelled and how it corresponds to the
code, what the runs and the proofs show, and the plan.

## 1. The system

The program runs *workflows*: objects with a lifecycle, an execution thread and a result
future. A manager owns a registry and a queue of tasks that it runs one after another on a
thread of its own. Around them stand an orchestrator (graphs of workflows), a scheduler (due
times), resilience helpers, persistence and statistics, and a separate plugin subsystem with
its own buses, channels and thread pool. Everything lives in one process: threads, mutexes,
condition variables and futures are the only means of interaction.

```
 client threads --> SystemFacade --> WorkflowManager --(queue thread)--> BaseWorkflow --(execution thread)--> onExecute
                                        |    \--> SqliteWorkflowPersistence                |--> WorkflowObserver
 WorkflowScheduler --(callback)---------+                                                  |--> WorkflowContext
 WorkflowOrchestrator --> WorkflowGraph, BaseWorkflow       CircuitBreaker, RetryPolicy, TimeoutHandler,
                                                            DeadLetterQueue, CheckpointManager, AlertManager
 PluginManager --> LifecycleManager, DependencyResolver, PluginContext --> EventBus, MessageBus, channels, ThreadPool
```

### Inventory

**BaseWorkflow** (`src/include/workflow_system/implementations/workflows/base_workflow.h`).
State: `state_` behind `stateMutex_`, the atomics `stopFlag_` and `pausedFlag_`,
`executionThread_` behind `threadMutex_`, the pair `pauseMutex_`/`pauseCV_`, a promise per run,
observers. Operations: start, execute, pause, suspend, resume, interrupt, cancel, finish,
error, the destructor, and for the body shouldStop, isPausedFlag, waitForResume. Hard: any
caller on any thread against the execution thread; a test of the state and the action that
rests on it are separate; `stop()` joins with `threadMutex_` held; the exception handlers run
on the thread that `stop()` joins. Correct if runs are serialized, stop waits, the lifecycle
only goes forward, an accepted stop settles the workflow, and calls return.

**WorkflowManager** (`src/src/implementations/workflow_manager.cpp`). State: `workflows_`,
`currentWorkflow_`, `taskQueue_`, `executionResults_`, `queueProcessing_` behind `mutex_` (or
read beside it), `processingThreadRunning_`, the queue thread, `persistence_`,
`defaultTimeout_`. Operations: register, unregister, start, switch, interrupt, cancel, enqueue,
dequeue, processQueue, results, persistence, and the thread's loop with its timeout. Calls
BaseWorkflow from callers and from the queue thread. Hard: the two race on one workflow; reads
of `currentWorkflow_` outside the mutex; notifications without the mutex, or none at all;
timeouts against late ends. Correct if tasks are neither lost nor overtaken, a quiet queue
means results, results are final, runs of different tasks do not overlap, and the destructor
returns.

**WorkflowScheduler** (`src/src/implementations/workflow_scheduler_impl.cpp`). State:
`tasks_`, `priorityQueue_`, `records_`, `running_`, the thread. Operations: schedule, cancel,
pause, resume, update, start, stop, queries; the loop with its callback. Hard: heap entries
outlive schedules; the clock; callbacks under the mutex; the wait against stop. Correct if what
is due runs, once per due time, not too often, and stop returns.

**WorkflowOrchestrator** (`src/src/implementations/workflow_orchestrator.cpp`). State: nodes,
`state_`, results, history behind `mutex_`. Operations: execute (sequential, parallel layers,
graph), pause, resume, abort, failure policies. Uses WorkflowGraph for the order. Hard:
`execute()` keeps `mutex_` throughout, so control calls wait for the end; parallel tasks write
one vector; futures with timeouts block in their destructor. Correct if a layer starts after
its predecessors, a failed node is treated as the policy says and the final state tells it.

**WorkflowGraph** (`src/src/implementations/workflow_graph.cpp`). State: nodes and a list of
edges. Operations: add, remove, detectCycles, topologicalSort, layers, paths. Pure algorithms.
Correct if the sort respects every edge exactly when there is no cycle.

**CircuitBreaker** (`src/include/workflow_system/implementations/circuit_breaker.h`). State:
`state_`, failure and success counts, `openTime_`. Operations: allowRequest, recordSuccess,
recordFailure, getState, reset, forceOpen, configuration and callback. Hard: the mutex is
released for the callback in the middle of a transition. Correct if an open breaker turns
requests away until the reset time has passed and both views of it agree.

**TimeoutHandler** (`.../implementations/timeout_handler.h`). State: the flags and times under
`mutex_`, a monitor thread, a policy. Hard: stop and destruction against the expiry, a thread
object that may still be joinable. Correct if a stop in time suppresses the timeout, and comes
back.

**RetryPolicy** (`.../implementations/retry_policy.h`). State: configuration, last attempt.
Correct if attempts are bounded and delays grow up to their cap without overflow.

**DeadLetterQueue** (`src/src/implementations/dead_letter_queue_impl.cpp`). State: items, a
queue of identifiers, a limit, a retention. Hard: a full queue with nothing to remove; the two
indices under every order of retry, settlement and clearing. Correct if the indices agree and no
unresolved item is dropped for room.

**CheckpointManager** (`.../implementations/checkpoint_manager_impl.h`). State: the table and
two lists of identifiers, made of the clock. Hard: identifiers given twice, eviction. Correct if
table and lists agree and the newest checkpoints stay.

**AlertManager** (`src/src/implementations/alert_manager.cpp`), **WorkflowTracer**,
**MetricsCollector** (`src/src/implementations/`), **WorkflowObserver**: tables with a bounded
history, each under a mutex. Correct if table and history agree and every execution is accounted
for under any order of starts, ends and clears.

**ConditionalWorkflow** (`src/src/implementations/conditional_workflow_impl.cpp`). State:
branches, the selected one, an execution thread, a stop flag; no lock. Hard: every caller
against the thread. Correct if the branch selected is the best one, the end of the run means
that its branch ended, and a stop ends it.

**SqliteWorkflowPersistence** (`src/src/implementations/sqlite_workflow_persistence.cpp`) and
**WorkflowVersionControl** (`src/src/implementations/workflow_version_control_impl.cpp`). State:
rows of executions and of definitions; versions live among the definitions. Hard: closing,
reopening, the end of the process and a loss of power. Correct if an acknowledged row is found.

**WorkflowContext and resources** (`.../implementations/filesystem_resource_manager.h` and the
context). State: a table of directories, the directories. Hard: they are made and removed
outside the mutex. Correct if no directory is forgotten.

**SystemFacade** (`src/src/implementations/system_facade.cpp`). State: the manager, two flags, a
process-wide connection. Hard: the nested lock of `initialize()`, calls that test the manager
and then use it. Correct if calls return and no connection is left open.

**Plugin subsystem** (`src/src/plugin`, `src/include/workflow_system/plugin`):

* *PluginManager*: the table of plugins behind `pluginsMutex_`, statistics behind `statsMutex_`.
  Loads and unloads call the plugin without the lock. Hard: lock order, an entry taken out and
  put back around such calls. Correct if every instance is somewhere, started and stopped once.
* *LifecycleManager* (transition table, hooks), *DependencyResolver* (graph of plugins, load
  order, cycles): correct if a running plugin was initialized; if an order exists exactly when
  there is no cycle and everything needed is there.
* *EventBus*, *MessageBus*, *Channel/AsyncChannel*, *ThreadPool*: queues with worker threads.
  Hard: stop against the workers' wait, publication over a copy of the subscribers, promises
  shared by worker and timeout thread. Correct if order, single delivery and accounting hold and
  waiting calls return.
* *DataChannel* (bounded, drops the oldest, deleted under raw pointers), *TimerService*,
  *PluginContext* (what a plugin holds, and its shutdown beside the plugin's threads).
* *ServiceLocator*, *PluginManifest*: a map under a mutex, and parsing.

**WorkflowTemplate**, **configuration, memory pool and logging**: parsing, formatting and
forwarding; see "Not modelled".

**common library**: types, logger, `Any`, id generator and clock come from a library outside
the repository; the headers under `src/include/workflow_system/core` forward to it. The
enumeration of workflow states is taken from the transition table that uses it.

## 2. What is modelled

| module | what it is |
| --- | --- |
| `WorkflowStates` | the states and `isValidStateTransition`, `setState`, shared by the next three |
| `WorkflowLifecycle` | abstract: what a workflow promises its callers |
| `BaseWorkflow` | one workflow, its callers and its execution thread, implements `WorkflowLifecycle` |
| `BaseWorkflowProofs` | TLAPS proofs about it |
| `WorkflowManager` | the manager, its callers, the queue thread and the workflows as it sees them |
| `WorkflowManagerProofs` | TLAPS proofs about it |
| `WorkflowScheduler` | the scheduler, its callers, controllers, thread and clock |
| `WorkflowSchedulerProofs` | TLAPS proofs about it |
| `WorkflowGraph` | a graph under construction, its search, sort and validator |
| `WorkflowOrchestrator` | extends `WorkflowGraph` by the orchestrator that runs it, its callers and the threads of a layer |
| `WorkflowOrchestratorProofs` | TLAPS proofs about both: that the edits keep the graph's lists together and that its search, sorts and validator are right; what an execution keeps to |
| `Callers` | what the modules below share: threads that call, a clock, identifiers, limits |
| `BreakerPromise`, `CircuitBreaker` | abstract breaker; the breaker with its callbacks, which implements it |
| `TimeoutHandler` | the timer, its callers and its monitor thread |
| `DeadLetterQueue` | the queue of failed work |
| `RetryPolicy`, `CheckpointManager`, `AlertManager` | the policy and a caller that obeys it; the table of checkpoints and its lists; rules, alerts, history |
| `ConditionalWorkflow` | branches, callers and the execution thread |
| `WorkflowPersistence` | the rows of executions, definitions and versions, with crashes |
| `ExecutionRecords` | tracer, metrics collector and statistics observer |
| `WorkflowResources`, `SystemFacade` | directories and contexts; the facade and the connection |
| `Statistics` | the counters of the two buses, of the type `size_t` |
| `QueueWorkers` | worker threads on queues: what the next four are built on |
| `PluginChannel`, `EventBus`, `MessageBus`, `ThreadPool` | extend `QueueWorkers` by what each does with its queue |
| `DataChannel`, `TimerService`, `PluginContext` | bounded channel and its manager; timers; what a plugin holds |
| `PluginManager`, `PluginLifecycle`, `DependencyResolver` | the table of plugins; transitions and hooks; order of loading |
| `MCServices`, `MCPlugins` | the services, and the plugin components, side by side |
| `StoreProofs`, `ServiceProofs` | TLAPS proofs about the services: those that keep records, and those that decide; the second puts all of them together |
| `PluginPoolProofs`, `PluginProofs` | TLAPS proofs about the plugin components: those with queues or threads of their own, and the others; the second puts all of them together |
| `MC...` | the other instances that TLC checks |

**BaseWorkflow.** Each thread has a program counter `pc` and a method `call`. Everything that
another thread can come between is a step: the guard of a method, each write of a flag, the
locking and unlocking of `threadMutex_`, the join, `setState`. `setState` is one step, since it
holds `stateMutex_`; a rejected transition leaves the state alone. The condition variable is
three steps of the body (`WaitCheck`, `WaitBlock`, blocked) since notifiers do not take
`pauseMutex_`; `NotifyAll` wakes a blocked thread only. The body of a subclass is one of four
kinds: it returns by itself, polls the stop flag, waits for resume, or throws. `seen` is a
history variable. `state_` is an enum that is read outside its mutex; the read is modelled as
atomic. Left out: contexts (start() with a null context included), messages, the list of
observers. `handleMessage` changes no state of the workflow.

**WorkflowManager.** A section under `mutex_` that cannot block is one step; reads of
`currentWorkflow_` and `persistence_` outside it are steps of their own (`ClientTest`,
`ClientLoad`, `ClientClean`, `ClientStart`; `WorkerChecksStore`, `WorkerSaves`), with the null
dereferences as steps that crash. Of a workflow the manager sees the state, launched and ended
runs, and that stop methods join first; the labels and guards are those of `BaseWorkflow` with
`start()` in one step. The queue thread is `wpc`: wait, take, look up, select, start, execute,
await (with a timeout that may strike at any time), stop, join, record, read the state for
`success` and for the row, save. Each workflow is assumed to be registered under its own name,
as the manager's `unregisterWorkflow` presumes. Failing `onComplete` callbacks are in;
callbacks and workflows that call the manager back, and exceptions that leave the queue thread,
are not.

**WorkflowScheduler.** The table is four functions of the schedule id; the heap is a set of
entries, each labelled with the `schedule()` call it stems from, and `IsTop` is
`priority_queue::top`. The thread holds `mutex_` from the start of a pass to its wait, callbacks
included, so `LockedCall` excludes the labels of a pass. `start`, `stop` and the destructor
take no mutex and interleave at every access. `Tick` advances the clock between any two steps.
`Wrap` is 32-bit arithmetic for the one product that needs it; a tick of the model is a day.
WEEKLY and CRON are the same shape as DAILY (now plus a constant). A MONTHLY schedule without a
limit goes back into the heap with a time in the past, so a pass may find work for ever
(`EndlessPass`): that keeps `mutex_`, and `stop()` never returns. Executions are counted up to
`MaxCount`. Left out: the callback setter, the list of records, the queries; a callback that calls
the scheduler would block on `mutex_` for ever and is not modelled, nor are exceptions outside
`std::exception`.

**WorkflowGraph.** An edge lives in `edges_`, in the successor list of its source and in the
predecessor list of its target; each is a bag, from id and id to a count, as the code allows an
edge twice. Every edit is one action that does what it does to all three. `removeEdge` and
`removeNode` erase one entry per entry found, which is what `Drop` says. A node object keeps
its lists when it leaves the graph, so the lists of an id that is added again, or replaced, may
differ from `edges_`; `stale` records such ids, and `AddNodeAgain` is the return of an object with
its old lists. `dfs` is one recursive function for the search's two loops, over nodes and over
successors: its argument is where a loop stands (the ids it has left, the colours, whether a cycle
was recorded). The sort is said without recursion: the result is any list that the loop over the
queue may have collected (`ZeroDegree`, `CountedDown`), where the code's list order picks one, so
`topologicalSort` is the set of all. Paths, ids, names and attributes are left out, but for the one attribute the
orchestrator reads.

**WorkflowOrchestrator.** The client builds the graph first (`Build`, any sequence of edits) and
then hands it over; the code has no lock around the graph, and a client that edits it during a
run is not modelled. Every method takes `mutex_`, and `execute()` has it from its guard to its
return. So the short methods are one step each, enabled while no `execute()` is inside, and
`execute()` interleaves with the threads it starts. A node is a small machine, `at`: started,
awaited, given up (`late`, still blocked in the destructor of the future), saved, and in a layer
pushed and joined. `push_back` on the shared `layerResults` has a beginning and an end; one
that overlaps another is a data race, and its outcome is any of: stored, lost, crash. `started`
and `clash` are history variables. Left out: variables of the context, observers and callbacks
(one that calls the orchestrator back would wait for `mutex_` on the thread that holds it), the
history of executions, the destruction of the orchestrator beside a call. The branches for
`shouldPause_` and `shouldAbort_` inside a run are in the actions although no run takes them:
`RunUndisturbed` says why. Three results of the reading that no property condemns: a run that
ends on a failed node returns with `state_` still RUNNING, so `execute()` then refuses until
`reset()`; that is the second part of `StateTellsRun`. A graph with nodes replaced can have
layers that leave a node out and still end COMPLETED. And a cycle needs no run to be reported:
`execute()` searches before it starts.

**Services.** `Callers` counts calls and time. A method that holds one mutex from its first to
its last access is one step; a method that lets it go, or takes none, is several.

* `CircuitBreaker`: `setState` writes the state, and with a callback set the rest of the method
  (`tail`: times and counts) runs after the callback, when the mutex was given away and taken
  back. `overlapped` remembers that another method changed the breaker meanwhile. The mapping to
  `BreakerPromise` calls the breaker OPENING between the two.
* `TimeoutHandler`: stopTimer is two steps (flag; notify and join), the monitor five; the thread
  object is part of the state, as assigning or destroying it while joinable ends the process.
* `DeadLetterQueue`: `stuck` is the endless trimming loop, with the mutex held. Which of equally
  old items goes is left open. The caller says how often an item was tried before (`Tried`).
  `stale` names identifiers enqueued again or given up by `retry()`.
* `CheckpointManager`: an identifier is workflow, execution and time, so two may collide;
  `collided` names the workflows where one did. Export and import are modelled by the fields they
  carry; an import passes by the limit.
* `RetryPolicy`: the exponential delay is a product that may exceed its type; it is converted
  before it is cut to the maximum, and the build gives the smallest or the largest integer for one that does not fit (`AsInt64`). See `DelaysBounded`.
* `ConditionalWorkflow`: no lock. A step goes up to where the order of two threads decides what a
  branch does, so evaluating is one and starting the chosen branch another, each through a pointer
  of its own. Pointers into the vector dangle once it moved or was cleared; the default branch may
  be replaced, or lose its workflow, during a run, and the workflow that ran goes on as `Former`.
  Races on the bytes of one member are left out. The workflows of the branches are outside and
  outlive them. `stopFlag_` is uninitialized: Init leaves it open. A second `execute()` assigns a
  joinable thread and ends the process.
* `WorkflowPersistence`: SQLite is external; `log` holds what a loss of power may drop. Versions
  and definitions share a table, as in the code.
* `ExecutionRecords`: `endTrace` reads an erased iterator, and it is modelled with what the build
  reads; starts that replace a running execution are remembered.
* `SystemFacade`: `initialize()` goes on to `enablePersistence()` with the mutex held.

**Plugins.** `QueueWorkers` has the worker's loop: test, wait, wake, take, handle. `stop()` lowers
a flag and notifies without the queue's mutex, so the notification may fall between test and
wait: `missed` remembers it, `stolen` that a caller who waits on the workers' condition variable
(`waitForAsyncEvents`, `waitForCompletion`) took it. Such a worker sleeps until another
notification.

A start of such a pool while another thread stops it would add to a vector that is walked and
cleared at the time (`ThreadPool.cpp:27`, `EventBus.cpp:255`): a data race after which nothing can be
said. `PoolStart` assumes that no stop is in progress.

* `PluginChannel`: a dispatch runs over a copy of the subscriptions. `sendAndWait()` names the
  response channel by sequence 0, so that concurrent ones share it, and its detached thread sets
  the promise that the response may have set.
* `EventBus`: publications run without a lock over a copy; one-time subscriptions may fire more
  than once before they are removed (`OnceIsOver` says when they are gone at the latest).
  `resetStatistics()` sets the count to 0 under live subscriptions; counts are of the type `size_t`
  and wrap (`Statistics`, with `SizeLimit` for 2^64). `uncounted` is what the reset left out.
* `MessageBus`: a handler registered again is counted twice; its statistics are reset likewise. The
  timeout thread and the workers share `pending`.
* `DataChannel`: the manager deletes channels under raw pointers: `dangling`. `Sum`, the bytes of a
  list of messages, is a recursive function.
* `TimerService`: the worker collects under the mutex and calls without it; when the last timer
  was a single shot, it parks with the collected callback uncalled. A `start()` while a `stop()`
  joins assigns to a joinable thread: the process ends (`StartTerminates`).
* `PluginManager`: `pluginsMutex_` and `statsMutex_` with their holders; `getAllPluginInfo` locks
  a mutex it holds and `getStatistics` takes the two in the other order (`Deadlocked`). Loads and
  unloads end with `Count`, which takes the second mutex alone. Nothing re-enables
  a disabled plugin; disabling a running one stops it and leaves its state; starting
  and stopping all changes no state; a refused unload destroys the entry that it took out.
* `PluginContext`: every operation of the plugin's threads beside `shutdown()`; subscriptions to
  data channels are never taken back. `scheduleDelayed` and `scheduleInterval` are placeholders.
* `DependencyResolver`: `topologicalSortDFS`, `detectCycleDFS` and the lambda of `resolvePlugin()`
  visit the same plugins in the same order, so one recursive function, `search`, stands for the
  three and keeps what each of them returns: order, cycles, visited ids. Its argument is where a
  loop over dependencies stands. A dependency that is removed and added again has lost its dependents'
  edge; the version constraint that the parser produces accepts 0.0.0 only.

## 3. What is checked

### Runs

| run | asks | shows |
| --- | --- | --- |
| `workflow` | do runs, stops and the lifecycle of one workflow hold under two callers? | all hold; `WorkflowLifecycle` is implemented |
| `workflow_throws` | does a thrown exception become ERROR and an empty result? | no: `error()` joins the thread it runs on |
| `manager` | are tasks in order, results final, runs apart, the queue drained, the destructor sure to return? | yes, overlap only after a timeout, the destructor outside one window |
| `manager_wakeup` | is an enqueued task taken? | no: an idle queue thread is not notified |
| `manager_rerun` | was a COMPLETED task run? | no: a second task for a workflow gets COMPLETED without a run |
| `scheduler` | entries, limits, announced times, stop, service of the top | all hold; the last two unless a pass of the thread has no end |
| `scheduler_due` | is what is due executed before the thread waits? | no: the heap has the latest time on top |
| `scheduler_monthly` | is a repeated schedule due later than now? | no: the period of MONTHLY overflows `int` |
| `orchestration` | do the graph's three copies and its algorithms agree; does a run keep the order and report what happened? | yes; a COMPLETED that hides a failure needs two overlapping `push_back` |
| `services` | do the eleven services keep their indices, limits, records and decisions, and do calls return? | all hold, with the exceptions the properties name; `BreakerPromise` is implemented |
| `plugins` | do the plugin components keep tables, order, accounts and answers, and do calls return? | all hold, with the exceptions the properties name |
| `facade_initialize` | does `initialize()` return? | no: with persistence it locks its mutex twice |

`services` and `plugins` hold components that do not interact, side by side: `part`, chosen at
the start, says which one moves, and the others keep their initial state, so the state space is
the sum of theirs. A component that takes fewer callers, identifiers or calls than the others gets
them through constants of the MC module (`FewClients`, `FewIds`, `TaskCalls` and so on), which a cfg
sets and the proofs leave open. The plugin manager is one instance and two parts, `manager` (calls
about few plugins) and `managed` (calls by few clients), as both at full size exceed the time of a run. The run's properties are conjunctions with a conjunct per part:

| property of the run | parts of it |
| --- | --- |
| `services`: `IndicesAgree` | `PendingListed`, `CheckpointsListed`, `HistoryAgrees`, `TracesListed` |
| `LimitsKeep` | `UnresolvedKept`, `OldestGo` |
| `NothingLost` | `SavedIsFound`, `RunsAccounted`, `NothingLeaks`, `ConnectionKept` |
| `DecisionsHold` | `ViewsAgree`, `StopIsInTime`, `TerminationNeedsExpiry`, `SelectsBest`, `EndMeansBranchEnded`, `RetriesBounded`, `DelaysBounded`, `StuckMeansUnsettled` |
| `CallsReturn` | `StopComesBack`, `StoppedRunEnds` |
| `plugins`: `TablesAgree` | `SubscriptionsAgree`, `HandlersCounted`, `SizesAgree`, `UnloadIsSafe` |
| `InOrder` | `ChannelInOrder`, `TakenInOrder`, `OnceIsOver`, `TimersSound`, `OrderIsSound`, `StartedIsInitialized` |
| `NothingForgotten` | `PromisesAccounted`, `InstancesAccounted`, `RunningIsStartedAndStopped`, `ShutdownIsComplete`, `ReleasedOnce` |
| `AnswersAreFinal` | `FuturesFinal`, `WaitAllMeansDone` |
| `CallsReturn` | `StopEnds`, `PromisesKept`, `EventsPublished`, `WaitAllEnds`, `ReceiversReturn`, `TimerStopEnds`, `CollectedFires`, `ManagerReturns` |

The modules hold a mutant of the code beside most operations (marked "Mutant"): a dropped guard,
a missing reset, a wrong bound that violates the conjunct of its part.

The properties worth a comment:

* `AcceptedStopSettles` is an action property: an `interrupt()` past its guard, or a `cancel()`
  that finds the workflow ready or later when it writes, ends in a final state whatever came
  between. `finish()` gives no such promise: a pause first, and both its writes are rejected.
* `LifecycleKept` is refinement: `state`, `started` and `delivered` of `BaseWorkflow` implement
  `WorkflowLifecycle` under the identity mapping.
* `ResultsAreFinal` ties three reads of one workflow's state, taken at different times with
  callers active, to one another.
* `OverlapNeedsTimeout` names the only way two bodies of queue tasks overlap.
* `TasksInOrder` reads the whole history: reported, in hand and queued tasks are exactly the
  accepted ones, in order.
* `OneEntryPerCall`, `ExecutionsBounded` and `PendingIsQueued` relate the heap, the table and the
  clock; `NotEarly`, an action property, is proved only. The last three of these speak of schedules that one call made and no
  update or resume touched since (`plain`). For others the promise fails by design of the code:
  neither call pushes an entry, so the old entry's time, or nothing, decides.
* `AlgorithmsAgree` compares search, sort and validator with `Acyclic`, a definition by ranks,
  in every graph that edits reach, several edges and loops included. It asks for lists that
  agree, which `ListsAgree` provides for ids that were not replaced.
* `NoEarlyStart` looks at the execution behind a node: a predecessor that was given up has its
  task ended all the same, since the future's destructor waited for it. It holds for both modes.
* `CompletedMeansDone` and `NoEarlyStart` except nodes in `clash`, and those only: a node
  without an overlapping `push_back` is never lost.
* `StopReturns` and `TopIsServed` have the premise that no pass goes on for ever
  (`[]<>~EndlessPass`). A MONTHLY schedule is among the configurations of the run, and without the
  premise both are false: see `scheduler_monthly` for the arithmetic behind it.
* `TerminationNeedsOverlap`: the process dies of the thread object only if start and stop
  overlap.
* `BreakerImplemented` is refinement with a mapping: `Mode`, `Since` and `Wait` of the breaker
  implement `BreakerPromise` up to the first overlap of a method with another's callback. Beyond
  it, the callback's method overwrites what the other did.
* `OldestGo` compares what `createCheckpoint()` drops with all there is, the checkpoint being stored
  included: with a limit the call keeps its own, drops none that is newer than one it keeps, and no
  more than the limit asks for.
* `RetriesBounded`: a caller that goes by the answers makes `maxRetries` more attempts at most, and
  `hasReachedMaxRetries()` is not true too early. `DelaysBounded`: no delay exceeds the maximum, and one
  that is negative comes of a backoff that overflowed.
* `SubscriptionsAgree` and `HandlersCounted` say what the counts are at any time: the number of what is
  there less what was there at the last `resetStatistics()`, modulo `SizeLimit`.
* `OnceIsOver` says that a one-time subscription is gone when the publications that called it have
  ended. It does not say that it was called once: two publications over copies both call it.
* `SavedIsFound` holds for the end of the process; a loss of power may take what was acknowledged
  since the log was last written through, and the property says so.
* `StopIsInTime` is about the race the handler exists for: a `stopTimer()` that finds the flag up
  is in time, and no callback follows. One that finds it down returns at once, with the monitor
  perhaps inside the callback, and leaves the thread to be joined by nobody.
* `RunningIsStartedAndStopped` and `InstancesAccounted` follow each instance of a plugin through
  table, calls and end, whatever two callers do to it in the middle.
* `PromisesAccounted`: a promise is open exactly as long as its message is queued or in the hands
  of one worker; neither of the threads that share the queue can keep it twice.
* `OrderIsSound` compares the depth-first search with definitions that do not search (`Reached`,
  `Cyclic`, `Ordered`): cycles that are reported, each, are cycles, one is reported exactly when there
  is one, and orders have each plugin once, after its dependencies, for `resolvePlugin()` just those
  that the plugin reaches.

Where the code and what is said of it differ, besides the runs that end in a violation. The properties
above are stated so as to name the case; the comments beside them say so, too.

* `interfaces/retry_policy.h:97` says of `hasReachedMaxRetries()` that it tells whether the maximum is
  reached. The policy's counter is the number of the last attempt it agreed to, which is below the
  maximum, so the answer is no as long as the maximum is not 0.
* `retry_policy.h:101` converts the backoff to `int64_t` and cuts it to the maximum afterwards: one that
  overflows may become a negative delay, and `shouldRetry()` does not wait at all.
* `Event.hpp:192` says of the flag of a one-time subscription that it fires only once. It may be called
  by two publications at a time (`EventBus.cpp:351`), and before the flag is set (`EventBus.cpp:59`).
* `EventBus.cpp:306` and `MessageBus.cpp:351` reset counts of what is still there; the next
  unsubscriptions take them below zero.
* `workflow_scheduler_impl.cpp:353`: beyond what `scheduler_monthly` shows, the thread may execute a
  MONTHLY schedule without pause and keep `stop()` and every other call out.
* `ThreadPool.cpp:207`: a `start()` of the timer service during a `stop()` ends the process.

### Bounds

| run | instance | why it is enough |
| --- | --- | --- |
| `workflow` | 2 callers, 5 calls, 3 kinds of body that end orderly plus one that throws | a start, an execute and three competing calls; every action fires |
| `workflow_throws` | 2 callers, 3 calls, throwing bodies | start and execute suffice for the counterexample |
| `manager` | 2 callers, 3 calls, 2 workflows, 2 tasks, 1 with a timeout, 1 with a failing callback, 1 result kept | every pair of a queue task and a direct call, or of two tasks, meets; one result makes eviction happen |
| `manager_wakeup`, `manager_rerun` | 1 caller, 2 calls | two enqueues |
| `scheduler` | 2 schedules, 2 controllers, 4 configurations (a future start, a limit and an end, a disabled one, a monthly one), 3 points of time, 4 calls, `MaxCount` = 3 executions counted | stale, updated and repeated entries meet a stop and a second start |
| `scheduler_due`, `scheduler_monthly` | 2 schedules, 1 controller, 4 points of time, 3 calls | two schedules and a start; one MONTHLY schedule and a start |
| `orchestration` | graphs of 3 nodes, 3 edges, 1 replaced node; 7 of them run; 2 callers, 4 calls; one node tolerated, one whose executor throws | 3 nodes give chains, forks, joins, cycles and layers of two threads; setting the graph, the mode, a run and a competing call or second run make four |
| `services` | 2 callers, 2 identifiers, limits 1 and 2, 4 calls, 3 points of time; `FewCalls` = 3 calls for checkpoints, `ManyCalls` = 5 for the conditional workflow, `FewIds` = one identifier for alerts and records, `ShortTime` = 2 points of time for the database, `MaxHistory` = 2 alerts kept | thresholds of 1 and 2 are crossed, limits are reached, times are passed, and two calls meet in every window |
| `plugins` | 2 callers, 3 identifiers (1 or 2 where the component multiplies them), limits 1 and 2, 3 to 6 calls, 2 or 3 points of time, 1 or 2 workers, `SizeLimit` = 8; a plugin that depends on itself depends on no other (`Dependencies`) | two workers and two callers meet on each queue; three plugins give chains, forks and cycles |
| `facade_initialize` | 2 callers, 3 calls | one call suffices |

`MaxCalls` bounds calls, `MaxTime` the clock (a wait that would end beyond it counts as over
there, so the horizon does not stop the thread), `MaxResults` stands for 100. The horizon of
`scheduler` and its call bound keep a run within minutes; the theorems below hold without them.
`MaxEdges` and `MaxStale` bound what a client builds, `Plans` which of it is run.
Idle clients of the manager and of the orchestrator and idle controllers are interchangeable,
so the next call is made by a chosen one. `CHECK_DEADLOCK FALSE`: callers need not call, and a process may terminate.

### Fairness

A thread inside a method, the execution thread, the queue thread and the scheduler's thread are
scheduled by the operating system: weak fairness of their steps together. The clock ticks
(weak fairness of `Tick`). Bodies of the manager's workflows and the scheduler's callbacks end,
which is the premise of any promise about a queue behind them; in `BaseWorkflow` that premise is
the kind of body and `CallsReturn` states it. The orchestrator's callers, the threads of a
layer and the work of a node are fair alike (the default executor sleeps and ends). The monitor
of a timer, the execution thread of a conditional workflow, the workers, the timeout thread and
callers inside a method of the plugin components are fair in the same sense; a handler ends. Where
the code's own wait is unsafe (a notification without the mutex), no fairness is claimed and the
property names the case. Nothing
makes a caller call, a spurious wakeup happen or a timeout strike.

### Proofs

The proof modules are for every value of the constants, bounds included, under the named
assumptions of their module (disjointness of thread names, ranges of numbers).

`BaseWorkflowProofs`. `IInv` locates every thread and ties it to the mutex and the counters:
who is at `launch` or `join` owns `threadMutex_`; an execution thread that is not idle is
joinable; `started = delivered + 1` exactly while it has yet to deliver; what a stopper has
`seen` is past. It is needed because `StopWaits` and `RunsSerialized` say nothing of the places
between, where they would be lost. `CallInv` adds what a call knew when it was let in, carried
forward by the table, which never goes back (`SetStateForward`) and keeps final states
(`SetStateFinal`). Theorems: `Invariance`, `TypeCorrect`, `MutexCorrect`, `RunsAreSerialized`,
`StopIsSynchronous`, `BodyAfterReady`, `DestructorJoins`, the action property
`StopRequestsSettle` and the refinement `WorkflowImplementsLifecycle`.

`WorkflowSchedulerProofs`. Three layers. `EntryInv`: tickets are unique over the heap and the
hand of the thread, and the hand is empty except in a callback, hence no method interferes with
an execution (`OneEntry`). `PlainInv`: an untouched schedule has ticket 1 only, so one entry at
most (`PlainHasOne`); that entry carries the schedule's time and implies that an execution is
left; the decision not to repeat stays right as the clock goes on (`NoRepeatStays`). It gives
`BoundedExecutions`, `PendingStaysQueued` and `NeverEarly`. `ControlInv`: while start, stop and
the destructor do not overlap, the place of the one controller determines `running_` and
`joinable()`, which gives `OneControllerIsSafe`. `TypeCorrect` comes first.

`WorkflowOrchestratorProofs`, on the graph. Each edit keeps `GraphInv`: types, `ListsAgree`, and that an id outside the
graph is named by no edge and no list of a node that was not replaced, without which adding a node
would bring old entries back. Then the algorithms, for every graph of a finite number of ids. The
sort collects all nodes exactly when there is no cycle, since a node whose predecessors are
collected can always follow, and a list that leaves nodes out leaves one with a predecessor among
them. The search needs an argument of its own, as it is recursive. `dfs` is defined on every
search: a call has fewer ids to enter, or as many and fewer to look at (`Effort`), so solutions of
its equation extend from each effort to the next. Along the same order, the induction says that
a search leaves the path as it found it (`DfsKeeps`), that the ids it has left can be ranked along
the edges unless it recorded a cycle (`DfsRanks`), and that where a ranking of the graph
exists it meets no node of its own path (`DfsClears`). The two directions of the result are the last
two. Theorems: `EditsKeepLists` and `AlgorithmsAreRight`.

`WorkflowOrchestratorProofs`, on the orchestrator. `OrchestratorInv`: types, `BuildInv` (no call before the
graph is built), `ThreadInv` (nodes run within `execute()` only) and `LayerInv`, which says of every
label of a node what its start, task and outcome are, and that predecessors of a layer are completed.
`RunInv` adds what the counts need: the order of a sequential run up to its place (`SequenceInv`),
the nodes of a layer and of those before it, and that what is counted as failed or completed is what
the results say. `RankedInv` (what runs has no cycle, by `AlgorithmsAreRight`) makes the layers
exhaust the graph, so `EndInv` can say of an execution that is over that every node is done or which
one stopped it. Theorems: `TypeCorrect`, `GraphListsAgree`, `GraphAlgorithmsAgree`,
`NoControlReachesRun`, `NothingStartsEarly`, `CompletedIsDone` and `StateIsTrue`: every safety
invariant of the run `orchestration`, for every graph and any number of threads.

`WorkflowManagerProofs`. `Core` gives types, what the worker holds at each of its places
(`WorkerInv`) and what a client works on at each of its own (`ClientInv`). On it stand five
invariants, each for one question. `LineInv` compares the accepted tasks with those reported, held
and queued entry by entry and says that no id occurs twice, without which a task that is dequeued
could be another one's entry. `RunInv` says what is known of the task that launched a run that is
alive; it needs `LineInv` for a new task, which was never launched before. `ResultInv` bounds how far
a result can have moved to the front while its task did. `StateInv` ties states to runs: a run that
ended left a final state, and no step takes a state back (`AllOnward`). `AgreeInv` follows a result
to its row through the three reads of the state. Theorems: `TypeCorrect`, `QueueInOrder`,
`NoSilentOverlap`, `QuietIsDone`, `ResultsTrue`: every safety invariant of the run `manager`.

`StoreProofs`, on the services that keep records. An invariant about a list needs what an operation
does to positions, and one about a running number an induction: `Upwards` and `StepByStep` make one
of the least counterexample.

* Dead letters (`LettersInv`): `PendingListed` is stated for one identifier (`Agree`), so that an
  operation is proved for the identifier it touches and for the others; the trimming loop spins
  only among unsettled items.
* Checkpoints (`CheckpointsInv`): what is stored is in both lists, and these name what is stored of
  their workflow or execution, the former in order of time, unless an identifier was given twice
  (`IndicesFit`), without which the head of the list that goes would not be the oldest. Theorem `CheckpointsStayListed`.
* Alerts (`AlertsInv`): the history is the end of the sequence of alerts. Theorem `HistoryIsTheEnd`.
* Database (`DatabaseInv`): a row once acknowledged is in the table as acknowledged (`DatabaseKeeps`),
  and no version of the file that a crash may bring back holds a row that ends in the future.
  Theorem `RowsAreFound`.
* Records (`RecordsInv`): one part each for tracer, collector and statistics; the totals are sums over
  the executions started. Theorems `TracesAreFound`, `RunsAreAccounted`.

`ServiceProofs`, on the services that decide, and on all of them together.

* Breaker (`BreakerInv`): neither counter is ahead of the calls and `openTime_` not ahead of the clock;
  one thread at most is in the middle of a transition, whose callback runs outside the mutex, and which
  state it has set, without which `openTime_` and the state seem to disagree. Theorems
  `ViewsOfOpenAgree`, `BreakerKeepsPromise` (the refinement of `BreakerPromise`).
* Timeout (`TimeoutInv`): a timer that runs has its monitor watching, one thread at most is inside
  `stopTimer()` while its monitor has yet to see the flag, a monitor that nobody joins has expired.
  Theorems `StopsAreInTime`, `TerminationIsExplained`.
* Branches (`BranchesInv`): unless the branches were changed meanwhile, the run that goes on is that of
  the branch selected (`FaithfulRun`). Theorem `RunEndsWithItsBranch`.
* Retries (`RetryInv`), with the delay of each attempt bounded by its own arithmetic. Theorems
  `RetriesStayBounded`, `DelaysStayBounded`.
* Directories (`ResourcesInv`): one that exists is in the table and no call is about to drop that entry, or
  in the hands of the call that has just made it, or its removal failed (`Covered`). Theorem `DirectoriesAreFound`.
* Facade (`FacadeInv`): a connection is open while the manager uses it, and another open one was
  left behind by a second `initialize()`. Theorem `ConnectionIsKept`.
* The system of all of them (`ServiceInv`): the part that acts satisfies its invariant; a step of
  the whole is a step of that part or leaves it alone. Theorems: `ServicesTyped`, `StoresAgree`,
  `NothingIsLost`, `DecisionsAreRight`, the action property `LimitsAreFair`, and `BreakerIsImplemented`, which holds whoever acts because an
  idle breaker stays closed and the clock only goes on: every property of the run `services` but
  its liveness.

`PluginPoolProofs`, on the plugin components with queues or threads of their own.

* `QueueWorkers` (`PoolInv`): an item is in the list of its lane or in the hand of one busy worker, and
  no worker is there once the pool is stopped and joined. `Pool(lane, clients)` is the module for any
  lanes, so that each operation is proved once (`PoolMoved`, `PoolPushed`, `PoolTakes`, `PoolFinishes`)
  and the four components show that theirs are these.
* Subscriptions (`Table`): sorted by priority, each identifier once; kept by an insertion at the place
  that the code looks for, and by every way to take some out.
* Channel (`ChannelInv`): packets wait in the order of their numbers, behind the one that is dispatched
  (`Outgoing`), and what a subscription got lies before all of them, or is the one dispatched if the
  subscription is no longer in the dispatcher's copy (`Incoming`); `ChannelInOrder` alone would be
  lost with the next packet. Every step keeps a promise with a value (`ChannelFinal`).
* Message bus (`BusInv`): `Traffic` is a bijection between open promises and messages, queued or held,
  over the workers and the thread for timeouts, which share the list.
* Event bus (`EventsInv`): list and index hold the same subscriptions and the count is their number as far
  as the last reset lets it be, none has an identifier to come, and a one-time one that is spent is on the removal list of a publication in progress.
* Thread pool (`TasksInv`): `activeThreads_` is the number of threads between take and finish, so
  `waitAll()`, which reads the counter and the queue, sees every task.
* Data channels (`DataInv`): `Sum` is defined on every list (its partial sums exist and are unique), and
  what is queued was sent in this order, after what was taken.
* Timers (`TimersInv`): what was collected was due; a single shot in the table was never collected.

`PluginProofs`, on the others and on all of them together.

* Context (`ContextInv`): a subscription on the bus is in the plugin's list, in the hands of a call
  between its two steps, or came when `shutdown()` had passed; the same for channels; a resource has one
  name until it is released. From the stages of `shutdown()` on, what is left is of the third kind.
* Manager (`ManagerInv`): what each client has in its hands at each place of a call, that no instance is in
  two pairs of hands or twice in the table, and that a started one is marked, about to be, or contested by
  a call that disables it meanwhile. The mutexes do not cover a call, so each step is proved against every
  place of every other client.
* Lifecycle (`LifecycleInv`): a state is reached through those before it.
* Resolver (`ResolverInv`): dependents and dependencies mirror one another but for plugins that were added
  since. `search` is defined on every search by the same argument as `dfs`: a call has fewer plugins to
  visit, or as many and fewer left (`Effort`). Along that order, a search that is sound on its way (`Sound`:
  the path follows dependencies, what is listed comes after what it depends on unless a cycle was met) is
  so when it is over, and went no further than a set that is closed under dependency (`Became`). Theorem
  `ResolverOrders`, for every graph of a finite number of plugins.
* The system of all of them (`PartsInv`). Theorems: `PluginsTyped`, `PluginTablesAgree`, `PluginsInOrder`,
  `NothingIsForgotten` and the action property `AnswersStayFinal`: every property of the run `plugins`
  but its liveness.

`MutexHeld`, `BodyImpliesLeftReady`, `DestroyedIsJoined`, `RunUndisturbed` and `NotEarly` are proved
and not listed in a run.

Only model-checked: the liveness properties (`CallsReturn` of every run, `AwakeWorkerDrains`,
`DestructorReturns`, `StopReturns`, `TopIsServed`), since TLAPS does not prove what rests on
fairness or `ENABLED`. Every invariant and every action property of a passing run is proved. The
violation runs are counterexamples and need no proof.

## 4. Plan

Modules in the order they were written, the most important behaviour first.

1. `BaseWorkflow` with `WorkflowLifecycle`, `WorkflowManager`, `WorkflowScheduler`, `WorkflowGraph`
   and `WorkflowOrchestrator`, each with a run and with proofs. *Done.*
2. The services, each with proofs: `CircuitBreaker` with `BreakerPromise`, `DeadLetterQueue`,
   `TimeoutHandler`, `RetryPolicy`, `CheckpointManager`, `AlertManager`, `ConditionalWorkflow`,
   `WorkflowPersistence`, `ExecutionRecords`, `WorkflowResources`, `SystemFacade`. *Done.*
3. The plugin subsystem: `QueueWorkers` with the channel, the buses and the pool on it;
   `DataChannel`, `TimerService`, `PluginContext`, `PluginManager`, `PluginLifecycle`,
   `DependencyResolver`. *Done.*

Left to prove: nothing that a run checks, except liveness. Left to model: the callbacks of the
orchestrator and of the dead letter queue, which wait for ever if they call back, and a pause against
the end of the body.

### Not modelled

* `WorkflowTemplate`: it fills parameters into text and registers the result in one table.
* The common library (types, logger, `Any`, generator of ids): outside the repository.
* Configuration, memory pool and logging: headers that only tests and examples include. Plugin
  manifests (parsing) and the service locator (a map under one mutex).
* Examples and tests, which are read for how the program is used.
* What a component leaves out is named with it in part 2: payloads, contexts' variables, reports,
  queries that change nothing, and callbacks that would call their own object back.
* Some behaviours are in the models and no property is about them. `stop()` and `resume()` of a
  workflow notify without `pauseMutex_` (`base_workflow.h:496`), so a body can miss the call that
  should wake it. `execute()` clears the stop flag after its test for READY
  (`base_workflow.h:194`): the body is not told of a stop that came between. A body that returns
  after `pause()` finds COMPLETED rejected by the table (`base_workflow.h:515`). `startWorkflow()`
  reads `currentWorkflow_` outside the mutex (`workflow_manager.cpp:77`): the outcome "crashed" of
  the model. `resumeSchedule()` computes a new time and leaves the heap as it is
  (`workflow_scheduler_impl.cpp:84`), so the properties speak of schedules that were not resumed.
  Successes of the closed state count towards the half open threshold (`circuit_breaker.h:158`), and
  `BreakerPromise` says nothing of when a breaker closes.

------------------------------ MODULE MCPlugins -------------------------------
(***************************************************************************)
(* The components of the plugin system, side by side in one run as in      *)
(* MCServices: part acts, and the others stay as they were made.  The      *)
(* components with worker threads share the variables of QueueWorkers; the *)
(* plugin manager has two parts, with fewer plugins and with fewer callers *)
(* than its instance allows.                                               *)
(***************************************************************************)
EXTENDS Callers, Sequences

CONSTANTS
  FewClients,  \* Clients of the channel, and those that act when the manager is "managed"
  FewIds,      \* Ids of the channel, the two buses and the context, and the plugins that
               \* are loaded when the manager is the "manager"
  SomeIds,     \* Ids of the manager
  Timeouts,    \* Limits of the message bus: the timeouts of its messages
  Threads,     \* the threads of the two buses and of the pool
  First,       \* the thread of the channel, and that of the notifications of the bus
  FewCalls,    \* bound: MaxCalls of the event bus, the timers, the context, the manager and
               \* the lifecycle
  TaskCalls,   \* bound: MaxCalls of the pool
  DataCalls,   \* bound: MaxCalls of the data channel
  SizeLimit,   \* SizeLimit of the two buses
  ShortTime    \* bound: MaxTime of the channel and the message bus

\* The message bus has a thread for the notifications and at least one for the messages;
\* "NONE" stands for no client; fewer calls are made than a size_t has numbers.
ASSUME PluginsAssumption ==
  /\ FewClients \subseteq Clients /\ FewIds \subseteq SomeIds /\ SomeIds \subseteq Ids
  /\ Timeouts \subseteq Nat
  /\ IsFiniteSet(Threads) /\ Threads \cap Clients = {} /\ "NONE" \notin Clients
  /\ First \in Threads /\ Threads # {First}
  /\ FewCalls \in Nat /\ TaskCalls \in Nat /\ DataCalls \in Nat
  /\ SizeLimit \in Nat /\ MaxCalls < SizeLimit /\ FewCalls < SizeLimit
  /\ ShortTime \in Nat \ {0}

Pools    == {"channel", "bus", "events", "tasks"}
Managers == {"manager", "managed"}
Parts    == Pools \cup Managers \cup {"data", "timers", "context", "lifecycle", "resolver"}

VARIABLES
  part,
  running, worker, queue, handling, stopper, waiting, woken, missed, stolen,
  subscriptions, nextId, nextSequenceId, pending, received, promises,
  handlers, totalHandlers, miscounted, casting, checker, answers,
  listeners, index, totalSubscriptions, uncounted, once, inactive, marking, rest, toRemove,
  publishing, spent,
  activeThreads, watching, unheard,
  life, maxSize, closed, messages, currentSize, receivers, sent, taken, unnoticed, dangling,
  timing, timers, cancelled, ready, timer, wakeAt, stopping, due, shots, slept,
  onBus, held, managed, dataChannels, shut, resources, released, dataListeners, configMutex,
  users, over, stray, misused,
  plugins, pluginsMutex, statsMutex, place, started, stopped, fate, contested, broken,
  state, since, hooks, firing, fired,
  nodes, added

\* The threads of each component and their queues.
ChannelLane == [w \in {First} |-> "queue"]
BusLane     == [w \in Threads |-> IF w = First THEN "notices" ELSE "messages"]
EventsLane  == [w \in Threads |-> "events"]
TasksLane   == [w \in Threads |-> "tasks"]

Channel   == INSTANCE PluginChannel WITH
               Lane <- ChannelLane, Clients <- FewClients, Ids <- FewIds, MaxTime <- ShortTime
Bus       == INSTANCE MessageBus WITH
               Lane <- BusLane, Ids <- FewIds, Limits <- Timeouts, MaxTime <- ShortTime,
               promises <- answers, uncounted <- miscounted
Events    == INSTANCE EventBus WITH
               Lane <- EventsLane, Ids <- FewIds, MaxCalls <- FewCalls,
               subscriptions <- listeners
Tasks     == INSTANCE ThreadPool WITH Lane <- TasksLane, MaxCalls <- TaskCalls
Data      == INSTANCE DataChannel WITH
               MaxCalls <- DataCalls, place <- receivers, missed <- unnoticed
Timers    == INSTANCE TimerService WITH
               MaxCalls <- FewCalls, running <- timing, worker <- timer, missed <- slept
Context   == INSTANCE PluginContext WITH
               Ids <- FewIds, MaxCalls <- FewCalls, subscriptions <- held, closed <- shut,
               place <- users, broken <- misused
Manager   == INSTANCE PluginManager WITH Ids <- SomeIds, MaxCalls <- FewCalls
Lifecycle == INSTANCE PluginLifecycle WITH MaxCalls <- FewCalls
Resolver  == INSTANCE DependencyResolver

Init ==
  /\ part \in Parts
  /\ CallersInit
  /\ IF part = "bus"         THEN Bus!PoolInit
     ELSE IF part = "events" THEN Events!PoolInit
     ELSE IF part = "tasks"  THEN Tasks!PoolInit
     ELSE Channel!PoolInit
  /\ Channel!OwnInit /\ Bus!OwnInit /\ Events!OwnInit /\ Tasks!OwnInit
  /\ Data!Init
  /\ part # "data" => maxSize = CHOOSE n \in Limits : TRUE
  /\ Timers!Init /\ Context!Init /\ Manager!Init /\ Lifecycle!Init /\ Resolver!Init

pool      == <<running, worker, queue, handling, stopper, waiting, woken, missed, stolen>>
channel   == <<subscriptions, nextId, nextSequenceId, pending, received, promises>>
bus       == <<handlers, totalHandlers, miscounted, casting, checker, answers>>
events    == <<listeners, index, totalSubscriptions, uncounted, once, inactive, marking, rest,
               toRemove, publishing, spent>>
tasks     == <<activeThreads, watching, unheard>>
data      == <<life, maxSize, closed, messages, currentSize, receivers, sent, taken, unnoticed,
               dangling>>
times     == <<timing, timers, cancelled, ready, timer, wakeAt, stopping, due, shots, slept>>
context   == <<onBus, held, managed, dataChannels, shut, resources, released, dataListeners,
               configMutex, users, over, stray, misused>>
manager   == <<plugins, pluginsMutex, statsMutex, place, started, stopped, fate, contested,
               broken>>
lifecycle == <<state, since, hooks, firing, fired>>
resolver  == <<nodes, added>>

\* The manager's calls are about few plugins or made by few clients.
Narrow(p) ==
  /\ p = "manager" => \A c \in Clients :
       /\ place[c].id \in FewIds \cup {"NONE"}
       /\ place[c].entry.deps \cup place[c].todo \subseteq FewIds
  /\ p = "managed" => \A c \in Clients \ FewClients : place[c] = Manager!Idle

Acts(p) ==
  /\ part = p /\ UNCHANGED part
  /\ IF p \in Pools       THEN TRUE           ELSE UNCHANGED pool
  /\ IF p = "channel"     THEN Channel!Next   ELSE UNCHANGED channel
  /\ IF p = "bus"         THEN Bus!Next       ELSE UNCHANGED bus
  /\ IF p = "events"      THEN Events!Next    ELSE UNCHANGED events
  /\ IF p = "tasks"       THEN Tasks!Next     ELSE UNCHANGED tasks
  /\ IF p = "data"        THEN Data!Next      ELSE UNCHANGED data
  /\ IF p = "timers"      THEN Timers!Next    ELSE UNCHANGED times
  /\ IF p = "context"     THEN Context!Next   ELSE UNCHANGED context
  /\ IF p \in Managers   THEN Manager!Next /\ Narrow(p)' ELSE UNCHANGED manager
  /\ IF p = "lifecycle"   THEN Lifecycle!Next ELSE UNCHANGED lifecycle
  /\ IF p = "resolver"    THEN Resolver!Next  ELSE UNCHANGED resolver

Next == \E p \in Parts : Acts(p)

vars == <<part, calls, now, pool, channel, bus, events, tasks, data, times, context, manager,
          lifecycle, resolver>>

\* The fairness of the components: only one of them acts, so that what their threads do
\* takes one condition per kind of thread.
acting ==
  CASE part = "channel" -> <<pool, channel>>
    [] part = "bus"     -> <<pool, bus>>
    [] part = "events"  -> <<pool, events>>
    [] part = "tasks"   -> <<pool, tasks>>
    [] part = "data"    -> data
    [] part = "timers"  -> times
    [] part \in Managers -> manager
    [] OTHER            -> <<>>

WorkerSteps(w) ==
  /\ UNCHANGED part
  /\ \/ part = "channel" /\ w \in DOMAIN ChannelLane /\ Channel!WorkerSteps(w)
     \/ part = "bus" /\ Bus!WorkerSteps(w)
     \/ part = "events" /\ Events!WorkerSteps(w)
     \/ part = "tasks" /\ Tasks!WorkerSteps(w)
     \/ part = "timers" /\ w = First /\ Timers!WorkerSteps

Joined ==
  /\ UNCHANGED part
  /\ \/ part = "timers" /\ Timers!Joined
     \/ \E c \in Clients :
          \/ part = "channel" /\ Channel!Joined(c)
          \/ part = "bus" /\ Bus!Joined(c)
          \/ part = "events" /\ Events!Joined(c)
          \/ part = "tasks" /\ Tasks!Joined(c)

ClientSteps(c) ==
  /\ UNCHANGED part
  /\ \/ part = "bus" /\ Bus!WaitTests(c)
     \/ part = "events" /\ Events!PublisherSteps(c)
     \/ part = "tasks" /\ Tasks!WaiterSteps(c)
     \/ part = "data" /\ Data!ReceiverSteps(c)
     \/ part \in Managers /\ Manager!Steps(c)

Fairness ==
  /\ \A w \in DOMAIN TasksLane : WF_acting(WorkerSteps(w))
  /\ \A c \in Clients : WF_acting(ClientSteps(c))
  /\ WF_acting(Joined)
  /\ WF_acting(UNCHANGED part /\ part = "bus" /\ Bus!CheckTimeouts)

Spec == Init /\ [][Next]_vars /\ Fairness

-----------------------------------------------------------------------------
TypeOK ==
  /\ part = "channel"   => Channel!TypeOK
  /\ part = "bus"       => Bus!TypeOK
  /\ part = "events"    => Events!TypeOK
  /\ part = "tasks"     => Tasks!TypeOK
  /\ part = "data"      => Data!TypeOK
  /\ part = "timers"    => Timers!TypeOK
  /\ part = "context"   => Context!TypeOK
  /\ part \in Managers  => Manager!TypeOK
  /\ part = "lifecycle" => Lifecycle!TypeOK
  /\ part = "resolver"  => Resolver!TypeOK

\* Tables, indices and counts name the same things: the subscriptions of the event bus, the
\* handlers of the message bus, the bytes of a data channel, the edges of the resolver.
\* The counts of the buses leave out what there was at the last resetStatistics().
TablesAgree ==
  /\ part = "events"   => Events!SubscriptionsAgree
  /\ part = "bus"      => Bus!HandlersCounted
  /\ part = "data"     => Data!SizesAgree
  /\ part = "resolver" => Resolver!UnloadIsSafe

\* Things happen in their order, and once: packets and messages are received as they were
\* sent, a one-time subscription is gone when the publications that called it have ended, a
\* timer is not called early or once more, plugins are listed after what they depend on and
\* run only once they are initialized.  (Publications that overlap may call a one-time
\* subscription twice: OnceIsOver says which.)
InOrder ==
  /\ part = "channel"   => Channel!ChannelInOrder
  /\ part = "data"      => Data!TakenInOrder
  /\ part = "events"    => Events!OnceIsOver
  /\ part = "timers"    => Timers!TimersSound
  /\ part = "resolver"  => Resolver!OrderIsSound
  /\ part = "lifecycle" => Lifecycle!StartedIsInitialized

\* Nothing is forgotten: the promise of every message is in one thread's hands, every plugin
\* instance is in the table or in one call's, a plugin that was started is stopped before
\* it is unloaded, and its context gives back what it acquired, once.
NothingForgotten ==
  /\ part = "bus" => Bus!PromisesAccounted
  /\ part \in Managers => Manager!InstancesAccounted /\ Manager!RunningIsStartedAndStopped
  /\ part = "context" => Context!ShutdownIsComplete /\ Context!ReleasedOnce

\* An answer is final, and waitAll() returns only when the work is done.
AnswersAreFinal == Channel!FuturesFinal /\ Tasks!WaitAllMeansDone

\* One temporal formula for all parts: TLC's work grows with their number.
Stopping ==
  \/ part \in Pools /\ Channel!Stopping
  \/ part = "timers" /\ stopping

StopOver == IF part = "timers" THEN Timers!StopOver ELSE Channel!StopOver

WorkWaits ==
  \/ part = "bus" /\ Bus!WorkWaits
  \/ part = "events" /\ Events!WorkWaits
  \/ part = "timers" /\ Timers!WorkWaits

WorkDone ==
  CASE part = "bus"    -> Bus!WorkDone
    [] part = "events" -> Events!WorkDone
    [] OTHER           -> Timers!WorkDone

CallOpen(c) ==
  \/ part = "tasks" /\ Tasks!CallOpen(c)
  \/ part = "data" /\ Data!CallOpen(c)
  \/ part \in Managers /\ Manager!CallOpen(c)

CallOver(c) ==
  CASE part = "tasks" -> Tasks!CallOver(c)
    [] part = "data"  -> Data!CallOver(c)
    [] OTHER          -> Manager!CallOver(c)

\* Calls come back, queued work is done, and promises are kept, as long as no notification
\* falls between a test and the wait that follows it: StopEnds, PromisesKept,
\* EventsPublished, WaitAllEnds, ReceiversReturn, TimerStopEnds, CollectedFires and
\* ManagerReturns of the parts.
CallsReturn ==
  /\ Stopping ~> StopOver
  /\ WorkWaits ~> WorkDone
  /\ \A c \in Clients : CallOpen(c) ~> CallOver(c)

=============================================================================

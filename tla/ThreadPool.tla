------------------------------ MODULE ThreadPool ------------------------------
(***************************************************************************)
(* The plugins' ThreadPool: tasks in a queue, workers that count           *)
(* themselves as active while they run one, and callers of waitAll(), who  *)
(* wait on a condition variable of their own.                              *)
(***************************************************************************)
EXTENDS QueueWorkers

VARIABLES
  activeThreads,  \* activeThreads_
  watching,       \* where each client is in waitAll(): "idle", "lock", "dozing" (it holds
                  \* the mutex and found work left) or "asleep"
  unheard         \* history: finishedCondition_ was notified while a client was dozing, or
                  \* stop() dropped tasks, which notifies nobody

own  == <<activeThreads, watching, unheard>>
vars == <<calls, now, poolVars, own>>

OwnInit ==
  /\ activeThreads = 0
  /\ watching = [c \in Clients |-> "idle"]
  /\ unheard = FALSE

Init == CallersInit /\ PoolInit /\ OwnInit

\* queueMutex_ is everyone's.
QueueFree == MutexFree("tasks") /\ \A c \in Clients : watching[c] # "dozing"

Free(c) == watching[c] = "idle" /\ stopper # c

-----------------------------------------------------------------------------
Start == Called /\ PoolStart /\ UNCHANGED own

\* A stopped pool drops the task.
Execute(c) ==
  /\ Called /\ Free(c) /\ QueueFree
  /\ IF running THEN Push("tasks", calls') ELSE UNCHANGED poolVars
  /\ UNCHANGED own

\* Workers leave their loop even with tasks left, ...
Stop(c) == Called /\ Free(c) /\ PoolStop(c) /\ UNCHANGED own

\* ... which stop() clears when it has joined them.
Joined(c) ==
  /\ stopper = c /\ \A w \in Workers : worker[w] \in {"none", "ended"}
  /\ \A d \in Clients : watching[d] # "dozing"
  /\ worker' = [w \in Workers |-> "none"] /\ stopper' = NoClient
  /\ queue' = [queue EXCEPT !["tasks"] = <<>>]
  /\ unheard' = (unheard \/ queue["tasks"] # <<>>)
  /\ UNCHANGED <<calls, now, running, handling, waiters, missed, activeThreads, watching>>

-----------------------------------------------------------------------------
(* waitAll().                                                              *)

Watch(c, to) == watching' = [watching EXCEPT ![c] = to]

WaitAll(c) ==
  /\ Called /\ Free(c)
  /\ Watch(c, "lock")
  /\ UNCHANGED <<poolVars, activeThreads, unheard>>

AllDone == queue["tasks"] = <<>> /\ activeThreads = 0

WaitAllReturns(c) ==
  /\ watching[c] = "lock" /\ QueueFree /\ AllDone
  /\ Watch(c, "idle")
  /\ UNCHANGED <<calls, now, poolVars, activeThreads, unheard>>

WaitAllDozes(c) ==
  /\ watching[c] = "lock" /\ QueueFree /\ ~AllDone
  /\ Watch(c, "dozing")
  /\ UNCHANGED <<calls, now, poolVars, activeThreads, unheard>>

WaitAllSleeps(c) ==
  /\ watching[c] = "dozing"
  /\ Watch(c, "asleep")
  /\ UNCHANGED <<calls, now, poolVars, activeThreads, unheard>>

-----------------------------------------------------------------------------
(* workerThread().                                                         *)

WorkerIdles(w) ==
  /\ worker[w] = "lock" => QueueFree
  /\ Idles(w)
  /\ UNCHANGED own

\* Mutant: a worker counts itself only when it has released the mutex, ...
WorkerTakesUncounted(w) == QueueFree /\ Take(w) /\ UNCHANGED own

\* activeThreads_ goes up before the mutex is released.
WorkerTakes(w) ==
  /\ QueueFree /\ Take(w)
  /\ activeThreads' = activeThreads + 1
  /\ UNCHANGED <<watching, unheard>>

\* Mutant: the handler of an exception takes the worker off the count, too.
WorkerRunsOff(w) ==
  /\ worker[w] = "busy" /\ handling[w] # <<>>
  /\ handling' = [handling EXCEPT ![w] = <<>>]
  /\ activeThreads' \in {activeThreads - 1, activeThreads - 2}
  /\ UNCHANGED <<calls, now, running, worker, queue, stopper, waiters, missed, watching,
                 unheard>>

\* The task is run, or throws; activeThreads_ goes down without the mutex, ...
WorkerRuns(w) ==
  /\ worker[w] = "busy" /\ handling[w] # <<>>
  /\ handling' = [handling EXCEPT ![w] = <<>>]
  /\ activeThreads' = activeThreads - 1
  /\ UNCHANGED <<calls, now, running, worker, queue, stopper, waiters, missed, watching,
                 unheard>>

\* ... and so does the notification.
WorkerNotifies(w) ==
  /\ handling[w] = <<>> /\ Finish(w)
  /\ watching' = [c \in Clients |->
                    IF watching[c] = "asleep" THEN "lock" ELSE watching[c]]
  /\ unheard' = (unheard \/ \E c \in Clients : watching[c] = "dozing")
  /\ UNCHANGED activeThreads

Next ==
  \/ Start
  \/ \E c \in Clients :
       \/ Execute(c) \/ Stop(c) \/ Joined(c)
       \/ WaitAll(c) \/ WaitAllReturns(c) \/ WaitAllDozes(c) \/ WaitAllSleeps(c)
  \/ \E w \in Workers :
       WorkerIdles(w) \/ WorkerTakes(w) \/ WorkerRuns(w) \/ WorkerNotifies(w)

WorkerSteps(w) == WorkerIdles(w) \/ WorkerTakes(w) \/ WorkerRuns(w) \/ WorkerNotifies(w)

WaiterSteps(c) == WaitAllReturns(c) \/ WaitAllDozes(c) \/ WaitAllSleeps(c)

Fairness ==
  /\ \A w \in Workers : WF_vars(WorkerSteps(w))
  /\ \A c \in Clients : WF_vars(WaiterSteps(c)) /\ WF_vars(Joined(c))

Spec == Init /\ [][Next]_vars /\ Fairness

-----------------------------------------------------------------------------
TypeOK ==
  /\ PoolTypeOK(1 .. MaxCalls)
  /\ activeThreads \in 0 .. Cardinality(Workers)
  /\ watching \in [Clients -> {"idle", "lock", "dozing", "asleep"}]
  /\ unheard \in BOOLEAN

\* When waitAll() returns, no task is queued and no worker is at work on one.
WaitAllMeansDone ==
  [][\A c \in Clients :
       watching[c] = "lock" /\ watching'[c] = "idle" =>
         queue["tasks"] = <<>> /\ \A w \in Workers : handling[w] = <<>>]_watching

\* waitAll() returns when the work is done, unless its notification went unheard.
CallOpen(c) == watching[c] # "idle" /\ AllDone
CallOver(c) == watching[c] = "idle" \/ ~AllDone \/ unheard
WaitAllEnds == \A c \in Clients : CallOpen(c) ~> CallOver(c)

=============================================================================

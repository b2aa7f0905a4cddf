------------------------------ MODULE MessageBus ------------------------------
(***************************************************************************)
(* The plugin MessageBus: handlers per plugin, messages whose senders hold *)
(* a future, notifications without one, and the background threads: the    *)
(* workers of the messages, the thread of the notifications, and the one   *)
(* that looks for messages past their deadlines every second.              *)
(***************************************************************************)
EXTENDS QueueWorkers, Statistics, Functions

VARIABLES
  handlers,       \* handlers_: the plugins with a handler (of the one method modelled)
  totalHandlers,  \* statistics_.totalHandlers
  uncounted,      \* history: the handlers there were when the statistics were reset,
                  \* less those that were replaced since
  casting,        \* the targets that each client's broadcast() has yet to notify
  checker,        \* the timeout thread: "none", "sleeping" or "ended"
  promises        \* the promise of each message: "none", "open" or how it was kept

own  == <<handlers, totalHandlers, uncounted, casting, checker, promises>>
vars == <<calls, now, poolVars, own>>

Outcomes == {"answered", "failed", "unhandled", "timeout"}

Message(to, deadline) == [number |-> calls', to |-> to, deadline |-> deadline]

OwnInit ==
  /\ handlers = {} /\ totalHandlers = 0 /\ uncounted = 0
  /\ casting = [c \in Clients |-> {}]
  /\ checker = "none"
  /\ promises = [n \in 1 .. MaxCalls |-> "none"]

Init == CallersInit /\ PoolInit /\ OwnInit

\* waitForCompletion() locks both mutexes and gives back only the one it waits with.
MayLock(l) == \A c \in Clients : waiting[c] \in {"none", l}

Free(c) == waiting[c] = "none" /\ casting[c] = {}

-----------------------------------------------------------------------------
(* Handlers.                                                               *)

\* registerHandler() and registerAsyncHandler(); one that is replaced is counted again.
RegisterHandler(p) ==
  /\ Called
  /\ handlers' = handlers \cup {p}
  /\ totalHandlers' = Raised(totalHandlers)
  /\ uncounted' = uncounted - Cardinality({p} \cap handlers)
  /\ UNCHANGED <<poolVars, casting, checker, promises>>

\* Mutant: a handler that was not there is taken off the count.
UnregisterHandlerUnfound(p) ==
  /\ Called
  /\ handlers' = handlers \ {p}
  /\ totalHandlers' = Lowered(totalHandlers, 1)
  /\ UNCHANGED <<poolVars, uncounted, casting, checker, promises>>

UnregisterHandler(p) ==
  /\ Called /\ p \in handlers
  /\ handlers' = handlers \ {p}
  /\ totalHandlers' = Lowered(totalHandlers, 1)
  /\ UNCHANGED <<poolVars, uncounted, casting, checker, promises>>

\* With one method the two differ in what they count when there was no handler.
UnregisterAllHandlers(p) ==
  /\ Called
  /\ handlers' = handlers \ {p}
  /\ totalHandlers' = Lowered(totalHandlers, Cardinality({p} \cap handlers))
  /\ UNCHANGED <<poolVars, uncounted, casting, checker, promises>>

GetHandlerCount == Cardinality(handlers)

\* resetStatistics(): the handlers that there are are not counted any more.
ResetStatistics ==
  /\ Called
  /\ totalHandlers' = 0 /\ uncounted' = Cardinality(handlers)
  /\ UNCHANGED <<poolVars, handlers, casting, checker, promises>>

\* processMessage(): what sendMessage() and handleMessage() return, too.
ProcessMessage(to) == IF to \in handlers THEN {"answered", "failed"} ELSE {"unhandled"}

-----------------------------------------------------------------------------
(* Senders.                                                                *)

SendNotification(c, to) ==
  /\ Called /\ Free(c) /\ MayLock("notices")
  /\ Push("notices", Message(to, 0))
  /\ UNCHANGED own

\* broadcast(): a copy of the handlers, ...
Broadcast(c) ==
  /\ Called /\ Free(c)
  /\ casting' = [casting EXCEPT ![c] = handlers]
  /\ UNCHANGED <<poolVars, handlers, totalHandlers, uncounted, checker, promises>>

\* ... then one notification after the other.
BroadcastNext(c, to) ==
  /\ to \in casting[c] /\ MayLock("notices")
  /\ Push("notices", [number |-> calls, to |-> to, deadline |-> 0])
  /\ casting' = [casting EXCEPT ![c] = @ \ {to}]
  /\ UNCHANGED <<calls, now, handlers, totalHandlers, uncounted, checker, promises>>

\* sendMessageAsync(): accepted whether the bus runs or not.
SendMessageAsync(c, to, timeout) ==
  /\ Called /\ Free(c) /\ MayLock("messages")
  /\ Push("messages", Message(to, now + timeout))
  /\ promises' = [promises EXCEPT ![calls'] = "open"]
  /\ UNCHANGED <<handlers, totalHandlers, uncounted, casting, checker>>

WaitForCompletion(c) ==
  /\ Called /\ Free(c) /\ \A l \in Lanes : MayLock(l) /\ MutexFree(l)
  /\ \E l \in Lanes : /\ PoolWait(c, l)
                      /\ l = "notices" => queue["messages"] = <<>>
  /\ UNCHANGED own

\* After the messages it waits for the notifications, if there are any.
WaitTests(c) ==
  /\ c \in woken
  /\ IF waiting[c] = "messages" /\ MutexFree("messages") /\ queue["messages"] = <<>>
        /\ running /\ queue["notices"] # <<>>
     THEN /\ waiting' = [waiting EXCEPT ![c] = "notices"] /\ woken' = woken \ {c}
          /\ UNCHANGED <<calls, now, running, worker, queue, handling, stopper, missed,
                         stolen>>
     ELSE PoolWaitTests(c)
  /\ UNCHANGED own

-----------------------------------------------------------------------------
(* startBackgroundProcessing() and stopBackgroundProcessing().             *)

Start ==
  /\ Called /\ PoolStart
  /\ checker' = "sleeping"
  /\ UNCHANGED <<handlers, totalHandlers, uncounted, casting, promises>>

\* Messages that no worker took stay in the queue, their futures open.
Stop(c) == Called /\ Free(c) /\ PoolStop(c) /\ UNCHANGED own

Joined(c) ==
  /\ PoolStopped(c) /\ checker \in {"none", "ended"}
  /\ checker' = "none"
  /\ UNCHANGED <<handlers, totalHandlers, uncounted, casting, promises>>

-----------------------------------------------------------------------------
(* The background threads.                                                 *)

WorkerIdles(w) ==
  /\ worker[w] = "lock" => MayLock(Lane[w])
  /\ Idles(w)
  /\ UNCHANGED own

WorkerTakes(w) == MayLock(Lane[w]) /\ Take(w) /\ UNCHANGED own

\* A worker of the messages keeps the promise; the thread of the notifications has none.
WorkerProcesses(w) ==
  /\ Finish(w)
  /\ LET m == handling[w][1]
         outcomes == IF now > m.deadline THEN {"timeout"} ELSE ProcessMessage(m.to)
     IN  IF Lane[w] = "notices" THEN UNCHANGED promises
         ELSE \E o \in outcomes : promises' = [promises EXCEPT ![m.number] = o]
  /\ UNCHANGED <<handlers, totalHandlers, uncounted, casting, checker>>

Expired == {m \in Range(queue["messages"]) : now > m.deadline}

InTime ==
  Sublist(queue["messages"],
          {i \in DOMAIN queue["messages"] : now <= queue["messages"][i].deadline})

\* Mutant: what has expired is dropped.
CheckTimeoutsDrops ==
  /\ checker = "sleeping" /\ MutexFree("messages") /\ MayLock("messages")
  /\ queue' = [queue EXCEPT !["messages"] = InTime]
  /\ checker' = IF running THEN "sleeping" ELSE "ended"
  /\ UNCHANGED <<calls, now, running, worker, handling, stopper, waiters, missed, handlers,
                 totalHandlers, uncounted, casting, promises>>

\* checkTimeouts(): what has expired leaves the queue and has its promise kept.
CheckTimeouts ==
  /\ checker = "sleeping" /\ MutexFree("messages") /\ MayLock("messages")
  /\ queue' = [queue EXCEPT !["messages"] = InTime]
  /\ promises' = [n \in 1 .. MaxCalls |->
                    IF n \in {m.number : m \in Expired} THEN "timeout" ELSE promises[n]]
  /\ checker' = IF running THEN "sleeping" ELSE "ended"
  /\ UNCHANGED <<calls, now, running, worker, handling, stopper, waiters, missed, handlers,
                 totalHandlers, uncounted, casting>>

Tick == Elapse /\ UNCHANGED <<poolVars, own>>

Next ==
  \/ \E p \in Ids : RegisterHandler(p) \/ UnregisterHandler(p) \/ UnregisterAllHandlers(p)
  \/ \E c \in Clients :
       \/ Broadcast(c) \/ WaitForCompletion(c) \/ WaitTests(c) \/ Stop(c) \/ Joined(c)
       \/ \E to \in Ids :
            \/ SendNotification(c, to) \/ BroadcastNext(c, to)
            \/ \E timeout \in Limits : SendMessageAsync(c, to, timeout)
  \/ Start \/ ResetStatistics
  \/ \E w \in Workers : WorkerIdles(w) \/ WorkerTakes(w) \/ WorkerProcesses(w)
  \/ CheckTimeouts
  \/ Tick

WorkerSteps(w) == WorkerIdles(w) \/ WorkerTakes(w) \/ WorkerProcesses(w)

Fairness ==
  /\ \A w \in Workers : WF_vars(WorkerSteps(w))
  /\ \A c \in Clients : WF_vars(Joined(c)) /\ WF_vars(WaitTests(c))
  /\ WF_vars(CheckTimeouts)

Spec == Init /\ [][Next]_vars /\ Fairness

-----------------------------------------------------------------------------
TypeOK ==
  /\ PoolTypeOK([number : 1 .. MaxCalls, to : Ids, deadline : Nat])
  /\ handlers \subseteq Ids /\ totalHandlers \in Nat /\ uncounted \in Int
  /\ casting \in [Clients -> SUBSET Ids]
  /\ checker \in {"none", "sleeping", "ended"}
  /\ promises \in [1 .. MaxCalls -> Outcomes \cup {"none", "open"}]

InHand == UNION {Range(handling[w]) : w \in {v \in Workers : Lane[v] = "messages"}}

\* The workers and the timeout thread share the pending messages: a promise is open exactly
\* as long as its message is queued or in the hands of one worker, so that it is kept once.
PromisesAccounted ==
  \A n \in 1 .. MaxCalls :
    promises[n] = "open" <=> \E m \in Range(queue["messages"]) \cup InHand : m.number = n

\* totalHandlers is the number of the handlers, one that replaced another counted again.
\* (After resetStatistics() it does not count those that there were: it is too small by their
\* number, and wraps when more are unregistered than were registered since.)
HandlersCounted == totalHandlers = Wrapped(GetHandlerCount - uncounted)

Open == {n \in 1 .. MaxCalls : promises[n] = "open"}

\* The futures have their answers once no more messages are sent, unless the bus is
\* stopped, or a waitForCompletion() took the notification or the mutex.
WorkWaits    == Open # {} /\ running
WorkDone     == Open = {} \/ ~running \/ stolen \/ ~MayLock("messages")
PromisesKept == WorkWaits ~> WorkDone

=============================================================================

----------------------------- MODULE QueueWorkers -----------------------------
(***************************************************************************)
(* Worker threads that take work from queues: what the plugin Channel, the *)
(* AsyncChannel, the EventBus, the MessageBus and the ThreadPool share.    *)
(* A worker waits on the condition variable of its queue with the queue's  *)
(* mutex; stop() lowers an atomic flag and notifies without that mutex.    *)
(***************************************************************************)
EXTENDS Callers, Sequences

CONSTANT Lane  \* the queue of each worker: a function from workers to queues

NoClient == "NONE"

Workers == DOMAIN Lane
Lanes   == {Lane[w] : w \in Workers}

VARIABLES
  running,   \* running_
  worker,    \* where each worker is: "none", at the top of its "loop", at the mutex with
             \* "lock", "dozing" (it has found nothing to do and still holds the mutex),
             \* "asleep" in wait(), "busy" without the mutex, or "ended"
  queue,     \* the queues
  handling,  \* the item each worker is busy with, in a sequence of at most one
  stopper,   \* the client that is inside stop() and joins the workers
  waiting,   \* the queue whose end each client waits for, on the workers' condition
             \* variable; "none" if it does not
  woken,     \* those of them who were notified
  missed,    \* history: stop() notified while a worker was dozing
  stolen     \* history: a push() woke such a client though a worker slept

poolVars == <<running, worker, queue, handling, stopper, waiting, woken, missed, stolen>>
waiters  == <<waiting, woken, stolen>>

PoolInit ==
  /\ running = FALSE
  /\ worker = [w \in Workers |-> "none"]
  /\ queue = [l \in Lanes |-> <<>>]
  /\ handling = [w \in Workers |-> <<>>]
  /\ stopper = NoClient
  /\ waiting = [c \in Clients |-> "none"] /\ woken = {}
  /\ missed = FALSE /\ stolen = FALSE

MutexFree(l) == \A w \in Workers : Lane[w] = l => worker[w] # "dozing"

Asleep(l)  == {w \in Workers : Lane[w] = l /\ worker[w] = "asleep"}
Waiting(l) == {c \in Clients : waiting[c] = l /\ c \notin woken}

-----------------------------------------------------------------------------
(* What callers do.                                                        *)

\* A caller starts the workers of a pool that nobody is stopping.  (Assumed: a start while
\* a stop() joins adds threads to the vector that stop() walks and then clears, a data race
\* after which anything may happen; the model leaves it out.)
PoolStart ==
  /\ ~running /\ stopper = NoClient
  /\ running' = TRUE
  /\ worker' = [w \in Workers |-> "loop"]
  /\ UNCHANGED <<queue, handling, stopper, waiters, missed>>

\* Mutant: stop() lowers the flag and forgets to notify.
PoolStopQuiet(c) ==
  /\ running /\ stopper = NoClient
  /\ running' = FALSE
  /\ stopper' = c
  /\ UNCHANGED <<worker, queue, handling, waiters, missed>>

\* running_.store(false) and notify_all(): a worker that has yet to fall asleep misses it.
PoolStop(c) ==
  /\ running /\ stopper = NoClient
  /\ running' = FALSE
  /\ worker' = [w \in Workers |-> IF worker[w] = "asleep" THEN "lock" ELSE worker[w]]
  /\ stopper' = c
  /\ missed' = (missed \/ \E w \in Workers : worker[w] = "dozing")
  /\ woken' = {d \in Clients : waiting[d] # "none"}
  /\ UNCHANGED <<queue, handling, waiting, stolen>>

PoolStopped(c) ==
  /\ stopper = c
  /\ \A w \in Workers : worker[w] \in {"none", "ended"}
  /\ worker' = [w \in Workers |-> "none"]
  /\ stopper' = NoClient
  /\ UNCHANGED <<calls, now, running, queue, handling, waiters, missed>>

\* push() under the mutex, then notify_one(): a worker that sleeps or a client that waits.
Push(l, item) ==
  /\ MutexFree(l)
  /\ queue' = [queue EXCEPT ![l] = Append(@, item)]
  /\ \/ Asleep(l) \cup Waiting(l) = {} /\ UNCHANGED <<worker, woken, stolen>>
     \/ \E w \in Asleep(l) :
          worker' = [worker EXCEPT ![w] = "lock"] /\ UNCHANGED <<woken, stolen>>
     \/ \E c \in Waiting(l) :
          /\ woken' = woken \cup {c}
          /\ stolen' = (stolen \/ Asleep(l) # {})
          /\ UNCHANGED worker
  /\ UNCHANGED <<running, handling, stopper, waiting, missed>>

\* A client waits until the queue is empty or the pool is stopped; nobody notifies it of
\* the former.
PoolWait(c, l) ==
  /\ waiting[c] = "none"
  /\ MutexFree(l) /\ running /\ queue[l] # <<>>
  /\ waiting' = [waiting EXCEPT ![c] = l]
  /\ UNCHANGED <<running, worker, queue, handling, stopper, woken, missed, stolen>>

PoolWaitTests(c) ==
  /\ c \in woken /\ MutexFree(waiting[c])
  /\ woken' = woken \ {c}
  /\ waiting' = IF running /\ queue[waiting[c]] # <<>> THEN waiting
                ELSE [waiting EXCEPT ![c] = "none"]
  /\ UNCHANGED <<calls, now, running, worker, queue, handling, stopper, missed, stolen>>

-----------------------------------------------------------------------------
(* The loop of a worker.                                                   *)

Moves(w, from, to) == worker[w] = from /\ worker' = [worker EXCEPT ![w] = to]

\* while (running_.load())
LoopTest(w) ==
  /\ Moves(w, "loop", IF running THEN "lock" ELSE "ended")
  /\ UNCHANGED <<calls, now, running, queue, handling, stopper, waiters, missed>>

\* The predicate of wait(), with the mutex: false, ...
FallAsleep(w) ==
  /\ MutexFree(Lane[w]) /\ running /\ queue[Lane[w]] = <<>>
  /\ Moves(w, "lock", "dozing")
  /\ UNCHANGED <<calls, now, running, queue, handling, stopper, waiters, missed>>

Sleep(w) ==
  /\ Moves(w, "dozing", "asleep")
  /\ UNCHANGED <<calls, now, running, queue, handling, stopper, waiters, missed>>

\* ... true because stop() was called, with items left or not, ...
BreakOff(w) ==
  /\ MutexFree(Lane[w]) /\ ~running
  /\ Moves(w, "lock", "ended")
  /\ UNCHANGED <<calls, now, running, queue, handling, stopper, waiters, missed>>

\* ... or true because there is an item, which leaves the queue.
Take(w) ==
  /\ MutexFree(Lane[w]) /\ running /\ queue[Lane[w]] # <<>>
  /\ Moves(w, "lock", "busy")
  /\ handling' = [handling EXCEPT ![w] = <<Head(queue[Lane[w]])>>]
  /\ queue' = [queue EXCEPT ![Lane[w]] = Tail(@)]
  /\ UNCHANGED <<calls, now, running, stopper, waiters, missed>>

Finish(w) ==
  /\ Moves(w, "busy", "loop")
  /\ handling' = [handling EXCEPT ![w] = <<>>]
  /\ UNCHANGED <<calls, now, running, queue, stopper, waiters, missed>>

\* The steps that need nothing of the component.
Idles(w) == LoopTest(w) \/ FallAsleep(w) \/ Sleep(w) \/ BreakOff(w)

PoolTypeOK(items) ==
  /\ CallersTypeOK
  /\ running \in BOOLEAN /\ missed \in BOOLEAN /\ stolen \in BOOLEAN
  /\ worker \in [Workers -> {"none", "loop", "lock", "dozing", "asleep", "busy", "ended"}]
  /\ DOMAIN queue = Lanes /\ \A l \in Lanes : queue[l] \in Seq(items)
  /\ DOMAIN handling = Workers /\ \A w \in Workers : handling[w] \in Seq(items)
  /\ stopper \in Clients \cup {NoClient}
  /\ waiting \in [Clients -> Lanes \cup {"none"}] /\ woken \subseteq Clients

\* stop() comes back, unless its notification fell between a worker's test and its wait.
Stopping == stopper # NoClient
StopOver == stopper = NoClient \/ missed
StopEnds == Stopping ~> StopOver

=============================================================================

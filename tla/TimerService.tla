----------------------------- MODULE TimerService -----------------------------
(***************************************************************************)
(* The plugins' TimerService: one worker that collects the due timers      *)
(* under timersMutex_, calls them without it, and sleeps till the next.    *)
(***************************************************************************)
EXTENDS Callers

NoTimer  == [next |-> 0, interval |-> 0]
TimerIds == 1 .. MaxCalls

VARIABLES
  running,    \* running_
  timers,     \* timers_: when each is due next and its interval, 0 for a single shot
  cancelled,  \* the entries whose flag "cancelled" is set
  ready,      \* readyTimers of the worker
  worker,     \* "none", "loop", "scan", "timed" or "parked" when it sleeps with or without
              \* an end, "dozing timed" or "dozing parked" just before, "fire", "ended";
              \* "terminated" if the process has ended
  wakeAt,     \* when a timed sleep ends
  stopping,   \* a client is inside stop()
  due,        \* history: when each timer was due for its last call
  shots,      \* history: how often each timer was called
  missed      \* history: stop() notified while the worker was dozing

own  == <<running, timers, cancelled, ready, worker, wakeAt, stopping, due, shots, missed>>
vars == <<calls, now, own>>

history == <<due, shots, missed>>

Active == {id \in TimerIds : timers[id] # NoTimer}

Init ==
  /\ CallersInit
  /\ running = FALSE
  /\ timers = [id \in TimerIds |-> NoTimer]
  /\ cancelled = {} /\ ready = {}
  /\ worker = "none" /\ wakeAt = 0
  /\ stopping = FALSE
  /\ due = [id \in TimerIds |-> 0] /\ shots = [id \in TimerIds |-> 0]
  /\ missed = FALSE

Dozing == {"dozing timed", "dozing parked"}
Asleep == {"timed", "parked"}

\* timersMutex_: the worker scans and falls asleep with it.
MutexFree == worker \notin Dozing

Notified == IF worker \in Asleep THEN "awake" ELSE worker

-----------------------------------------------------------------------------
(* scheduleDelayed(), scheduleInterval(), cancel(), start() and stop().    *)

Schedule(delay, interval) ==
  /\ Called /\ MutexFree
  /\ timers' = [timers EXCEPT ![calls'] = [next |-> now + delay, interval |-> interval]]
  /\ worker' = Notified
  /\ UNCHANGED <<running, cancelled, ready, wakeAt, stopping, history>>

\* A timer that the worker has collected keeps its flag, which the worker looks at.
Cancel(id) ==
  /\ Called /\ MutexFree /\ timers[id] # NoTimer
  /\ timers' = [timers EXCEPT ![id] = NoTimer]
  /\ cancelled' = cancelled \cup {id}
  /\ UNCHANGED <<running, ready, worker, wakeAt, stopping, history>>

Start ==
  /\ Called /\ ~running /\ ~stopping
  /\ running' = TRUE /\ worker' = "loop"
  /\ UNCHANGED <<timers, cancelled, ready, wakeAt, stopping, history>>

\* A start() while a stop() joins the worker assigns to a thread that is joinable: the
\* process ends.
StartTerminates ==
  /\ Called /\ ~running /\ stopping
  /\ running' = TRUE /\ worker' = "terminated"
  /\ UNCHANGED <<timers, cancelled, ready, wakeAt, stopping, history>>

Stop ==
  /\ Called /\ running
  /\ running' = FALSE /\ stopping' = TRUE
  /\ worker' = Notified
  /\ missed' = (missed \/ worker \in Dozing)
  /\ UNCHANGED <<timers, cancelled, ready, wakeAt, due, shots>>

\* stop() joins the worker and clears the timers.
Joined ==
  /\ stopping /\ worker \in {"none", "ended"}
  /\ stopping' = FALSE /\ worker' = "none"
  /\ timers' = [id \in TimerIds |-> NoTimer]
  /\ UNCHANGED <<calls, now, running, cancelled, ready, wakeAt, history>>

-----------------------------------------------------------------------------
(* workerThread().                                                         *)

WorkerLoops ==
  /\ worker = "loop"
  /\ worker' = IF running THEN "scan" ELSE "ended"
  /\ ready' = {}
  /\ UNCHANGED <<calls, now, running, timers, cancelled, wakeAt, stopping, history>>

Ready == {id \in Active : timers[id].next <= now}

\* Mutant: a single shot stays in the table when it is due.
CollectedAll ==
  [id \in TimerIds |->
     IF id \in Ready THEN [timers[id] EXCEPT !.next = now + timers[id].interval]
     ELSE timers[id]]

\* Single shots leave the table when they are due.
Collected ==
  [id \in TimerIds |->
     IF id \notin Ready THEN timers[id]
     ELSE IF timers[id].interval = 0 THEN NoTimer
          ELSE [timers[id] EXCEPT !.next = now + timers[id].interval]]

\* With the mutex: collect what is due; sleep till the next timer if nothing is, without
\* end if no timer is left, even with something collected; else go on to the calls.
WorkerScans ==
  /\ worker = "scan"
  /\ timers' = Collected /\ ready' = Ready
  /\ due' = [id \in TimerIds |-> IF id \in Ready THEN timers[id].next ELSE due[id]]
  /\ LET left == {id \in TimerIds : timers'[id] # NoTimer}
     IN  worker' = IF Ready = {} /\ left # {} /\ running THEN "dozing timed"
                   ELSE IF left = {} /\ running THEN "dozing parked"
                   ELSE "fire"
  /\ wakeAt' = IF worker' # "dozing timed" THEN 0
               ELSE CHOOSE t \in {timers[id].next : id \in Active} :
                      \A id \in Active : t <= timers[id].next
  /\ UNCHANGED <<calls, now, running, cancelled, stopping, shots, missed>>

WorkerSleeps ==
  /\ worker \in Dozing
  /\ worker' = IF worker = "dozing timed" THEN "timed" ELSE "parked"
  /\ UNCHANGED <<calls, now, running, timers, cancelled, ready, wakeAt, stopping, history>>

\* A notification or the end of a timed sleep; the sleeper locks the mutex again.
WorkerWakes ==
  /\ worker = "awake" \/ (worker = "timed" /\ now >= wakeAt)
  /\ worker' = IF wakeAt # 0 THEN "loop" ELSE "fire"
  /\ wakeAt' = 0
  /\ UNCHANGED <<calls, now, running, timers, cancelled, ready, stopping, history>>

\* One of the collected timers: its flag is tested, then it is called.
WorkerFires(id) ==
  /\ worker = "fire" /\ id \in ready /\ \A other \in ready : id <= other
  /\ ready' = ready \ {id}
  /\ shots' = [shots EXCEPT ![id] = IF id \in cancelled THEN @ ELSE @ + 1]
  /\ UNCHANGED <<calls, now, running, timers, cancelled, worker, wakeAt, stopping, due,
                 missed>>

WorkerFired ==
  /\ worker = "fire" /\ ready = {}
  /\ worker' = "loop"
  /\ UNCHANGED <<calls, now, running, timers, cancelled, ready, wakeAt, stopping, history>>

Tick ==
  Elapse /\ UNCHANGED <<running, timers, cancelled, ready, worker, wakeAt, stopping, history>>

Terminated == worker = "terminated"

Next ==
  /\ ~Terminated
  /\ \/ \E delay \in Limits, interval \in Limits \cup {0} : Schedule(delay, interval)
     \/ \E id \in TimerIds : Cancel(id) \/ WorkerFires(id)
     \/ Start \/ StartTerminates \/ Stop \/ Joined
     \/ WorkerLoops \/ WorkerScans \/ WorkerSleeps \/ WorkerWakes \/ WorkerFired
     \/ Tick

WorkerSteps ==
  WorkerLoops \/ WorkerScans \/ WorkerSleeps \/ WorkerWakes \/ WorkerFired
  \/ \E id \in TimerIds : WorkerFires(id)

Fairness == WF_vars(WorkerSteps) /\ WF_vars(Joined)

Spec == Init /\ [][Next]_vars /\ Fairness

-----------------------------------------------------------------------------
TypeOK ==
  /\ CallersTypeOK
  /\ running \in BOOLEAN /\ stopping \in BOOLEAN /\ missed \in BOOLEAN
  /\ timers \in [TimerIds -> [next : Nat, interval : Limits \cup {0}]]
  /\ cancelled \subseteq TimerIds /\ ready \subseteq TimerIds
  /\ worker \in {"none", "loop", "scan", "awake", "fire", "ended", "terminated"}
               \cup Dozing \cup Asleep
  /\ wakeAt \in Nat
  /\ due \in [TimerIds -> Nat] /\ shots \in [TimerIds -> Nat]

\* A timer is not called before it is due, and a single shot is called once: it is never
\* both in the table and collected or called.
TimersSound ==
  /\ \A id \in ready : due[id] <= now
  /\ \A id \in Active : timers[id].interval = 0 => shots[id] = 0 /\ id \notin ready
  /\ \A id \in TimerIds : shots[id] > 0 => due[id] \in 1 .. now

\* What the worker has collected is called, unless the worker parked with it because the
\* table was empty, or the process has ended.
WorkWaits      == ready # {}
WorkDone       == ready = {} \/ worker = "parked" \/ Terminated
CollectedFires == WorkWaits ~> WorkDone

\* stop() comes back, unless its notification fell before the worker's sleep, or the process
\* has ended: a start() that overlaps with a stop() ends it.
StopOver      == ~stopping \/ missed \/ Terminated
TimerStopEnds == stopping ~> StopOver

=============================================================================

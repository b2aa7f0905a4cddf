------------------------- MODULE WorkflowScheduler -------------------------
(***************************************************************************)
(* The WorkflowScheduler: the table of schedules, the heap of due times    *)
(* and the thread that executes what is due.                               *)
(*                                                                         *)
(* Every method that takes mutex_ is one step.  The scheduler thread holds *)
(* mutex_ from the start of a pass to its wait, the callbacks included;    *)
(* start() and stop() do not take it.  The clock may advance between any   *)
(* two steps.  A step reads it once.                                       *)
(***************************************************************************)
EXTENDS Integers

CONSTANTS
  Ids,          \* schedule ids; a generated id is one that was not used before
  Configs,      \* the ScheduleConfigs in use
  Controllers,  \* threads that call start() and stop()
  Day,          \* the period of DAILY
  IntLimit,     \* 2^31 milliseconds, between 24 and 25 days
  MaxWait,      \* the longest sleep (60 s)
  MaxTime,      \* bound: the horizon of the clock, at which every wait is over
  MaxCount,     \* bound: executions are counted up to here, more than any limit asks for
  MaxCalls      \* bound: calls of all methods together

\* startTime, endTime and maxExecutions are 0 when not set.  DAILY stands for WEEKLY and
\* CRON as well: they are `now' plus a constant.
ScheduleConfig ==
  [type : {"ONCE", "INTERVAL", "DAILY", "MONTHLY"}, startTime : Nat, interval : Nat, endTime : Nat,
   maxExecutions : Nat, enabled : BOOLEAN]

ASSUME Assumptions ==
  /\ Configs \subseteq ScheduleConfig /\ Configs # {}
  /\ Day \in Nat /\ IntLimit \in Nat \ {0}
  /\ MaxWait \in Nat /\ MaxTime \in Nat \ {0} /\ MaxCalls \in Nat
  /\ MaxCount \in Nat /\ MaxCount > 1 /\ \A c \in Configs : c.maxExecutions < MaxCount

VARIABLES
  time,                         \* TimeUtils::getCurrentMs()
  state, config, next, count,   \* tasks_; an id that is not in the table is "ABSENT"
  heap,                         \* priorityQueue_
  running,                      \* running_
  joinable,                     \* schedulerThread_.joinable()
  lpc, passTime, inHand, deadline, \* the thread: where it is, `now' of its pass, the entry
                                \* it popped, the end of its wait
  cpc,                          \* of each controller: where it is
  life,                         \* "alive", "destroyed" or "terminated"
  calls,                        \* calls made so far
  issued,                       \* history: schedule() calls for an id
  plain,                        \* history: ids scheduled once, not updated or resumed
  overlapped                    \* history: two controllers were in start() or stop() at once

table      == <<state, config, next, count>>
thread     == <<lpc, passTime, inHand, deadline>>
controller == <<running, joinable, cpc, life, overlapped>>
history    == <<issued, plain>>

vars == <<time, table, heap, thread, controller, calls, history>>

ScheduleState == {"ABSENT", "PENDING", "RUNNING", "PAUSED", "FAILED"}

LoopLabel == {"none", "test", "lock", "scan", "callback", "pred", "block", "waiting", "woken",
              "ended"}

Entry == [id : Ids, ticket : Nat, time : Int]

Init ==
  /\ time = 1
  /\ state = [i \in Ids |-> "ABSENT"] /\ config = [i \in Ids |-> CHOOSE c \in Configs : TRUE]
  /\ next = [i \in Ids |-> 0] /\ count = [i \in Ids |-> 0]
  /\ heap = {}
  /\ running = FALSE /\ joinable = FALSE
  /\ lpc = "none" /\ passTime = 0 /\ inHand = {} /\ deadline = 0
  /\ cpc = [c \in Controllers |-> "idle"]
  /\ life = "alive" /\ calls = 0
  /\ issued = [i \in Ids |-> 0] /\ plain = {} /\ overlapped = FALSE

Tick ==
  /\ life # "terminated" /\ time < MaxTime
  /\ time' = time + 1
  /\ UNCHANGED <<table, heap, thread, controller, calls, history>>

-----------------------------------------------------------------------------
(* When a schedule is due.                                                 *)

\* A product of ints that leaves their range: an overflow, which the compiler folds.
Wrap(n) == ((n + IntLimit) % (2 * IntLimit)) - IntLimit

calculateNextExecution(c, n) ==
  LET baseTime == IF c.startTime > 0 THEN c.startTime ELSE time
  IN  CASE c.type = "ONCE"     -> baseTime
        [] c.type = "INTERVAL" -> IF n = 0 THEN baseTime ELSE time + c.interval
        [] c.type = "DAILY"    -> time + Day
        [] c.type = "MONTHLY"  -> time + Wrap(30 * Day)

\* Mutant: a limit of n lets n + 1 executions through.
OneTooMany(c, n) ==
  /\ c.enabled /\ c.type # "ONCE"
  /\ c.maxExecutions > 0 => n <= c.maxExecutions
  /\ c.endTime > 0 => calculateNextExecution(c, n) <= c.endTime

shouldReschedule(c, n) ==
  /\ c.enabled /\ c.type # "ONCE"
  /\ c.maxExecutions > 0 => n < c.maxExecutions
  /\ c.endTime > 0 => calculateNextExecution(c, n) <= c.endTime

-----------------------------------------------------------------------------
(* The methods that take mutex_.                                           *)

Locked == lpc \in {"scan", "callback", "pred", "block"}

\* cv_.notify: only a thread that already waits is woken.
Notify == lpc' = IF lpc = "waiting" THEN "woken" ELSE lpc

Call == life = "alive" /\ calls < MaxCalls /\ calls' = calls + 1

LockedCall == ~Locked /\ Call /\ UNCHANGED <<time, passTime, inHand, deadline, controller>>

\* An entry of the heap is labelled with the schedule() call that it goes back to.
schedule(i, c) ==
  /\ LockedCall
  /\ state'  = [state EXCEPT ![i] = IF c.enabled THEN "PENDING" ELSE "PAUSED"]
  /\ config' = [config EXCEPT ![i] = c]
  /\ count'  = [count EXCEPT ![i] = 0]
  /\ next'   = [next EXCEPT ![i] = calculateNextExecution(c, 0)]
  /\ issued' = [issued EXCEPT ![i] = @ + 1]
  /\ heap'   = heap \cup {[id |-> i, ticket |-> issued'[i], time |-> next'[i]]}
  /\ plain'  = IF issued[i] = 0 THEN plain \cup {i} ELSE plain \ {i}
  /\ Notify

\* The entry stays in the heap.
cancelSchedule(i) ==
  /\ LockedCall
  /\ state[i] # "ABSENT"
  /\ state' = [state EXCEPT ![i] = "ABSENT"]
  /\ UNCHANGED <<config, next, count, heap, lpc, issued, plain>>

pauseSchedule(i) ==
  /\ LockedCall
  /\ state[i] \notin {"ABSENT", "RUNNING"}
  /\ state' = [state EXCEPT ![i] = "PAUSED"]
  /\ UNCHANGED <<config, next, count, heap, lpc, issued, plain>>

\* Nothing is pushed: the schedule runs again if its old entry is still in the heap.
resumeSchedule(i) ==
  /\ LockedCall
  /\ state[i] = "PAUSED"
  /\ state' = [state EXCEPT ![i] = "PENDING"]
  /\ next'  = [next EXCEPT ![i] = calculateNextExecution(config[i], 0)]
  /\ plain' = plain \ {i}
  /\ Notify
  /\ UNCHANGED <<config, count, heap, issued>>

\* Mutant: the new time is pushed, and the old entry stays as well.
UpdatePushes(i, c) ==
  /\ LockedCall
  /\ state[i] # "ABSENT"
  /\ config' = [config EXCEPT ![i] = c]
  /\ next'   = [next EXCEPT ![i] = calculateNextExecution(c, count[i])]
  /\ heap'   = heap \cup {[id |-> i, ticket |-> issued[i], time |-> next'[i]]}
  /\ plain'  = plain \ {i}
  /\ Notify
  /\ UNCHANGED <<state, count, issued>>

updateSchedule(i, c) ==
  /\ LockedCall
  /\ state[i] # "ABSENT"
  /\ config' = [config EXCEPT ![i] = c]
  /\ next'   = [next EXCEPT ![i] = calculateNextExecution(c, count[i])]
  /\ plain'  = plain \ {i}
  /\ Notify
  /\ UNCHANGED <<state, count, heap, issued>>

-----------------------------------------------------------------------------
(* schedulerLoop                                                           *)

LoopAt(l) == life # "terminated" /\ lpc = l

ThreadOnly == UNCHANGED <<time, controller, calls, issued, plain>>

LoopGoes(from, to) ==
  /\ LoopAt(from)
  /\ lpc' = to
  /\ ThreadOnly /\ UNCHANGED <<table, heap, passTime, inHand, deadline>>

\* A pass ends with its locals.
LoopTest ==
  /\ LoopAt("test")
  /\ lpc' = (IF running THEN "lock" ELSE "ended") /\ passTime' = 0 /\ deadline' = 0
  /\ ThreadOnly /\ UNCHANGED <<table, heap, inHand>>

LoopLock ==
  /\ LoopAt("lock")
  /\ lpc' = "scan" /\ passTime' = time
  /\ ThreadOnly /\ UNCHANGED <<table, heap, inHand, deadline>>

\* std::priority_queue keeps the greatest pair on top: the entry that is due last.
IsTop(e) == e \in heap /\ \A f \in heap : f.time <= e.time

\* An entry whose schedule is not pending (any more) is dropped.
PopStale ==
  /\ LoopAt("scan")
  /\ \E e \in heap :
       /\ IsTop(e) /\ e.time <= passTime
       /\ state[e.id] # "PENDING"
       /\ heap' = heap \ {e}
  /\ ThreadOnly /\ UNCHANGED <<table, thread>>

\* executeTask up to the callback.
PopAndExecute ==
  /\ LoopAt("scan")
  /\ \E e \in heap :
       /\ IsTop(e) /\ e.time <= passTime
       /\ state[e.id] = "PENDING"
       /\ heap'  = heap \ {e}
       /\ inHand' = {e}
       /\ state' = [state EXCEPT ![e.id] = "RUNNING"]
       /\ count' = [count EXCEPT ![e.id] = IF @ < MaxCount THEN @ + 1 ELSE @]
  /\ lpc' = "callback"
  /\ ThreadOnly /\ UNCHANGED <<config, next, passTime, deadline>>

\* Mutant: the state of the record is stored in the table.
RecordState == {"COMPLETED", "FAILED"}

\* The callback returned, or threw an exception.
Outcome == {"PENDING", "FAILED"}

\* Mutant: a repeated schedule is due one period later, but not put back.
CallbackForgets(result) ==
  /\ LoopAt("callback")
  /\ \E e \in inHand :
       /\ state' = [state EXCEPT ![e.id] = result]
       /\ IF shouldReschedule(config[e.id], count[e.id])
            THEN next' = [next EXCEPT ![e.id] = calculateNextExecution(config[e.id], count[e.id])]
            ELSE UNCHANGED next
  /\ inHand' = {}
  /\ lpc' = "scan"
  /\ ThreadOnly /\ UNCHANGED <<config, count, heap, passTime, deadline>>

\* Even after an exception the entry goes back.
CallbackEnds(result) ==
  /\ LoopAt("callback")
  /\ \E e \in inHand :
       /\ state' = [state EXCEPT ![e.id] = result]
       /\ IF shouldReschedule(config[e.id], count[e.id])
            THEN /\ next' = [next EXCEPT ![e.id] =
                               calculateNextExecution(config[e.id], count[e.id])]
                 /\ heap' = heap \cup {[e EXCEPT !.time = next'[e.id]]}
            ELSE UNCHANGED <<next, heap>>
  /\ inHand' = {}
  /\ lpc' = "scan"
  /\ ThreadOnly /\ UNCHANGED <<config, count, passTime, deadline>>

\* Nothing on top is due.  The length of the wait was computed from the start of the pass.
ScanEnds ==
  /\ LoopAt("scan")
  /\ \A e \in heap : IsTop(e) => e.time > passTime
  /\ \/ heap = {} /\ deadline' = time + MaxWait
     \/ \E e \in heap : IsTop(e) /\ deadline' = time + (e.time - passTime)
  /\ lpc' = "pred"
  /\ ThreadOnly /\ UNCHANGED <<table, heap, passTime, inHand>>

\* wait_for: the predicate, then the wait, which releases the mutex.
WaitTest  == LoopGoes("pred", IF running THEN "block" ELSE "test")
WaitBlock == LoopGoes("block", "waiting")

\* Mutant: wait instead of wait_for.
WaitForEver == FALSE

WaitOver == time >= deadline \/ time = MaxTime

WaitTimesOut == WaitOver /\ LoopGoes("waiting", "test")

WaitWakes == LoopGoes("woken", IF WaitOver THEN "test" ELSE "pred")

SpuriousWakeup == LoopGoes("waiting", "woken")

-----------------------------------------------------------------------------
(* start(), stop() and the destructor.                                     *)

ControlOnly == UNCHANGED <<time, table, heap, passTime, inHand, deadline, history>>

\* Idle controllers are alike, so one of them makes the next call.
Caller == CHOOSE k \in Controllers : cpc[k] = "idle"

Enters(k, l) ==
  /\ Call /\ cpc[k] = "idle" /\ k = Caller
  /\ cpc' = [cpc EXCEPT ![k] = l]
  /\ overlapped' = (overlapped \/ \E d \in Controllers : cpc[d] # "idle")
  /\ UNCHANGED <<joinable, lpc>>
  /\ ControlOnly

Proceeds(k, from, to) ==
  /\ life # "terminated" /\ cpc[k] = from
  /\ cpc' = [cpc EXCEPT ![k] = to]
  /\ UNCHANGED <<running, overlapped, calls>>
  /\ ControlOnly

start(k) == ~running /\ Enters(k, "assign") /\ running' = TRUE /\ UNCHANGED life

\* A std::thread that is assigned to while joinable calls std::terminate.
StartAssign(k) ==
  /\ Proceeds(k, "assign", "idle")
  /\ IF joinable THEN life' = "terminated" /\ UNCHANGED <<joinable, lpc>>
                 ELSE joinable' = TRUE /\ lpc' = "test" /\ UNCHANGED life

stop(k) == running /\ Enters(k, "notify") /\ running' = FALSE /\ UNCHANGED life

\* Without mutex_: the thread may be between its predicate and its wait.
StopNotify(k) == Proceeds(k, "notify", "join") /\ Notify /\ UNCHANGED <<joinable, life>>

\* Mutant: stop() does not join.
StopLeaves(k) == Proceeds(k, "join", "idle") /\ UNCHANGED <<joinable, lpc, life>>

StopJoin(k) ==
  /\ joinable => lpc = "ended"
  /\ Proceeds(k, "join", "idle")
  /\ joinable' = FALSE
  /\ UNCHANGED <<lpc, life>>

\* stop() does nothing when running_ is false; ~thread terminates if it is joinable then.
Destroy(k) ==
  /\ \A d \in Controllers : cpc[d] = "idle"
  /\ Enters(k, IF running THEN "notify" ELSE "idle")
  /\ running' = FALSE
  /\ life' = IF ~running /\ joinable THEN "terminated" ELSE "destroyed"

-----------------------------------------------------------------------------

Calls ==
  \/ \E i \in Ids :
       \/ cancelSchedule(i) \/ pauseSchedule(i) \/ resumeSchedule(i)
       \/ \E c \in Configs : schedule(i, c) \/ updateSchedule(i, c)
  \/ \E k \in Controllers : start(k) \/ stop(k) \/ Destroy(k)

LoopSteps ==
  \/ LoopTest \/ LoopLock \/ PopStale \/ PopAndExecute
  \/ \E result \in Outcome : CallbackEnds(result)
  \/ ScanEnds \/ WaitTest \/ WaitBlock \/ WaitTimesOut \/ WaitWakes

ControlSteps(k) == StartAssign(k) \/ StopNotify(k) \/ StopJoin(k)

Next ==
  \/ Tick \/ Calls \/ LoopSteps \/ SpuriousWakeup
  \/ \E k \in Controllers : ControlSteps(k)

\* The clock goes on, the threads run, and a callback ends.  Nobody has to make a call.
Fairness ==
  /\ WF_vars(Tick) /\ WF_vars(LoopSteps)
  /\ \A k \in Controllers : WF_vars(ControlSteps(k))

Spec == Init /\ [][Next]_vars /\ Fairness

-----------------------------------------------------------------------------
(* Properties.                                                             *)

TypeOK ==
  /\ time \in Nat /\ calls \in Nat
  /\ state \in [Ids -> ScheduleState] /\ config \in [Ids -> Configs]
  /\ next \in [Ids -> Int] /\ count \in [Ids -> Nat]
  /\ heap \subseteq Entry /\ inHand \subseteq Entry
  /\ running \in BOOLEAN /\ joinable \in BOOLEAN /\ overlapped \in BOOLEAN
  /\ lpc \in LoopLabel /\ passTime \in Nat /\ deadline \in Int
  /\ cpc \in [Controllers -> {"idle", "assign", "notify", "join"}]
  /\ life \in {"alive", "destroyed", "terminated"}
  /\ issued \in [Ids -> Nat] /\ plain \subseteq Ids

\* A call of schedule() has one entry at most, in the heap or in the hands of the thread,
\* whatever is cancelled, paused, resumed or updated meanwhile: no call is run twice over.
OneEntryPerCall ==
  \A e, f \in heap \cup inHand :
    /\ e.ticket <= issued[e.id]
    /\ e.id = f.id /\ e.ticket = f.ticket => e = f
    /\ inHand \cap heap = {}

\* A schedule made by one call is executed no more often than it may be: once, or
\* maxExecutions times.
ExecutionsBounded ==
  \A i \in plain :
    /\ config[i].type = "ONCE" => count[i] <= 1
    /\ config[i].maxExecutions > 0 => count[i] <= config[i].maxExecutions

\* Such a schedule is not forgotten: while it is pending it has an entry for the time it
\* tells its callers (getNextExecutionTime), or it has had all its executions.
PendingIsQueued ==
  \A i \in plain :
    state[i] = "PENDING" =>
      \/ \E e \in heap : e.id = i /\ e.time = next[i]
      \/ count[i] > 0 /\ ~shouldReschedule(config[i], count[i])

\* Nor is it executed before the time that it tells its callers.
NotEarly ==
  [][\A i \in plain : state[i] = "PENDING" /\ state'[i] = "RUNNING" => next[i] <= time]_vars

\* The process dies of a thread that is assigned to or destroyed while joinable only if
\* start() and stop() were called at the same time.
TerminationNeedsOverlap == life = "terminated" => overlapped

\* An enabled MONTHLY schedule whose limit is not reached goes back into the heap with a time
\* in the past (see RepeatsLater), so the inner while of schedulerLoop finds it due again, as
\* long as its callback does not fail: a pass may have no end, and mutex_ is held throughout.
EndlessPass ==
  /\ lpc \in {"scan", "callback"}
  /\ \E e \in heap \cup inHand :
       /\ e.time <= passTime
       /\ config[e.id].type = "MONTHLY" /\ shouldReschedule(config[e.id], count[e.id])

\* stop() returns unless it competes with start(): a lost notification costs one wait only.
\* Without the premise it would be false: it waits for ever for a pass that has no end.
StopReturns ==
  []<>~EndlessPass =>
    \A k \in Controllers : (cpc[k] \in {"notify", "join"}) ~> (cpc[k] = "idle" \/ overlapped)

\* While the scheduler runs, the entry on top of the heap does not stay there for ever, with
\* the same exception: a pass without end may serve another one that is due at the same time.
TopOf(i) ==
  /\ running /\ life = "alive" /\ ~overlapped
  /\ \E e \in heap : e.id = i /\ IsTop(e) /\ e.time <= MaxTime
TopIsServed == []<>~EndlessPass => \A i \in Ids : TopOf(i) ~> ~TopOf(i)

\* What a pass is for: `check whether there are tasks to execute', then `wait for the next
\* execution'.  The thread does not go to sleep while a pending schedule is due.
NoDueLeft ==
  lpc = "pred" /\ running => \A e \in heap : state[e.id] = "PENDING" => e.time > passTime

\* `MONTHLY, // executed every month': a schedule that is executed and put back is due
\* later than now.
RepeatsLater ==
  [][\A i \in Ids :
       state[i] = "RUNNING" /\ state'[i] # "RUNNING" /\ shouldReschedule(config[i], count[i])
         => next'[i] > time]_vars

=============================================================================

----------------------- MODULE WorkflowSchedulerProofs ----------------------
(***************************************************************************)
(* Proofs about the scheduler, for any schedules, configurations, numbers  *)
(* of controllers and bounds.  The argument runs from the entries of the   *)
(* heap to the schedules: a call of schedule() never has two entries       *)
(* (EntryInv), so a schedule that was made by one call and not touched     *)
(* since has one at most, which carries its time and stands for the        *)
(* executions it has left (PlainInv).                                      *)
(***************************************************************************)
EXTENDS WorkflowScheduler, TLAPS

Entries == heap \cup inHand

Tickets == \A e \in Entries : e.ticket \in 1 .. issued[e.id]

Unique == \A e, f \in Entries : e.id = f.id /\ e.ticket = f.ticket => e = f

Apart == inHand \cap heap = {}

\* An entry is in hand during a callback only, and the thread exists only while it is
\* joinable: no other thread starts on the same heap.
HandInCallback == inHand # {} => lpc = "callback"
NoThread == ~joinable => lpc \in {"none", "ended"}

EntryInv == Tickets /\ Unique /\ Apart /\ HandInCallback /\ NoThread

PlainOnce == \A i \in plain : issued[i] = 1

PassIsPast == passTime <= time

HandRan == \A e \in inHand : count[e.id] > 0

\* What the entry of a plain schedule says about it.
EntryOfPlain ==
  \A e \in heap : e.id \in plain =>
    /\ e.time = next[e.id]
    /\ config[e.id].type = "ONCE" => count[e.id] = 0
    /\ config[e.id].maxExecutions > 0 => count[e.id] < config[e.id].maxExecutions

PlainInv ==
  /\ PlainOnce /\ PassIsPast /\ HandRan /\ EntryOfPlain
  /\ ExecutionsBounded /\ PendingIsQueued

IInv == TypeOK /\ EntryInv /\ PlainInv

\* One controller at a time: running_ and joinable() agree when none is at work.
InTurn ==
  ~overlapped =>
    /\ \A k, m \in Controllers : cpc[k] # "idle" /\ cpc[m] # "idle" => k = m
    /\ \A k \in Controllers :
         /\ cpc[k] = "assign" => running /\ ~joinable
         /\ cpc[k] \in {"notify", "join"} => ~running
    /\ (\A k \in Controllers : cpc[k] = "idle") => (running <=> joinable)

ControlInv == InTurn /\ TerminationNeedsOverlap

-----------------------------------------------------------------------------
(* The clock.                                                              *)

\* The next execution is a point in time, even where the product overflows.
LEMMA NextExecutionType ==
  ASSUME TypeOK, NEW c \in Configs, NEW n \in Nat
  PROVE  calculateNextExecution(c, n) \in Int
  <1>1. Wrap(30 * Day) \in Int
    BY Assumptions DEF Wrap
  <1>2. c.type \in {"ONCE", "INTERVAL", "DAILY", "MONTHLY"} /\ c.startTime \in Nat /\ c.interval \in Nat
    BY Assumptions DEF ScheduleConfig
  <1> QED BY <1>1, <1>2, Assumptions DEF TypeOK, calculateNextExecution

\* A schedule that has run and is not to be repeated never will be, as time goes on.
LEMMA NoRepeatStays ==
  ASSUME TypeOK, NEW c \in Configs, NEW n \in Nat \ {0}, ~shouldReschedule(c, n),
         time' \in Nat, time' >= time
  PROVE  ~(shouldReschedule(c, n)')
  <1>1. Wrap(30 * Day) \in Int
    BY Assumptions DEF Wrap
  <1>2. /\ c.type \in {"ONCE", "INTERVAL", "DAILY", "MONTHLY"}
        /\ c.startTime \in Nat /\ c.interval \in Nat /\ c.endTime \in Nat
    BY Assumptions DEF ScheduleConfig
  <1>3. c.type # "ONCE" => calculateNextExecution(c, n)' >= calculateNextExecution(c, n)
    BY <1>1, <1>2, Assumptions DEF TypeOK, calculateNextExecution
  <1>4. calculateNextExecution(c, n) \in Int /\ calculateNextExecution(c, n)' \in Int
    BY <1>1, <1>2, Assumptions DEF TypeOK, calculateNextExecution
  <1> QED BY <1>2, <1>3, <1>4 DEF shouldReschedule

-----------------------------------------------------------------------------
(* Steps that leave schedules and entries alone.                           *)

Quiet == UNCHANGED <<table, heap, inHand, history>>

LEMMA LoopGoesIsQuiet ==
  ASSUME NEW from, NEW to, LoopGoes(from, to)
  PROVE  Quiet /\ UNCHANGED <<time, controller, calls, passTime, deadline>>
BY DEF LoopGoes, ThreadOnly, Quiet, history

\* The steps of schedulerLoop that only move it, and those of start() and stop().
QuietLoop == LoopTest \/ LoopLock \/ ScanEnds \/ WaitTest \/ WaitBlock \/ WaitTimesOut
               \/ WaitWakes \/ SpuriousWakeup
QuietControl == \E k \in Controllers : start(k) \/ stop(k) \/ Destroy(k) \/ ControlSteps(k)

LEMMA QuietSteps ==
  ASSUME QuietLoop \/ QuietControl \/ Tick
  PROVE  Quiet
  <1>1. CASE Tick
    BY <1>1 DEF Tick, Quiet, thread
  <1>2. CASE QuietControl
    BY <1>2 DEF QuietControl, start, stop, Destroy, Enters, ControlSteps, StartAssign,
       StopNotify, StopJoin, Proceeds, ControlOnly, Quiet
  <1>3. CASE LoopTest \/ LoopLock \/ ScanEnds
    BY <1>3 DEF LoopTest, LoopLock, ScanEnds, ThreadOnly, Quiet, history
  <1>4. CASE WaitTest \/ WaitBlock \/ WaitTimesOut \/ WaitWakes \/ SpuriousWakeup
    BY <1>4, LoopGoesIsQuiet DEF WaitTest, WaitBlock, WaitTimesOut, WaitWakes, SpuriousWakeup
  <1> QED BY <1>1, <1>2, <1>3, <1>4 DEF QuietLoop

\* Every other step is a method that takes mutex_, a pop or the end of a callback.
LEMMA StepCases ==
  ASSUME Next
  PROVE  \/ QuietLoop \/ QuietControl \/ Tick
         \/ \E i \in Ids, c \in Configs : schedule(i, c) \/ updateSchedule(i, c)
         \/ \E i \in Ids : cancelSchedule(i) \/ pauseSchedule(i) \/ resumeSchedule(i)
         \/ PopStale \/ PopAndExecute
         \/ \E result \in Outcome : CallbackEnds(result)
BY DEF Next, Calls, LoopSteps, QuietLoop, QuietControl

-----------------------------------------------------------------------------
(* Types.                                                                  *)

LEMMA TypeInit == Init => TypeOK
  <1>1. (CHOOSE c \in Configs : TRUE) \in Configs
    BY Assumptions
  <1>2. Init => /\ state \in [Ids -> ScheduleState] /\ config \in [Ids -> Configs]
                /\ cpc \in [Controllers -> {"idle", "assign", "notify", "join"}]
    BY <1>1 DEF Init, ScheduleState
  <1>3. Init => next \in [Ids -> Int] /\ count \in [Ids -> Nat] /\ issued \in [Ids -> Nat]
    BY DEF Init
  <1>4. Init => running \in BOOLEAN /\ joinable \in BOOLEAN /\ overlapped \in BOOLEAN
    BY DEF Init
  <1>5. Init => /\ time \in Nat /\ calls \in Nat /\ passTime \in Nat /\ deadline \in Int
                /\ heap \subseteq Entry /\ inHand \subseteq Entry
                /\ lpc \in LoopLabel /\ life \in {"alive", "destroyed", "terminated"}
                /\ plain \subseteq Ids
    BY DEF Init, LoopLabel
  <1> QED BY <1>2, <1>3, <1>4, <1>5 DEF TypeOK

LEMMA NotifyType == TypeOK /\ Notify => lpc' \in LoopLabel
BY DEF TypeOK, Notify, LoopLabel

LEMMA TypeStep == TypeOK /\ [Next]_vars => TypeOK'
  <1> SUFFICES ASSUME TypeOK, [Next]_vars PROVE TypeOK'
    OBVIOUS
  <1> USE DEF TypeOK
  <1>1. ASSUME NEW i \in Ids, NEW c \in Configs, schedule(i, c) PROVE TypeOK'
    <2>1. calculateNextExecution(c, 0) \in Int
      BY NextExecutionType
    <2>2. lpc' \in LoopLabel
      BY <1>1, NotifyType DEF schedule
    <2>3. [id |-> i, ticket |-> issued'[i], time |-> next'[i]] \in Entry
      BY <1>1, <2>1 DEF schedule, Entry
    <2> QED BY <1>1, <2>1, <2>2, <2>3 DEF schedule, LockedCall, Call, ScheduleState, controller
  <1>2. ASSUME NEW i \in Ids, NEW c \in Configs, updateSchedule(i, c) PROVE TypeOK'
    <2>1. calculateNextExecution(c, count[i]) \in Int
      BY NextExecutionType
    <2>2. lpc' \in LoopLabel
      BY <1>2, NotifyType DEF updateSchedule
    <2> QED BY <1>2, <2>1, <2>2 DEF updateSchedule, LockedCall, Call, controller
  <1>3. ASSUME NEW i \in Ids, cancelSchedule(i) \/ pauseSchedule(i) PROVE TypeOK'
    BY <1>3 DEF cancelSchedule, pauseSchedule, LockedCall, Call, ScheduleState, controller
  <1>4. ASSUME NEW i \in Ids, resumeSchedule(i) PROVE TypeOK'
    <2>1. calculateNextExecution(config[i], 0) \in Int
      BY NextExecutionType
    <2>2. lpc' \in LoopLabel
      BY <1>4, NotifyType DEF resumeSchedule
    <2> QED BY <1>4, <2>1, <2>2 DEF resumeSchedule, LockedCall, Call, ScheduleState, controller
  <1>5. CASE PopStale
    BY <1>5 DEF PopStale, ThreadOnly, table, thread, controller
  <1>6. CASE PopAndExecute
    BY <1>6 DEF PopAndExecute, ThreadOnly, controller, ScheduleState, LoopLabel, Entry
  <1>7. ASSUME NEW result \in Outcome, CallbackEnds(result) PROVE TypeOK'
    <2>1. PICK e \in inHand :
            /\ state' = [state EXCEPT ![e.id] = result]
            /\ IF shouldReschedule(config[e.id], count[e.id])
                 THEN /\ next' = [next EXCEPT ![e.id] =
                                    calculateNextExecution(config[e.id], count[e.id])]
                      /\ heap' = heap \cup {[e EXCEPT !.time = next'[e.id]]}
                 ELSE UNCHANGED <<next, heap>>
      BY <1>7 DEF CallbackEnds
    <2>2. e \in Entry /\ e.id \in Ids
      BY DEF Entry
    <2>3. calculateNextExecution(config[e.id], count[e.id]) \in Int
      BY <2>2, NextExecutionType
    <2>4. next' \in [Ids -> Int] /\ heap' \subseteq Entry
      BY <2>1, <2>2, <2>3 DEF Entry
    <2>5. state' \in [Ids -> ScheduleState]
      BY <2>1, <2>2 DEF Outcome, ScheduleState
    <2> QED BY <1>7, <2>4, <2>5 DEF CallbackEnds, ThreadOnly, controller, LoopLabel
  <1>8. CASE LoopLock \/ ScanEnds
    <2>1. deadline' \in Int /\ passTime' \in Nat /\ lpc' \in LoopLabel
      BY <1>8, Assumptions DEF LoopLock, ScanEnds, LoopLabel, Entry
    <2>2. UNCHANGED <<time, controller, calls, table, heap, inHand, history>>
      BY <1>8 DEF LoopLock, ScanEnds, ThreadOnly, history
    <2> QED BY <2>1, <2>2 DEF table, controller, history
  <1>9. CASE LoopTest \/ WaitTest \/ WaitBlock \/ WaitTimesOut \/ WaitWakes \/ SpuriousWakeup
    BY <1>9 DEF LoopTest, WaitTest, WaitBlock, WaitTimesOut, WaitWakes, SpuriousWakeup, LoopGoes,
       ThreadOnly, table, controller, LoopLabel
  <1>10. ASSUME NEW k \in Controllers, start(k) \/ stop(k) \/ Destroy(k) PROVE TypeOK'
    <2>0. PICK l \in {"assign", "notify", "idle"} : Enters(k, l)
      BY <1>10 DEF start, stop, Destroy
    <2>1. cpc' \in [Controllers -> {"idle", "assign", "notify", "join"}] /\ calls' \in Nat
      BY <2>0 DEF Enters, Call
    <2>4. running' \in BOOLEAN
      BY <1>10 DEF start, stop, Destroy
    <2>5. life' \in {"alive", "destroyed", "terminated"}
      BY <1>10 DEF start, stop, Destroy
    <2>2. overlapped' \in BOOLEAN
      BY <1>10 DEF start, stop, Destroy, Enters
    <2>3. UNCHANGED <<time, table, heap, passTime, inHand, deadline, history, joinable, lpc>>
      BY <1>10 DEF start, stop, Destroy, Enters, ControlOnly
    <2> QED BY <2>1, <2>2, <2>3, <2>4, <2>5 DEF table, history
  <1>11. ASSUME NEW k \in Controllers, ControlSteps(k) PROVE TypeOK'
    BY <1>11, NotifyType DEF ControlSteps, StartAssign, StopNotify, StopJoin, Proceeds, ControlOnly,
       table, history, LoopLabel
  <1>12. CASE Tick
    BY <1>12 DEF Tick, table, thread, controller, history
  <1>13. CASE UNCHANGED vars
    BY <1>13 DEF vars, table, thread, controller, history
  <1> QED BY <1>1, <1>2, <1>3, <1>4, <1>5, <1>6, <1>7, <1>8, <1>9, <1>10, <1>11, <1>12, <1>13,
             StepCases DEF QuietLoop, QuietControl

\* Every variable keeps its type, whatever the configurations make of the clock.
THEOREM TypeCorrect == Spec => []TypeOK
BY TypeInit, TypeStep, PTL DEF Spec

-----------------------------------------------------------------------------
(* Entries.                                                                *)

LEMMA EntryInit == Init => EntryInv
BY DEF Init, EntryInv, Tickets, Unique, Apart, HandInCallback, NoThread, Entries

\* A step that leaves the entries alone does not move a thread that is in a callback.
LEMMA QuietKeepsEntries ==
  ASSUME EntryInv, QuietLoop \/ QuietControl \/ Tick
  PROVE  EntryInv'
  <1>1. Quiet
    BY QuietSteps
  <1>2. (Tickets /\ Unique /\ Apart)'
    BY <1>1 DEF Quiet, history, EntryInv, Tickets, Unique, Apart, Entries
  <1>3. (HandInCallback /\ NoThread)'
    <2> USE <1>1 DEF Quiet, EntryInv, HandInCallback, NoThread
    <2>1. CASE Tick
      BY <2>1 DEF Tick, thread, controller
    <2>2. CASE LoopLock \/ ScanEnds
      BY <2>2 DEF LoopLock, ScanEnds, LoopAt, ThreadOnly, controller
    <2>3. CASE LoopTest \/ WaitTest \/ WaitBlock \/ WaitTimesOut \/ WaitWakes \/ SpuriousWakeup
      BY <2>3 DEF LoopTest, WaitTest, WaitBlock, WaitTimesOut, WaitWakes, SpuriousWakeup,
         LoopGoes, LoopAt, ThreadOnly, controller
    <2>4. CASE QuietControl
      BY <2>4 DEF QuietControl, start, stop, Destroy, Enters, ControlSteps, StartAssign,
         StopNotify, StopJoin, Proceeds, Notify
    <2> QED BY <2>1, <2>2, <2>3, <2>4 DEF QuietLoop
  <1> QED BY <1>2, <1>3 DEF EntryInv

LEMMA EntryStep == TypeOK /\ EntryInv /\ [Next]_vars => EntryInv'
  <1> SUFFICES ASSUME TypeOK, EntryInv, [Next]_vars PROVE EntryInv'
    OBVIOUS
  <1> USE DEF EntryInv, Tickets, Unique, Apart, HandInCallback, NoThread, Entries
  <1>1. ASSUME NEW i \in Ids, NEW c \in Configs, schedule(i, c) PROVE EntryInv'
    <2> DEFINE new == [id |-> i, ticket |-> issued'[i], time |-> next'[i]]
    <2>1. /\ heap' = heap \cup {new} /\ inHand' = inHand
          /\ issued' = [issued EXCEPT ![i] = @ + 1]
      BY <1>1 DEF schedule, LockedCall
    <2>2. issued \in [Ids -> Nat] /\ \A e \in heap \cup inHand : e \in Entry
      BY DEF TypeOK
    <2>3. \A e \in heap \cup inHand : e.id = i => e.ticket # new.ticket
      BY <2>1, <2>2 DEF Entry
    <2>4. Tickets'
      BY <2>1, <2>2 DEF Entry
    <2>5. (Unique /\ Apart)'
      BY <2>1, <2>3
    <2>6. (HandInCallback /\ NoThread)'
      BY <1>1 DEF schedule, LockedCall, Locked, Notify, controller
    <2> QED BY <2>4, <2>5, <2>6
  <1>2. ASSUME NEW i \in Ids, NEW c \in Configs, updateSchedule(i, c) PROVE EntryInv'
    BY <1>2 DEF updateSchedule, LockedCall, Locked, Notify, controller
  <1>3. ASSUME NEW i \in Ids, cancelSchedule(i) \/ pauseSchedule(i) \/ resumeSchedule(i)
        PROVE  EntryInv'
    BY <1>3 DEF cancelSchedule, pauseSchedule, resumeSchedule, LockedCall, Locked, Notify, controller
  <1>4. CASE PopStale
    BY <1>4 DEF PopStale, ThreadOnly, thread, controller
  <1>5. CASE PopAndExecute
    BY <1>5 DEF PopAndExecute, LoopAt, ThreadOnly, controller
  <1>6. ASSUME NEW result \in Outcome, CallbackEnds(result) PROVE EntryInv'
    <2>1. PICK e \in inHand :
            heap' = heap \/ heap' = heap \cup {[e EXCEPT !.time = next'[e.id]]}
      BY <1>6 DEF CallbackEnds
    <2>2. /\ e \in Entry /\ [e EXCEPT !.time = next'[e.id]].id = e.id
          /\ [e EXCEPT !.time = next'[e.id]].ticket = e.ticket
      BY DEF TypeOK, Entry
    <2>3. inHand' = {} /\ issued' = issued /\ joinable' = joinable /\ lpc = "callback"
      BY <1>6 DEF CallbackEnds, ThreadOnly, controller, LoopAt
    <2>4. \A f \in heap : f.id = e.id => f.ticket # e.ticket
      OBVIOUS
    <2>5. Tickets'
      BY <2>1, <2>2, <2>3
    <2>6. Unique'
      <3>1. PICK d : d.id = e.id /\ d.ticket = e.ticket /\ heap' \subseteq heap \cup {d}
        BY <2>1, <2>2
      <3>2. \A f, g \in heap : f.id = g.id /\ f.ticket = g.ticket => f = g
        OBVIOUS
      <3> QED BY <2>3, <2>4, <3>1, <3>2
    <2> QED BY <2>3, <2>5, <2>6
  <1>7. CASE QuietLoop \/ QuietControl \/ Tick
    BY <1>7, QuietKeepsEntries
  <1>8. CASE UNCHANGED vars
    BY <1>8 DEF vars, thread, controller, history
  <1> QED BY <1>1, <1>2, <1>3, <1>4, <1>5, <1>6, <1>7, <1>8, StepCases

\* A call of schedule() has one entry at most: nothing that is done to a schedule later, and
\* no execution of it, can make the scheduler run it twice over.
THEOREM OneEntry == Spec => []OneEntryPerCall
  <1>1. EntryInv => OneEntryPerCall
    BY DEF EntryInv, Tickets, Unique, Apart, Entries, OneEntryPerCall
  <1> QED BY <1>1, TypeInit, TypeStep, EntryInit, EntryStep, PTL DEF Spec

-----------------------------------------------------------------------------
(* Schedules that were made by one call.                                   *)

LEMMA PlainInit == Init => PlainInv
BY DEF Init, PlainInv, PlainOnce, PassIsPast, HandRan, EntryOfPlain,
   ExecutionsBounded, PendingIsQueued

\* A schedule that was made by one call has one entry.
LEMMA PlainHasOne ==
  ASSUME TypeOK, EntryInv, PlainOnce, NEW e \in Entries, NEW f \in Entries,
         e.id \in plain, f.id = e.id
  PROVE  f = e
  <1>1. e.ticket \in 1 .. issued[e.id] /\ f.ticket \in 1 .. issued[e.id] /\ issued[e.id] = 1
    BY DEF EntryInv, Tickets, PlainOnce
  <1>2. e.ticket = 1 /\ f.ticket = 1
    BY <1>1
  <1> QED BY <1>2 DEF EntryInv, Unique

\* What is said of a plain schedule stays true of one that a step leaves alone.
LEMMA NoRepeatLater ==
  ASSUME TypeOK, NEW i \in Ids, count[i] > 0, ~shouldReschedule(config[i], count[i]),
         config'[i] = config[i], count'[i] = count[i], time' \in Nat, time' >= time
  PROVE  ~(shouldReschedule(config[i], count[i])')
  <1>1. PICK c \in Configs, n \in Nat \ {0} : c = config[i] /\ n = count[i]
    BY DEF TypeOK
  <1>2. ~shouldReschedule(c, n)
    BY <1>1
  <1>3. ~(shouldReschedule(c, n)')
    BY <1>2, NoRepeatStays
  <1> QED BY <1>1, <1>3 DEF shouldReschedule, calculateNextExecution

LEMMA ClockForward == TypeOK /\ [Next]_vars => time' >= time
  <1>1. TypeOK /\ Tick => time' >= time
    BY DEF Tick, TypeOK
  <1>2. QuietControl => time' = time
    BY DEF QuietControl, start, stop, Destroy, Enters, ControlSteps, StartAssign, StopNotify,
       StopJoin, Proceeds, ControlOnly
  <1>3. QuietLoop => time' = time
    BY LoopGoesIsQuiet DEF QuietLoop, LoopTest, LoopLock, ScanEnds, WaitTest, WaitBlock,
       WaitTimesOut, WaitWakes, SpuriousWakeup, ThreadOnly
  <1>4. Next => Tick \/ time' = time
    BY <1>2, <1>3, StepCases DEF schedule, updateSchedule, cancelSchedule, pauseSchedule,
       resumeSchedule, LockedCall, PopStale, PopAndExecute, CallbackEnds, ThreadOnly
  <1> QED BY <1>1, <1>4 DEF TypeOK, vars

LEMMA QuietKeepsPlain ==
  ASSUME TypeOK, TypeOK', PlainInv, time' >= time, QuietLoop \/ QuietControl \/ Tick
  PROVE  PlainInv'
  <1>1. UNCHANGED <<state, config, next, count, heap, inHand, issued, plain>>
    BY QuietSteps DEF Quiet, table, history
  <1>2. passTime' \in {passTime, time, 0}
    <2>1. QuietControl \/ Tick => passTime' = passTime
      BY DEF QuietControl, start, stop, Destroy, Enters, ControlSteps, StartAssign, StopNotify,
         StopJoin, Proceeds, ControlOnly, Tick, thread
    <2>2. QuietLoop => passTime' \in {passTime, time, 0}
      BY LoopGoesIsQuiet DEF QuietLoop, LoopTest, LoopLock, ScanEnds, WaitTest, WaitBlock,
         WaitTimesOut, WaitWakes, SpuriousWakeup
    <2> QED BY <2>1, <2>2
  <1>3. PassIsPast'
    BY <1>2 DEF PlainInv, PassIsPast, TypeOK
  <1>4. (PlainOnce /\ HandRan /\ EntryOfPlain /\ ExecutionsBounded)'
    BY <1>1 DEF PlainInv, PlainOnce, HandRan, EntryOfPlain, ExecutionsBounded
  <1>5. PendingIsQueued'
    <2>1. ASSUME NEW i \in plain, count[i] > 0, ~shouldReschedule(config[i], count[i])
          PROVE  ~(shouldReschedule(config[i], count[i])')
      BY <1>1, <2>1, NoRepeatLater DEF TypeOK
    <2> QED BY <1>1, <2>1 DEF PlainInv, PendingIsQueued
  <1> QED BY <1>3, <1>4, <1>5 DEF PlainInv

LEMMA SameRepeat ==
  ASSUME NEW i, config'[i] = config[i], count'[i] = count[i], time' = time
  PROVE  shouldReschedule(config[i], count[i])' <=> shouldReschedule(config[i], count[i])
BY DEF shouldReschedule, calculateNextExecution

LEMMA PlainStep == TypeOK /\ EntryInv /\ PlainInv /\ [Next]_vars => PlainInv'
  <1> SUFFICES ASSUME TypeOK, EntryInv, PlainInv, [Next]_vars PROVE PlainInv'
    OBVIOUS
  <1>0. TypeOK' /\ time' >= time
    BY TypeStep, ClockForward
  <1> USE DEF PlainOnce, PassIsPast, HandRan, EntryOfPlain, ExecutionsBounded
  <1>1. ASSUME NEW i \in Ids, NEW c \in Configs, schedule(i, c) PROVE PlainInv'
    <2> DEFINE new == [id |-> i, ticket |-> issued'[i], time |-> next'[i]]
    <2>1. /\ heap' = heap \cup {new} /\ inHand' = inHand
          /\ time' = time /\ passTime' = passTime
          /\ plain' = IF issued[i] = 0 THEN plain \cup {i} ELSE plain \ {i}
          /\ issued' = [issued EXCEPT ![i] = @ + 1] /\ count' = [count EXCEPT ![i] = 0]
          /\ config' = [config EXCEPT ![i] = c] /\ state' = [state EXCEPT ![i] = state'[i]]
          /\ next' = [next EXCEPT ![i] = next'[i]]
      BY <1>1 DEF schedule, LockedCall, TypeOK
    <2>2. inHand = {}
      BY <1>1 DEF schedule, LockedCall, Locked, EntryInv, HandInCallback
    <2>3. i \in plain' => issued[i] = 0 /\ \A e \in heap : e.id # i
      <3>1. i \in plain' => issued[i] = 0
        BY <2>1
      <3>2. issued[i] = 0 => \A e \in heap : e.id # i
        BY DEF EntryInv, Tickets, Entries
      <3> QED BY <3>1, <3>2
    <2>4. c.maxExecutions \in Nat
      BY Assumptions DEF ScheduleConfig
    <2>5. (PlainOnce /\ PassIsPast /\ HandRan)'
      BY <2>1, <2>2 DEF PlainInv, TypeOK
    <2>6. EntryOfPlain'
      BY <2>1, <2>3, <2>4 DEF PlainInv, TypeOK, Entry
    <2>7. ExecutionsBounded'
      BY <2>1, <2>4 DEF PlainInv, TypeOK
    <2>9. PendingIsQueued'
      <3>1. ASSUME NEW j \in plain', j # i, state'[j] = "PENDING"
            PROVE  \/ \E e \in heap' : e.id = j /\ e.time = next'[j]
                   \/ count'[j] > 0 /\ ~(shouldReschedule(config[j], count[j])')
        <4>1. j \in plain /\ j \in Ids /\ state[j] = "PENDING" /\ next'[j] = next[j]
              /\ count'[j] = count[j] /\ config'[j] = config[j]
          BY <2>1, <3>1 DEF TypeOK
        <4>2. \/ \E e \in heap : e.id = j /\ e.time = next[j]
              \/ count[j] > 0 /\ ~shouldReschedule(config[j], count[j])
          BY <4>1 DEF PlainInv, PendingIsQueued
        <4>3. ASSUME count[j] > 0, ~shouldReschedule(config[j], count[j])
              PROVE  ~(shouldReschedule(config[j], count[j])')
          BY <1>0, <4>1, <4>3, NoRepeatLater DEF TypeOK
        <4> QED BY <2>1, <4>1, <4>2, <4>3
      <3>2. new \in heap' /\ new.id = i /\ new.time = next'[i]
        BY <2>1
      <3> QED BY <3>1, <3>2 DEF PendingIsQueued
    <2> QED BY <2>5, <2>6, <2>7, <2>9 DEF PlainInv
  <1>2. ASSUME NEW i \in Ids,
               cancelSchedule(i) \/ pauseSchedule(i) \/ resumeSchedule(i)
                 \/ \E c \in Configs : updateSchedule(i, c)
        PROVE  PlainInv'
    <2>1. /\ UNCHANGED <<time, passTime, inHand, count, heap, issued>>
          /\ plain' \subseteq plain
          /\ \A j \in plain' : config'[j] = config[j] /\ next'[j] = next[j]
                                 /\ (state'[j] = "PENDING" => state[j] = "PENDING")
      BY <1>2 DEF cancelSchedule, pauseSchedule, resumeSchedule, updateSchedule, LockedCall, TypeOK
    <2>2. (PlainOnce /\ PassIsPast /\ HandRan)'
      BY <2>1 DEF PlainInv
    <2>3. (EntryOfPlain /\ ExecutionsBounded)'
      BY <2>1 DEF PlainInv
    <2>4. PendingIsQueued'
      <3>1. ASSUME NEW j \in plain', state'[j] = "PENDING"
            PROVE  \/ \E e \in heap' : e.id = j /\ e.time = next'[j]
                   \/ count'[j] > 0 /\ ~(shouldReschedule(config[j], count[j])')
        <4>1. /\ j \in plain /\ state[j] = "PENDING"
              /\ next'[j] = next[j] /\ count'[j] = count[j] /\ config'[j] = config[j]
          BY <2>1, <3>1
        <4>2. shouldReschedule(config[j], count[j])' <=> shouldReschedule(config[j], count[j])
          BY <2>1, <4>1, SameRepeat
        <4> QED BY <2>1, <4>1, <4>2 DEF PlainInv, PendingIsQueued
      <3> QED BY <3>1 DEF PendingIsQueued
    <2> QED BY <2>2, <2>3, <2>4 DEF PlainInv
  <1>3. CASE PopStale
    <2>1. PICK e \in heap : heap' = heap \ {e} /\ state[e.id] # "PENDING"
      BY <1>3 DEF PopStale
    <2>2. UNCHANGED <<time, passTime, inHand, state, config, next, count, issued, plain>>
      BY <1>3 DEF PopStale, ThreadOnly, table, thread
    <2>3. (PlainOnce /\ PassIsPast /\ HandRan)'
      BY <2>2 DEF PlainInv
    <2>4. (EntryOfPlain /\ ExecutionsBounded)'
      BY <2>1, <2>2 DEF PlainInv
    <2>5. PendingIsQueued'
      BY <2>1, <2>2 DEF PlainInv, PendingIsQueued, shouldReschedule, calculateNextExecution
    <2> QED BY <2>3, <2>4, <2>5 DEF PlainInv
  <1>4. CASE PopAndExecute
    <2>1. PICK e \in heap :
            /\ e.time <= passTime /\ state[e.id] = "PENDING"
            /\ heap' = heap \ {e} /\ inHand' = {e}
            /\ state' = [state EXCEPT ![e.id] = "RUNNING"]
            /\ count' = [count EXCEPT ![e.id] = IF @ < MaxCount THEN @ + 1 ELSE @]
      BY <1>4 DEF PopAndExecute
    <2>2. UNCHANGED <<time, passTime, config, next, issued, plain>>
      BY <1>4 DEF PopAndExecute, ThreadOnly
    <2>3. e \in Entry /\ e.id \in Ids /\ e.time \in Int
      BY DEF TypeOK, Entry
    <2>4. \A f \in heap' : f.id \in plain => f.id # e.id
      BY <2>1, PlainHasOne DEF PlainInv, Entries
    <2>6. (PlainOnce /\ PassIsPast /\ HandRan)'
      BY <2>1, <2>2, <2>3, Assumptions DEF PlainInv, TypeOK
    <2>7. EntryOfPlain'
      <3>1. \A f \in heap' : f \in heap /\ (f.id \in plain => count'[f.id] = count[f.id])
        BY <2>1, <2>3, <2>4 DEF TypeOK, Entry
      <3> QED BY <2>2, <3>1 DEF PlainInv
    <2>8. ExecutionsBounded'
      <3>1. e.id \in plain => /\ config[e.id].type = "ONCE" => count'[e.id] <= 1
                              /\ config[e.id].maxExecutions > 0
                                   => count'[e.id] <= config[e.id].maxExecutions
        <4>1. config[e.id].maxExecutions \in Nat /\ count[e.id] \in Nat
                /\ count'[e.id] \in {count[e.id], count[e.id] + 1}
          BY <2>1, <2>3, Assumptions DEF TypeOK, ScheduleConfig
        <4> QED BY <4>1 DEF PlainInv
      <3>2. \A j \in plain : j # e.id => count'[j] = count[j]
        BY <2>1, <2>3 DEF TypeOK
      <3> QED BY <2>2, <3>1, <3>2 DEF PlainInv
    <2>10. PendingIsQueued'
      <3>1. ASSUME NEW j \in plain', state'[j] = "PENDING"
            PROVE  j \in plain /\ j # e.id /\ state[j] = "PENDING" /\ count'[j] = count[j]
        BY <2>1, <2>2, <2>3, <3>1 DEF TypeOK
      <3>2. ASSUME NEW j \in plain', state'[j] = "PENDING"
            PROVE  \/ \E f \in heap' : f.id = j /\ f.time = next'[j]
                   \/ count'[j] > 0 /\ ~(shouldReschedule(config[j], count[j])')
        <4>1. shouldReschedule(config[j], count[j])' <=> shouldReschedule(config[j], count[j])
          BY <2>2, <3>1, <3>2, SameRepeat
        <4> QED BY <2>1, <2>2, <3>1, <3>2, <4>1 DEF PlainInv, PendingIsQueued
      <3> QED BY <3>2 DEF PendingIsQueued
    <2> QED BY <2>6, <2>7, <2>8, <2>10 DEF PlainInv
  <1>5. ASSUME NEW result \in Outcome, CallbackEnds(result) PROVE PlainInv'
    <2>1. PICK e \in inHand :
            /\ state' = [state EXCEPT ![e.id] = result]
            /\ IF shouldReschedule(config[e.id], count[e.id])
                 THEN /\ next' = [next EXCEPT ![e.id] =
                                    calculateNextExecution(config[e.id], count[e.id])]
                      /\ heap' = heap \cup {[e EXCEPT !.time = next'[e.id]]}
                 ELSE UNCHANGED <<next, heap>>
      BY <1>5 DEF CallbackEnds
    <2>2. UNCHANGED <<time, passTime, config, count, issued, plain>> /\ inHand' = {}
      BY <1>5 DEF CallbackEnds, ThreadOnly
    <2>3. e \in Entry /\ e.id \in Ids /\ count[e.id] > 0
      BY DEF TypeOK, Entry, PlainInv
    <2> DEFINE new == [e EXCEPT !.time = next'[e.id]]
    <2>4. new.id = e.id /\ new.time = next'[e.id]
      BY <2>3 DEF Entry
    <2>5. \A f \in heap : f.id \in plain => f.id # e.id
      BY PlainHasOne DEF PlainInv, Entries, EntryInv, Apart
    <2>6. \A j \in Ids : j # e.id => next'[j] = next[j] /\ state'[j] = state[j]
      BY <2>1, <2>3 DEF TypeOK
    <2>7. (PlainOnce /\ PassIsPast /\ HandRan /\ ExecutionsBounded)'
      BY <2>2 DEF PlainInv
    <2>8. EntryOfPlain'
      <3>1. CASE shouldReschedule(config[e.id], count[e.id])
        <4>1. heap' = heap \cup {new} /\ config[e.id].type # "ONCE"
              /\ (config[e.id].maxExecutions > 0 => count[e.id] < config[e.id].maxExecutions)
          BY <2>1, <3>1 DEF shouldReschedule
        <4>2. \A f \in heap : f.id \in Ids /\ (f.id \in plain => next'[f.id] = next[f.id])
          BY <2>5, <2>6 DEF TypeOK, Entry
        <4> QED BY <2>2, <2>4, <4>1, <4>2 DEF PlainInv
      <3>2. CASE ~shouldReschedule(config[e.id], count[e.id])
        BY <2>1, <2>2, <3>2 DEF PlainInv
      <3> QED BY <3>1, <3>2
    <2>9. PendingIsQueued'
      <3>1. ASSUME NEW j \in plain', state'[j] = "PENDING"
            PROVE  \/ \E f \in heap' : f.id = j /\ f.time = next'[j]
                   \/ count'[j] > 0 /\ ~(shouldReschedule(config[j], count[j])')
        <4>1. j \in plain /\ j \in Ids /\ heap \subseteq heap'
          BY <2>1, <2>2 DEF TypeOK
        <4>2. shouldReschedule(config[j], count[j])' <=> shouldReschedule(config[j], count[j])
          BY <2>2 DEF shouldReschedule, calculateNextExecution
        <4>3. CASE j = e.id
          BY <2>1, <2>2, <2>3, <2>4, <4>2, <4>3
        <4>4. CASE j # e.id
          BY <2>2, <2>6, <3>1, <4>1, <4>2, <4>4 DEF PlainInv, PendingIsQueued
        <4> QED BY <4>3, <4>4
      <3> QED BY <3>1 DEF PendingIsQueued
    <2> QED BY <2>7, <2>8, <2>9 DEF PlainInv
  <1>6. CASE QuietLoop \/ QuietControl \/ Tick
    BY <1>0, <1>6, QuietKeepsPlain
  <1>7. CASE UNCHANGED vars
    BY <1>7 DEF vars, table, thread, history, PlainInv, PendingIsQueued, shouldReschedule,
       calculateNextExecution
  <1> QED BY <1>1, <1>2, <1>3, <1>4, <1>5, <1>6, <1>7, StepCases

\* The inductive invariant, for any number of schedules and calls and any configurations.
LEMMA Invariance == Spec => []IInv
  <1>1. Init => IInv
    BY TypeInit, EntryInit, PlainInit DEF IInv
  <1>2. IInv /\ [Next]_vars => IInv'
    BY TypeStep, EntryStep, PlainStep DEF IInv
  <1> QED BY <1>1, <1>2, PTL DEF Spec

\* A schedule made by one call runs once if it is ONCE, and maxExecutions times at most,
\* however long the scheduler runs.
THEOREM BoundedExecutions == Spec => []ExecutionsBounded
  <1>1. IInv => ExecutionsBounded
    BY DEF IInv, PlainInv
  <1> QED BY <1>1, Invariance, PTL

\* While such a schedule is pending it is in the heap at the time it announces, or has had
\* all its executions; a passing endTime cannot bring one back.
THEOREM PendingStaysQueued == Spec => []PendingIsQueued
  <1>1. IInv => PendingIsQueued
    BY DEF IInv, PlainInv
  <1> QED BY <1>1, Invariance, PTL

\* Only the thread starts an execution: of the schedule of the entry on top, which is due.
LEMMA StartIsDue ==
  ASSUME IInv, [Next]_vars, NEW i \in plain, state[i] = "PENDING", state'[i] = "RUNNING"
  PROVE  next[i] <= time
  <1>1. i \in Ids /\ state \in [Ids -> ScheduleState]
    BY DEF IInv, TypeOK
  <1>2. CASE PopAndExecute
    <2>1. PICK e \in heap : e.time <= passTime /\ state' = [state EXCEPT ![e.id] = "RUNNING"]
      BY <1>2 DEF PopAndExecute
    <2>2. e.id = i
      BY <1>1, <2>1
    <2>3. e.time = next[i] /\ passTime <= time
      BY <2>2 DEF IInv, PlainInv, EntryOfPlain, PassIsPast
    <2>4. e.time \in Int /\ passTime \in Nat /\ time \in Nat
      BY DEF IInv, TypeOK, Entry
    <2> QED BY <2>1, <2>3, <2>4
  <1>3. ASSUME NEW j \in Ids, NEW l \in {"PENDING", "PAUSED", "ABSENT", "FAILED"},
               state' = [state EXCEPT ![j] = l]
        PROVE  FALSE
    BY <1>1, <1>3
  <1>4. ASSUME NEW j \in Ids, NEW c \in Configs, schedule(j, c) \/ updateSchedule(j, c)
        PROVE  FALSE
    BY <1>3, <1>4 DEF schedule, updateSchedule
  <1>5. ASSUME NEW j \in Ids, cancelSchedule(j) \/ pauseSchedule(j) \/ resumeSchedule(j)
        PROVE  FALSE
    BY <1>3, <1>5 DEF cancelSchedule, pauseSchedule, resumeSchedule
  <1>6. ASSUME NEW result \in Outcome, CallbackEnds(result) PROVE FALSE
    <2>1. PICK e \in inHand : state' = [state EXCEPT ![e.id] = result]
      BY <1>6 DEF CallbackEnds
    <2>2. e.id \in Ids
      BY DEF IInv, TypeOK, Entry
    <2> QED BY <1>3, <2>1, <2>2 DEF Outcome
  <1>7. CASE QuietLoop \/ QuietControl \/ Tick
    BY <1>7, QuietSteps DEF Quiet, table, IInv
  <1>8. CASE PopStale \/ UNCHANGED vars
    BY <1>8 DEF PopStale, table, vars
  <1> QED BY <1>2, <1>4, <1>5, <1>6, <1>7, <1>8, StepCases

\* It is not executed before the time that it announces.
THEOREM NeverEarly == Spec => NotEarly
  <1>1. IInv /\ [Next]_vars =>
          [\A i \in plain : state[i] = "PENDING" /\ state'[i] = "RUNNING" => next[i] <= time]_vars
    BY StartIsDue
  <1> QED BY <1>1, Invariance, PTL DEF Spec, NotEarly

-----------------------------------------------------------------------------
(* start() and stop(), one at a time.                                      *)

LEMMA ControlInit == Init => ControlInv
BY DEF Init, ControlInv, InTurn, TerminationNeedsOverlap

\* Nothing but start(), stop() and the destructor touches the thread object.
LEMMA ControlCases ==
  ASSUME [Next]_vars
  PROVE  QuietControl \/ UNCHANGED controller
  <1>1. CASE QuietLoop
    BY <1>1, LoopGoesIsQuiet DEF QuietLoop, LoopTest, LoopLock, ScanEnds, WaitTest, WaitBlock,
       WaitTimesOut, WaitWakes, SpuriousWakeup, ThreadOnly
  <1>2. CASE \/ \E i \in Ids, c \in Configs : schedule(i, c) \/ updateSchedule(i, c)
             \/ \E i \in Ids : cancelSchedule(i) \/ pauseSchedule(i) \/ resumeSchedule(i)
    BY <1>2 DEF schedule, updateSchedule, cancelSchedule, pauseSchedule, resumeSchedule, LockedCall
  <1>3. CASE PopStale \/ PopAndExecute \/ (\E result \in Outcome : CallbackEnds(result))
    BY <1>3 DEF PopStale, PopAndExecute, CallbackEnds, ThreadOnly
  <1>4. CASE Tick \/ UNCHANGED vars
    BY <1>4 DEF Tick, vars
  <1> QED BY <1>1, <1>2, <1>3, <1>4, StepCases

LEMMA ControlStep == TypeOK /\ ControlInv /\ [Next]_vars => ControlInv'
  <1> SUFFICES ASSUME TypeOK, ControlInv, [Next]_vars, ~overlapped' PROVE ControlInv'
    BY DEF ControlInv, InTurn, TerminationNeedsOverlap
  <1> USE DEF ControlInv, InTurn, TerminationNeedsOverlap
  <1>1. CASE UNCHANGED controller
    BY <1>1 DEF controller
  <1>2. ASSUME NEW k \in Controllers, start(k) \/ stop(k) \/ Destroy(k) PROVE ControlInv'
    <2>1. PICK l \in {"assign", "notify", "idle"} : Enters(k, l)
      BY <1>2 DEF start, stop, Destroy
    <2>2. /\ ~overlapped /\ \A d \in Controllers : cpc[d] = "idle"
          /\ cpc' = [cpc EXCEPT ![k] = l] /\ joinable' = joinable /\ life = "alive"
      BY <2>1 DEF Enters, Call
    <2>3. \A d \in Controllers : cpc'[d] = IF d = k THEN l ELSE "idle"
      BY <2>2 DEF TypeOK
    <2>4. running <=> joinable
      BY <2>2
    <2>5. CASE start(k)
      <3>1. cpc'[k] = "assign"
        BY <2>5 DEF start, Enters, TypeOK
      <3> QED BY <2>2, <2>3, <2>4, <2>5, <3>1 DEF start
    <2>6. CASE stop(k)
      <3>1. cpc'[k] = "notify"
        BY <2>6 DEF stop, Enters, TypeOK
      <3> QED BY <2>2, <2>3, <2>4, <2>6, <3>1 DEF stop
    <2>7. CASE Destroy(k)
      <3>1. cpc'[k] = IF running THEN "notify" ELSE "idle"
        BY <2>7 DEF Destroy, Enters, TypeOK
      <3>2. life' = "destroyed" /\ ~running'
        BY <2>4, <2>7 DEF Destroy
      <3> QED BY <2>2, <2>3, <2>4, <3>1, <3>2
    <2> QED BY <1>2, <2>5, <2>6, <2>7
  <1>3. ASSUME NEW k \in Controllers, ControlSteps(k) PROVE ControlInv'
    <2>1. PICK l \in {"idle", "join"} : cpc' = [cpc EXCEPT ![k] = l]
      BY <1>3 DEF ControlSteps, StartAssign, StopNotify, StopJoin, Proceeds
    <2>2. /\ ~overlapped /\ cpc[k] # "idle" /\ running' = running
          /\ \A d \in Controllers : d # k => cpc[d] = "idle"
      BY <1>3 DEF ControlSteps, StartAssign, StopNotify, StopJoin, Proceeds
    <2>3. \A d \in Controllers : cpc'[d] = IF d = k THEN l ELSE "idle"
      BY <2>1, <2>2 DEF TypeOK
    <2>4. life # "terminated"
      BY <2>2
    <2>5. CASE StartAssign(k)
      <3>1. cpc'[k] = "idle" /\ running /\ ~joinable
        BY <2>2, <2>5 DEF StartAssign, Proceeds, TypeOK
      <3> QED BY <2>2, <2>3, <2>4, <2>5, <3>1 DEF StartAssign
    <2>6. CASE StopNotify(k)
      <3>1. cpc'[k] = "join" /\ ~running /\ joinable' = joinable /\ life' = life
        BY <2>2, <2>6 DEF StopNotify, Proceeds, TypeOK
      <3> QED BY <2>2, <2>3, <2>4, <3>1
    <2>7. CASE StopJoin(k)
      <3>1. cpc'[k] = "idle" /\ ~running /\ ~joinable' /\ life' = life
        BY <2>2, <2>7 DEF StopJoin, Proceeds, TypeOK
      <3> QED BY <2>2, <2>3, <2>4, <3>1
    <2> QED BY <1>3, <2>5, <2>6, <2>7 DEF ControlSteps
  <1> QED BY <1>1, <1>2, <1>3, ControlCases DEF QuietControl

\* Used by one thread at a time, start(), stop() and the destructor never replace or destroy
\* a joinable thread, so the process does not terminate.
THEOREM OneControllerIsSafe == Spec => []TerminationNeedsOverlap
  <1>1. ControlInv => TerminationNeedsOverlap
    BY DEF ControlInv
  <1> QED BY <1>1, TypeInit, TypeStep, ControlInit, ControlStep, PTL DEF Spec

=============================================================================

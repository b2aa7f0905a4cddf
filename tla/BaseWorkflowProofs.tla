------------------------- MODULE BaseWorkflowProofs -------------------------
(***************************************************************************)
(* Proofs about one workflow, for any set of callers, any kinds of body    *)
(* and any number of calls.  The inductive invariant IInv says where each  *)
(* thread can be, who holds threadMutex_ and how many results are out for  *)
(* each place of the execution thread.                                     *)
(***************************************************************************)
EXTENDS BaseWorkflow, TLAPS

LabelOf(t) == IF t = Executor
  THEN {"idle", "begin", "body", "check", "block", "blocked", "completed", "deliver",
        "finished", "raiseStop", "dropPause", "notifyStop", "lockToJoin", "join"}
  ELSE {"idle", "initialize", "ready", "clearStop", "clearPause", "lockToRun", "launch",
        "raiseStop", "dropPause", "notifyStop", "lockToJoin", "join", "conclude", "complete",
        "raisePause", "enterPause", "endPause", "notifyResume", "leavePause"}

\* The run of the execution thread has yet to deliver at these labels, ...
Undelivered == {"begin", "body", "check", "block", "blocked", "completed", "deliver"}
\* ... and has delivered, or is over, at these.
Delivered == {"idle", "finished"}

Places == \A t \in Agents : pc[t] \in LabelOf(t)

LiveIsJoinable == pc[Executor] # "idle" => joinable

ResultsOut ==
  /\ delivered <= started /\ started <= delivered + 1
  /\ pc[Executor] \in Undelivered => started = delivered + 1
  /\ pc[Executor] \in Delivered => started = delivered

SeenIsPast == \A t \in Agents : seen[t] <= started

\* Whoever is launching, or has launched, saw READY.
LaunchersSawReady ==
  /\ \A t \in Agents : pc[t] \in {"clearStop", "clearPause", "lockToRun", "launch"}
                         => Stage(state) >= Stage("READY")
  /\ pc[Executor] # "idle" => Stage(state) >= Stage("READY")

\* A thread outside the workflow is in none of its methods.
OutsideIsIdle == \A t \in Threads : pc[t] = "idle" => call[t] = "none"

\* interrupt() saw a running workflow, which can only have gone on since.
InterruptSawRunning == \A t \in Threads : call[t] = "interrupt" => Stage(state) > Stage("READY")

\* The destructor is alone, and until it has joined it is still on its way to join().
DestroyerJoins ==
  life = "destroyed" =>
    /\ \A t \in Threads : pc[t] \in {"idle", "raiseStop", "dropPause", "notifyStop",
                                    "lockToJoin", "join", "conclude"}
    /\ \A t \in Threads : call[t] \in {"none", "destroy"}
    /\ joinable => \E t \in Threads : pc[t] \in {"raiseStop", "dropPause", "notifyStop",
                                                 "lockToJoin", "join"}

IInv ==
  /\ TypeOK
  /\ Places
  /\ MutexHeld
  /\ LiveIsJoinable
  /\ ResultsOut
  /\ SeenIsPast
  /\ StopWaits
  /\ LaunchersSawReady
  /\ BodyImpliesLeftReady

CallInv == OutsideIsIdle /\ InterruptSawRunning /\ DestroyerJoins

-----------------------------------------------------------------------------
(* The transition table.                                                   *)

\* setState stores a state of the workflow.
LEMMA SetStateType ==
  ASSUME NEW from \in WorkflowState, NEW to \in WorkflowState
  PROVE  SetState(from, to) \in WorkflowState
BY DEF SetState, isValidStateTransition

LEMMA StageType ==
  ASSUME NEW s \in WorkflowState
  PROVE  Stage(s) \in 0..5
BY DEF Stage, Final, WorkflowState, Running, Terminal

\* The table never lets the life of a workflow go back.
LEMMA SetStateForward ==
  ASSUME NEW from \in WorkflowState, NEW to \in WorkflowState
  PROVE  Stage(SetState(from, to)) >= Stage(from)
BY DEF SetState, isValidStateTransition, Stage, Final, WorkflowState, Running, Terminal

\* A final state is kept.
LEMMA SetStateFinal ==
  ASSUME NEW from \in WorkflowState, NEW to \in WorkflowState, Stage(from) = Final
  PROVE  SetState(from, to) = from
BY DEF SetState, isValidStateTransition, Stage, Final, WorkflowState, Running, Terminal

\* The first step of a run takes a workflow that was made ready past READY.
LEMMA SetStateExecuting ==
  ASSUME NEW from \in WorkflowState, Stage(from) >= Stage("READY")
  PROVE  Stage(SetState(from, "EXECUTING")) > Stage("READY")
BY DEF SetState, isValidStateTransition, Stage, Final, WorkflowState, Running, Terminal

-----------------------------------------------------------------------------

LEMMA InitInv == Init => IInv
  <1> SUFFICES ASSUME Init PROVE IInv
    OBVIOUS
  <1>1. TypeOK
    BY Assumptions DEF Init, TypeOK, Label, Call, WorkflowState
  <1>2. Places /\ MutexHeld /\ LiveIsJoinable /\ ResultsOut /\ SeenIsPast /\ StopWaits
    BY Assumptions DEF Init, Places, LabelOf, MutexHeld, LiveIsJoinable, ResultsOut,
       SeenIsPast, StopWaits, Agents, Undelivered, Delivered
  <1>3. LaunchersSawReady /\ BodyImpliesLeftReady
    BY Assumptions DEF Init, LaunchersSawReady, BodyImpliesLeftReady, Agents
  <1> QED BY <1>1, <1>2, <1>3 DEF IInv

LEMMA StepInv == IInv /\ [Next]_vars => IInv'
  <1> SUFFICES ASSUME IInv, [Next]_vars PROVE IInv'
    OBVIOUS
  <1> USE Assumptions DEF IInv, TypeOK, Places, LabelOf, MutexHeld, LiveIsJoinable,
          ResultsOut, SeenIsPast, StopWaits, LaunchersSawReady, BodyImpliesLeftReady,
          Agents, Undelivered, Delivered, Label, Call, Stopping, flags, runs, thread,
          At, Goto, Enter, Invoke, Move, WriteState, WriteFlags, Lock, ExecutorEnded, NotifyAll
  <1>a. \A s \in WorkflowState : Stage(s) \in 0..5
    BY StageType
  <1>b. \A to \in WorkflowState : /\ SetState(state, to) \in WorkflowState
                                  /\ Stage(SetState(state, to)) >= Stage(state)
    BY SetStateType, SetStateForward
  <1>c. "READY" \in WorkflowState
    BY DEF WorkflowState
  <1> DEFINE S == {"EXECUTING", "INITIALIZING", "READY", "PAUSED", "SUSPENDED", "INTERRUPTED",
                   "CANCELED", "ERROR", "TERMINATING", "COMPLETED"}
  <1>d. \A s \in S : s \in WorkflowState
    BY DEF WorkflowState, Running, Terminal
  <1>1. ASSUME NEW t \in Threads, Start(t) PROVE IInv'
    BY <1>1 DEF Start
  <1>2. ASSUME NEW t \in Threads, Pause(t) PROVE IInv'
    BY <1>2 DEF Pause
  <1>3. ASSUME NEW t \in Threads, Suspend(t) PROVE IInv'
    BY <1>3 DEF Suspend
  <1>4. ASSUME NEW t \in Threads, Resume(t) PROVE IInv'
    BY <1>4 DEF Resume
  <1>5. ASSUME NEW t \in Threads, Interrupt(t) PROVE IInv'
    BY <1>5 DEF Interrupt
  <1>6. ASSUME NEW t \in Threads, Cancel(t) PROVE IInv'
    BY <1>6 DEF Cancel
  <1>7. ASSUME NEW t \in Threads, Finish(t) PROVE IInv'
    BY <1>7 DEF Finish
  <1>8. ASSUME NEW t \in Threads, Error(t) PROVE IInv'
    BY <1>8 DEF Error
  <1>9. ASSUME NEW t \in Threads, Destroy(t) PROVE IInv'
    BY <1>9 DEF Destroy
  <1>10. ASSUME NEW t \in Threads, Execute(t) PROVE IInv'
    BY <1>10, <1>a DEF Execute
  <1>11. ASSUME NEW t \in Threads, StartInitialize(t) PROVE IInv'
    BY <1>11, <1>a, <1>b, <1>c, <1>d DEF StartInitialize
  <1>12. ASSUME NEW t \in Threads, StartReady(t) PROVE IInv'
    BY <1>12, <1>a, <1>b, <1>c, <1>d DEF StartReady
  <1>13. ASSUME NEW t \in Threads, Conclude(t) PROVE IInv'
    <2>1. CASE WriteState(t, "conclude", "idle", "INTERRUPTED")
      BY <2>1, <1>a, <1>b, <1>c, <1>d
    <2>2. CASE WriteState(t, "conclude", "idle", "CANCELED")
      BY <2>2, <1>a, <1>b, <1>c, <1>d
    <2>3. CASE WriteState(t, "conclude", "idle", "ERROR")
      BY <2>3, <1>a, <1>b, <1>c, <1>d
    <2>4. CASE WriteState(t, "conclude", "complete", "TERMINATING")
      BY <2>4, <1>a, <1>b, <1>c, <1>d
    <2>5. CASE Move(t, "conclude", "idle")
      BY <2>5
    <2> QED
      BY <1>13, <2>1, <2>2, <2>3, <2>4, <2>5 DEF Conclude
  <1>14. ASSUME NEW t \in Threads, FinishComplete(t) PROVE IInv'
    BY <1>14, <1>a, <1>b, <1>c, <1>d DEF FinishComplete
  <1>15. ASSUME NEW t \in Threads, PauseEnter(t) PROVE IInv'
    BY <1>15, <1>a, <1>b, <1>c, <1>d DEF PauseEnter
  <1>16. ASSUME NEW t \in Threads, ResumeLeave(t) PROVE IInv'
    BY <1>16, <1>a, <1>b, <1>c, <1>d DEF ResumeLeave
  <1>17. ASSUME NEW t \in Threads, ExecuteClearStop(t) PROVE IInv'
    BY <1>17 DEF ExecuteClearStop
  <1>18. ASSUME NEW t \in Threads, ExecuteClearPause(t) PROVE IInv'
    BY <1>18 DEF ExecuteClearPause
  <1>19. ASSUME NEW t \in Threads, ExecuteLock(t) PROVE IInv'
    BY <1>19 DEF ExecuteLock
  <1>20. ASSUME NEW t \in Threads, ExecuteLaunch(t) PROVE IInv'
    BY <1>20, <1>a, <1>c DEF ExecuteLaunch
  <1>21. ASSUME NEW t \in Agents, StopRaise(t) PROVE IInv'
    BY <1>21 DEF StopRaise
  <1>22. ASSUME NEW t \in Agents, StopDropPause(t) PROVE IInv'
    BY <1>22 DEF StopDropPause
  <1>23. ASSUME NEW t \in Agents, StopNotify(t) PROVE IInv'
    BY <1>23 DEF StopNotify
  <1>24. ASSUME NEW t \in Agents, StopLock(t) PROVE IInv'
    <2>1. TypeOK' /\ Places' /\ MutexHeld'
      BY <1>24 DEF StopLock
    <2>2. LiveIsJoinable' /\ ResultsOut' /\ SeenIsPast' /\ StopWaits'
      BY <1>24 DEF StopLock
    <2>3. LaunchersSawReady' /\ BodyImpliesLeftReady'
      BY <1>24 DEF StopLock
    <2> QED BY <2>1, <2>2, <2>3
  <1>25. ASSUME NEW t \in Threads, StopJoin(t) PROVE IInv'
    <2>1. pc[Executor] = "idle" /\ started = delivered /\ t # Executor
      BY <1>25 DEF StopJoin
    <2>2. TypeOK' /\ Places'
      BY <1>25 DEF StopJoin
    <2>3. MutexHeld'
      BY <1>25 DEF StopJoin
    <2>4. LiveIsJoinable' /\ ResultsOut' /\ SeenIsPast'
      BY <1>25, <2>1 DEF StopJoin
    <2>5. StopWaits'
      BY <1>25, <2>1 DEF StopJoin
    <2>6. LaunchersSawReady' /\ BodyImpliesLeftReady'
      BY <1>25 DEF StopJoin
    <2> QED BY <2>2, <2>3, <2>4, <2>5, <2>6
  <1>26. ASSUME NEW t \in Threads, PauseRaise(t) PROVE IInv'
    BY <1>26 DEF PauseRaise
  <1>27. ASSUME NEW t \in Threads, ResumeEndPause(t) PROVE IInv'
    BY <1>27 DEF ResumeEndPause
  <1>28. ASSUME NEW t \in Threads, ResumeNotify(t) PROVE IInv'
    BY <1>28 DEF ResumeNotify
  <1>29. ASSUME Begin PROVE IInv'
    BY <1>29, <1>a, <1>b, <1>c, <1>d, SetStateExecuting DEF Begin
  <1>30. ASSUME BodyPauses PROVE IInv'
    BY <1>30 DEF BodyPauses
  <1>31. ASSUME WaitCheck PROVE IInv'
    BY <1>31 DEF WaitCheck
  <1>32. ASSUME WaitBlock PROVE IInv'
    BY <1>32 DEF WaitBlock
  <1>33. ASSUME SpuriousWakeup PROVE IInv'
    BY <1>33 DEF SpuriousWakeup
  <1>34. ASSUME BodyReturns PROVE IInv'
    BY <1>34 DEF BodyReturns
  <1>35. ASSUME Throws PROVE IInv'
    BY <1>35 DEF Throws
  <1>36. ASSUME Deliver PROVE IInv'
    BY <1>36 DEF Deliver
  <1>37. ASSUME Finished PROVE IInv'
    BY <1>37 DEF Finished
  <1>38. ASSUME StopJoinSelf PROVE IInv'
    BY <1>38 DEF StopJoinSelf
  <1>39. ASSUME Completed PROVE IInv'
    BY <1>39, <1>a, <1>b, <1>c, <1>d DEF Completed
  <1>40. CASE UNCHANGED vars
    BY <1>40 DEF vars
  <1> QED
    BY <1>1, <1>2, <1>3, <1>4, <1>5, <1>6, <1>7, <1>8, <1>9, <1>10, <1>11, <1>12, <1>13,
       <1>14, <1>15, <1>16, <1>17, <1>18, <1>19, <1>20, <1>21, <1>22, <1>23, <1>24,
       <1>25, <1>26, <1>27, <1>28, <1>29, <1>30, <1>31, <1>32, <1>33, <1>34, <1>35,
       <1>36, <1>37, <1>38, <1>39, <1>40 DEF Next, Calls, CallSteps, StopSteps,
       ExecutorSteps

\* IInv holds in every reachable state.
THEOREM Invariance == Spec => []IInv
  BY InitInv, StepInv, PTL DEF Spec

\* Type correctness.
THEOREM TypeCorrect == Spec => []TypeOK
  <1>1. IInv => TypeOK
    BY DEF IInv
  <1> QED BY <1>1, Invariance, PTL

\* threadMutex_ guards every launch and every join.
THEOREM MutexCorrect == Spec => []MutexHeld
  <1>1. IInv => MutexHeld
    BY DEF IInv
  <1> QED BY <1>1, Invariance, PTL

\* One body at a time, each with its own result.
THEOREM RunsAreSerialized == Spec => []RunsSerialized
  <1>1. IInv => RunsSerialized
    BY DEF IInv, TypeOK, ResultsOut, LiveIsJoinable, RunsSerialized, Delivered
  <1> QED BY <1>1, Invariance, PTL

\* A caller that is past stop() finds the run it stopped finished.
THEOREM StopIsSynchronous == Spec => []StopWaits
  <1>1. IInv => StopWaits
    BY DEF IInv
  <1> QED BY <1>1, Invariance, PTL

\* No body runs while the workflow looks startable.
THEOREM BodyAfterReady == Spec => []BodyImpliesLeftReady
  <1>1. IInv => BodyImpliesLeftReady
    BY DEF IInv
  <1> QED BY <1>1, Invariance, PTL

-----------------------------------------------------------------------------
(* What a step can do to state_ and to the two counters of runs.           *)

\* Every write of state_ goes through the table.
LEMMA StateSteps ==
  ASSUME IInv, [Next]_vars
  PROVE  state' = state \/ \E s \in WorkflowState : state' = SetState(state, s)
  <1> USE DEF At, Goto, Enter, Invoke, Move, WriteState, WriteFlags, Lock, NotifyAll
  <1> DEFINE Written == \E s \in WorkflowState : state' = SetState(state, s)
  <1>1. ASSUME NEW t \in Threads, Calls(t) PROVE state' = state
    BY <1>1 DEF Calls, Start, Execute, Pause, Suspend, Resume, Interrupt, Cancel, Finish,
       Error, Destroy
  <1>2. ASSUME NEW t \in Agents, StopSteps(t) PROVE state' = state
    BY <1>2 DEF StopSteps, StopRaise, StopDropPause, StopNotify, StopLock
  <1>3. ASSUME NEW t \in Threads, CallSteps(t) PROVE state' = state \/ Written
    <2>1. CASE StartInitialize(t) \/ StartReady(t) \/ PauseEnter(t) \/ ResumeLeave(t)
      BY <2>1 DEF StartInitialize, StartReady, PauseEnter, ResumeLeave, WorkflowState, Running
    <2>2. CASE Conclude(t) \/ FinishComplete(t)
      BY <2>2 DEF Conclude, FinishComplete, WorkflowState, Terminal
    <2>3. CASE ExecuteClearStop(t) \/ ExecuteClearPause(t) \/ ExecuteLock(t) \/ ExecuteLaunch(t)
      BY <2>3 DEF ExecuteClearStop, ExecuteClearPause, ExecuteLock, ExecuteLaunch
    <2>4. CASE StopJoin(t) \/ PauseRaise(t) \/ ResumeEndPause(t) \/ ResumeNotify(t)
      BY <2>4 DEF StopJoin, PauseRaise, ResumeEndPause, ResumeNotify
    <2> QED BY <1>2, <1>3, <2>1, <2>2, <2>3, <2>4 DEF CallSteps, Agents
  <1>4. ASSUME ExecutorSteps \/ SpuriousWakeup PROVE state' = state \/ Written
    <2>1. CASE Begin \/ Completed
      BY <2>1 DEF Begin, Completed, WorkflowState, Running, Terminal
    <2>2. CASE BodyPauses \/ WaitCheck \/ WaitBlock \/ BodyReturns \/ SpuriousWakeup
      BY <2>2 DEF BodyPauses, WaitCheck, WaitBlock, BodyReturns, SpuriousWakeup
    <2>3. CASE Deliver \/ Finished \/ Throws \/ StopJoinSelf
      BY <2>3 DEF Deliver, Finished, Throws, StopJoinSelf
    <2> QED BY <1>2, <1>4, <2>1, <2>2, <2>3 DEF ExecutorSteps, Agents
  <1> QED BY <1>1, <1>3, <1>4 DEF Next, vars

\* Runs are counted by the launch and by the delivery only.
LEMMA RunSteps ==
  ASSUME [Next]_vars
  PROVE  \/ UNCHANGED runs
         \/ UNCHANGED state /\ Deliver
         \/ UNCHANGED state /\ \E t \in Threads : ExecuteLaunch(t)
  <1> USE DEF At, Goto, Enter, Invoke, Move, WriteState, WriteFlags, Lock, NotifyAll, runs
  <1>1. ASSUME NEW t \in Threads, Calls(t) PROVE UNCHANGED runs
    BY <1>1 DEF Calls, Start, Execute, Pause, Suspend, Resume, Interrupt, Cancel, Finish,
       Error, Destroy
  <1>2. ASSUME NEW t \in Agents, StopSteps(t) PROVE UNCHANGED runs
    BY <1>2 DEF StopSteps, StopRaise, StopDropPause, StopNotify, StopLock
  <1>3. ASSUME NEW t \in Threads, CallSteps(t), ~ExecuteLaunch(t) PROVE UNCHANGED runs
    <2>1. CASE StartInitialize(t) \/ StartReady(t) \/ PauseEnter(t) \/ ResumeLeave(t)
      BY <2>1 DEF StartInitialize, StartReady, PauseEnter, ResumeLeave
    <2>2. CASE Conclude(t) \/ FinishComplete(t)
      BY <2>2 DEF Conclude, FinishComplete
    <2>3. CASE ExecuteClearStop(t) \/ ExecuteClearPause(t) \/ ExecuteLock(t)
      BY <2>3 DEF ExecuteClearStop, ExecuteClearPause, ExecuteLock
    <2>4. CASE StopJoin(t) \/ PauseRaise(t) \/ ResumeEndPause(t) \/ ResumeNotify(t)
      BY <2>4 DEF StopJoin, PauseRaise, ResumeEndPause, ResumeNotify
    <2> QED BY <1>2, <1>3, <2>1, <2>2, <2>3, <2>4 DEF CallSteps, Agents
  <1>4. ASSUME ExecutorSteps \/ SpuriousWakeup, ~Deliver PROVE UNCHANGED runs
    <2>1. CASE Begin \/ Completed \/ Finished \/ Throws \/ StopJoinSelf
      BY <2>1 DEF Begin, Completed, Finished, Throws, StopJoinSelf
    <2>2. CASE BodyPauses \/ WaitCheck \/ WaitBlock \/ BodyReturns \/ SpuriousWakeup
      BY <2>2 DEF BodyPauses, WaitCheck, WaitBlock, BodyReturns, SpuriousWakeup
    <2> QED BY <1>2, <1>4, <2>1, <2>2 DEF ExecutorSteps, Agents
  <1>5. ASSUME NEW t \in Threads, ExecuteLaunch(t) PROVE UNCHANGED state
    BY <1>5 DEF ExecuteLaunch
  <1>6. ASSUME Deliver PROVE UNCHANGED state
    BY <1>6 DEF Deliver
  <1> QED BY <1>1, <1>3, <1>4, <1>5, <1>6 DEF Next, vars

-----------------------------------------------------------------------------
(* A workflow implements its abstract lifecycle.                           *)

\* Both modules use one table.
LEMMA SameTable ==
  /\ Lifecycle!WorkflowState = WorkflowState
  /\ Lifecycle!Final = Final
  /\ \A s : Lifecycle!Stage(s) = Stage(s)
  BY DEF Lifecycle!WorkflowState, Lifecycle!Running, Lifecycle!Terminal, Lifecycle!Final,
     Lifecycle!Stage, WorkflowState, Running, Terminal, Final, Stage

LEMMA InitLifecycle == Init => Lifecycle!Init
  BY DEF Init, Lifecycle!Init

LEMMA StepLifecycle == IInv /\ [Next]_vars => [Lifecycle!Next]_(Lifecycle!vars)
  <1> SUFFICES ASSUME IInv, [Next]_vars PROVE [Lifecycle!Next]_(Lifecycle!vars)
    OBVIOUS
  <1>1. /\ state \in WorkflowState /\ Stage(state) \in 0..5
        /\ started \in Nat /\ delivered \in Nat
    BY StageType DEF IInv, TypeOK
  <1>2. CASE UNCHANGED runs /\ state' # state
    <2>1. PICK s \in WorkflowState : state' = SetState(state, s)
      BY <1>2, StateSteps
    <2>2. Stage(state) # Final
      BY <1>1, <1>2, <2>1, SetStateFinal
    <2>3. state' \in WorkflowState /\ Stage(state') >= Stage(state)
      BY <1>1, <2>1, SetStateType, SetStateForward
    <2>4. Stage(state) < Final
      BY <1>1, <2>2 DEF Final
    <2> QED BY <1>2, <2>3, <2>4, SameTable DEF Lifecycle!Next, Lifecycle!Advance, runs
  <1>3. CASE UNCHANGED state /\ Deliver
    <2>1. delivered' = delivered + 1 /\ started' = started /\ pc[Executor] = "deliver"
      BY <1>3 DEF Deliver, Goto, At
    <2>2. delivered < started
      BY <1>1, <2>1 DEF IInv, ResultsOut, Undelivered
    <2>3. Stage(state) > Stage("READY")
      BY <2>1 DEF IInv, BodyImpliesLeftReady
    <2> QED BY <1>3, <2>1, <2>2, <2>3, SameTable DEF Lifecycle!Next, Lifecycle!Deliver
  <1>4. ASSUME NEW t \in Threads, UNCHANGED state, ExecuteLaunch(t)
        PROVE  Lifecycle!Launch
    <2>1. started' = started + 1 /\ delivered' = delivered /\ pc[t] = "launch"
      BY <1>4 DEF ExecuteLaunch, At
    <2>2. pc[Executor] = "idle"
      BY <1>4 DEF ExecuteLaunch, ExecutorEnded, IInv, LiveIsJoinable
    <2>3. started = delivered
      BY <2>2 DEF IInv, ResultsOut, Delivered
    <2>4. Stage(state) >= Stage("READY")
      BY <2>1 DEF IInv, LaunchersSawReady, Agents
    <2> QED BY <1>4, <2>1, <2>3, <2>4, SameTable DEF Lifecycle!Launch
  <1>5. CASE UNCHANGED runs /\ UNCHANGED state
    BY <1>5 DEF Lifecycle!vars, runs
  <1> QED BY <1>2, <1>3, <1>4, <1>5, RunSteps DEF Lifecycle!Next

\* Every behaviour of the workflow is one of its abstract lifecycle: it only goes forward,
\* keeps a final state, runs one body at a time and delivers one result for each.
THEOREM WorkflowImplementsLifecycle == Spec => LifecycleKept
  BY InitLifecycle, StepLifecycle, Invariance, PTL DEF Spec, LifecycleKept, Lifecycle!Spec

-----------------------------------------------------------------------------
(* What interrupt() and the destructor rely on.                            *)

LEMMA StageForward ==
  ASSUME IInv, [Next]_vars
  PROVE  Stage(state) \in 0..5 /\ Stage(state') \in 0..5 /\ Stage(state') >= Stage(state)
  <1>1. state \in WorkflowState
    BY DEF IInv, TypeOK
  <1>2. state' \in WorkflowState /\ Stage(state') >= Stage(state)
    <2>1. CASE state' = state
      BY <1>1, <2>1, StageType
    <2>2. ASSUME NEW s \in WorkflowState, state' = SetState(state, s)
          PROVE  state' \in WorkflowState /\ Stage(state') >= Stage(state)
      BY <1>1, <2>2, SetStateType, SetStateForward
    <2> QED BY <2>1, <2>2, StateSteps
  <1> QED BY <1>1, <1>2, StageType

LEMMA InitCalls == Init => CallInv
  BY Assumptions DEF Init, CallInv, OutsideIsIdle, InterruptSawRunning, DestroyerJoins, Agents

LEMMA StepCalls == IInv /\ CallInv /\ [Next]_vars => CallInv'
  <1> SUFFICES ASSUME IInv, CallInv, [Next]_vars PROVE CallInv'
    OBVIOUS
  <1>a. Stage(state) \in 0..5 /\ Stage(state') \in 0..5 /\ Stage(state') >= Stage(state)
    BY StageForward
  <1>b. \A s \in Running : Stage(s) > Stage("READY")
    BY DEF Running, Stage, Terminal, Final
  <1>c. Stage("READY") \in 0..5
    BY DEF Stage, Running, Terminal, Final
  <1>d. /\ pc \in [Agents -> Label] /\ call \in [Agents -> Call]
        /\ Executor \in Agents /\ Executor \notin Threads /\ Threads \subseteq Agents
    BY Assumptions DEF IInv, TypeOK, Agents
  <1> USE <1>d DEF CallInv, OutsideIsIdle, InterruptSawRunning, DestroyerJoins, flags, runs,
          thread, At, Goto, Enter, Invoke, Move, WriteState, WriteFlags, Lock, NotifyAll
  <1>1. ASSUME NEW t \in Threads, Calls(t), ~Destroy(t) PROVE CallInv'
    BY <1>1, <1>a, <1>b, <1>c DEF Calls, Start, Execute, Pause, Suspend, Resume, Interrupt,
       Cancel, Finish, Error
  <1>2. ASSUME NEW t \in Threads, Destroy(t) PROVE CallInv'
    BY <1>2 DEF Destroy
  <1>3. ASSUME NEW t \in Agents, StopSteps(t) PROVE CallInv'
    BY <1>3 DEF StopSteps, StopRaise, StopDropPause, StopNotify, StopLock
  <1>4. ASSUME NEW t \in Threads, StopJoin(t) PROVE CallInv'
    BY <1>4 DEF StopJoin
  <1>5. ASSUME NEW t \in Threads, Conclude(t) \/ FinishComplete(t) PROVE CallInv'
    BY <1>5, <1>a, <1>c DEF Conclude, FinishComplete
  <1>6. ASSUME NEW t \in Threads,
               StartInitialize(t) \/ StartReady(t) \/ PauseEnter(t) \/ ResumeLeave(t)
        PROVE  CallInv'
    BY <1>6, <1>a, <1>c DEF StartInitialize, StartReady, PauseEnter, ResumeLeave
  <1>7. ASSUME NEW t \in Threads,
               \/ ExecuteClearStop(t) \/ ExecuteClearPause(t) \/ ExecuteLock(t)
               \/ ExecuteLaunch(t)
        PROVE  CallInv'
    BY <1>7 DEF ExecuteClearStop, ExecuteClearPause, ExecuteLock, ExecuteLaunch
  <1>8. ASSUME NEW t \in Threads, PauseRaise(t) \/ ResumeEndPause(t) \/ ResumeNotify(t)
        PROVE  CallInv'
    BY <1>8 DEF PauseRaise, ResumeEndPause, ResumeNotify
  <1>9. ASSUME Begin \/ Completed \/ Deliver \/ Finished \/ Throws \/ StopJoinSelf
        PROVE  CallInv'
    BY <1>9, <1>a, <1>c DEF Begin, Completed, Deliver, Finished, Throws, StopJoinSelf
  <1>10. ASSUME BodyPauses \/ WaitCheck \/ WaitBlock \/ BodyReturns \/ SpuriousWakeup
         PROVE  CallInv'
    BY <1>10 DEF BodyPauses, WaitCheck, WaitBlock, BodyReturns, SpuriousWakeup
  <1>11. CASE UNCHANGED vars
    BY <1>11 DEF vars
  <1> QED BY <1>1, <1>2, <1>3, <1>4, <1>5, <1>6, <1>7, <1>8, <1>9, <1>10, <1>11
          DEF Next, Calls, CallSteps, ExecutorSteps

LEMMA CallInvariance == Spec => []CallInv
  BY InitCalls, StepCalls, Invariance, PTL DEF Spec

\* The destructor leaves no joinable thread behind.
THEOREM DestructorJoins == Spec => []DestroyedIsJoined
  <1>1. CallInv => DestroyedIsJoined
    BY DEF CallInv, DestroyerJoins, DestroyedIsJoined
  <1> QED BY <1>1, CallInvariance, PTL

-----------------------------------------------------------------------------
(* An accepted interrupt() or cancel() settles the workflow.               *)

\* Asking a workflow that is past READY to be INTERRUPTED, or one that is READY or past it
\* to be CANCELED, takes it to a final state or leaves it on its way to one.
LEMMA StopRequestSettles ==
  ASSUME NEW from \in WorkflowState
  PROVE  /\ Stage(from) > Stage("READY") => Settles(SetState(from, "INTERRUPTED"))
         /\ Stage(from) >= Stage("READY") => Settles(SetState(from, "CANCELED"))
BY DEF Settles, SetState, isValidStateTransition, Stage, Final, WorkflowState, Running,
   Terminal

\* Only the thread itself takes the last step of its stop request.
LEMMA OwnConclusion ==
  ASSUME IInv, [Next]_vars, NEW t \in Threads, pc[t] = "conclude", pc'[t] # "conclude"
  PROVE  Conclude(t)
  <1>a. /\ pc \in [Agents -> Label] /\ t \in Agents
        /\ Executor \in Agents /\ Executor # t /\ Threads \subseteq Agents
    BY Assumptions DEF IInv, TypeOK, Agents
  <1> USE <1>a DEF At, Goto, Enter, Invoke, Move, WriteState, WriteFlags, Lock, NotifyAll
  <1>1. ASSUME NEW u \in Threads, Calls(u) PROVE FALSE
    BY <1>1 DEF Calls, Start, Execute, Pause, Suspend, Resume, Interrupt, Cancel, Finish,
       Error, Destroy
  <1>2. ASSUME NEW u \in Agents, StopSteps(u) PROVE FALSE
    BY <1>2 DEF StopSteps, StopRaise, StopDropPause, StopNotify, StopLock
  <1>3. ASSUME NEW u \in Threads, CallSteps(u) PROVE Conclude(t)
    <2>1. CASE StartInitialize(u) \/ StartReady(u) \/ PauseEnter(u) \/ ResumeLeave(u)
      BY <2>1 DEF StartInitialize, StartReady, PauseEnter, ResumeLeave
    <2>2. CASE Conclude(u) \/ FinishComplete(u)
      BY <2>2 DEF Conclude, FinishComplete
    <2>3. CASE ExecuteClearStop(u) \/ ExecuteClearPause(u) \/ ExecuteLock(u) \/ ExecuteLaunch(u)
      BY <2>3 DEF ExecuteClearStop, ExecuteClearPause, ExecuteLock, ExecuteLaunch
    <2>4. CASE StopJoin(u) \/ PauseRaise(u) \/ ResumeEndPause(u) \/ ResumeNotify(u)
      BY <2>4 DEF StopJoin, PauseRaise, ResumeEndPause, ResumeNotify
    <2> QED BY <1>2, <1>3, <2>1, <2>2, <2>3, <2>4 DEF CallSteps
  <1>4. ASSUME ExecutorSteps \/ SpuriousWakeup PROVE FALSE
    <2>1. CASE Begin \/ Completed \/ Deliver \/ Finished \/ Throws \/ StopJoinSelf
      BY <2>1 DEF Begin, Completed, Deliver, Finished, Throws, StopJoinSelf
    <2>2. CASE BodyPauses \/ WaitCheck \/ WaitBlock \/ BodyReturns \/ SpuriousWakeup
      BY <2>2 DEF BodyPauses, WaitCheck, WaitBlock, BodyReturns, SpuriousWakeup
    <2> QED BY <1>2, <1>4, <2>1, <2>2 DEF ExecutorSteps
  <1> QED BY <1>1, <1>3, <1>4 DEF Next, vars

\* Whatever came between its guard and its last step, interrupt() leaves the workflow in a
\* final state or on its way to one, and so does cancel() when it finds it READY or later.
THEOREM StopRequestsSettle == Spec => AcceptedStopSettles
  <1> DEFINE Concludes(t) ==
        /\ pc[t] = "conclude" /\ pc'[t] # "conclude"
        /\ \/ call[t] = "interrupt"
           \/ call[t] = "cancel" /\ Stage(state) >= Stage("READY")
        => Settles(state')
  <1>1. ASSUME IInv, CallInv, [Next]_vars, NEW t \in Threads PROVE Concludes(t)
    <2> SUFFICES ASSUME pc[t] = "conclude", pc'[t] # "conclude",
                        \/ call[t] = "interrupt"
                        \/ call[t] = "cancel" /\ Stage(state) >= Stage("READY")
                 PROVE  Settles(state')
      OBVIOUS
    <2>1. Conclude(t)
      BY <1>1, OwnConclusion
    <2>2. state \in WorkflowState
      BY <1>1 DEF IInv, TypeOK
    <2>3. CASE call[t] = "interrupt"
      <3>1. state' = SetState(state, "INTERRUPTED")
        BY <2>1, <2>3 DEF Conclude, WriteState
      <3>2. Stage(state) > Stage("READY")
        BY <1>1, <2>3 DEF CallInv, InterruptSawRunning
      <3> QED BY <2>2, <3>1, <3>2, StopRequestSettles
    <2>4. CASE call[t] = "cancel" /\ Stage(state) >= Stage("READY")
      <3>1. state' = SetState(state, "CANCELED")
        BY <2>1, <2>4 DEF Conclude, WriteState
      <3> QED BY <2>2, <2>4, <3>1, StopRequestSettles
    <2> QED BY <2>3, <2>4
  <1>2. IInv /\ CallInv /\ [Next]_vars => [\A t \in Threads : Concludes(t)]_vars
    BY <1>1
  <1> QED BY <1>2, Invariance, CallInvariance, PTL DEF Spec, AcceptedStopSettles

=============================================================================

---------------------------- MODULE BaseWorkflow ----------------------------
(***************************************************************************)
(* One BaseWorkflow object: the control methods its callers run on their   *)
(* own threads, and the execution thread that execute() launches.  Every   *)
(* read or write of state_, stopFlag_, pausedFlag_, threadMutex_ and       *)
(* executionThread_ that another thread can come between is a step of its  *)
(* own; setState is one step, since it holds stateMutex_ throughout.       *)
(***************************************************************************)
EXTENDS WorkflowStates

CONSTANTS
  Threads,   \* threads that call the methods of the workflow
  Executor,  \* the execution thread
  NoThread,  \* the owner of a free threadMutex_
  Bodies,    \* the kinds of subclass under study, see BodyKind
  MaxCalls   \* bound: calls made by all Threads together

\* onExecute as the subclass wrote it: it returns by itself; it polls shouldStop() until
\* it is told to stop; it calls waitForResume() when it sees isPausedFlag(); it, or an
\* observer or hook that runs after it, throws.
BodyKind == {"finite", "cooperative", "pausable", "throwing"}

ASSUME Assumptions ==
  /\ Executor \notin Threads
  /\ NoThread \notin Threads \cup {Executor}
  /\ Bodies \subseteq BodyKind
  /\ MaxCalls \in Nat

VARIABLES
  state,       \* state_
  stopFlag,    \* stopFlag_
  pausedFlag,  \* pausedFlag_
  owner,       \* the holder of threadMutex_
  joinable,    \* executionThread_.joinable()
  life,        \* the object and its process: "alive", "destroyed" or "terminated"
  body,        \* the kind of subclass, fixed at construction
  pc,          \* where each thread is; "idle" outside the workflow
  call,        \* the method each thread is in, "none" outside the workflow
  calls,       \* calls made so far
  started,     \* runs launched, each with a promise of its own
  delivered,   \* promises satisfied
  seen         \* history: runs launched when the thread raised the stop flag

vars == <<state, stopFlag, pausedFlag, owner, joinable, life, body, pc, call, calls,
          started, delivered, seen>>

flags   == <<stopFlag, pausedFlag>>
runs    == <<started, delivered>>
thread  == <<owner, joinable>>

Agents == Threads \cup {Executor}

Stopping == {"interrupt", "cancel", "finish", "error", "destroy"}

Call == Stopping \cup {"none", "start", "execute", "pause", "suspend", "resume"}

Label ==
  {"idle", "initialize", "ready",
   "clearStop", "clearPause", "lockToRun", "launch",
   "raiseStop", "dropPause", "notifyStop", "lockToJoin", "join", "conclude", "complete",
   "raisePause", "enterPause", "endPause", "notifyResume", "leavePause",
   "begin", "body", "check", "block", "blocked", "completed", "deliver", "finished"}

Init ==
  /\ state = "IDLE"
  /\ stopFlag = FALSE
  /\ pausedFlag = FALSE
  /\ owner = NoThread
  /\ joinable = FALSE
  /\ life = "alive"
  /\ body \in Bodies
  /\ pc = [t \in Agents |-> "idle"]
  /\ call = [t \in Agents |-> "none"]
  /\ calls = 0
  /\ started = 0
  /\ delivered = 0
  /\ seen = [t \in Agents |-> 0]

-----------------------------------------------------------------------------
(* Steps of a thread: it is inside a method at a label, and moves on.      *)

At(t, from) == life # "terminated" /\ pc[t] = from

Goto(t, from, to) ==
  /\ At(t, from)
  /\ pc' = [pc EXCEPT ![t] = to]
  /\ call' = IF to = "idle" THEN [call EXCEPT ![t] = "none"] ELSE call
  /\ UNCHANGED <<calls, life, body>>

\* t enters method c, whose first step is at label `first`.
Enter(t, c, first) ==
  /\ life = "alive"
  /\ pc[t] = "idle"
  /\ calls < MaxCalls
  /\ calls' = calls + 1
  /\ pc' = [pc EXCEPT ![t] = first]
  /\ call' = [call EXCEPT ![t] = c]
  /\ UNCHANGED <<state, flags, thread, body, runs, seen>>

Invoke(t, c, first) == Enter(t, c, first) /\ UNCHANGED life

Move(t, from, to) ==
  /\ Goto(t, from, to)
  /\ UNCHANGED <<state, flags, thread, runs, seen>>

WriteState(t, from, to, s) ==
  /\ Goto(t, from, to)
  /\ state' = SetState(state, s)
  /\ UNCHANGED <<flags, thread, runs, seen>>

WriteFlags(t, from, to, stop, paused) ==
  /\ Goto(t, from, to)
  /\ stopFlag' = stop
  /\ pausedFlag' = paused
  /\ UNCHANGED <<state, thread, runs>>

Lock(t, from, to) ==
  /\ owner = NoThread
  /\ Goto(t, from, to)
  /\ owner' = t
  /\ UNCHANGED <<state, flags, joinable, runs, seen>>

\* Mutant: the thread is detached where it should be joined.
NotAwaited == TRUE

\* executionThread_.join() returns: the thread function has ended.
ExecutorEnded == joinable => pc[Executor] = "idle"

\* pauseCV_.notify_all(): only a thread that is already blocked is woken.
NotifyAll(t, from, to) ==
  /\ At(t, from)
  /\ pc' = [a \in Agents |-> IF a = t THEN to
                             ELSE IF a = Executor /\ pc[a] = "blocked" THEN "check"
                             ELSE pc[a]]
  /\ UNCHANGED <<state, flags, thread, life, body, call, calls, runs, seen>>

-----------------------------------------------------------------------------
(* start(): INITIALIZING, the onStart hook, READY, whatever setState said. *)

Start(t)           == Invoke(t, "start", "initialize")
StartInitialize(t) == WriteState(t, "initialize", "ready", "INITIALIZING")
StartReady(t)      == WriteState(t, "ready", "idle", "READY")

-----------------------------------------------------------------------------
(* execute(): the test of READY, the reset of the flags and the launch     *)
(* under threadMutex_ are separate steps.  A call that finds another state *)
(* returns an empty result and changes nothing.                            *)

Execute(t) == state = "READY" /\ Invoke(t, "execute", "clearStop")

ExecuteClearStop(t) ==
  WriteFlags(t, "clearStop", "clearPause", FALSE, pausedFlag) /\ UNCHANGED seen

ExecuteClearPause(t) ==
  WriteFlags(t, "clearPause", "lockToRun", stopFlag, FALSE) /\ UNCHANGED seen

ExecuteLock(t) == Lock(t, "lockToRun", "launch")

\* Joins the thread of an earlier run, launches this one and releases the mutex.
ExecuteLaunch(t) ==
  /\ At(t, "launch")
  /\ ExecutorEnded
  /\ pc' = [pc EXCEPT ![t] = "idle", ![Executor] = "begin"]
  /\ call' = [call EXCEPT ![t] = "none"]
  /\ joinable' = TRUE
  /\ owner' = NoThread
  /\ started' = started + 1
  /\ UNCHANGED <<state, flags, life, body, calls, delivered, seen>>

-----------------------------------------------------------------------------
(* interrupt(), cancel(), finish(), error() and the destructor share stop. *)

Interrupt(t) == state \in Running /\ Invoke(t, "interrupt", "raiseStop")

Cancel(t) ==
  /\ state \notin {"COMPLETED", "INTERRUPTED", "TERMINATING", "CANCELED"}
  /\ Invoke(t, "cancel", "raiseStop")

Finish(t) == state \in Running /\ Invoke(t, "finish", "raiseStop")

Error(t) == Invoke(t, "error", "raiseStop")

\* The last owner lets go: no other caller is in a method and none can enter one.
Destroy(t) ==
  /\ \A u \in Threads : pc[u] = "idle"
  /\ Enter(t, "destroy", "raiseStop")
  /\ life' = "destroyed"

StopRaise(t) ==
  /\ WriteFlags(t, "raiseStop", "dropPause", TRUE, pausedFlag)
  /\ seen' = [seen EXCEPT ![t] = started]

StopDropPause(t) ==
  WriteFlags(t, "dropPause", "notifyStop", stopFlag, FALSE) /\ UNCHANGED seen

StopNotify(t) == NotifyAll(t, "notifyStop", "lockToJoin")

StopLock(t) == Lock(t, "lockToJoin", "join")

StopJoin(t) ==
  /\ ExecutorEnded
  /\ Goto(t, "join", "conclude")
  /\ joinable' = FALSE
  /\ owner' = NoThread
  /\ UNCHANGED <<state, flags, runs, seen>>

\* The execution thread joins itself: std::system_error leaves the catch block of
\* executeInternal and the thread function, and std::terminate ends the process.
StopJoinSelf ==
  /\ At(Executor, "join") /\ joinable
  /\ life' = "terminated"
  /\ UNCHANGED <<state, flags, thread, body, pc, call, calls, runs, seen>>

\* setState and the hooks and notifications that follow stop(), accepted or not.
Conclude(t) ==
  \/ call[t] = "interrupt" /\ WriteState(t, "conclude", "idle", "INTERRUPTED")
  \/ call[t] = "cancel"    /\ WriteState(t, "conclude", "idle", "CANCELED")
  \/ call[t] = "error"     /\ WriteState(t, "conclude", "idle", "ERROR")
  \/ call[t] = "finish"    /\ WriteState(t, "conclude", "complete", "TERMINATING")
  \/ call[t] = "destroy"   /\ Move(t, "conclude", "idle")

FinishComplete(t) == WriteState(t, "complete", "idle", "COMPLETED")

-----------------------------------------------------------------------------
(* pause(), suspend(), resume().                                           *)

Pause(t)   == state \in Running /\ Invoke(t, "pause", "raisePause")
Suspend(t) == state \in Running /\ Invoke(t, "suspend", "raisePause")

PauseRaise(t) ==
  WriteFlags(t, "raisePause", "enterPause", stopFlag, TRUE) /\ UNCHANGED seen

\* Mutant: the name of the request is stored as the state.
PauseEnterRaw(t) ==
  /\ Goto(t, "enterPause", "idle")
  /\ state' = call[t]
  /\ UNCHANGED <<flags, thread, runs, seen>>

PauseEnter(t) ==
  WriteState(t, "enterPause", "idle", IF call[t] = "pause" THEN "PAUSED" ELSE "SUSPENDED")

Resume(t) == state = "PAUSED" /\ Invoke(t, "resume", "endPause")

ResumeEndPause(t) ==
  WriteFlags(t, "endPause", "notifyResume", stopFlag, FALSE) /\ UNCHANGED seen

ResumeNotify(t) == NotifyAll(t, "notifyResume", "leavePause")
ResumeLeave(t)  == WriteState(t, "leavePause", "idle", "EXECUTING")

-----------------------------------------------------------------------------
(* executeInternal() and the body it runs.                                 *)

Begin == WriteState(Executor, "begin", "body", "EXECUTING")

\* The body sees isPausedFlag() and calls waitForResume().
BodyPauses == body = "pausable" /\ pausedFlag /\ Move(Executor, "body", "check")

\* The predicate of pauseCV_.wait.  Whoever changes the flags does not hold pauseMutex_, so
\* a notification can fall between the test of the predicate and the wait.
WaitCheck == Move(Executor, "check", IF ~pausedFlag \/ stopFlag THEN "body" ELSE "block")
WaitBlock == Move(Executor, "block", "blocked")

SpuriousWakeup == Move(Executor, "blocked", "check")

BodyReturns ==
  (body = "cooperative" => stopFlag) /\ Move(Executor, "body", "completed")

\* onExecute throws, or notifyFinished or onFinalize does: the catch block calls error().
Throws ==
  /\ body = "throwing"
  /\ At(Executor, "body") \/ At(Executor, "finished")
  /\ pc' = [pc EXCEPT ![Executor] = "raiseStop"]
  /\ call' = [call EXCEPT ![Executor] = "error"]
  /\ UNCHANGED <<state, flags, thread, life, body, calls, runs, seen>>

\* Mutant: the result is stored under threadMutex_.
CompletedUnderLock ==
  owner = NoThread /\ WriteState(Executor, "completed", "deliver", "COMPLETED")

Completed == WriteState(Executor, "completed", "deliver", "COMPLETED")

Deliver ==
  /\ Goto(Executor, "deliver", "finished")
  /\ delivered' = delivered + 1
  /\ UNCHANGED <<state, flags, thread, started, seen>>

\* notifyFinished and onFinalize, then the thread function returns.
Finished == Move(Executor, "finished", "idle")

-----------------------------------------------------------------------------

Calls(t) ==
  \/ Start(t) \/ Execute(t) \/ Pause(t) \/ Suspend(t) \/ Resume(t)
  \/ Interrupt(t) \/ Cancel(t) \/ Finish(t) \/ Error(t) \/ Destroy(t)

StopSteps(t) ==
  StopRaise(t) \/ StopDropPause(t) \/ StopNotify(t) \/ StopLock(t)

CallSteps(t) ==
  \/ StartInitialize(t) \/ StartReady(t)
  \/ ExecuteClearStop(t) \/ ExecuteClearPause(t) \/ ExecuteLock(t) \/ ExecuteLaunch(t)
  \/ StopSteps(t) \/ StopJoin(t) \/ Conclude(t) \/ FinishComplete(t)
  \/ PauseRaise(t) \/ PauseEnter(t)
  \/ ResumeEndPause(t) \/ ResumeNotify(t) \/ ResumeLeave(t)

ExecutorSteps ==
  \/ Begin \/ BodyPauses \/ WaitCheck \/ WaitBlock \/ BodyReturns
  \/ Completed \/ Deliver \/ Finished
  \/ Throws \/ StopSteps(Executor) \/ StopJoinSelf

Next ==
  \/ \E t \in Threads : Calls(t) \/ CallSteps(t)
  \/ ExecutorSteps
  \/ SpuriousWakeup

\* A thread inside a method, and the execution thread, are scheduled by the operating
\* system and go on when they can; nothing obliges a caller to make a call.
Fairness ==
  /\ \A t \in Threads : WF_vars(CallSteps(t))
  /\ WF_vars(ExecutorSteps)

Spec == Init /\ [][Next]_vars /\ Fairness

-----------------------------------------------------------------------------
(* Properties.                                                             *)

\* Every variable keeps to the values the code gives it.
TypeOK ==
  /\ state \in WorkflowState
  /\ stopFlag \in BOOLEAN /\ pausedFlag \in BOOLEAN
  /\ owner \in Agents \cup {NoThread}
  /\ joinable \in BOOLEAN
  /\ life \in {"alive", "destroyed", "terminated"}
  /\ body \in BodyKind
  /\ pc \in [Agents -> Label]
  /\ call \in [Agents -> Call]
  /\ calls \in Nat /\ started \in Nat /\ delivered \in Nat
  /\ seen \in [Agents -> Nat]

\* threadMutex_ protects executionThread_: two callers are never both between taking the
\* mutex and replacing or joining the thread, although each of them may block in join().
MutexHeld ==
  \A t \in Agents : pc[t] \in {"launch", "join"} <=> owner = t

\* However execute() calls race, one body runs at a time: no run is launched before the
\* result of the one before it is in its future, and a live run has a joinable thread.
RunsSerialized ==
  /\ delivered <= started /\ started <= delivered + 1
  /\ started > delivered => joinable /\ pc[Executor] # "idle"

\* stop() waits: once a caller is past it, the run it asked to stop has delivered its
\* result, so interrupt(), cancel(), finish(), error() and the destructor never return
\* while that run still uses the workflow.
StopWaits ==
  \A t \in Threads : pc[t] \in {"conclude", "complete"} => delivered >= seen[t]

\* A body never runs while the workflow still looks startable: whoever reads IDLE,
\* INITIALIZING or READY knows that no run has got past its first step.
BodyImpliesLeftReady ==
  pc[Executor] \notin {"idle", "begin"} => Stage(state) > Stage("READY")

\* The destructor leaves no thread behind that std::thread's own destructor would meet.
DestroyedIsJoined ==
  life = "destroyed" /\ (\A t \in Threads : pc[t] = "idle") => ~joinable

\* An interrupt() that passed its guard, and a cancel() that finds the workflow ready or
\* later when it gets to setState, leave it in a final state or on its way to one,
\* whatever pauses, resumes and other stops came between.  (finish() gives no such promise:
\* TERMINATING and COMPLETED are both rejected when a pause() came first.)
Settles(s) == Stage(s) >= Stage("TERMINATING")
AcceptedStopSettles ==
  [][\A t \in Threads :
       /\ pc[t] = "conclude" /\ pc'[t] # "conclude"
       /\ \/ call[t] = "interrupt"
          \/ call[t] = "cancel" /\ Stage(state) >= Stage("READY")
       => Settles(state')]_vars

\* The workflow keeps its promise to its callers (module WorkflowLifecycle).
Lifecycle == INSTANCE WorkflowLifecycle
               WITH state <- state, started <- started, delivered <- delivered
LifecycleKept == Lifecycle!Spec

\* When the body returns by itself, every method call returns: the threads that join and
\* the thread that is joined never wait for each other.
CallsReturn ==
  [](body = "finite") => \A t \in Threads : (pc[t] # "idle") ~> (pc[t] = "idle")

\* What the catch blocks of executeInternal set out to do with an exception: the state
\* becomes ERROR (or the workflow had already ended otherwise) and the future is set.
ThrownErrorSettles == (call[Executor] = "error") ~> (delivered = started /\ Settles(state))

=============================================================================

-------------------------- MODULE WorkflowManager ---------------------------
(***************************************************************************)
(* The WorkflowManager: registry, current workflow, task queue and the     *)
(* thread that processes it, under callers on several threads.             *)
(*                                                                         *)
(* A section under mutex_ that cannot block is one step.  Reads of         *)
(* currentWorkflow_ outside the mutex are steps of their own.  Of a        *)
(* workflow only what the manager can tell apart is kept: its state, its   *)
(* runs, and that interrupt(), cancel() and finish() join the execution    *)
(* thread before they set a state (module BaseWorkflow has the rest).      *)
(* start() is one step here: a workflow that is INITIALIZING answers every *)
(* call the manager makes as an IDLE one does.                             *)
(***************************************************************************)
EXTENDS WorkflowStates, Sequences

CONSTANTS
  Clients,     \* threads that call the manager
  Worker,      \* the queue processing thread
  Workflows,   \* workflow objects, each registered under its own name
  Tasks,       \* task ids; each is enqueued at most once
  WorkflowOf,  \* the workflow a task names
  Timed,       \* tasks enqueued with a timeout of their own
  Failing,     \* tasks whose onComplete callback throws
  None,        \* the null workflow, the free mutex and the absent task
  MaxCalls,    \* bound: calls made by all Clients together
  MaxResults   \* how many results are kept (100 in the code)

ASSUME Assumptions ==
  /\ Worker \notin Clients
  /\ None \notin Clients \cup {Worker} \cup Workflows \cup Tasks
  /\ WorkflowOf \in [Tasks -> Workflows]
  /\ Timed \subseteq Tasks /\ Failing \subseteq Tasks
  /\ MaxCalls \in Nat /\ MaxResults \in Nat \ {0}

VARIABLES
  wstate, launched, ended, begun,   \* of each workflow: state_, its runs, the live body began
  registered,     \* keys of workflows_
  current,        \* currentWorkflow_
  owner,          \* holder of mutex_ across steps
  persistent,     \* persistence_ is set
  defaultTimed,   \* defaultTimeout_ > 0
  queue, timed,   \* taskQueue_, and the tasks enqueued with a timeout
  running,        \* processingThreadRunning_
  processing,     \* queueProcessing_
  wpc, task, run, \* the worker: where it is, its task, the run whose future it waits for
  verdict,        \* how the task ended
  row,            \* the row of the database it builds
  results,        \* executionResults_
  saved,          \* rows of the database
  reported,       \* history: tasks the worker is done with, in order
  enqueued, accepted, \* history: ids used; tasks enqueued and not dequeued, in order
  runner,         \* history: the task that launched the last run of a workflow, or None
  pc, op, target, victim, \* of each client: where it is, its method, the workflow it
                  \* works on, the workflow it stops
  calls,          \* calls made so far
  life            \* "alive", "destroyed" or "crashed"

bodies  == <<launched, ended, begun, runner>>
table   == <<registered, persistent, defaultTimed>>
tasks   == <<queue, timed, enqueued, accepted>>
worker  == <<wpc, task, run, verdict, row, processing>>
output  == <<results, saved, reported>>
clients == <<pc, op, target, victim, calls>>

vars == <<wstate, bodies, table, current, owner, tasks, running, worker, output, clients, life>>

NoRow == [state |-> "IDLE", success |-> FALSE]

Verdict == {"none", "missing", "timeout", "ended", "notReady", "callback"}

WorkerLabel ==
  {"none", "test", "tested", "blocked", "lookup", "select", "start", "execute", "launch",
   "await", "stop", "join", "record", "judge", "read", "save", "write", "done", "ended"}

ClientLabel ==
  {"idle", "guard", "join", "clear", "erase", "test", "load", "clean", "set", "start",
   "direct", "again", "launch", "notify", "joinWorker"}

Method == {"none", "interrupt", "cancel", "unregister", "start", "switch", "switchKeeping",
           "execute", "destroy"}

Init ==
  /\ wstate = [w \in Workflows |-> "IDLE"]
  /\ launched = [w \in Workflows |-> 0] /\ ended = [w \in Workflows |-> 0]
  /\ begun = [w \in Workflows |-> FALSE]
  /\ runner = [w \in Workflows |-> None]
  /\ registered = Workflows   \* registered at startup, as every example does
  /\ current = None /\ owner = None
  /\ persistent = FALSE /\ defaultTimed = FALSE
  /\ queue = <<>> /\ timed = {} /\ enqueued = {} /\ accepted = <<>>
  /\ running = FALSE /\ processing = FALSE
  /\ wpc = "none" /\ task = None /\ run = 0 /\ verdict = "none" /\ row = NoRow
  /\ results = <<>> /\ saved = <<>> /\ reported = <<>>
  /\ pc = [c \in Clients |-> "idle"] /\ op = [c \in Clients |-> "none"]
  /\ target = [c \in Clients |-> None] /\ victim = [c \in Clients |-> None]
  /\ calls = 0
  /\ life = "alive"

-----------------------------------------------------------------------------
(* A workflow as the manager sees it.                                      *)

Alive(w) == launched[w] > ended[w]

Enter(w, s) == wstate' = [wstate EXCEPT ![w] = SetState(@, s)]

\* start(): INITIALIZING, then READY.
StartWorkflow(w) ==
  wstate' = [wstate EXCEPT ![w] = SetState(SetState(@, "INITIALIZING"), "READY")]

\* execute() past its guard: the earlier run is joined before the next is launched.
Launch(w, by) ==
  /\ ~Alive(w)
  /\ launched' = [launched EXCEPT ![w] = @ + 1]
  /\ runner' = [runner EXCEPT ![w] = by]
  /\ UNCHANGED <<ended, begun>>

BodyBegins(w) ==
  /\ life # "crashed"
  /\ Alive(w) /\ ~begun[w]
  /\ begun' = [begun EXCEPT ![w] = TRUE]
  /\ Enter(w, "EXECUTING")
  /\ UNCHANGED <<launched, ended, runner, table, current, owner, tasks, running, worker,
                 output, clients, life>>

\* onExecute returns; COMPLETED is set before the future.
BodyEnds(w) ==
  /\ life # "crashed"
  /\ begun[w]
  /\ begun' = [begun EXCEPT ![w] = FALSE]
  /\ ended' = [ended EXCEPT ![w] = @ + 1]
  /\ Enter(w, "COMPLETED")
  /\ UNCHANGED <<launched, runner, table, current, owner, tasks, running, worker, output,
                 clients, life>>

-----------------------------------------------------------------------------
(* queueProcessingLoop                                                     *)

WorkerAt(l) == life # "crashed" /\ wpc = l

WorkerOnly == UNCHANGED <<table, tasks, running, clients, life>>

WorkerGoes(l) == wpc' = l /\ UNCHANGED <<task, run, verdict, row, processing>> /\ WorkerOnly

\* The flag is read, then the mutex taken and the predicate of wait() evaluated.
WorkerStops ==
  /\ WorkerAt("test") /\ ~running /\ owner = None
  /\ WorkerGoes("ended")
  /\ UNCHANGED <<wstate, bodies, current, owner, output>>

\* Nothing to do: the predicate is false, and the worker goes to wait with the mutex held.
WorkerTests ==
  /\ WorkerAt("test") /\ running /\ owner = None
  /\ queue = <<>>
  /\ owner' = Worker
  /\ WorkerGoes("tested")
  /\ UNCHANGED <<wstate, bodies, current, output>>

WorkerBlocks ==
  /\ WorkerAt("tested")
  /\ owner' = None
  /\ WorkerGoes("blocked")
  /\ UNCHANGED <<wstate, bodies, current, output>>

SpuriousWakeup ==
  /\ WorkerAt("blocked")
  /\ WorkerGoes("test")
  /\ UNCHANGED <<wstate, bodies, current, owner, output>>

\* Mutant: the queue does not look busy while its last task runs.
TakeSilently ==
  /\ WorkerAt("test") /\ running /\ owner = None
  /\ queue # <<>>
  /\ task' = Head(queue) /\ queue' = Tail(queue)
  /\ wpc' = "lookup"
  /\ UNCHANGED <<run, verdict, row, timed, enqueued, accepted, processing, table, running, clients, life,
                 wstate, bodies, current, owner, output>>

\* Mutant: any current workflow that has not ended holds up the queue.
TakeAfterFinal ==
  /\ current # None => Stage(wstate[current]) = Final
  /\ WorkerAt("test") /\ running /\ owner = None
  /\ queue # <<>>
  /\ task' = Head(queue) /\ queue' = Tail(queue)
  /\ processing' = TRUE
  /\ wpc' = "lookup"
  /\ UNCHANGED <<run, verdict, row, timed, enqueued, accepted, table, running, clients, life,
                 wstate, bodies, current, owner, output>>

\* While the current workflow executes, the worker goes round its loop (no step here).
WorkerTakes ==
  /\ WorkerAt("test") /\ running /\ owner = None
  /\ queue # <<>>
  /\ current # None => wstate[current] \notin Running
  /\ task' = Head(queue) /\ queue' = Tail(queue)
  /\ processing' = TRUE
  /\ wpc' = "lookup"
  /\ UNCHANGED <<run, verdict, row, timed, enqueued, accepted, table, running, clients, life,
                 wstate, bodies, current, owner, output>>

\* Both callbacks of a task count: it is over for its owner once one of them was called.
Report(v) == reported' = Append(reported, [id |-> task, verdict |-> v])

WorkerDone ==
  /\ WorkerAt("done") /\ owner = None
  /\ processing' = FALSE
  /\ wpc' = "test" /\ task' = None /\ run' = 0 /\ verdict' = "none" /\ row' = NoRow
  /\ WorkerOnly
  /\ UNCHANGED <<wstate, bodies, current, owner, output>>

-----------------------------------------------------------------------------
(* executeTask                                                             *)

Mine == WorkflowOf[task]

WorkerLooksUp ==
  /\ WorkerAt("lookup") /\ owner = None
  /\ IF Mine \in registered
       THEN WorkerGoes("select") /\ UNCHANGED reported
       ELSE WorkerGoes("done") /\ Report("missing")
  /\ UNCHANGED <<wstate, bodies, current, owner, results, saved>>

WorkerSelects ==
  /\ WorkerAt("select") /\ owner = None
  /\ current' = Mine
  /\ WorkerGoes("start")
  /\ UNCHANGED <<wstate, bodies, owner, output>>

WorkerStarts ==
  /\ WorkerAt("start")
  /\ StartWorkflow(Mine)
  /\ WorkerGoes("execute")
  /\ UNCHANGED <<bodies, current, owner, output>>

\* execute() of a workflow that is not READY returns a future that is set already.
WorkerExecutes ==
  /\ WorkerAt("execute")
  /\ IF wstate[Mine] = "READY"
       THEN wpc' = "launch" /\ UNCHANGED verdict
       ELSE wpc' = "record" /\ verdict' = IF task \in Failing THEN "callback" ELSE "notReady"
  /\ UNCHANGED <<task, run, row, processing>>
  /\ WorkerOnly
  /\ UNCHANGED <<wstate, bodies, current, owner, output>>

WorkerLaunches ==
  /\ WorkerAt("launch")
  /\ Launch(Mine, task)
  /\ run' = launched'[Mine]
  /\ wpc' = "await"
  /\ UNCHANGED <<task, verdict, row, processing>>
  /\ WorkerOnly
  /\ UNCHANGED <<wstate, current, owner, output>>

\* Mutant: the result is collected without waiting for the future.
CollectEarly ==
  /\ WorkerAt("await")
  /\ verdict' = IF task \in Failing THEN "callback" ELSE "ended"
  /\ wpc' = "record"
  /\ UNCHANGED <<task, run, row, processing>>
  /\ WorkerOnly
  /\ UNCHANGED <<wstate, bodies, current, owner, output>>

\* future.get() returns and onComplete is called.
WorkerCollects ==
  /\ WorkerAt("await") /\ ended[Mine] >= run
  /\ verdict' = IF task \in Failing THEN "callback" ELSE "ended"
  /\ wpc' = "record"
  /\ UNCHANGED <<task, run, row, processing>>
  /\ WorkerOnly
  /\ UNCHANGED <<wstate, bodies, current, owner, output>>

\* wait_for times out, and interrupt() looks at the state of the workflow.
WorkerTimesOut ==
  /\ WorkerAt("await") /\ ended[Mine] < run
  /\ task \in timed
  /\ verdict' = "timeout"
  /\ wpc' = "stop"
  /\ UNCHANGED <<task, run, row, processing>>
  /\ WorkerOnly
  /\ UNCHANGED <<wstate, bodies, current, owner, output>>

WorkerInterrupts ==
  /\ WorkerAt("stop")
  /\ WorkerGoes(IF wstate[Mine] \in Running THEN "join" ELSE "record")
  /\ UNCHANGED <<wstate, bodies, current, owner, output>>

WorkerJoins ==
  /\ WorkerAt("join") /\ ~Alive(Mine)
  /\ Enter(Mine, "INTERRUPTED")
  /\ WorkerGoes("record")
  /\ UNCHANGED <<bodies, current, owner, output>>

\* The state that the result and the row of the database are given.
FinalState ==
  CASE verdict = "timeout"                 -> "INTERRUPTED"
    [] verdict = "callback"                -> "ERROR"
    [] verdict \in {"ended", "notReady"}   -> wstate[Mine]

\* recordExecutionResult: the oldest result gives way to the newest.
Record(r) ==
  results' = IF Len(results) = MaxResults THEN Append(Tail(results), r)
                                          ELSE Append(results, r)

WorkerRecords ==
  /\ WorkerAt("record") /\ owner = None
  /\ Record([id |-> task, state |-> FinalState, verdict |-> verdict])
  /\ Report(verdict)
  /\ WorkerGoes(IF verdict \in {"timeout", "callback"} THEN "read" ELSE "judge")
  /\ UNCHANGED <<wstate, bodies, current, owner, saved>>

Rows(from, to, r) ==
  /\ WorkerAt(from)
  /\ wpc' = to /\ row' = r
  /\ UNCHANGED <<task, run, verdict, processing>>
  /\ WorkerOnly
  /\ UNCHANGED <<wstate, bodies, current, owner, output>>

\* The state is read again for `success' and once more for the row.
WorkerJudges == Rows("judge", "read", [row EXCEPT !.success = (FinalState = "COMPLETED")])
WorkerReads  == Rows("read", "save", [row EXCEPT !.state = FinalState])

\* saveWorkflowExecution tests persistence_ ...
WorkerChecksStore ==
  /\ WorkerAt("save")
  /\ WorkerGoes(IF persistent THEN "write" ELSE "done")
  /\ UNCHANGED <<wstate, bodies, current, owner, output>>

\* ... and uses it: a null pointer by then if disablePersistence() came between.
WorkerSaves ==
  /\ WorkerAt("write") /\ persistent
  /\ saved' = Append(saved, [id |-> task, state |-> row.state, success |-> row.success])
  /\ WorkerGoes("done")
  /\ UNCHANGED <<wstate, bodies, current, owner, results, reported>>

WorkerSavesToNull ==
  /\ WorkerAt("write") /\ ~persistent
  /\ life' = "crashed"
  /\ UNCHANGED <<wstate, bodies, table, current, owner, tasks, running, worker, output, clients>>

-----------------------------------------------------------------------------
(* Calls that are one section under mutex_, or touch no other state.       *)

ClientAt(c, l) == life # "crashed" /\ pc[c] = l

\* Idle clients are alike, so one of them makes the next call.
Caller == CHOOSE c \in Clients : pc[c] = "idle"

Enters(c, l, o, w, v) ==
  /\ life = "alive" /\ pc[c] = "idle" /\ c = Caller /\ calls < MaxCalls
  /\ calls' = calls + 1
  /\ pc' = [pc EXCEPT ![c] = l] /\ op' = [op EXCEPT ![c] = o]
  /\ target' = [target EXCEPT ![c] = w] /\ victim' = [victim EXCEPT ![c] = v]
  /\ UNCHANGED <<wstate, bodies, output>>

\* Calls that would change nothing are left out.
Quick(c) == Enters(c, "idle", "none", None, None) /\ UNCHANGED <<current, owner, life>>

registerWorkflow(c, w) ==
  /\ Quick(c) /\ owner = None
  /\ w \notin registered
  /\ registered' = registered \cup {w}
  /\ UNCHANGED <<persistent, defaultTimed, tasks, running, worker>>

setDefaultTimeout(c, on) ==
  /\ Quick(c) /\ owner = None
  /\ defaultTimed # on /\ defaultTimed' = on
  /\ UNCHANGED <<registered, persistent, tasks, running, worker>>

enablePersistence(c) ==
  /\ Quick(c)
  /\ ~persistent /\ persistent' = TRUE
  /\ UNCHANGED <<registered, defaultTimed, tasks, running, worker>>

disablePersistence(c) ==
  /\ Quick(c)
  /\ persistent /\ persistent' = FALSE
  /\ UNCHANGED <<registered, defaultTimed, tasks, running, worker>>

\* The thread is created with the first task.  No one is told of a later one.
enqueueWorkflow(c, k) ==
  /\ Quick(c) /\ owner = None
  /\ k \notin enqueued
  /\ enqueued' = enqueued \cup {k}
  /\ queue' = Append(queue, k)
  /\ accepted' = Append(accepted, k)
  /\ timed' = IF k \in Timed \/ defaultTimed THEN timed \cup {k} ELSE timed
  /\ running' = TRUE
  /\ wpc' = IF running THEN wpc ELSE "test"
  /\ UNCHANGED <<table, task, run, verdict, row, processing>>

\* A sequence without its entry at i.
Erase(i, seq) == [j \in 1 .. Len(seq) - 1 |-> IF j < i THEN seq[j] ELSE seq[j + 1]]

\* Mutant: the queue is rebuilt up to the task that is removed.
DequeueCuts(c, k) ==
  /\ Quick(c) /\ owner = None
  /\ \E i \in DOMAIN queue : queue[i] = k /\ queue' = SubSeq(queue, 1, i - 1)
  /\ \E i \in DOMAIN accepted : accepted[i] = k /\ accepted' = Erase(i, accepted)
  /\ UNCHANGED <<table, enqueued, timed, running, worker>>

\* A task that is not in the queue (any more) is left alone; it is there once.
dequeueWorkflow(c, k) ==
  /\ Quick(c) /\ owner = None
  /\ \E i \in DOMAIN queue : queue[i] = k /\ queue' = Erase(i, queue)
  /\ \E i \in DOMAIN accepted : accepted[i] = k /\ accepted' = Erase(i, accepted)
  /\ UNCHANGED <<table, enqueued, timed, running, worker>>

\* Mutant: nobody is notified.
WakeNobody == UNCHANGED wpc

\* queueCV_.notify: only a worker that already waits is woken.
Wake == wpc' = IF wpc = "blocked" THEN "test" ELSE wpc

processQueue(c) ==
  /\ Quick(c) /\ owner = None
  /\ wpc = "blocked" /\ Wake
  /\ UNCHANGED <<table, tasks, running, task, run, verdict, row, processing>>

-----------------------------------------------------------------------------
(* Calls that stop a workflow on their way: at "guard" the method reads    *)
(* its state, at "join" it waits for its execution thread.                 *)

EntersWith(c, l, o, w, v) ==
  Enters(c, l, o, w, v) /\ UNCHANGED <<table, current, tasks, running, worker, life>>

interrupt(c) ==
  /\ owner = None /\ current # None
  /\ EntersWith(c, "guard", "interrupt", None, current) /\ UNCHANGED owner

cancel(c) ==
  /\ owner = None /\ current # None
  /\ EntersWith(c, "guard", "cancel", None, current) /\ UNCHANGED owner

\* The current workflow is interrupted with mutex_ held.
unregisterWorkflow(c, w) ==
  /\ owner = None /\ w \in registered
  /\ EntersWith(c, IF current = w THEN "guard" ELSE "erase", "unregister", w, w)
  /\ owner' = c

startWorkflow(c, w) ==
  /\ owner = None /\ w \in registered
  /\ EntersWith(c, "test", "start", w, None) /\ UNCHANGED owner

\* The workflow that was current hands its context on if it was ever started.
switchWorkflow(c, w, preserveContext) ==
  /\ owner = None /\ w \in registered
  /\ LET keep == preserveContext /\ current # None /\ wstate[current] # "IDLE"
     IN  EntersWith(c, IF current = None THEN "set" ELSE "guard",
                    IF keep THEN "switchKeeping" ELSE "switch", w, current)
  /\ UNCHANGED owner

\* Not the manager's: a caller executes the workflow that it started.
executeCurrent(c) ==
  /\ owner = None /\ current # None /\ wstate[current] = "READY"
  /\ EntersWith(c, "launch", "execute", current, None) /\ UNCHANGED owner

Switching == {"switch", "switchKeeping"}

\* Where a method goes on once its victim is stopped or did not need it.
After(o) ==
  CASE o \in {"interrupt", "cancel"} -> "clear"
    [] o = "unregister"              -> "erase"
    [] o = "start"                   -> "clean"
    [] o \in Switching               -> "set"

Goes(c, l) ==
  /\ pc' = [pc EXCEPT ![c] = l]
  /\ UNCHANGED <<op, target, calls, table, tasks, running, worker, output>>

Returns(c) ==
  /\ pc' = [pc EXCEPT ![c] = "idle"] /\ op' = [op EXCEPT ![c] = "none"]
  /\ target' = [target EXCEPT ![c] = None] /\ victim' = [victim EXCEPT ![c] = None]
  /\ UNCHANGED <<calls, tasks, running, worker, output>>

\* The guards of BaseWorkflow::interrupt(), finish() and cancel().
Stops(o, s) ==
  IF o = "cancel" THEN s \notin {"COMPLETED", "INTERRUPTED", "TERMINATING", "CANCELED"}
                  ELSE s \in Running

\* Mutant: the name of the method is stored as the state.
StoppedRaw(o, s) == o

\* The state they leave once the execution thread is joined.
Stopped(o, s) ==
  IF o = "cancel" THEN SetState(s, "CANCELED")
  ELSE IF o \in Switching THEN SetState(SetState(s, "TERMINATING"), "COMPLETED")
  ELSE SetState(s, "INTERRUPTED")

ClientGuard(c) ==
  /\ ClientAt(c, "guard")
  /\ Goes(c, IF Stops(op[c], wstate[victim[c]]) THEN "join" ELSE After(op[c]))
  /\ UNCHANGED <<victim, wstate, bodies, current, owner, life>>

ClientJoin(c) ==
  /\ ClientAt(c, "join") /\ ~Alive(victim[c])
  /\ wstate' = [wstate EXCEPT ![victim[c]] = Stopped(op[c], @)]
  /\ Goes(c, After(op[c]))
  /\ UNCHANGED <<victim, bodies, current, owner, life>>

\* interrupt() and cancel() forget the current workflow, whichever it is by now.
ClientClear(c) ==
  /\ ClientAt(c, "clear") /\ owner = None
  /\ current' = None
  /\ Returns(c)
  /\ UNCHANGED <<wstate, bodies, table, owner, life>>

ClientErase(c) ==
  /\ ClientAt(c, "erase")
  /\ current' = IF current = target[c] THEN None ELSE current
  /\ registered' = registered \ {target[c]}
  /\ owner' = None
  /\ Returns(c)
  /\ UNCHANGED <<wstate, bodies, persistent, defaultTimed, life>>

-----------------------------------------------------------------------------
(* startWorkflow reads currentWorkflow_ four times outside the mutex.      *)

ClientTest(c) ==
  /\ ClientAt(c, "test")
  /\ Goes(c, IF current = None THEN "set" ELSE "load")
  /\ UNCHANGED <<victim, wstate, bodies, current, owner, life>>

ClientLoad(c) ==
  /\ ClientAt(c, "load") /\ current # None
  /\ victim' = [victim EXCEPT ![c] = current]
  /\ Goes(c, "guard")
  /\ UNCHANGED <<wstate, bodies, current, owner, life>>

ClientClean(c) ==
  /\ ClientAt(c, "clean") /\ current # None
  /\ Goes(c, "set")
  /\ UNCHANGED <<victim, wstate, bodies, current, owner, life>>

ClientSet(c) ==
  /\ ClientAt(c, "set") /\ owner = None
  /\ current' = target[c]
  /\ Goes(c, CASE op[c] = "start" -> "start"
               [] op[c] = "switch" -> "again"
               [] op[c] = "switchKeeping" -> "direct")
  /\ UNCHANGED <<victim, wstate, bodies, owner, life>>

\* The workflow that is started is the one that is current by now.
ClientStart(c) ==
  /\ ClientAt(c, "start") /\ current # None
  /\ StartWorkflow(current)
  /\ Returns(c)
  /\ UNCHANGED <<bodies, table, current, owner, life>>

\* currentWorkflow_ was reset by another thread.
ClientDerefsNull(c) ==
  /\ pc[c] \in {"load", "clean", "start"} /\ life # "crashed" /\ current = None
  /\ life' = "crashed"
  /\ UNCHANGED <<wstate, bodies, table, current, owner, tasks, running, worker, output, clients>>

\* switchWorkflow ends with start() in the context of the previous workflow ...
ClientDirect(c) ==
  /\ ClientAt(c, "direct")
  /\ StartWorkflow(target[c])
  /\ Returns(c)
  /\ UNCHANGED <<bodies, table, current, owner, life>>

\* ... or with startWorkflow(name), which looks the name up again.
ClientAgain(c) ==
  /\ ClientAt(c, "again") /\ owner = None
  /\ IF target[c] \in registered
       THEN /\ pc' = [pc EXCEPT ![c] = "test"] /\ op' = [op EXCEPT ![c] = "start"]
            /\ UNCHANGED <<target, victim, calls, tasks, running, worker, output>>
       ELSE Returns(c)
  /\ UNCHANGED <<wstate, bodies, table, current, owner, life>>

ClientLaunch(c) ==
  /\ ClientAt(c, "launch")
  /\ Launch(target[c], None)
  /\ Returns(c)
  /\ UNCHANGED <<wstate, table, current, owner, life>>

-----------------------------------------------------------------------------
(* The destructor: stopQueueProcessing lowers the flag and notifies        *)
(* without the mutex, then joins the worker.                               *)

Destroy(c) ==
  /\ \A d \in Clients : pc[d] = "idle"
  /\ Enters(c, "notify", "destroy", None, None)
  /\ running' = FALSE
  /\ life' = "destroyed"
  /\ UNCHANGED <<table, current, owner, tasks, worker>>

ClientNotify(c) ==
  /\ ClientAt(c, "notify")
  /\ pc' = [pc EXCEPT ![c] = "joinWorker"]
  /\ Wake
  /\ UNCHANGED <<op, target, victim, calls, wstate, bodies, table, current, owner, tasks,
                 running, task, run, verdict, row, processing, output, life>>

ClientJoinWorker(c) ==
  /\ ClientAt(c, "joinWorker") /\ wpc \in {"none", "ended"}
  /\ Returns(c)
  /\ UNCHANGED <<wstate, bodies, table, current, owner, life>>

-----------------------------------------------------------------------------

Calls(c) ==
  \/ \E w \in Workflows :
       \/ registerWorkflow(c, w) \/ unregisterWorkflow(c, w) \/ startWorkflow(c, w)
       \/ \E keep \in BOOLEAN : switchWorkflow(c, w, keep)
  \/ \E k \in Tasks : enqueueWorkflow(c, k) \/ dequeueWorkflow(c, k)
  \/ \E on \in BOOLEAN : setDefaultTimeout(c, on)
  \/ enablePersistence(c) \/ disablePersistence(c) \/ processQueue(c)
  \/ interrupt(c) \/ cancel(c) \/ executeCurrent(c) \/ Destroy(c)

CallSteps(c) ==
  \/ ClientGuard(c) \/ ClientJoin(c) \/ ClientClear(c) \/ ClientErase(c)
  \/ ClientTest(c) \/ ClientLoad(c) \/ ClientClean(c) \/ ClientSet(c) \/ ClientStart(c)
  \/ ClientDirect(c) \/ ClientAgain(c) \/ ClientLaunch(c)
  \/ ClientNotify(c) \/ ClientJoinWorker(c) \/ ClientDerefsNull(c)

WorkerSteps ==
  \/ WorkerStops \/ WorkerTests \/ WorkerBlocks \/ WorkerTakes \/ WorkerDone
  \/ WorkerLooksUp \/ WorkerSelects \/ WorkerStarts \/ WorkerExecutes \/ WorkerLaunches
  \/ WorkerCollects \/ WorkerInterrupts \/ WorkerJoins \/ WorkerRecords
  \/ WorkerJudges \/ WorkerReads \/ WorkerChecksStore \/ WorkerSaves \/ WorkerSavesToNull

Next ==
  \/ \E c \in Clients : Calls(c) \/ CallSteps(c)
  \/ WorkerSteps \/ WorkerTimesOut \/ SpuriousWakeup
  \/ \E w \in Workflows : BodyBegins(w) \/ BodyEnds(w)

\* Threads that can go on do, and a body ends when it began.  No one has to make a call, a
\* wait need not wake by itself, and a timeout may come as late as it likes.
Fairness ==
  /\ \A c \in Clients : WF_vars(CallSteps(c))
  /\ WF_vars(WorkerSteps)
  /\ \A w \in Workflows : WF_vars(BodyBegins(w) \/ BodyEnds(w))

Spec == Init /\ [][Next]_vars /\ Fairness

-----------------------------------------------------------------------------
(* Properties.                                                             *)

TypeOK ==
  /\ wstate \in [Workflows -> WorkflowState]
  /\ launched \in [Workflows -> Nat] /\ ended \in [Workflows -> Nat]
  /\ begun \in [Workflows -> BOOLEAN] /\ runner \in [Workflows -> Tasks \cup {None}]
  /\ registered \subseteq Workflows /\ current \in Workflows \cup {None}
  /\ owner \in Clients \cup {Worker, None}
  /\ persistent \in BOOLEAN /\ defaultTimed \in BOOLEAN
  /\ queue \in Seq(Tasks) /\ accepted \in Seq(Tasks)
  /\ timed \subseteq Tasks /\ enqueued \subseteq Tasks
  /\ running \in BOOLEAN /\ processing \in BOOLEAN
  /\ wpc \in WorkerLabel /\ task \in Tasks \cup {None} /\ run \in Nat /\ verdict \in Verdict
  /\ row \in [state : WorkflowState, success : BOOLEAN]
  /\ results \in Seq([id : Tasks, state : WorkflowState, verdict : Verdict])
  /\ saved \in Seq([id : Tasks, state : WorkflowState, success : BOOLEAN])
  /\ reported \in Seq([id : Tasks, verdict : Verdict])
  /\ pc \in [Clients -> ClientLabel] /\ op \in [Clients -> Method]
  /\ target \in [Clients -> Workflows \cup {None}]
  /\ victim \in [Clients -> Workflows \cup {None}]
  /\ calls \in Nat
  /\ life \in {"alive", "destroyed", "crashed"}

\* The task the worker holds and has not reported yet.
InHand == IF task # None /\ wpc \notin {"judge", "read", "save", "write", "done"} THEN <<task>> ELSE <<>>

ReportedIds == [i \in DOMAIN reported |-> reported[i].id]

\* No task is lost, run twice or overtaken: the tasks that were enqueued and not dequeued
\* are, in the order they came, those reported, the one in hand and those in the queue.
TasksInOrder ==
  /\ wpc = "done" => reported # <<>> /\ reported[Len(reported)].id = task
  /\ accepted = ReportedIds \o InHand \o queue

\* What callers poll for: when the queue is empty and isQueueProcessing() is false, every
\* accepted task was reported, and its result can be read unless newer ones displaced it.
QuietMeansDone ==
  queue = <<>> /\ ~processing =>
    /\ accepted = ReportedIds
    /\ \A i \in DOMAIN reported :
         reported[i].verdict = "missing" \/ i + MaxResults <= Len(reported)
         \/ \E j \in DOMAIN results : results[j].id = reported[i].id

\* The result of a task whose run was waited for carries the state the workflow ended in,
\* which is final, and the row in the database agrees with the result.
ResultsAreFinal ==
  /\ \A i \in DOMAIN results :
       LET r == results[i]
       IN  r.verdict = "ended" => /\ Stage(r.state) = Final
                                  /\ r.state = wstate[WorkflowOf[r.id]]
  /\ \A i \in DOMAIN saved, j \in DOMAIN results :
       saved[i].id = results[j].id /\ results[j].verdict # "notReady"
         => /\ saved[i].state = results[j].state
            /\ saved[i].success = (saved[i].state = "COMPLETED")

\* While the worker runs a task, a body it launched for an earlier one is still running
\* only if that task timed out.
OverlapNeedsTimeout ==
  \A w \in Workflows :
    Alive(w) /\ runner[w] # None /\ runner[w] # task
      => \E i \in DOMAIN reported : reported[i] = [id |-> runner[w], verdict |-> "timeout"]

\* A worker that is not waiting gets through the queue, however calls and runs interleave:
\* a body always ends, so the current workflow does not hold it up for ever.
AwakeWorkerDrains ==
  (wpc \notin {"none", "blocked", "ended"}) ~> (queue = <<>> \/ ~running \/ life = "crashed")

\* The destructor returns, whatever the worker is doing, except when it lowers the flag
\* while the worker is between its test of the predicate and its wait: the notification
\* can then be lost.
DestructorReturns ==
  \A c \in Clients :
    (pc[c] = "notify" /\ wpc # "tested") ~> (pc[c] = "idle" \/ life = "crashed")

\* enqueueWorkflow() hands the task to the processing thread (the comments in the loop:
\* the worker waits for tasks), so a task does not stay in the queue for ever.
EnqueuedIsTaken ==
  \A k \in Tasks :
    (\E i \in DOMAIN queue : queue[i] = k)
      ~> ((\A i \in DOMAIN queue : queue[i] # k) \/ life # "alive")

\* A task with a COMPLETED result was run: the last run the queue made of its workflow was
\* for this task (onComplete is "the completion callback", finalState "the final state").
CompletedWasRun ==
  \A i \in DOMAIN results :
    results[i].state = "COMPLETED"
      => runner[WorkflowOf[results[i].id]] \in {results[i].id, None}

=============================================================================

----------------------- MODULE WorkflowManagerProofs ------------------------
(***************************************************************************)
(* Proofs about WorkflowManager for any callers, workflows, tasks and      *)
(* numbers of calls: its types, the order of the tasks, what overlaps and  *)
(* what the results say.                                                   *)
(***************************************************************************)
EXTENDS WorkflowManager, SequenceTheorems, TLAPS

-----------------------------------------------------------------------------
(* Places.  What the worker holds where it is, and what a client works on. *)

Resting == {"none", "test", "tested", "blocked", "ended"}

\* The worker has a task that it has not launched.
Fresh == {"lookup", "select", "start", "execute", "launch"}

\* The worker reported its task.
Told == {"judge", "read", "save", "write", "done"}

Outcome == {"timeout", "callback", "ended", "notReady"}

WorkerInv ==
  /\ wpc \in Resting => task = None /\ verdict = "none" /\ row = NoRow /\ processing = FALSE
  /\ wpc \notin Resting => task \in Tasks /\ processing = TRUE
  /\ wpc \in Fresh \cup {"await"} => verdict = "none" /\ row = NoRow
  /\ wpc = "await" => run >= 1
  /\ wpc \in {"stop", "join"} => verdict = "timeout" /\ row = NoRow
  /\ wpc = "record" => verdict \in Outcome /\ row = NoRow
  /\ wpc = "judge" => verdict \in {"ended", "notReady"} /\ row = NoRow
  /\ wpc \in {"read", "save", "write"} => verdict \in Outcome
  /\ life = "alive" /\ running = FALSE => wpc = "none"

Stoppers == {"interrupt", "cancel", "unregister", "start"} \cup Switching

Targeted == {"unregister", "start", "execute"} \cup Switching

\* What a client at l, in method o, has as its target w and its victim v.
Placed(l, o, w, v) ==
  /\ o \in Targeted => w \in Workflows
  /\ l \in {"guard", "join"} => o \in Stoppers /\ v \in Workflows
  /\ l \in {"test", "load", "clean", "start"} => o = "start"
  /\ l = "set" => o \in {"start"} \cup Switching
  /\ l \in {"again", "direct"} => o \in Switching
  /\ l = "erase" => o = "unregister"
  /\ l = "launch" => o = "execute"

ClientInv == \A c \in Clients : Placed(pc[c], op[c], target[c], victim[c])

Core == TypeOK /\ WorkerInv /\ ClientInv

\* A step that leaves the worker with what it has; it may wake up or be created.
WorkerKept ==
  /\ UNCHANGED <<task, run, verdict, row, processing, results, saved, reported>>
  /\ wpc' = wpc \/ (wpc \in Resting /\ wpc' = "test")

LEMMA Labels ==
  /\ Resting \subseteq WorkerLabel /\ Fresh \subseteq WorkerLabel /\ Told \subseteq WorkerLabel
  /\ Outcome \subseteq Verdict
  BY DEF Resting, Fresh, Told, Outcome, WorkerLabel, Verdict

LEMMA SetStateType ==
  ASSUME NEW s \in WorkflowState, NEW t \in WorkflowState
  PROVE  SetState(s, t) \in WorkflowState
  BY DEF SetState

LEMMA Names ==
  {"IDLE", "INITIALIZING", "READY", "EXECUTING", "COMPLETED", "INTERRUPTED", "CANCELED",
   "ERROR", "TERMINATING"} \subseteq WorkflowState
  BY DEF WorkflowState, Running, Terminal

LEMMA StoppedType ==
  ASSUME NEW s \in WorkflowState, NEW o
  PROVE  Stopped(o, s) \in WorkflowState
  BY SetStateType, Names DEF Stopped

LEMMA FinalStateType ==
  ASSUME TypeOK, verdict \in Outcome, task \in Tasks
  PROVE  FinalState \in WorkflowState
  BY Names, Assumptions DEF FinalState, Outcome, TypeOK, Mine

LEMMA EraseType ==
  ASSUME NEW T, NEW seq \in Seq(T), NEW i \in 1 .. Len(seq)
  PROVE  Erase(i, seq) \in Seq(T) /\ Len(Erase(i, seq)) = Len(seq) - 1
  BY DEF Erase

LEMMA AppendType ==
  ASSUME NEW T, NEW seq \in Seq(T), NEW x \in T
  PROVE  Append(seq, x) \in Seq(T)
  OBVIOUS

LEMMA CoreInit == Init => Core
  <1> SUFFICES ASSUME Init PROVE Core
    OBVIOUS
  <1>1. wstate \in [Workflows -> WorkflowState] BY Names DEF Init
  <1>2. /\ launched \in [Workflows -> Nat] /\ ended \in [Workflows -> Nat]
        /\ begun \in [Workflows -> BOOLEAN] /\ runner \in [Workflows -> Tasks \cup {None}]
    BY DEF Init
  <1>3. /\ queue \in Seq(Tasks) /\ accepted \in Seq(Tasks)
        /\ results \in Seq([id : Tasks, state : WorkflowState, verdict : Verdict])
        /\ saved \in Seq([id : Tasks, state : WorkflowState, success : BOOLEAN])
        /\ reported \in Seq([id : Tasks, verdict : Verdict])
    BY DEF Init
  <1>4. row \in [state : WorkflowState, success : BOOLEAN] BY Names DEF Init, NoRow
  <1>5. pc \in [Clients -> ClientLabel] /\ op \in [Clients -> Method]
    BY DEF Init, ClientLabel, Method
  <1>6. /\ target \in [Clients -> Workflows \cup {None}]
        /\ victim \in [Clients -> Workflows \cup {None}]
    BY DEF Init
  <1>7. wpc \in WorkerLabel /\ verdict \in Verdict BY DEF Init, WorkerLabel, Verdict
  <1>8. TypeOK BY <1>1, <1>2, <1>3, <1>4, <1>5, <1>6, <1>7 DEF Init, TypeOK
  <1>9. WorkerInv BY DEF Init, WorkerInv, Resting, Fresh
  <1>10. ClientInv BY DEF Init, ClientInv, Placed, Targeted, Switching
  <1> QED BY <1>8, <1>9, <1>10 DEF Core

-----------------------------------------------------------------------------
(* Types and places, step by step.                                         *)

\* The worker's part of TypeOK, and the rest of it.
WorkerTypes ==
  /\ processing \in BOOLEAN /\ wpc \in WorkerLabel /\ task \in Tasks \cup {None}
  /\ run \in Nat /\ verdict \in Verdict
  /\ row \in [state : WorkflowState, success : BOOLEAN]
  /\ results \in Seq([id : Tasks, state : WorkflowState, verdict : Verdict])
  /\ saved \in Seq([id : Tasks, state : WorkflowState, success : BOOLEAN])
  /\ reported \in Seq([id : Tasks, verdict : Verdict])

ClientTypes ==
  /\ pc \in [Clients -> ClientLabel] /\ op \in [Clients -> Method]
  /\ target \in [Clients -> Workflows \cup {None}]
  /\ victim \in [Clients -> Workflows \cup {None}]
  /\ calls \in Nat
  /\ life \in {"alive", "destroyed", "crashed"}

WorkflowTypes ==
  /\ wstate \in [Workflows -> WorkflowState]
  /\ launched \in [Workflows -> Nat] /\ ended \in [Workflows -> Nat]
  /\ begun \in [Workflows -> BOOLEAN] /\ runner \in [Workflows -> Tasks \cup {None}]

TableTypes ==
  /\ registered \subseteq Workflows /\ current \in Workflows \cup {None}
  /\ owner \in Clients \cup {Worker, None}
  /\ persistent \in BOOLEAN /\ defaultTimed \in BOOLEAN
  /\ queue \in Seq(Tasks) /\ accepted \in Seq(Tasks)
  /\ timed \subseteq Tasks /\ enqueued \subseteq Tasks
  /\ running \in BOOLEAN

LEMMA TypeParts == TypeOK <=> WorkerTypes /\ ClientTypes /\ WorkflowTypes /\ TableTypes
  BY DEF TypeOK, WorkerTypes, ClientTypes, WorkflowTypes, TableTypes

LEMMA CoreParts ==
  WorkerTypes' /\ ClientTypes' /\ WorkflowTypes' /\ TableTypes' /\ WorkerInv' /\ ClientInv' => Core'
  BY DEF Core, TypeOK, WorkerTypes, ClientTypes, WorkflowTypes, TableTypes

LEMMA KeptWorker ==
  ASSUME Core, WorkerKept, running' = running \/ running' = TRUE \/ life' # "alive",
         life' = life \/ life' # "alive", life' = "alive" /\ running' = FALSE => wpc' = wpc
  PROVE  WorkerTypes' /\ WorkerInv'
  <1>1. WorkerTypes' BY Labels, TypeParts DEF Core, WorkerKept, WorkerTypes, Resting
  <1>2. WorkerInv' BY DEF Core, WorkerKept, WorkerInv, Resting, Fresh
  <1> QED BY <1>1, <1>2

\* Places that the worker passes without a change of what it holds.
LEMMA WorkerGoesOn ==
  ASSUME Core, WorkerSteps \/ WorkerTimesOut \/ SpuriousWakeup
  PROVE  WorkerTypes' /\ WorkerInv' /\ ClientTypes' /\ ClientInv'
  <1> USE DEF WorkerAt
  <1>0. WorkerTypes /\ WorkerInv /\ ClientTypes /\ ClientInv /\ WorkflowTypes /\ TableTypes
    BY TypeParts DEF Core
  <1>1. UNCHANGED clients /\ (life' = life \/ life' = "crashed") /\ running' = running
    BY DEF WorkerSteps, WorkerTimesOut, SpuriousWakeup, WorkerStops, WorkerTests, WorkerBlocks,
           WorkerTakes, WorkerDone, WorkerLooksUp, WorkerSelects, WorkerStarts, WorkerExecutes,
           WorkerLaunches, WorkerCollects, WorkerInterrupts, WorkerJoins, WorkerRecords,
           WorkerJudges, WorkerReads, Rows, WorkerChecksStore, WorkerSaves, WorkerSavesToNull,
           WorkerGoes, WorkerOnly
  <1>2. ClientTypes' /\ ClientInv'
    BY <1>0, <1>1 DEF ClientTypes, ClientInv, clients
  <1> SUFFICES WorkerTypes' /\ WorkerInv'
    BY <1>2
  <1>3. CASE WorkerStops \/ WorkerTests \/ WorkerBlocks \/ SpuriousWakeup
    BY <1>0, <1>3 DEF WorkerStops, WorkerTests, WorkerBlocks, SpuriousWakeup, WorkerGoes,
                      WorkerOnly, output, WorkerTypes, WorkerInv, Resting, Fresh, WorkerLabel
  <1>4. CASE WorkerTakes
    <2>1. task' \in Tasks BY <1>0, <1>4 DEF WorkerTakes, TableTypes
    <2> QED BY <1>0, <1>4, <2>1 DEF WorkerTakes, output, WorkerTypes, WorkerInv, Resting, Fresh,
                                    WorkerLabel
  <1>5. CASE WorkerDone
    <2>1. NoRow \in [state : WorkflowState, success : BOOLEAN] BY Names DEF NoRow
    <2> QED BY <1>0, <1>5, <2>1 DEF WorkerDone, WorkerOnly, output, WorkerTypes, WorkerInv, Resting,
                                    Fresh, WorkerLabel, Verdict
  <1>6. CASE WorkerLooksUp
    <2>1. task \in Tasks BY <1>0, <1>6 DEF WorkerLooksUp, WorkerInv, Resting
    <2>2. reported' \in Seq([id : Tasks, verdict : Verdict])
      <3>1. [id |-> task, verdict |-> "missing"] \in [id : Tasks, verdict : Verdict]
        BY <2>1 DEF Verdict
      <3>2. reported' \in {reported, Append(reported, [id |-> task, verdict |-> "missing"])}
        BY <1>6 DEF WorkerLooksUp, Report
      <3>3. reported \in Seq([id : Tasks, verdict : Verdict]) BY <1>0 DEF WorkerTypes
      <3>4. Append(reported, [id |-> task, verdict |-> "missing"])
              \in Seq([id : Tasks, verdict : Verdict])
        BY <3>1, <3>3, AppendType
      <3> QED BY <3>2, <3>3, <3>4
    <2> QED BY <1>0, <1>6, <2>2 DEF WorkerLooksUp, WorkerGoes, WorkerOnly, WorkerTypes, WorkerInv,
                                    Resting, Fresh, WorkerLabel
  <1>7. CASE WorkerSelects \/ WorkerStarts \/ WorkerInterrupts \/ WorkerJoins \/ WorkerChecksStore
    BY <1>0, <1>7 DEF WorkerSelects, WorkerStarts, WorkerInterrupts, WorkerJoins, WorkerChecksStore,
                      WorkerGoes, WorkerOnly, output, WorkerTypes, WorkerInv, Resting, Fresh,
                      WorkerLabel, Outcome
  <1>8. CASE WorkerExecutes
    BY <1>0, <1>8 DEF WorkerExecutes, WorkerOnly, output, WorkerTypes, WorkerInv, Resting, Fresh,
                      WorkerLabel, Outcome, Verdict
  <1>9. CASE WorkerLaunches
    <2>1. run' \in Nat /\ run' >= 1
      <3>1. Mine \in Workflows /\ launched[Mine] \in Nat
        BY <1>0, <1>9, Assumptions DEF WorkerLaunches, WorkerInv, Resting, Mine, WorkflowTypes
      <3>2. run' = launched[Mine] + 1
        BY <1>0, <1>9, <3>1 DEF WorkerLaunches, Launch, WorkflowTypes
      <3> QED BY <3>1, <3>2
    <2> QED BY <1>0, <1>9, <2>1 DEF WorkerLaunches, WorkerOnly, output, WorkerTypes, WorkerInv,
                                    Resting, Fresh, WorkerLabel
  <1>10. CASE WorkerCollects \/ WorkerTimesOut
    BY <1>0, <1>10 DEF WorkerCollects, WorkerTimesOut, WorkerOnly, output, WorkerTypes, WorkerInv,
                       Resting, Fresh, WorkerLabel, Outcome, Verdict
  <1>11. CASE WorkerRecords
    <2>1. task \in Tasks /\ verdict \in Outcome
      BY <1>0, <1>11 DEF WorkerRecords, WorkerInv, Resting
    <2>2. [id |-> task, state |-> FinalState, verdict |-> verdict]
            \in [id : Tasks, state : WorkflowState, verdict : Verdict]
      BY <2>1, FinalStateType, Labels DEF Core
    <2>3. results' \in Seq([id : Tasks, state : WorkflowState, verdict : Verdict])
      <3>1. CASE Len(results) = MaxResults
        <4>1. Tail(results) \in Seq([id : Tasks, state : WorkflowState, verdict : Verdict])
          BY <1>0, <3>1, Assumptions DEF WorkerTypes
        <4> QED BY <1>11, <2>2, <3>1, <4>1 DEF WorkerRecords, Record
      <3>2. CASE Len(results) # MaxResults
        <4>1. results' = Append(results, [id |-> task, state |-> FinalState, verdict |-> verdict])
          BY <1>11, <3>2 DEF WorkerRecords, Record
        <4> QED BY <1>0, <2>2, <4>1, AppendType DEF WorkerTypes
      <3> QED BY <3>1, <3>2
    <2>4. reported' \in Seq([id : Tasks, verdict : Verdict])
      BY <1>0, <1>11, <2>1, Labels DEF WorkerRecords, Report, WorkerTypes
    <2>5. UNCHANGED <<task, run, verdict, row, processing, saved, running, life>>
          /\ wpc' = (IF verdict \in {"timeout", "callback"} THEN "read" ELSE "judge")
      BY <1>11 DEF WorkerRecords, WorkerGoes, WorkerOnly, tasks
    <2>6. WorkerTypes' BY <1>0, <2>3, <2>4, <2>5 DEF WorkerTypes, WorkerLabel
    <2>7. WorkerInv' BY <1>0, <1>11, <2>1, <2>5 DEF WorkerRecords, WorkerInv, Resting, Fresh, Outcome
    <2> QED BY <2>6, <2>7
  <1>12. CASE WorkerJudges \/ WorkerReads
    <2>1. wpc \in {"judge", "read"} /\ task \in Tasks /\ verdict \in Outcome
      BY <1>0, <1>12 DEF WorkerJudges, WorkerReads, Rows, WorkerInv, Resting, Outcome
    <2>2. FinalState \in WorkflowState BY <2>1, FinalStateType DEF Core
    <2>3. row' \in [state : WorkflowState, success : BOOLEAN]
      <3>1. (FinalState = "COMPLETED") \in BOOLEAN OBVIOUS
      <3>2. row \in [state : WorkflowState, success : BOOLEAN] BY <1>0 DEF WorkerTypes
      <3>3. \/ row' = [row EXCEPT !.success = (FinalState = "COMPLETED")]
            \/ row' = [row EXCEPT !.state = FinalState]
        BY <1>12 DEF WorkerJudges, WorkerReads, Rows
      <3> QED BY <2>2, <3>1, <3>2, <3>3
    <2>4. /\ (wpc = "judge" /\ wpc' = "read") \/ (wpc = "read" /\ wpc' = "save")
          /\ UNCHANGED <<task, run, verdict, processing, results, saved, reported>>
          /\ UNCHANGED <<running, life>>
      BY <1>12 DEF WorkerJudges, WorkerReads, Rows, WorkerOnly, output
    <2>5. WorkerTypes' BY <1>0, <2>3, <2>4 DEF WorkerTypes, WorkerLabel
    <2>6. WorkerInv' BY <1>0, <2>1, <2>4 DEF WorkerInv, Resting, Fresh, Outcome
    <2> QED BY <2>5, <2>6
  <1>13. CASE WorkerSaves
    <2>1. wpc = "write" /\ task \in Tasks BY <1>0, <1>13 DEF WorkerSaves, WorkerInv, Resting
    <2>2. row.state \in WorkflowState /\ row.success \in BOOLEAN BY <1>0 DEF WorkerTypes
    <2>3. saved' \in Seq([id : Tasks, state : WorkflowState, success : BOOLEAN])
      <3>1. [id |-> task, state |-> row.state, success |-> row.success]
               \in [id : Tasks, state : WorkflowState, success : BOOLEAN]
        BY <2>1, <2>2
      <3> QED BY <1>0, <1>13, <3>1 DEF WorkerSaves, WorkerTypes
    <2> QED BY <1>0, <1>13, <2>1, <2>3 DEF WorkerSaves, WorkerGoes, WorkerOnly, WorkerTypes,
                              WorkerInv, Resting, Fresh, WorkerLabel
  <1>14. CASE WorkerSavesToNull
    BY <1>0, <1>14 DEF WorkerSavesToNull, worker, output, WorkerTypes, WorkerInv, tasks
  <1> QED BY <1>3, <1>4, <1>5, <1>6, <1>7, <1>8, <1>9, <1>10, <1>11, <1>12, <1>13, <1>14
          DEF WorkerSteps

\* A method is entered, goes on or returns: what the client is at and works on fits again.
LEMMA EntersPlaced ==
  ASSUME Core, NEW c \in Clients, NEW l \in ClientLabel, NEW o \in Method,
         NEW w \in Workflows \cup {None}, NEW v \in Workflows \cup {None},
         Enters(c, l, o, w, v), Placed(l, o, w, v), life' \in {life, "destroyed"}
  PROVE  ClientTypes' /\ ClientInv' /\ WorkflowTypes'
  <1>0. ClientTypes /\ ClientInv /\ WorkflowTypes BY TypeParts DEF Core
  <1>1. ClientTypes' BY <1>0 DEF Enters, ClientTypes
  <1>2. ASSUME NEW d \in Clients PROVE Placed(pc'[d], op'[d], target'[d], victim'[d])
    <2>1. CASE d = c
      <3>1. pc'[d] = l /\ op'[d] = o /\ target'[d] = w /\ victim'[d] = v
        BY <1>0, <2>1 DEF Enters, ClientTypes
      <3> QED BY <3>1
    <2>2. CASE d # c
      <3>1. pc'[d] = pc[d] /\ op'[d] = op[d] /\ target'[d] = target[d] /\ victim'[d] = victim[d]
        BY <1>0, <2>2 DEF Enters, ClientTypes
      <3> QED BY <1>0, <3>1 DEF ClientInv
    <2> QED BY <2>1, <2>2
  <1>3. ClientInv' BY <1>2 DEF ClientInv
  <1>4. WorkflowTypes' BY <1>0 DEF Enters, bodies, WorkflowTypes
  <1> QED BY <1>1, <1>3, <1>4

LEMMA MovesPlaced ==
  ASSUME Core, NEW c \in Clients, NEW l \in ClientLabel, NEW o \in Method,
         NEW w \in Workflows \cup {None}, NEW v \in Workflows \cup {None},
         pc' = [pc EXCEPT ![c] = l], op' = [op EXCEPT ![c] = o],
         target' = [target EXCEPT ![c] = w], victim' = [victim EXCEPT ![c] = v],
         Placed(l, o, w, v), UNCHANGED calls, life' \in {life, "crashed"}
  PROVE  ClientTypes' /\ ClientInv'
  <1>0. ClientTypes /\ ClientInv BY TypeParts DEF Core
  <1>1. ClientTypes' BY <1>0 DEF ClientTypes
  <1>2. ASSUME NEW d \in Clients PROVE Placed(pc'[d], op'[d], target'[d], victim'[d])
    <2>1. CASE d = c
      <3>1. pc'[d] = l /\ op'[d] = o /\ target'[d] = w /\ victim'[d] = v
        BY <1>0, <2>1 DEF ClientTypes
      <3> QED BY <3>1
    <2>2. CASE d # c
      <3>1. pc'[d] = pc[d] /\ op'[d] = op[d] /\ target'[d] = target[d] /\ victim'[d] = victim[d]
        BY <1>0, <2>2 DEF ClientTypes
      <3> QED BY <1>0, <3>1 DEF ClientInv
    <2> QED BY <2>1, <2>2
  <1>3. ClientInv' BY <1>2 DEF ClientInv
  <1> QED BY <1>1, <1>3

LEMMA GoesPlaced ==
  ASSUME Core, NEW c \in Clients, NEW l \in ClientLabel, Goes(c, l), UNCHANGED <<victim, life>>,
         Placed(l, op[c], target[c], victim[c])
  PROVE  ClientTypes' /\ ClientInv'
  <1>0. ClientTypes BY TypeParts DEF Core
  <1>1. op[c] \in Method /\ target[c] \in Workflows \cup {None} /\ victim[c] \in Workflows \cup {None}
    BY <1>0 DEF ClientTypes
  <1>2. /\ op' = [op EXCEPT ![c] = op[c]] /\ target' = [target EXCEPT ![c] = target[c]]
        /\ victim' = [victim EXCEPT ![c] = victim[c]]
    BY <1>0 DEF Goes, ClientTypes
  <1>3. pc' = [pc EXCEPT ![c] = l] /\ UNCHANGED calls BY DEF Goes
  <1> QED BY <1>1, <1>2, <1>3, MovesPlaced

LEMMA ReturnsPlaced ==
  ASSUME Core, NEW c \in Clients, Returns(c), UNCHANGED life
  PROVE  ClientTypes' /\ ClientInv'
  <1>1. Placed("idle", "none", None, None) BY DEF Placed, Targeted, Switching
  <1>2. "idle" \in ClientLabel /\ "none" \in Method BY DEF ClientLabel, Method
  <1> QED BY <1>1, <1>2, MovesPlaced DEF Returns

\* Calls that are one step.
LEMMA QuickStep ==
  ASSUME Core, NEW c \in Clients,
         \/ \E w \in Workflows : registerWorkflow(c, w)
         \/ \E k \in Tasks : enqueueWorkflow(c, k) \/ dequeueWorkflow(c, k)
         \/ \E on \in BOOLEAN : setDefaultTimeout(c, on)
         \/ enablePersistence(c) \/ disablePersistence(c) \/ processQueue(c)
  PROVE  Core' /\ WorkerKept
  <1>0. WorkerTypes /\ WorkerInv /\ ClientTypes /\ ClientInv /\ WorkflowTypes /\ TableTypes
    BY TypeParts DEF Core
  <1>1. Quick(c)
    BY DEF registerWorkflow, enqueueWorkflow, dequeueWorkflow, setDefaultTimeout,
           enablePersistence, disablePersistence, processQueue
  <1>2. ClientTypes' /\ ClientInv' /\ WorkflowTypes' /\ UNCHANGED <<current, owner, life>>
    <2>1. Placed("idle", "none", None, None) BY DEF Placed, Targeted, Switching
    <2>2. "idle" \in ClientLabel /\ "none" \in Method BY DEF ClientLabel, Method
    <2> QED BY <1>1, <2>1, <2>2, EntersPlaced DEF Quick
  <1>3. life = "alive" /\ UNCHANGED <<results, saved, reported>>
    BY <1>1 DEF Quick, Enters, output
  <1>4. ASSUME NEW k \in Tasks, enqueueWorkflow(c, k) PROVE TableTypes' /\ WorkerKept /\ running' = TRUE
    <2>1. WorkerKept
      <3>1. /\ UNCHANGED <<task, run, verdict, row, processing>>
            /\ wpc' = (IF running THEN wpc ELSE "test")
        BY <1>4 DEF enqueueWorkflow
      <3>2. running = FALSE => wpc = "none" BY <1>0, <1>3 DEF WorkerInv
      <3>3. running \in BOOLEAN BY <1>0 DEF TableTypes
      <3> QED BY <1>3, <3>1, <3>2, <3>3 DEF WorkerKept, Resting
    <2>2. queue' \in Seq(Tasks) /\ accepted' \in Seq(Tasks)
      BY <1>0, <1>4, AppendType DEF enqueueWorkflow, TableTypes
    <2> QED BY <1>0, <1>2, <1>4, <2>1, <2>2 DEF enqueueWorkflow, TableTypes, table
  <1>5. ASSUME NEW k \in Tasks, dequeueWorkflow(c, k)
        PROVE  TableTypes' /\ WorkerKept /\ UNCHANGED <<running, wpc>>
    <2>1. PICK i \in DOMAIN queue : queue' = Erase(i, queue) BY <1>5 DEF dequeueWorkflow
    <2>2. PICK m \in DOMAIN accepted : accepted' = Erase(m, accepted) BY <1>5 DEF dequeueWorkflow
    <2>3. queue' \in Seq(Tasks) /\ accepted' \in Seq(Tasks)
      BY <1>0, <2>1, <2>2, EraseType DEF TableTypes
    <2>4. WorkerKept
      <3>1. UNCHANGED worker BY <1>5 DEF dequeueWorkflow
      <3> QED BY <1>3, <3>1 DEF worker, WorkerKept
    <2> QED BY <1>0, <1>2, <1>5, <2>3, <2>4 DEF dequeueWorkflow, TableTypes, table, worker
  <1>6. ASSUME \/ \E w \in Workflows : registerWorkflow(c, w)
               \/ \E on \in BOOLEAN : setDefaultTimeout(c, on)
               \/ enablePersistence(c) \/ disablePersistence(c)
        PROVE  TableTypes' /\ WorkerKept /\ UNCHANGED <<running, wpc>>
    <2>1. UNCHANGED <<tasks, running, worker>>
      BY <1>6 DEF registerWorkflow, setDefaultTimeout, enablePersistence, disablePersistence
    <2>2. registered' \subseteq Workflows /\ persistent' \in BOOLEAN /\ defaultTimed' \in BOOLEAN
      BY <1>0, <1>6 DEF registerWorkflow, setDefaultTimeout, enablePersistence,
                        disablePersistence, TableTypes
    <2>3. WorkerKept BY <1>3, <2>1 DEF worker, WorkerKept
    <2> QED BY <1>0, <1>2, <2>1, <2>2, <2>3 DEF tasks, worker, TableTypes
  <1>7. ASSUME processQueue(c) PROVE TableTypes' /\ WorkerKept /\ running' = running
    BY <1>0, <1>2, <1>3, <1>7 DEF processQueue, Wake, WorkerKept, Resting, TableTypes, table, tasks
  <1>8. TableTypes' /\ WorkerKept BY <1>4, <1>5, <1>6, <1>7
  <1>9. (running' = TRUE \/ running' = running) /\ (running' = FALSE => wpc' = wpc)
    <2>1. ASSUME processQueue(c), running' = FALSE PROVE wpc' = wpc
      BY <1>0, <1>3, <1>7, <2>1 DEF processQueue, WorkerInv
    <2> QED BY <1>4, <1>5, <1>6, <1>7, <2>1
  <1>10. WorkerTypes' /\ WorkerInv' BY <1>2, <1>8, <1>9, KeptWorker
  <1> QED BY <1>2, <1>8, <1>10, CoreParts

\* Calls that take several steps, as they begin.
LEMMA LongCall ==
  ASSUME Core, NEW c \in Clients,
         \/ \E w \in Workflows : \/ unregisterWorkflow(c, w) \/ startWorkflow(c, w)
                                 \/ \E keep \in BOOLEAN : switchWorkflow(c, w, keep)
         \/ interrupt(c) \/ cancel(c) \/ executeCurrent(c)
  PROVE  Core' /\ WorkerKept /\ UNCHANGED <<queue, accepted, enqueued>>
  <1>0. WorkerTypes /\ WorkerInv /\ ClientTypes /\ ClientInv /\ WorkflowTypes /\ TableTypes
    BY TypeParts DEF Core
  <1>1. ASSUME NEW l, NEW o, NEW w, NEW v, EntersWith(c, l, o, w, v), owner' \in {owner, c},
               l \in ClientLabel, o \in Method, w \in Workflows \cup {None},
               v \in Workflows \cup {None}, Placed(l, o, w, v)
        PROVE  Core' /\ WorkerKept /\ UNCHANGED <<queue, accepted, enqueued>>
    <2>1. /\ Enters(c, l, o, w, v) /\ UNCHANGED <<table, current, tasks, running, worker, life>>
          /\ UNCHANGED output
      BY <1>1 DEF EntersWith, Enters
    <2>2. ClientTypes' /\ ClientInv' /\ WorkflowTypes'
      BY <1>1, <2>1, EntersPlaced
    <2>3. TableTypes' BY <1>0, <1>1, <2>1 DEF table, tasks, TableTypes
    <2>4. WorkerKept BY <2>1 DEF worker, output, WorkerKept
    <2>5. WorkerTypes' /\ WorkerInv'
      <3>1. running' = running /\ life' = life /\ wpc' = wpc BY <2>1 DEF worker
      <3> QED BY <2>4, <3>1, KeptWorker
    <2> QED BY <2>1, <2>2, <2>3, <2>4, <2>5, CoreParts DEF tasks
  <1> USE DEF ClientLabel, Method, Placed, Targeted, Switching, Stoppers
  <1>2. current \in Workflows \cup {None} BY <1>0 DEF TableTypes
  <1>3. CASE interrupt(c)
    <2>1. EntersWith(c, "guard", "interrupt", None, current) /\ owner' = owner /\ current # None
      BY <1>3 DEF interrupt
    <2> QED BY <1>1, <1>2, <2>1
  <1>4. CASE cancel(c)
    <2>1. EntersWith(c, "guard", "cancel", None, current) /\ owner' = owner /\ current # None
      BY <1>4 DEF cancel
    <2> QED BY <1>1, <1>2, <2>1
  <1>5. CASE executeCurrent(c)
    <2>1. EntersWith(c, "launch", "execute", current, None) /\ owner' = owner /\ current # None
      BY <1>5 DEF executeCurrent
    <2> QED BY <1>1, <1>2, <2>1
  <1>6. ASSUME NEW w \in Workflows, unregisterWorkflow(c, w)
        PROVE  Core' /\ WorkerKept /\ UNCHANGED <<queue, accepted, enqueued>>
    <2>1. PICK l \in {"guard", "erase"} : EntersWith(c, l, "unregister", w, w) /\ owner' = c
      BY <1>6 DEF unregisterWorkflow
    <2> QED BY <1>1, <2>1
  <1>7. ASSUME NEW w \in Workflows, startWorkflow(c, w)
        PROVE  Core' /\ WorkerKept /\ UNCHANGED <<queue, accepted, enqueued>>
    <2>1. EntersWith(c, "test", "start", w, None) /\ owner' = owner BY <1>7 DEF startWorkflow
    <2> QED BY <1>1, <2>1
  <1>8. ASSUME NEW w \in Workflows, NEW keep \in BOOLEAN, switchWorkflow(c, w, keep)
        PROVE  Core' /\ WorkerKept /\ UNCHANGED <<queue, accepted, enqueued>>
    <2>1. PICK o \in Switching, l \in {"set", "guard"} :
            /\ EntersWith(c, l, o, w, current) /\ owner' = owner
            /\ l = "guard" => current # None
      BY <1>8 DEF switchWorkflow
    <2> QED BY <1>1, <1>2, <2>1
  <1> QED BY <1>3, <1>4, <1>5, <1>6, <1>7, <1>8

\* The steps of a call, but for the launch and the join of the worker.
LEMMA CallStep ==
  ASSUME Core, NEW c \in Clients, CallSteps(c)
  PROVE  Core' /\ WorkerKept /\ UNCHANGED <<queue, accepted, enqueued>>
  <1>0. WorkerTypes /\ WorkerInv /\ ClientTypes /\ ClientInv /\ WorkflowTypes /\ TableTypes
    BY TypeParts DEF Core
  <1>1. ASSUME ClientTypes' /\ ClientInv', WorkflowTypes', TableTypes',
               UNCHANGED <<tasks, running, worker, output>>, life' \in {life, "crashed"}
        PROVE  Core' /\ WorkerKept /\ UNCHANGED <<queue, accepted, enqueued>>
    <2>1. WorkerKept /\ wpc' = wpc BY <1>1 DEF worker, output, WorkerKept
    <2>2. WorkerTypes' /\ WorkerInv'
      BY <1>1, <2>1, KeptWorker
    <2> QED BY <1>1, <2>1, <2>2, CoreParts DEF tasks
  <1>2. Placed(pc[c], op[c], target[c], victim[c]) BY <1>0 DEF ClientInv
  <1>3. ASSUME UNCHANGED <<wstate, bodies>> PROVE WorkflowTypes'
    BY <1>0, <1>3 DEF WorkflowTypes, bodies
  <1>4. ASSUME UNCHANGED <<table, current, owner, tasks, running>> PROVE TableTypes'
    BY <1>0, <1>4 DEF TableTypes, table, tasks
  <1>5. ASSUME NEW l, l \in ClientLabel, Goes(c, l), UNCHANGED <<victim, life>>,
               Placed(l, op[c], target[c], victim[c])
        PROVE  /\ ClientTypes' /\ ClientInv'
               /\ UNCHANGED <<tasks, running, worker, output, table, life>>
    BY <1>5, GoesPlaced DEF Goes
  <1>6. ASSUME Returns(c), UNCHANGED life
        PROVE  /\ ClientTypes' /\ ClientInv'
               /\ UNCHANGED <<tasks, running, worker, output, life>>
    BY <1>6, ReturnsPlaced DEF Returns
  <1>7. ASSUME op[c] \in Stoppers, Placed("guard", op[c], target[c], victim[c])
        PROVE  After(op[c]) \in ClientLabel /\ Placed(After(op[c]), op[c], target[c], victim[c])
    BY <1>7 DEF Stoppers, After, Placed, Switching, Targeted, ClientLabel
  <1>8. CASE ClientGuard(c)
    <2>1. op[c] \in Stoppers /\ Placed("guard", op[c], target[c], victim[c])
      BY <1>2, <1>8 DEF ClientGuard, ClientAt, Placed
    <2>2. Placed("join", op[c], target[c], victim[c]) BY <2>1 DEF Placed
    <2>3. "join" \in ClientLabel BY DEF ClientLabel
    <2>4. PICK l : Goes(c, l) /\ l \in {"join", After(op[c])} BY <1>8 DEF ClientGuard
    <2>5. UNCHANGED <<victim, wstate, bodies, current, owner, life>> BY <1>8 DEF ClientGuard
    <2> QED BY <1>1, <1>3, <1>4, <1>5, <1>7, <2>1, <2>2, <2>3, <2>4, <2>5
  <1>9. CASE ClientJoin(c)
    <2>1. op[c] \in Stoppers /\ Placed("guard", op[c], target[c], victim[c]) /\ victim[c] \in Workflows
      BY <1>2, <1>9 DEF ClientJoin, ClientAt, Placed
    <2>2. /\ Goes(c, After(op[c])) /\ UNCHANGED <<victim, bodies, current, owner, life>>
          /\ wstate' = [wstate EXCEPT ![victim[c]] = Stopped(op[c], @)]
      BY <1>9 DEF ClientJoin
    <2>3. WorkflowTypes'
      <3>1. Stopped(op[c], wstate[victim[c]]) \in WorkflowState
        BY <1>0, <2>1, StoppedType DEF WorkflowTypes
      <3> QED BY <1>0, <2>2, <3>1 DEF WorkflowTypes, bodies
    <2> QED BY <1>1, <1>4, <1>5, <1>7, <2>1, <2>2, <2>3
  <1>10. CASE ClientClear(c)
    <2>1. Returns(c) /\ UNCHANGED <<wstate, bodies, table, owner, life>> /\ current' = None
      BY <1>10 DEF ClientClear
    <2>2. TableTypes' BY <1>0, <1>6, <2>1 DEF TableTypes, table, tasks
    <2> QED BY <1>1, <1>3, <1>6, <2>1, <2>2
  <1>11. CASE ClientErase(c)
    <2>1. /\ Returns(c) /\ UNCHANGED <<wstate, bodies, persistent, defaultTimed, life>>
          /\ current' \in {None, current} /\ registered' \subseteq registered /\ owner' = None
      BY <1>11 DEF ClientErase
    <2>2. TableTypes' BY <1>0, <1>6, <2>1 DEF TableTypes, tasks
    <2> QED BY <1>1, <1>3, <1>6, <2>1, <2>2
  <1>12. CASE ClientTest(c)
    <2>1. PICK l \in {"set", "load"} : Goes(c, l)
      BY <1>12 DEF ClientTest
    <2>2. UNCHANGED <<victim, wstate, bodies, current, owner, life>> BY <1>12 DEF ClientTest
    <2>3. l \in ClientLabel /\ Placed(l, op[c], target[c], victim[c])
      BY <1>2, <1>12 DEF ClientTest, ClientAt, Placed, ClientLabel
    <2> QED BY <1>1, <1>3, <1>4, <1>5, <2>1, <2>2, <2>3
  <1>13. CASE ClientLoad(c)
    <2>1. /\ Goes(c, "guard") /\ victim' = [victim EXCEPT ![c] = current]
          /\ UNCHANGED <<wstate, bodies, current, owner, life>> /\ current # None
      BY <1>13 DEF ClientLoad
    <2>2. current \in Workflows BY <1>0, <2>1 DEF TableTypes
    <2>3. "guard" \in ClientLabel /\ Placed("guard", op[c], target[c], current)
      BY <1>2, <1>13, <2>2 DEF ClientLoad, ClientAt, Placed, ClientLabel, Stoppers
    <2>4. /\ op[c] \in Method /\ target[c] \in Workflows \cup {None}
          /\ op' = [op EXCEPT ![c] = op[c]] /\ target' = [target EXCEPT ![c] = target[c]]
          /\ pc' = [pc EXCEPT ![c] = "guard"] /\ UNCHANGED calls
      BY <1>0, <2>1 DEF Goes, ClientTypes
    <2>5. ClientTypes' /\ ClientInv' BY <2>1, <2>2, <2>3, <2>4, MovesPlaced
    <2> QED BY <1>1, <1>3, <1>4, <2>1, <2>5 DEF Goes
  <1>14. CASE ClientClean(c)
    <2>1. Goes(c, "set") /\ UNCHANGED <<victim, wstate, bodies, current, owner, life>>
      BY <1>14 DEF ClientClean
    <2>2. "set" \in ClientLabel /\ Placed("set", op[c], target[c], victim[c])
      BY <1>2, <1>14 DEF ClientClean, ClientAt, Placed, ClientLabel
    <2> QED BY <1>1, <1>3, <1>4, <1>5, <2>1, <2>2
  <1>15. CASE ClientSet(c)
    <2>1. /\ current' = target[c] /\ UNCHANGED <<victim, wstate, bodies, owner, life>>
          /\ op[c] \in {"start"} \cup Switching
      BY <1>2, <1>15 DEF ClientSet, ClientAt, Placed
    <2>2. PICK l : /\ Goes(c, l)
                   /\ l = CASE op[c] = "start" -> "start"
                            [] op[c] = "switch" -> "again"
                            [] op[c] = "switchKeeping" -> "direct"
      BY <1>15 DEF ClientSet
    <2>3. l \in ClientLabel /\ Placed(l, op[c], target[c], victim[c])
      BY <1>2, <2>1, <2>2 DEF Placed, ClientLabel, Switching
    <2>4. target[c] \in Workflows BY <1>2, <2>1 DEF Placed, Targeted
    <2>5. ClientTypes' /\ ClientInv' /\ UNCHANGED <<tasks, running, worker, output, table>>
      BY <1>5, <2>1, <2>2, <2>3
    <2>6. TableTypes' BY <1>0, <2>1, <2>4, <2>5 DEF TableTypes, table, tasks
    <2> QED BY <1>1, <1>3, <2>1, <2>5, <2>6
  <1>16. ASSUME NEW w \in Workflows, StartWorkflow(w), Returns(c),
                UNCHANGED <<bodies, table, current, owner, life>>
         PROVE  Core' /\ WorkerKept /\ UNCHANGED <<queue, accepted, enqueued>>
    <2>1. SetState(SetState(wstate[w], "INITIALIZING"), "READY") \in WorkflowState
      BY <1>0, SetStateType, Names DEF WorkflowTypes
    <2>2. WorkflowTypes' BY <1>0, <1>16, <2>1 DEF StartWorkflow, WorkflowTypes, bodies
    <2> QED BY <1>1, <1>4, <1>6, <1>16, <2>2
  <1>17. CASE ClientStart(c)
    <2>1. current \in Workflows BY <1>0, <1>17 DEF ClientStart, TableTypes
    <2> QED BY <1>16, <1>17, <2>1 DEF ClientStart
  <1>18. CASE ClientDirect(c)
    <2>1. target[c] \in Workflows BY <1>2, <1>18 DEF ClientDirect, ClientAt, Placed, Targeted
    <2> QED BY <1>16, <1>18, <2>1 DEF ClientDirect
  <1>19. CASE ClientAgain(c)
    <2>1. UNCHANGED <<wstate, bodies, table, current, owner, life>> BY <1>19 DEF ClientAgain
    <2>2. CASE Returns(c) BY <1>1, <1>3, <1>4, <1>6, <2>1, <2>2
    <2>3. CASE /\ pc' = [pc EXCEPT ![c] = "test"] /\ op' = [op EXCEPT ![c] = "start"]
               /\ UNCHANGED <<target, victim, calls, tasks, running, worker, output>>
      <3>1. target[c] \in Workflows BY <1>2, <1>19 DEF ClientAgain, ClientAt, Placed, Targeted
      <3>2. Placed("test", "start", target[c], victim[c]) BY <3>1 DEF Placed, Switching
      <3>3. "test" \in ClientLabel /\ "start" \in Method BY DEF ClientLabel, Method
      <3>4. victim[c] \in Workflows \cup {None} BY <1>0 DEF ClientTypes
      <3>5. target' = [target EXCEPT ![c] = target[c]] /\ victim' = [victim EXCEPT ![c] = victim[c]]
        BY <1>0, <2>3 DEF ClientTypes
      <3>6. ClientTypes' /\ ClientInv'
        BY <2>1, <2>3, <3>1, <3>2, <3>3, <3>4, <3>5, MovesPlaced
      <3> QED BY <1>1, <1>3, <1>4, <2>1, <2>3, <3>6
    <2> QED BY <1>19, <2>2, <2>3 DEF ClientAgain
  <1>20. CASE ClientLaunch(c)
    <2>1. /\ Launch(target[c], None) /\ Returns(c)
          /\ UNCHANGED <<wstate, table, current, owner, life>>
      BY <1>20 DEF ClientLaunch
    <2>2. target[c] \in Workflows BY <1>2, <1>20 DEF ClientLaunch, ClientAt, Placed, Targeted
    <2>3. launched' \in [Workflows -> Nat]
      BY <1>0, <2>1, <2>2 DEF Launch, WorkflowTypes
    <2>4. runner' \in [Workflows -> Tasks \cup {None}]
      BY <1>0, <2>1, <2>2 DEF Launch, WorkflowTypes
    <2>5. UNCHANGED <<wstate, ended, begun>> BY <2>1 DEF Launch
    <2>6. WorkflowTypes' BY <1>0, <2>3, <2>4, <2>5 DEF WorkflowTypes
    <2> QED BY <1>1, <1>4, <1>6, <2>1, <2>6
  <1>21. CASE ClientJoinWorker(c)
    BY <1>1, <1>3, <1>4, <1>6, <1>21 DEF ClientJoinWorker
  <1>22. CASE ClientDerefsNull(c)
    <2>1. /\ UNCHANGED <<wstate, bodies, table, current, owner, tasks, running, worker, output, clients>>
          /\ life' = "crashed"
      BY <1>22 DEF ClientDerefsNull
    <2>2. ClientTypes' /\ ClientInv' BY <1>0, <2>1 DEF clients, ClientTypes, ClientInv
    <2> QED BY <1>1, <1>3, <1>4, <2>1, <2>2
  <1>23. CASE ClientNotify(c)
    <2>1. /\ pc' = [pc EXCEPT ![c] = "joinWorker"] /\ Wake
          /\ UNCHANGED <<op, target, victim, calls, wstate, bodies, table, current, owner, tasks>>
          /\ UNCHANGED <<running, task, run, verdict, row, processing, output, life>>
      BY <1>23 DEF ClientNotify
    <2>2. WorkerKept BY <2>1 DEF Wake, WorkerKept, Resting, output
    <2>3. life = "alive" /\ running = FALSE => wpc' = wpc
      BY <1>0, <2>1 DEF Wake, WorkerInv
    <2>4. WorkerTypes' /\ WorkerInv' BY <2>1, <2>2, <2>3, KeptWorker
    <2>5. ClientTypes' /\ ClientInv'
      <3>1. "joinWorker" \in ClientLabel /\ Placed("joinWorker", op[c], target[c], victim[c])
        BY <1>2 DEF ClientLabel, Placed
      <3>2. /\ op[c] \in Method /\ target[c] \in Workflows \cup {None}
            /\ victim[c] \in Workflows \cup {None}
            /\ op' = [op EXCEPT ![c] = op[c]] /\ target' = [target EXCEPT ![c] = target[c]]
            /\ victim' = [victim EXCEPT ![c] = victim[c]]
        BY <1>0, <2>1 DEF ClientTypes
      <3>3. /\ pc' = [pc EXCEPT ![c] = "joinWorker"]
            /\ UNCHANGED calls /\ life' \in {life, "crashed"}
        BY <2>1
      <3> QED BY <3>1, <3>2, <3>3, MovesPlaced
    <2> QED BY <1>3, <1>4, <2>1, <2>2, <2>4, <2>5, CoreParts DEF tasks
  <1> QED BY <1>8, <1>9, <1>10, <1>11, <1>12, <1>13, <1>14, <1>15, <1>17, <1>18, <1>19, <1>20,
             <1>21, <1>22, <1>23 DEF CallSteps

\* The destructor begins: from here on the flag is down while the worker may still run.
LEMMA DestroyStep ==
  ASSUME Core, NEW c \in Clients, Destroy(c)
  PROVE  Core' /\ WorkerKept /\ UNCHANGED <<queue, accepted, enqueued>>
  <1>0. WorkerTypes /\ TableTypes BY TypeParts DEF Core
  <1>1. /\ Enters(c, "notify", "destroy", None, None)
        /\ running' = FALSE /\ life' = "destroyed"
        /\ UNCHANGED <<table, current, owner, tasks, worker, output>>
    BY DEF Destroy, Enters
  <1>2. Placed("notify", "destroy", None, None) BY DEF Placed, Targeted, Switching
  <1>3. "notify" \in ClientLabel /\ "destroy" \in Method BY DEF ClientLabel, Method
  <1>4. ClientTypes' /\ ClientInv' /\ WorkflowTypes' BY <1>1, <1>2, <1>3, EntersPlaced
  <1>5. TableTypes' BY <1>0, <1>1 DEF TableTypes, table, tasks
  <1>6. WorkerKept /\ wpc' = wpc BY <1>1 DEF WorkerKept, worker, output
  <1>7. WorkerTypes' /\ WorkerInv' BY <1>1, <1>6, KeptWorker
  <1> QED BY <1>1, <1>4, <1>5, <1>6, <1>7, CoreParts DEF tasks

LEMMA BodyStep ==
  ASSUME Core, NEW w \in Workflows, BodyBegins(w) \/ BodyEnds(w)
  PROVE  Core' /\ WorkerKept /\ UNCHANGED <<queue, accepted, enqueued>>
  <1>0. WorkerTypes /\ WorkerInv /\ ClientTypes /\ ClientInv /\ WorkflowTypes /\ TableTypes
    BY TypeParts DEF Core
  <1>1. UNCHANGED <<table, current, owner, tasks, running, worker, output, clients, life>>
    BY DEF BodyBegins, BodyEnds
  <1>2. \A s \in {"EXECUTING", "COMPLETED"} : SetState(wstate[w], s) \in WorkflowState
    BY <1>0, SetStateType, Names DEF WorkflowTypes
  <1>3. wstate' \in [Workflows -> WorkflowState]
    BY <1>0, <1>2 DEF BodyBegins, BodyEnds, Enter, WorkflowTypes
  <1>4. launched' \in [Workflows -> Nat] /\ ended' \in [Workflows -> Nat]
    BY <1>0 DEF BodyBegins, BodyEnds, WorkflowTypes
  <1>5. begun' \in [Workflows -> BOOLEAN] /\ runner' \in [Workflows -> Tasks \cup {None}]
    BY <1>0 DEF BodyBegins, BodyEnds, WorkflowTypes
  <1>6. WorkflowTypes' BY <1>3, <1>4, <1>5 DEF WorkflowTypes
  <1>7. TableTypes' BY <1>0, <1>1 DEF TableTypes, table, tasks
  <1>8. ClientTypes' /\ ClientInv' BY <1>0, <1>1 DEF clients, ClientTypes, ClientInv
  <1>9. WorkerKept /\ wpc' = wpc BY <1>1 DEF WorkerKept, worker, output
  <1>10. WorkerTypes' /\ WorkerInv' BY <1>1, <1>9, KeptWorker
  <1> QED BY <1>1, <1>6, <1>7, <1>8, <1>9, <1>10, CoreParts DEF tasks

LEMMA WorkerStep ==
  ASSUME Core, WorkerSteps \/ WorkerTimesOut \/ SpuriousWakeup
  PROVE  Core'
  <1>0. WorkerTypes /\ WorkerInv /\ WorkflowTypes /\ TableTypes
    BY TypeParts DEF Core
  <1>1. wpc \notin Resting => Mine \in Workflows
    BY <1>0, Assumptions DEF WorkerInv, Mine
  <1> USE DEF WorkerAt
  <1>2. WorkflowTypes'
    <2>1. CASE WorkerStarts \/ WorkerJoins
      <3>1. Mine \in Workflows BY <1>1, <2>1 DEF WorkerStarts, WorkerJoins, Resting
      <3>2. /\ SetState(SetState(wstate[Mine], "INITIALIZING"), "READY") \in WorkflowState
            /\ SetState(wstate[Mine], "INTERRUPTED") \in WorkflowState
        BY <1>0, <3>1, SetStateType, Names DEF WorkflowTypes
      <3>3. UNCHANGED bodies BY <2>1 DEF WorkerStarts, WorkerJoins
      <3> QED BY <1>0, <2>1, <3>1, <3>2, <3>3
              DEF WorkerStarts, WorkerJoins, StartWorkflow, Enter, bodies, WorkflowTypes
    <2>2. CASE WorkerLaunches
      <3>1. Mine \in Workflows /\ task \in Tasks
        BY <1>0, <1>1, <2>2 DEF WorkerLaunches, Resting, WorkerInv
      <3>2. Launch(Mine, task) /\ wstate' = wstate BY <2>2 DEF WorkerLaunches
      <3>3. launched' \in [Workflows -> Nat] BY <1>0, <3>1, <3>2 DEF Launch, WorkflowTypes
      <3>4. runner' \in [Workflows -> Tasks \cup {None}]
        BY <1>0, <3>1, <3>2 DEF Launch, WorkflowTypes
      <3> QED BY <1>0, <3>2, <3>3, <3>4 DEF Launch, WorkflowTypes
    <2>3. CASE UNCHANGED <<wstate, bodies>> BY <1>0, <2>3 DEF bodies, WorkflowTypes
    <2> QED BY <2>1, <2>2, <2>3
            DEF WorkerSteps, WorkerTimesOut, SpuriousWakeup, WorkerStops, WorkerTests, WorkerBlocks,
                WorkerTakes, WorkerDone, WorkerLooksUp, WorkerSelects, WorkerExecutes,
                WorkerCollects, WorkerInterrupts, WorkerRecords, WorkerJudges, WorkerReads, Rows,
                WorkerChecksStore, WorkerSaves, WorkerSavesToNull
  <1>3. TableTypes'
    <2>1. CASE WorkerTakes
      BY <1>0, <2>1 DEF WorkerTakes, TableTypes, table
    <2>2. CASE WorkerSelects
      BY <1>0, <1>1, <2>2 DEF WorkerSelects, Resting, WorkerGoes, WorkerOnly, TableTypes, table, tasks
    <2>3. CASE UNCHANGED <<table, current, tasks, running>> /\ owner' \in {owner, Worker, None}
      BY <1>0, <2>3 DEF TableTypes, table, tasks
    <2> QED BY <2>1, <2>2, <2>3
            DEF WorkerSteps, WorkerTimesOut, SpuriousWakeup, WorkerStops, WorkerTests, WorkerBlocks,
                WorkerDone, WorkerLooksUp, WorkerStarts, WorkerExecutes, WorkerLaunches,
                WorkerCollects, WorkerInterrupts, WorkerJoins, WorkerRecords, WorkerJudges,
                WorkerReads, Rows, WorkerChecksStore, WorkerSaves, WorkerSavesToNull, WorkerGoes,
                WorkerOnly
  <1>4. WorkerTypes' /\ WorkerInv' /\ ClientTypes' /\ ClientInv' BY WorkerGoesOn
  <1> QED BY <1>2, <1>3, <1>4, CoreParts

LEMMA CoreStep == Core /\ [Next]_vars => Core'
  <1> SUFFICES ASSUME Core, [Next]_vars PROVE Core'
    OBVIOUS
  <1>1. CASE \E c \in Clients : Calls(c)
    BY <1>1, QuickStep, LongCall, DestroyStep DEF Calls
  <1>2. CASE \E c \in Clients : CallSteps(c)
    BY <1>2, CallStep
  <1>3. CASE WorkerSteps \/ WorkerTimesOut \/ SpuriousWakeup
    BY <1>3, WorkerStep
  <1>4. CASE \E w \in Workflows : BodyBegins(w) \/ BodyEnds(w)
    BY <1>4, BodyStep
  <1>5. CASE UNCHANGED vars
    BY <1>5 DEF vars, bodies, table, tasks, worker, output, clients, Core, TypeOK, WorkerInv,
                ClientInv
  <1> QED BY <1>1, <1>2, <1>3, <1>4, <1>5 DEF Next

\* At every step the manager's tables, the worker's registers and the clients' places have
\* their types: no method goes on with a workflow it does not have, and the worker is never
\* between two of its steps without its task (workflow_manager.cpp, every method).
THEOREM TypeCorrect == Spec => []TypeOK
  <1>1. Core => TypeOK BY DEF Core
  <1> QED BY <1>1, CoreInit, CoreStep, PTL DEF Spec

-----------------------------------------------------------------------------
(* The order of the tasks, entry by entry: the accepted tasks acc are those *)
(* reported (rep), the one held (k, if held = 1) and the queue q.           *)

InLine(acc, rep, held, k, q, used) ==
  /\ held \in {0, 1}
  /\ Len(acc) = Len(rep) + held + Len(q)
  /\ \A i \in 1 .. Len(rep) : acc[i] = rep[i].id
  /\ held = 1 => acc[Len(rep) + 1] = k
  /\ \A i \in 1 .. Len(q) : acc[Len(rep) + held + i] = q[i]
  /\ \A i, j \in 1 .. Len(acc) : acc[i] = acc[j] => i = j
  /\ \A i \in 1 .. Len(acc) : acc[i] \in used

Held == IF wpc \in Resting \cup Told THEN 0 ELSE 1

LineInv ==
  /\ InLine(accepted, reported, Held, task, queue, enqueued)
  /\ wpc \in Told => reported # <<>> /\ reported[Len(reported)].id = task

\* A new task joins at the end.
LEMMA LineAppend ==
  ASSUME NEW acc \in Seq(Tasks), NEW rep \in Seq([id : Tasks, verdict : Verdict]),
         NEW held, NEW k, NEW q \in Seq(Tasks), NEW used, NEW x \in Tasks,
         InLine(acc, rep, held, k, q, used), x \notin used
  PROVE  InLine(Append(acc, x), rep, held, k, Append(q, x), used \cup {x})
  <1> DEFINE a == Append(acc, x)
             b == Append(q, x)
             n == Len(rep)
  <1>1. /\ Len(a) = Len(acc) + 1 /\ a[Len(acc) + 1] = x
        /\ \A i \in 1 .. Len(acc) : a[i] = acc[i]
    BY AppendProperties
  <1>2. Len(b) = Len(q) + 1 /\ b[Len(q) + 1] = x /\ \A i \in 1 .. Len(q) : b[i] = q[i]
    BY AppendProperties
  <1>3. /\ n \in Nat /\ Len(acc) \in Nat /\ Len(q) \in Nat
        /\ held \in Nat /\ held \in {0, 1} /\ Len(acc) = n + held + Len(q)
    BY DEF InLine
  <1> HIDE DEF a, b, n
  <1>4. \A i \in 1 .. n : a[i] = rep[i].id BY <1>1, <1>3 DEF InLine, n
  <1>5. held = 1 => a[n + 1] = k BY <1>1, <1>3 DEF InLine, n
  <1>6. ASSUME NEW i \in 1 .. Len(b) PROVE a[n + held + i] = b[i]
    <2>1. CASE i \in 1 .. Len(q) BY <1>1, <1>2, <1>3, <2>1 DEF InLine, n
    <2>2. CASE i = Len(q) + 1 BY <1>1, <1>2, <1>3, <2>2
    <2> QED BY <1>2, <1>3, <2>1, <2>2
  <1>10. /\ \A i, j \in 1 .. Len(acc) : acc[i] = acc[j] => i = j
         /\ \A i \in 1 .. Len(acc) : acc[i] \in used
    BY DEF InLine
  <1>7. ASSUME NEW i \in 1 .. Len(a), NEW j \in 1 .. Len(a), a[i] = a[j] PROVE i = j
    <2>1. CASE i \in 1 .. Len(acc) /\ j \in 1 .. Len(acc) BY <1>1, <1>7, <1>10, <2>1
    <2>2. CASE i \in 1 .. Len(acc) /\ j = Len(acc) + 1 BY <1>1, <1>7, <1>10, <2>2
    <2>3. CASE i = Len(acc) + 1 /\ j \in 1 .. Len(acc) BY <1>1, <1>7, <1>10, <2>3
    <2>4. CASE i = Len(acc) + 1 /\ j = Len(acc) + 1 BY <2>4
    <2> QED BY <1>1, <1>3, <2>1, <2>2, <2>3, <2>4
  <1>8. ASSUME NEW i \in 1 .. Len(a) PROVE a[i] \in used \cup {x}
    <2>1. CASE i \in 1 .. Len(acc) BY <1>1, <1>10, <2>1
    <2>2. CASE i = Len(acc) + 1 BY <1>1, <2>2
    <2> QED BY <1>1, <1>3, <2>1, <2>2
  <1>9. Len(a) = n + held + Len(b) BY <1>1, <1>2, <1>3
  <1> QED BY <1>3, <1>4, <1>5, <1>6, <1>7, <1>8, <1>9 DEF InLine, a, b, n

\* A task in the queue leaves: it is the same entry of both sequences.
LEMMA LineErase ==
  ASSUME NEW acc \in Seq(Tasks), NEW rep \in Seq([id : Tasks, verdict : Verdict]),
         NEW held, NEW k, NEW q \in Seq(Tasks), NEW used,
         NEW i \in 1 .. Len(q), NEW m \in 1 .. Len(acc), acc[m] = q[i],
         InLine(acc, rep, held, k, q, used)
  PROVE  InLine(Erase(m, acc), rep, held, k, Erase(i, q), used)
  <1> DEFINE a == Erase(m, acc)
             b == Erase(i, q)
             n == Len(rep)
  <1>1. /\ n \in Nat /\ Len(acc) \in Nat /\ Len(q) \in Nat
        /\ held \in Nat /\ held \in {0, 1} /\ Len(acc) = n + held + Len(q)
    BY DEF InLine
  <1>2. m = n + held + i
    <2>1. n + held + i \in 1 .. Len(acc) BY <1>1
    <2>2. acc[n + held + i] = q[i] BY DEF InLine
    <2> QED BY <2>1, <2>2 DEF InLine
  <1>3. Len(a) = Len(acc) - 1 /\ Len(b) = Len(q) - 1 BY EraseType
  <1>4. /\ \A j \in 1 .. Len(a) : a[j] = IF j < m THEN acc[j] ELSE acc[j + 1]
        /\ \A j \in 1 .. Len(b) : b[j] = IF j < i THEN q[j] ELSE q[j + 1]
    BY <1>3 DEF Erase
  <1> DEFINE Src(l, j) == IF j < l THEN j ELSE j + 1
  <1>11. /\ \A j \in 1 .. Len(a) : a[j] = acc[Src(m, j)] /\ Src(m, j) \in 1 .. Len(acc)
         /\ \A j \in 1 .. Len(b) : b[j] = q[Src(i, j)] /\ Src(i, j) \in 1 .. Len(q)
    <2> HIDE DEF a, b, n
    <2>1. ASSUME NEW j \in 1 .. Len(a) PROVE a[j] = acc[Src(m, j)] /\ Src(m, j) \in 1 .. Len(acc)
      <3>1. a[j] = IF j < m THEN acc[j] ELSE acc[j + 1] BY <1>4
      <3> QED BY <1>1, <1>3, <3>1
    <2>2. ASSUME NEW j \in 1 .. Len(b) PROVE b[j] = q[Src(i, j)] /\ Src(i, j) \in 1 .. Len(q)
      <3>1. b[j] = IF j < i THEN q[j] ELSE q[j + 1] BY <1>4
      <3> QED BY <1>1, <1>3, <3>1
    <2> QED BY <2>1, <2>2
  <1>12. /\ \A j \in 1 .. n : acc[j] = rep[j].id
         /\ held = 1 => acc[n + 1] = k
         /\ \A j \in 1 .. Len(q) : acc[n + held + j] = q[j]
         /\ \A j, l \in 1 .. Len(acc) : acc[j] = acc[l] => j = l
         /\ \A j \in 1 .. Len(acc) : acc[j] \in used
    BY DEF InLine
  <1>13. Len(acc) = Len(a) + 1 /\ Len(q) = Len(b) + 1 /\ Len(a) \in Nat /\ Len(b) \in Nat
    <2> HIDE DEF a, b, n
    <2> QED BY <1>1, <1>2, <1>3
  <1> HIDE DEF a, b, n
  <1>5. ASSUME NEW j \in 1 .. n PROVE a[j] = rep[j].id
    <2>1. j < m /\ j \in 1 .. Len(a) BY <1>1, <1>2, <1>13
    <2> QED BY <1>11, <1>12, <2>1
  <1>6. ASSUME held = 1 PROVE a[n + 1] = k
    <2>1. n + 1 < m /\ n + 1 \in 1 .. Len(a) BY <1>1, <1>2, <1>6, <1>13
    <2> QED BY <1>6, <1>11, <1>12, <2>1
  <1>7. ASSUME NEW j \in 1 .. Len(b) PROVE a[n + held + j] = b[j]
    <2>1. n + held + j \in 1 .. Len(a) /\ Src(m, n + held + j) = n + held + Src(i, j)
      BY <1>1, <1>2, <1>13
    <2> HIDE DEF Src
    <2> QED BY <1>11, <1>12, <2>1
  <1>8. ASSUME NEW j \in 1 .. Len(a), NEW l \in 1 .. Len(a), a[j] = a[l] PROVE j = l
    <2>1. Src(m, j) = Src(m, l)
      <3> HIDE DEF Src
      <3>1. /\ a[j] = acc[Src(m, j)] /\ Src(m, j) \in 1 .. Len(acc)
            /\ a[l] = acc[Src(m, l)] /\ Src(m, l) \in 1 .. Len(acc)
        BY <1>11
      <3>2. acc[Src(m, j)] = acc[Src(m, l)] BY <1>8, <3>1
      <3> QED BY <1>12, <3>1, <3>2
    <2> QED BY <1>1, <1>2, <2>1
  <1>9. \A j \in 1 .. Len(a) : a[j] \in used
    <2> HIDE DEF Src
    <2> QED BY <1>11, <1>12
  <1>10. Len(a) = n + held + Len(b) BY <1>1, <1>13
  <1> QED BY <1>1, <1>5, <1>6, <1>7, <1>8, <1>9, <1>10 DEF InLine, a, b, n

\* The first task of the queue goes to the worker, which held none.
LEMMA LineTake ==
  ASSUME NEW acc \in Seq(Tasks), NEW rep \in Seq([id : Tasks, verdict : Verdict]),
         NEW k, NEW q \in Seq(Tasks), NEW used, q # <<>>,
         InLine(acc, rep, 0, k, q, used)
  PROVE  InLine(acc, rep, 1, Head(q), Tail(q), used)
  <1> DEFINE b == Tail(q)
             n == Len(rep)
  <1>1. n \in Nat /\ Len(acc) \in Nat /\ Len(q) \in Nat /\ Len(acc) = n + Len(q)
    BY DEF InLine
  <1>2. /\ Len(b) = Len(q) - 1 /\ \A i \in 1 .. Len(b) : b[i] = q[i + 1]
        /\ Head(q) = q[1] /\ Len(q) >= 1
    BY HeadTailProperties
  <1> HIDE DEF b, n
  <1>3. acc[n + 1] = Head(q) BY <1>1, <1>2 DEF InLine, n
  <1>4. ASSUME NEW i \in 1 .. Len(b) PROVE acc[n + 1 + i] = b[i]
    <2>1. i + 1 \in 1 .. Len(q) /\ n + 0 + (i + 1) = n + 1 + i BY <1>1, <1>2
    <2> QED BY <1>1, <1>2, <2>1 DEF InLine, n
  <1> QED BY <1>1, <1>2, <1>3, <1>4 DEF InLine, b, n

\* The task held is reported.
LEMMA LineReport ==
  ASSUME NEW acc \in Seq(Tasks), NEW rep \in Seq([id : Tasks, verdict : Verdict]),
         NEW k \in Tasks, NEW q \in Seq(Tasks), NEW used, NEW v \in Verdict, NEW any,
         InLine(acc, rep, 1, k, q, used)
  PROVE  InLine(acc, Append(rep, [id |-> k, verdict |-> v]), 0, any, q, used)
  <1> DEFINE r == Append(rep, [id |-> k, verdict |-> v])
             n == Len(rep)
  <1>1. n \in Nat /\ Len(acc) \in Nat /\ Len(q) \in Nat /\ Len(acc) = n + 1 + Len(q)
    BY DEF InLine
  <1>2. /\ Len(r) = n + 1 /\ r[n + 1] = [id |-> k, verdict |-> v]
        /\ \A i \in 1 .. n : r[i] = rep[i]
    BY AppendProperties
  <1> HIDE DEF r, n
  <1>3. ASSUME NEW i \in 1 .. Len(r) PROVE acc[i] = r[i].id
    <2>1. CASE i \in 1 .. n BY <1>1, <1>2, <2>1 DEF InLine, n
    <2>2. CASE i = n + 1 BY <1>1, <1>2, <2>2 DEF InLine, n
    <2> QED BY <1>1, <1>2, <2>1, <2>2
  <1>4. ASSUME NEW i \in 1 .. Len(q) PROVE acc[Len(r) + 0 + i] = q[i]
    <2>1. n + 1 + i = Len(r) + 0 + i BY <1>1, <1>2
    <2> QED BY <1>1, <1>2, <2>1 DEF InLine, n
  <1>5. Len(acc) = Len(r) + 0 + Len(q) BY <1>1, <1>2
  <1> QED BY <1>3, <1>4, <1>5 DEF InLine, r, n

\* Steps that leave the queue, what was accepted and what the worker holds.
LEMMA LineKept ==
  ASSUME LineInv, WorkerKept, UNCHANGED <<queue, accepted, enqueued>>
  PROVE  LineInv'
  <1>1. Held' = Held BY DEF Held, WorkerKept, Resting
  <1>2. wpc' \in Told => wpc \in Told BY DEF WorkerKept, Told
  <1>3. UNCHANGED <<task, reported>> BY DEF WorkerKept
  <1> QED BY <1>1, <1>2, <1>3 DEF LineInv

LEMMA LineCalls ==
  ASSUME Core, LineInv, NEW c \in Clients, Calls(c)
  PROVE  LineInv'
  <1>0. /\ queue \in Seq(Tasks) /\ accepted \in Seq(Tasks)
        /\ reported \in Seq([id : Tasks, verdict : Verdict])
    BY DEF Core, TypeOK
  <1>1. CASE \/ \E w \in Workflows : registerWorkflow(c, w)
             \/ \E on \in BOOLEAN : setDefaultTimeout(c, on)
             \/ enablePersistence(c) \/ disablePersistence(c) \/ processQueue(c)
    <2>1. WorkerKept BY <1>1, QuickStep
    <2>2. UNCHANGED tasks
      BY <1>1 DEF registerWorkflow, setDefaultTimeout, enablePersistence, disablePersistence,
                  processQueue
    <2> QED BY <2>1, <2>2, LineKept DEF tasks
  <1>2. ASSUME NEW k \in Tasks, enqueueWorkflow(c, k) PROVE LineInv'
    <2>1. WorkerKept BY <1>2, QuickStep
    <2>2. Held' = Held /\ (wpc' \in Told => wpc \in Told) /\ UNCHANGED <<task, reported>>
      BY <2>1 DEF Held, Told, WorkerKept, Resting
    <2>3. /\ k \notin enqueued /\ enqueued' = enqueued \cup {k}
          /\ queue' = Append(queue, k) /\ accepted' = Append(accepted, k)
      BY <1>2 DEF enqueueWorkflow
    <2>4. InLine(Append(accepted, k), reported, Held, task, Append(queue, k), enqueued \cup {k})
      BY <1>0, <2>3, LineAppend DEF LineInv
    <2> QED BY <2>2, <2>3, <2>4 DEF LineInv
  <1>3. ASSUME NEW k \in Tasks, dequeueWorkflow(c, k) PROVE LineInv'
    <2>1. UNCHANGED <<worker, enqueued>> BY <1>3 DEF dequeueWorkflow
    <2>2. reported' = reported BY <1>3 DEF dequeueWorkflow, Quick, Enters, output
    <2>3. PICK i \in DOMAIN queue : queue[i] = k /\ queue' = Erase(i, queue)
      BY <1>3 DEF dequeueWorkflow
    <2>4. PICK m \in DOMAIN accepted : accepted[m] = k /\ accepted' = Erase(m, accepted)
      BY <1>3 DEF dequeueWorkflow
    <2>5. i \in 1 .. Len(queue) /\ m \in 1 .. Len(accepted) /\ accepted[m] = queue[i]
      BY <1>0, <2>3, <2>4
    <2>6. InLine(Erase(m, accepted), reported, Held, task, Erase(i, queue), enqueued)
      BY <1>0, <2>5, LineErase DEF LineInv
    <2>7. Held' = Held /\ task' = task /\ wpc' = wpc BY <2>1 DEF worker, Held
    <2> QED BY <2>1, <2>2, <2>3, <2>4, <2>6, <2>7 DEF LineInv
  <1>4. CASE \/ \E w \in Workflows : \/ unregisterWorkflow(c, w) \/ startWorkflow(c, w)
                                     \/ \E keep \in BOOLEAN : switchWorkflow(c, w, keep)
             \/ interrupt(c) \/ cancel(c) \/ executeCurrent(c)
    BY <1>4, LongCall, LineKept
  <1>5. CASE Destroy(c) BY <1>5, DestroyStep, LineKept
  <1> QED BY <1>1, <1>2, <1>3, <1>4, <1>5 DEF Calls

LEMMA LineWorker ==
  ASSUME Core, LineInv, WorkerSteps \/ WorkerTimesOut \/ SpuriousWakeup
  PROVE  LineInv'
  <1>0. /\ queue \in Seq(Tasks) /\ accepted \in Seq(Tasks)
        /\ reported \in Seq([id : Tasks, verdict : Verdict]) /\ WorkerInv
    BY DEF Core, TypeOK
  <1> USE DEF WorkerAt
  <1>1. CASE WorkerTakes
    <2>1. /\ wpc = "test" /\ wpc' = "lookup" /\ queue # <<>>
          /\ task' = Head(queue) /\ queue' = Tail(queue)
          /\ UNCHANGED <<accepted, enqueued, reported>>
      BY <1>1 DEF WorkerTakes, output
    <2>2. Held = 0 /\ Held' = 1 /\ wpc' \notin Told BY <2>1 DEF Held, Resting, Told
    <2>3. InLine(accepted, reported, 1, Head(queue), Tail(queue), enqueued)
      BY <1>0, <2>1, <2>2, LineTake DEF LineInv
    <2> QED BY <2>1, <2>2, <2>3 DEF LineInv
  <1>2. ASSUME NEW v \in Verdict, Report(v), wpc \notin Resting \cup Told, wpc' \in Told,
               UNCHANGED <<task, queue, accepted, enqueued>>
        PROVE  LineInv'
    <2>1. task \in Tasks BY <1>0, <1>2 DEF WorkerInv
    <2>2. reported' = Append(reported, [id |-> task, verdict |-> v]) BY <1>2 DEF Report
    <2>3. Held = 1 /\ Held' = 0 BY <1>2 DEF Held
    <2>4. InLine(accepted, Append(reported, [id |-> task, verdict |-> v]), 0, task, queue, enqueued)
      BY <1>0, <1>2, <2>1, <2>3, LineReport DEF LineInv
    <2>5. reported' # <<>> /\ reported'[Len(reported')].id = task
      <3>1. [id |-> task, verdict |-> v] \in [id : Tasks, verdict : Verdict] BY <1>2, <2>1
      <3>2. /\ Len(reported') = Len(reported) + 1 /\ reported' # <<>>
            /\ reported'[Len(reported) + 1] = [id |-> task, verdict |-> v]
        BY <1>0, <2>2, <3>1, AppendProperties
      <3> QED BY <3>2
    <2> QED BY <1>2, <2>2, <2>3, <2>4, <2>5 DEF LineInv
  <1>3. CASE WorkerLooksUp /\ Mine \notin registered
    <2>1. Report("missing") /\ wpc = "lookup" /\ wpc' = "done" /\ UNCHANGED <<task, tasks>>
      BY <1>3 DEF WorkerLooksUp, WorkerGoes, WorkerOnly
    <2>2. "missing" \in Verdict BY DEF Verdict
    <2> QED BY <1>2, <2>1, <2>2 DEF tasks, Resting, Told
  <1>4. CASE WorkerRecords
    <2>1. Report(verdict) /\ wpc = "record" /\ UNCHANGED <<task, tasks>> /\ wpc' \in {"read", "judge"}
      BY <1>4 DEF WorkerRecords, WorkerGoes, WorkerOnly
    <2>2. verdict \in Verdict BY DEF Core, TypeOK
    <2> QED BY <1>2, <2>1, <2>2 DEF tasks, Resting, Told
  <1>5. ASSUME UNCHANGED <<tasks, reported>>, Held' = Held, Held = 1 => task' = task,
               wpc' \in Told => wpc \in Told /\ task' = task
        PROVE  LineInv'
    BY <1>5 DEF LineInv, InLine, tasks
  <1> USE DEF Held, Resting, Told
  <1>6. CASE WorkerDone
    BY <1>5, <1>6 DEF WorkerDone, WorkerOnly, output
  <1>7. CASE WorkerLooksUp /\ Mine \in registered
    BY <1>5, <1>7 DEF WorkerLooksUp, WorkerGoes, WorkerOnly
  <1>8. CASE WorkerStops \/ WorkerTests \/ WorkerBlocks \/ SpuriousWakeup \/ WorkerSelects
    BY <1>5, <1>8 DEF WorkerStops, WorkerTests, WorkerBlocks, SpuriousWakeup, WorkerSelects,
                      WorkerGoes, WorkerOnly, output
  <1>9. CASE WorkerStarts \/ WorkerExecutes \/ WorkerLaunches \/ WorkerCollects \/ WorkerTimesOut
    BY <1>5, <1>9 DEF WorkerStarts, WorkerExecutes, WorkerLaunches, WorkerCollects, WorkerTimesOut,
                      WorkerGoes, WorkerOnly, output
  <1>10. CASE WorkerInterrupts \/ WorkerJoins \/ WorkerJudges \/ WorkerReads
    BY <1>5, <1>10 DEF WorkerInterrupts, WorkerJoins, WorkerJudges, WorkerReads, Rows,
                       WorkerGoes, WorkerOnly, output
  <1>11. CASE WorkerChecksStore \/ WorkerSaves \/ WorkerSavesToNull
    BY <1>5, <1>11 DEF WorkerChecksStore, WorkerSaves, WorkerSavesToNull, WorkerGoes, WorkerOnly,
                       output, worker
  <1> QED BY <1>1, <1>3, <1>4, <1>6, <1>7, <1>8, <1>9, <1>10, <1>11 DEF WorkerSteps

LEMMA LineStep == Core /\ LineInv /\ [Next]_vars => LineInv'
  <1> SUFFICES ASSUME Core, LineInv, [Next]_vars PROVE LineInv'
    OBVIOUS
  <1>1. CASE \E c \in Clients : Calls(c) BY <1>1, LineCalls
  <1>2. CASE \E c \in Clients : CallSteps(c) BY <1>2, CallStep, LineKept
  <1>3. CASE WorkerSteps \/ WorkerTimesOut \/ SpuriousWakeup BY <1>3, LineWorker
  <1>4. CASE \E w \in Workflows : BodyBegins(w) \/ BodyEnds(w) BY <1>4, BodyStep, LineKept
  <1>5. CASE UNCHANGED vars
    BY <1>5 DEF vars, tasks, worker, output, LineInv, Held
  <1> QED BY <1>1, <1>2, <1>3, <1>4, <1>5 DEF Next

LEMMA LineInit == Init => LineInv
  BY DEF Init, LineInv, InLine, Held, Resting, Told

\* What LineInv says entry by entry is what TasksInOrder says of the whole sequences.
LEMMA LineIsOrder == Core /\ LineInv => TasksInOrder
  <1> SUFFICES ASSUME Core, LineInv PROVE TasksInOrder
    OBVIOUS
  <1>0. /\ queue \in Seq(Tasks) /\ accepted \in Seq(Tasks)
        /\ reported \in Seq([id : Tasks, verdict : Verdict]) /\ WorkerInv
        /\ Len(reported) \in Nat
    BY DEF Core, TypeOK
  <1>1. /\ InHand \in Seq(Tasks) /\ Len(InHand) = Held
        /\ Held = 1 => InHand[1] = task
    <2>1. wpc \notin Resting => task \in Tasks /\ task # None
      BY <1>0, Assumptions DEF WorkerInv
    <2>2. wpc \in Resting => task = None BY <1>0 DEF WorkerInv
    <2>3. InHand = IF wpc \in Resting \cup Told THEN <<>> ELSE <<task>>
      BY <2>1, <2>2 DEF InHand, Told, Resting
    <2>4. CASE wpc \in Resting \cup Told BY <2>3, <2>4 DEF Held
    <2>5. CASE wpc \notin Resting \cup Told BY <2>1, <2>3, <2>5 DEF Held
    <2> QED BY <2>4, <2>5
  <1>2. /\ ReportedIds \in Seq(Tasks) /\ Len(ReportedIds) = Len(reported)
        /\ \A i \in 1 .. Len(reported) : ReportedIds[i] = reported[i].id
    <2>1. DOMAIN reported = 1 .. Len(reported) BY <1>0
    <2>2. \A i \in 1 .. Len(reported) : reported[i].id \in Tasks
      <3>1. \A i \in 1 .. Len(reported) : reported[i] \in [id : Tasks, verdict : Verdict] 
        BY <1>0, ElementOfSeq
      <3> QED BY <3>1
    <2>3. ReportedIds = [i \in 1 .. Len(reported) |-> reported[i].id] BY <2>1 DEF ReportedIds
    <2> QED BY <1>0, <2>2, <2>3
  <1> DEFINE left == ReportedIds \o InHand
             all == left \o queue
             n == Len(reported)
  <1>3. /\ left \in Seq(Tasks) /\ Len(left) = n + Held
        /\ \A i \in 1 .. n + Held : left[i] = IF i <= n THEN ReportedIds[i] ELSE InHand[i - n]
    <2>1. left \in Seq(Tasks) /\ Len(left) = Len(ReportedIds) + Len(InHand)
          /\ \A i \in 1 .. Len(ReportedIds) + Len(InHand) :
               left[i] = IF i <= Len(ReportedIds) THEN ReportedIds[i] ELSE InHand[i - Len(ReportedIds)]
      BY <1>1, <1>2, ConcatProperties
    <2> QED BY <1>1, <1>2, <2>1
  <1>4. /\ all \in Seq(Tasks) /\ Len(all) = n + Held + Len(queue)
        /\ \A i \in 1 .. n + Held + Len(queue) :
             all[i] = IF i <= n + Held THEN left[i] ELSE queue[i - (n + Held)]
    <2> HIDE DEF left, n
    <2>1. all \in Seq(Tasks) /\ Len(all) = Len(left) + Len(queue)
          /\ \A i \in 1 .. Len(left) + Len(queue) :
               all[i] = IF i <= Len(left) THEN left[i] ELSE queue[i - Len(left)]
      BY <1>0, <1>3, ConcatProperties
    <2> QED BY <1>3, <2>1
  <1>5. /\ Held \in {0, 1} /\ Held \in Nat /\ Len(queue) \in Nat
        /\ Len(accepted) = n + Held + Len(queue)
        /\ \A i \in 1 .. n : accepted[i] = reported[i].id
        /\ Held = 1 => accepted[n + 1] = task
        /\ \A i \in 1 .. Len(queue) : accepted[n + Held + i] = queue[i]
    <2> HIDE DEF Held
    <2>1. InLine(accepted, reported, Held, task, queue, enqueued) BY DEF LineInv
    <2>2. Held \in {0, 1} BY <2>1 DEF InLine
    <2> QED BY <1>0, <2>1, <2>2 DEF InLine
  <1>6. n \in Nat BY <1>0
  <1> HIDE DEF all, left, n, Held
  <1>7. ASSUME NEW i \in 1 .. Len(accepted) PROVE accepted[i] = all[i]
    <2>1. CASE i <= n
      <3>1. all[i] = ReportedIds[i] BY <1>3, <1>4, <1>5, <1>6, <2>1
      <3>2. i \in 1 .. n BY <1>5, <1>6, <2>1
      <3> QED BY <1>2, <1>5, <3>1, <3>2 DEF n
    <2>2. CASE n < i /\ i <= n + Held
      <3>1. Held = 1 /\ i = n + 1 BY <1>5, <1>6, <2>2
      <3>2. all[i] = InHand[1] BY <1>3, <1>4, <1>5, <1>6, <3>1
      <3> QED BY <1>1, <1>5, <3>1, <3>2
    <2>3. CASE n + Held < i
      <3>1. i - (n + Held) \in 1 .. Len(queue) /\ n + Held + (i - (n + Held)) = i
        BY <1>5, <1>6, <2>3
      <3>2. all[i] = queue[i - (n + Held)] BY <1>4, <1>5, <1>6, <2>3
      <3> QED BY <1>5, <3>1, <3>2
    <2> QED BY <1>5, <1>6, <2>1, <2>2, <2>3
  <1>8. accepted = all BY <1>0, <1>4, <1>5, <1>7, SeqEqual
  <1>9. wpc = "done" => reported # <<>> /\ reported[Len(reported)].id = task
    BY DEF LineInv, Told
  <1> QED BY <1>8, <1>9 DEF TasksInOrder, all, left

\* No task is lost, run twice or overtaken, whoever enqueues, dequeues and destroys when: what
\* was accepted is, in order, what was reported, what the worker holds and what is queued
\* (enqueueWorkflow, dequeueWorkflow, queueProcessingLoop, executeTask).
THEOREM QueueInOrder == Spec => []TasksInOrder
  <1>1. Init => Core /\ LineInv BY CoreInit, LineInit
  <1>2. Core /\ LineInv /\ [Next]_vars => (Core /\ LineInv)' BY CoreStep, LineStep
  <1> QED BY <1>1, <1>2, LineIsOrder, PTL DEF Spec

-----------------------------------------------------------------------------
(* What overlaps.  Who launched a run that is alive, and what is known of it. *)

Known(k) == \E i \in DOMAIN reported : reported[i].id = k

TimedOut(k) == \E i \in DOMAIN reported : reported[i] = [id |-> k, verdict |-> "timeout"]

\* The run r of w was launched for k, which the worker still holds.
Waited(w) ==
  /\ wpc \notin Fresh
  /\ wpc = "await" => w = Mine /\ launched[w] = run
  /\ wpc = "record" => verdict = "timeout"
  /\ wpc \in Told => TimedOut(task)

RunOf(w) ==
  /\ runner[w] # None => runner[w] = task \/ Known(runner[w])
  /\ Alive(w) /\ runner[w] # None /\ runner[w] = task => Waited(w)
  /\ Alive(w) /\ runner[w] # None /\ runner[w] # task => TimedOut(runner[w])

RunInv == \A w \in Workflows : RunOf(w)

LEMMA ReportGrows ==
  ASSUME reported \in Seq([id : Tasks, verdict : Verdict]), NEW k \in Tasks, NEW v \in Verdict,
         reported' = Append(reported, [id |-> k, verdict |-> v])
  PROVE  /\ \A l : Known(l) => Known(l)'
         /\ \A l : TimedOut(l) => TimedOut(l)'
         /\ v = "timeout" => TimedOut(k)'
  <1>1. /\ Len(reported') = Len(reported) + 1
        /\ \A i \in 1 .. Len(reported) : reported'[i] = reported[i]
        /\ reported'[Len(reported) + 1] = [id |-> k, verdict |-> v]
        /\ DOMAIN reported = 1 .. Len(reported) /\ DOMAIN reported' = 1 .. Len(reported) + 1
        /\ Len(reported) \in Nat
    BY AppendProperties
  <1>2. \A i \in DOMAIN reported : i \in DOMAIN reported' /\ reported'[i] = reported[i]
    BY <1>1
  <1>3. Len(reported) + 1 \in DOMAIN reported' BY <1>1
  <1> QED BY <1>1, <1>2, <1>3 DEF Known, TimedOut

\* A step that is not the worker's: it may end a run, or launch one for nobody's task.
LEMMA RunKept ==
  ASSUME Core, RunInv, WorkerKept,
         \A w \in Workflows : \/ runner'[w] = None
                              \/ /\ runner'[w] = runner[w] /\ launched'[w] = launched[w]
                                 /\ Alive(w)' => Alive(w)
  PROVE  RunInv'
  <1> SUFFICES ASSUME NEW w \in Workflows PROVE RunOf(w)'
    BY DEF RunInv
  <1>1. RunOf(w) /\ WorkerInv BY DEF RunInv, Core
  <1>2. UNCHANGED <<reported, task, run, verdict>>
        /\ (wpc' = wpc \/ (wpc \in Resting /\ wpc' = "test"))
    BY DEF WorkerKept
  <1>3. CASE runner'[w] = None BY <1>3 DEF RunOf
  <1>4. CASE /\ runner'[w] = runner[w] /\ launched'[w] = launched[w]
             /\ Alive(w)' => Alive(w)
    <2>1. Waited(w) => Waited(w)' BY <1>2, <1>4 DEF Waited, Mine, Resting, Fresh, Told, TimedOut
    <2>2. \A k : (Known(k)' <=> Known(k)) /\ (TimedOut(k)' <=> TimedOut(k))
      BY <1>2 DEF Known, TimedOut
    <2> QED BY <1>1, <1>2, <1>4, <2>1, <2>2 DEF RunOf
  <1> QED BY <1>3, <1>4

LEMMA RunCalls ==
  ASSUME Core, RunInv, NEW c \in Clients, Calls(c) \/ CallSteps(c)
  PROVE  RunInv'
  <1>1. WorkerKept BY QuickStep, LongCall, DestroyStep, CallStep DEF Calls
  <1>2. CASE UNCHANGED bodies
    BY <1>1, <1>2, RunKept DEF bodies, Alive
  <1>3. CASE ClientLaunch(c)
    <2>1. Launch(target[c], None) BY <1>3 DEF ClientLaunch
    <2>2. \A w \in Workflows : w # target[c] =>
            runner'[w] = runner[w] /\ launched'[w] = launched[w] /\ ended'[w] = ended[w]
      BY <2>1 DEF Launch, Core, TypeOK
    <2>3. target[c] \in Workflows => runner'[target[c]] = None
      BY <2>1 DEF Launch, Core, TypeOK
    <2> QED BY <1>1, <2>2, <2>3, RunKept DEF Alive
  <1>4. CASE Calls(c)
    BY <1>2, <1>4 DEF Calls, registerWorkflow, unregisterWorkflow, startWorkflow, switchWorkflow,
           enqueueWorkflow, dequeueWorkflow, setDefaultTimeout, enablePersistence,
           disablePersistence, processQueue, interrupt, cancel, executeCurrent, Destroy, Quick,
           EntersWith, Enters
  <1>5. CASE CallSteps(c) /\ ~ClientLaunch(c)
    BY <1>2, <1>5 DEF CallSteps, ClientGuard, ClientJoin, ClientClear, ClientErase, ClientTest,
           ClientLoad, ClientClean, ClientSet, ClientStart, ClientDirect, ClientAgain,
           ClientNotify, ClientJoinWorker, ClientDerefsNull
  <1> QED BY <1>3, <1>4, <1>5

LEMMA RunBodies ==
  ASSUME Core, RunInv, NEW w \in Workflows, BodyBegins(w) \/ BodyEnds(w)
  PROVE  RunInv'
  <1>1. WorkerKept BY BodyStep
  <1>2. UNCHANGED <<runner, launched>> BY DEF BodyBegins, BodyEnds
  <1>3. \A x \in Workflows : ended'[x] >= ended[x] /\ ended[x] \in Nat /\ launched[x] \in Nat
                             /\ ended'[x] \in Nat
    <2>1. ended \in [Workflows -> Nat] /\ launched \in [Workflows -> Nat] BY DEF Core, TypeOK
    <2>2. ended' = ended \/ ended' = [ended EXCEPT ![w] = @ + 1] BY DEF BodyBegins, BodyEnds
    <2>3. CASE ended' = ended BY <2>1, <2>3
    <2>4. CASE ended' = [ended EXCEPT ![w] = @ + 1] BY <2>1, <2>4
    <2> QED BY <2>2, <2>3, <2>4
  <1>4. \A x \in Workflows : Alive(x)' => Alive(x) BY <1>2, <1>3 DEF Alive
  <1> QED BY <1>1, <1>2, <1>4, RunKept

LEMMA RunWorker ==
  ASSUME Core, LineInv, RunInv, WorkerSteps \/ WorkerTimesOut \/ SpuriousWakeup
  PROVE  RunInv'
  <1>0. WorkerInv /\ reported \in Seq([id : Tasks, verdict : Verdict]) /\ queue \in Seq(Tasks)
    BY DEF Core, TypeOK
  <1> USE DEF WorkerAt
  <1>1. ASSUME UNCHANGED <<bodies, task, run, reported>>,
               \A w \in Workflows : Alive(w) /\ runner[w] = task /\ Waited(w) => Waited(w)'
        PROVE  RunInv'
    <2> SUFFICES ASSUME NEW w \in Workflows PROVE RunOf(w)'
      BY DEF RunInv
    <2>1. RunOf(w) BY DEF RunInv
    <2>2. (Alive(w)' <=> Alive(w)) /\ UNCHANGED runner BY <1>1 DEF Alive, bodies
    <2>3. \A k : (Known(k)' <=> Known(k)) /\ (TimedOut(k)' <=> TimedOut(k))
      BY <1>1 DEF Known, TimedOut
    <2> QED BY <1>1, <2>1, <2>2, <2>3 DEF RunOf
  \* The new task was never launched: whatever was launched before is reported.
  <1>2. CASE WorkerTakes
    <2>1. /\ wpc = "test" /\ wpc' = "lookup" /\ queue # <<>> /\ task' = Head(queue)
          /\ UNCHANGED <<bodies, reported>>
      BY <1>2 DEF WorkerTakes, output
    <2>2. task = None BY <1>0, <2>1 DEF WorkerInv, Resting
    <2>3. ~Known(task')
      <3>1. Held = 0 BY <2>1 DEF Held, Resting
      <3>2. InLine(accepted, reported, 0, task, queue, enqueued) BY <3>1 DEF LineInv
      <3>3. Len(reported) \in Nat /\ Len(queue) \in Nat /\ Len(queue) >= 1 /\ Head(queue) = queue[1]
        BY <1>0, <2>1
      <3>4. /\ Len(accepted) = Len(reported) + 0 + Len(queue)
            /\ \A i \in 1 .. Len(reported) : accepted[i] = reported[i].id
            /\ accepted[Len(reported) + 0 + 1] = queue[1]
            /\ \A i, j \in 1 .. Len(accepted) : accepted[i] = accepted[j] => i = j
        BY <3>2, <3>3 DEF InLine
      <3>5. ASSUME NEW i \in 1 .. Len(reported), reported[i].id = Head(queue) PROVE FALSE
        <4>1. i \in 1 .. Len(accepted) /\ Len(reported) + 1 \in 1 .. Len(accepted)
              /\ i # Len(reported) + 1
          BY <3>3, <3>4
        <4>2. accepted[i] = accepted[Len(reported) + 1] BY <3>3, <3>4, <3>5
        <4> QED BY <3>4, <4>1, <4>2
      <3>6. DOMAIN reported = 1 .. Len(reported) BY <1>0
      <3> QED BY <2>1, <3>5, <3>6 DEF Known
    <2> SUFFICES ASSUME NEW w \in Workflows PROVE RunOf(w)'
      BY DEF RunInv
    <2>4. RunOf(w) BY DEF RunInv
    <2>5. (Alive(w)' <=> Alive(w)) /\ UNCHANGED runner BY <2>1 DEF Alive, bodies
    <2>6. \A k : (Known(k)' <=> Known(k)) /\ (TimedOut(k)' <=> TimedOut(k))
      BY <2>1 DEF Known, TimedOut
    <2>7. runner[w] # None => Known(runner[w]) /\ runner[w] # task'
      BY <2>2, <2>3, <2>4 DEF RunOf
    <2>8. Alive(w) /\ runner[w] # None => TimedOut(runner[w]) BY <2>2, <2>4 DEF RunOf
    <2> QED BY <2>5, <2>6, <2>7, <2>8 DEF RunOf
  \* A run that outlives its task is one that timed out.
  <1>3. CASE WorkerDone
    <2>1. /\ wpc = "done" /\ wpc' = "test" /\ task' = None
          /\ UNCHANGED <<bodies, reported>>
      BY <1>3 DEF WorkerDone, output
    <2>2. Known(task)
      <3>1. reported # <<>> /\ reported[Len(reported)].id = task BY <2>1 DEF LineInv, Told
      <3>2. Len(reported) \in DOMAIN reported BY <1>0, <3>1
      <3> QED BY <3>1, <3>2 DEF Known
    <2> SUFFICES ASSUME NEW w \in Workflows PROVE RunOf(w)'
      BY DEF RunInv
    <2>3. RunOf(w) BY DEF RunInv
    <2>4. (Alive(w)' <=> Alive(w)) /\ UNCHANGED runner BY <2>1 DEF Alive, bodies
    <2>5. \A k : (Known(k)' <=> Known(k)) /\ (TimedOut(k)' <=> TimedOut(k))
      BY <2>1 DEF Known, TimedOut
    <2>6. runner[w] # None => Known(runner[w]) BY <2>2, <2>3 DEF RunOf
    <2>7. Alive(w) /\ runner[w] # None => TimedOut(runner[w])
      BY <2>1, <2>3 DEF RunOf, Waited, Told
    <2> QED BY <2>1, <2>4, <2>5, <2>6, <2>7 DEF RunOf
  <1>4. CASE WorkerLaunches
    <2>1. /\ wpc' = "await" /\ run' = launched'[Mine] /\ Launch(Mine, task)
          /\ UNCHANGED <<task, reported>>
      BY <1>4 DEF WorkerLaunches, output
    <2>2. Mine \in Workflows
      BY <1>0, <1>4, Assumptions DEF WorkerLaunches, WorkerInv, Resting, Mine
    <2> SUFFICES ASSUME NEW w \in Workflows PROVE RunOf(w)'
      BY DEF RunInv
    <2>3. RunOf(w) BY DEF RunInv
    <2>4. \A k : (Known(k)' <=> Known(k)) /\ (TimedOut(k)' <=> TimedOut(k))
      BY <2>1 DEF Known, TimedOut
    <2>5. Mine' = Mine BY <2>1 DEF Mine
    <2>6. CASE w = Mine
      <3>1. runner'[w] = task BY <2>1, <2>2, <2>6 DEF Launch, Core, TypeOK
      <3>2. Waited(w)' BY <2>1, <2>5, <2>6 DEF Waited, Fresh, Told
      <3> QED BY <2>1, <3>1, <3>2 DEF RunOf
    <2>7. CASE w # Mine
      <3>1. runner'[w] = runner[w] /\ launched'[w] = launched[w] /\ ended'[w] = ended[w]
        BY <2>1, <2>7 DEF Launch, Core, TypeOK
      <3>2. ~Waited(w) BY <1>4 DEF WorkerLaunches, Waited, Fresh
      <3> QED BY <2>1, <2>3, <2>4, <3>1, <3>2 DEF RunOf, Alive
    <2> QED BY <2>6, <2>7
  <1>5. CASE WorkerCollects
    <2>1. UNCHANGED <<bodies, task, run, reported>> /\ wpc' = "record"
          /\ wpc = "await" /\ ended[Mine] >= run
      BY <1>5 DEF WorkerCollects, output
    <2>2. ASSUME NEW w \in Workflows, Alive(w), Waited(w) PROVE FALSE
      <3>1. w = Mine /\ launched[w] = run BY <2>1, <2>2 DEF Waited
      <3>2. launched[w] \in Nat /\ ended[w] \in Nat BY DEF Core, TypeOK
      <3> QED BY <2>1, <2>2, <3>1, <3>2 DEF Alive
    <2> QED BY <1>1, <2>1, <2>2
  <1>6. ASSUME NEW v \in Verdict, Report(v), task \in Tasks,
               UNCHANGED <<bodies, task, run>>,
               \A w \in Workflows : Alive(w) /\ runner[w] = task /\ Waited(w)
                                      => v = "timeout" /\ wpc' \in Told
        PROVE  RunInv'
    <2>1. reported' = Append(reported, [id |-> task, verdict |-> v]) BY <1>6 DEF Report
    <2>2. /\ \A l : Known(l) => Known(l)'
          /\ \A l : TimedOut(l) => TimedOut(l)'
          /\ v = "timeout" => TimedOut(task)'
      BY <1>0, <1>6, <2>1, ReportGrows
    <2> SUFFICES ASSUME NEW w \in Workflows PROVE RunOf(w)'
      BY DEF RunInv
    <2>3. RunOf(w) BY DEF RunInv
    <2>4. (Alive(w)' <=> Alive(w)) /\ UNCHANGED runner BY <1>6 DEF Alive, bodies
    <2>5. Alive(w) /\ runner[w] = task /\ Waited(w) => Waited(w)'
      BY <1>6, <2>2 DEF Waited, Told, Fresh, TimedOut
    <2> QED BY <1>6, <2>2, <2>3, <2>4, <2>5 DEF RunOf
  <1>7. CASE WorkerLooksUp /\ Mine \notin registered
    <2>1. Report("missing") /\ wpc = "lookup" /\ UNCHANGED <<bodies, task, run>>
      BY <1>7 DEF WorkerLooksUp, WorkerGoes
    <2>2. task \in Tasks BY <1>0, <2>1 DEF WorkerInv, Resting
    <2>3. "missing" \in Verdict BY DEF Verdict
    <2>4. \A w \in Workflows : ~Waited(w) BY <2>1 DEF Waited, Fresh
    <2> QED BY <1>6, <2>1, <2>2, <2>3, <2>4
  <1>8. CASE WorkerRecords
    <2>1. Report(verdict) /\ wpc = "record" /\ UNCHANGED <<bodies, task, run>>
          /\ wpc' \in {"read", "judge"}
      BY <1>8 DEF WorkerRecords, WorkerGoes
    <2>2. task \in Tasks BY <1>0, <2>1 DEF WorkerInv, Resting
    <2>3. verdict \in Verdict BY DEF Core, TypeOK
    <2>4. \A w \in Workflows : Waited(w) => verdict = "timeout" /\ wpc' \in Told
      BY <2>1 DEF Waited, Told
    <2> QED BY <1>6, <2>1, <2>2, <2>3, <2>4
  <1> USE DEF Waited, Fresh, Told, TimedOut, Mine
  <1>9. CASE WorkerLooksUp /\ Mine \in registered
    BY <1>1, <1>9 DEF WorkerLooksUp, WorkerGoes
  <1>10. CASE WorkerStops \/ WorkerTests \/ WorkerBlocks \/ SpuriousWakeup \/ WorkerSelects
    BY <1>1, <1>10 DEF WorkerStops, WorkerTests, WorkerBlocks, SpuriousWakeup, WorkerSelects,
                       WorkerGoes, output
  <1>11. CASE WorkerStarts \/ WorkerExecutes
    BY <1>1, <1>11 DEF WorkerStarts, WorkerExecutes, WorkerGoes, output
  <1>12. CASE WorkerTimesOut \/ WorkerInterrupts \/ WorkerJoins
    BY <1>0, <1>1, <1>12 DEF WorkerTimesOut, WorkerInterrupts, WorkerJoins, WorkerGoes, output,
                             WorkerInv
  <1>13. CASE WorkerJudges \/ WorkerReads
    BY <1>1, <1>13 DEF WorkerJudges, WorkerReads, Rows, output
  <1>14. CASE WorkerChecksStore \/ WorkerSaves \/ WorkerSavesToNull
    BY <1>1, <1>14 DEF WorkerChecksStore, WorkerSaves, WorkerSavesToNull, WorkerGoes, output, worker
  <1> QED BY <1>2, <1>3, <1>4, <1>5, <1>7, <1>8, <1>9, <1>10, <1>11, <1>12, <1>13, <1>14
          DEF WorkerSteps

LEMMA RunStep == Core /\ LineInv /\ RunInv /\ [Next]_vars => RunInv'
  <1> SUFFICES ASSUME Core, LineInv, RunInv, [Next]_vars PROVE RunInv'
    OBVIOUS
  <1>1. CASE \E c \in Clients : Calls(c) \/ CallSteps(c) BY <1>1, RunCalls
  <1>2. CASE WorkerSteps \/ WorkerTimesOut \/ SpuriousWakeup BY <1>2, RunWorker
  <1>3. CASE \E w \in Workflows : BodyBegins(w) \/ BodyEnds(w) BY <1>3, RunBodies
  <1>4. CASE UNCHANGED vars
    BY <1>4 DEF vars, bodies, worker, output, RunInv, RunOf, Waited, Alive, Mine, Known, TimedOut
  <1> QED BY <1>1, <1>2, <1>3, <1>4 DEF Next

LEMMA RunInit == Init => RunInv
  BY DEF Init, RunInv, RunOf

\* Two tasks of the queue run at once only after a timeout: while the worker is with one
\* task, a body it launched for an earlier one is alive only if that one was reported as
\* timed out (executeTask waits for the future, and interrupt() does not end a body).
THEOREM NoSilentOverlap == Spec => []OverlapNeedsTimeout
  <1>1. Init => Core /\ LineInv /\ RunInv BY CoreInit, LineInit, RunInit
  <1>2. Core /\ LineInv /\ RunInv /\ [Next]_vars => (Core /\ LineInv /\ RunInv)'
    BY CoreStep, LineStep, RunStep
  <1>3. RunInv => OverlapNeedsTimeout BY DEF RunInv, RunOf, TimedOut, OverlapNeedsTimeout
  <1> QED BY <1>1, <1>2, <1>3, PTL DEF Spec

-----------------------------------------------------------------------------
(* What can be read once the queue is quiet.                               *)

\* Reported task i was not found, or is old enough, or has its result no nearer to the front
\* of the results than that.
Kept(i) ==
  \/ reported[i].verdict = "missing"
  \/ i + MaxResults <= Len(reported)
  \/ \E j \in 1 .. Len(results) :
       results[j].id = reported[i].id /\ Len(results) - j <= Len(reported) - i

ResultInv ==
  /\ Len(results) <= MaxResults
  /\ \A i \in 1 .. Len(reported) : Kept(i)

NewResult == [id |-> task, state |-> FinalState, verdict |-> verdict]

\* With a new result, the others move d places towards the front, and the first may fall out.
LEMMA RecordShift ==
  ASSUME Core, ResultInv, WorkerRecords
  PROVE  \E d \in {0, 1} :
           /\ d = 1 => Len(results) = MaxResults
           /\ d = 0 => Len(results) < MaxResults
           /\ Len(results') = Len(results) + 1 - d
           /\ results'[Len(results) + 1 - d] = NewResult
           /\ \A j \in 1 .. Len(results) : j > d => results'[j - d] = results[j]
  <1> DEFINE r == NewResult
             R == [id : Tasks, state : WorkflowState, verdict : Verdict]
             m == Len(results)
  <1>0. results \in Seq(R) /\ m \in Nat /\ MaxResults \in Nat \ {0}
    BY Assumptions DEF Core, TypeOK
  <1>1. task \in Tasks /\ verdict \in Outcome
    BY DEF Core, WorkerRecords, WorkerAt, WorkerInv, Resting
  <1>2. r \in R BY <1>1, FinalStateType, Labels DEF Core, NewResult
  <1>6. \E d \in {0, 1} :
          /\ d = 1 => m = MaxResults
          /\ d = 0 => m < MaxResults
          /\ Len(results') = m + 1 - d /\ results'[m + 1 - d] = r
          /\ \A j \in 1 .. m : j > d => results'[j - d] = results[j]
    <2>1. CASE m = MaxResults
      <3>1. results' = Append(Tail(results), r) BY <2>1 DEF WorkerRecords, Record, NewResult
      <3>2. results # <<>> BY <1>0, <2>1
      <3>3. /\ Tail(results) \in Seq(R) /\ Len(Tail(results)) = m - 1
            /\ \A j \in 1 .. m - 1 : Tail(results)[j] = results[j + 1]
        <4> HIDE DEF R
        <4> QED BY <1>0, <3>2, HeadTailProperties
      <3>4. /\ Len(results') = m /\ results'[m] = r
            /\ \A j \in 1 .. m - 1 : results'[j] = Tail(results)[j]
        <4>1. /\ Len(results') = Len(Tail(results)) + 1 /\ results'[Len(Tail(results)) + 1] = r
              /\ \A j \in 1 .. Len(Tail(results)) : results'[j] = Tail(results)[j]
          <5> HIDE DEF R, r
          <5> QED BY <1>2, <3>1, <3>3, AppendProperties
        <4>2. Len(Tail(results)) + 1 = m BY <1>0, <3>3
        <4> QED BY <3>3, <4>1, <4>2
      <3>5. \A j \in 1 .. m : j > 1 => results'[j - 1] = results[j]
        <4>1. ASSUME NEW j \in 1 .. m, j > 1 PROVE results'[j - 1] = results[j]
          <5>1. j - 1 \in 1 .. m - 1 /\ (j - 1) + 1 = j BY <1>0, <4>1
          <5> HIDE DEF m
          <5> QED BY <3>3, <3>4, <5>1
        <4> QED BY <4>1
      <3>6. m + 1 - 1 = m BY <1>0
      <3> HIDE DEF m, r
      <3> WITNESS 1 \in {0, 1}
      <3> QED BY <2>1, <3>4, <3>5, <3>6
    <2>2. CASE m # MaxResults
      <3>1. results' = Append(results, r) BY <2>2 DEF WorkerRecords, Record, NewResult
      <3>2. /\ Len(results') = m + 1 /\ results'[m + 1] = r
            /\ \A j \in 1 .. m : results'[j] = results[j]
        <4> HIDE DEF R, r
        <4> QED BY <1>0, <1>2, <3>1, AppendProperties
      <3>3. m < MaxResults BY <1>0, <2>2 DEF ResultInv
      <3>4. m + 1 - 0 = m + 1 /\ \A j \in 1 .. m : j - 0 = j BY <1>0
      <3> HIDE DEF m, r
      <3> WITNESS 0 \in {0, 1}
      <3> QED BY <2>2, <3>2, <3>3, <3>4
    <2> QED BY <2>1, <2>2
  <1> QED BY <1>6

LEMMA ResultRecord ==
  ASSUME Core, ResultInv, WorkerRecords
  PROVE  ResultInv'
  <1> DEFINE r == NewResult
             n == Len(reported)
             m == Len(results)
  <1>0. /\ reported \in Seq([id : Tasks, verdict : Verdict])
        /\ n \in Nat /\ m \in Nat /\ MaxResults \in Nat \ {0}
    BY Assumptions DEF Core, TypeOK
  <1>1. task \in Tasks /\ verdict \in Outcome
    BY DEF Core, WorkerRecords, WorkerAt, WorkerInv, Resting
  <1>3. [id |-> task, verdict |-> verdict] \in [id : Tasks, verdict : Verdict]
    BY <1>1, Labels
  <1>4. reported' = Append(reported, [id |-> task, verdict |-> verdict])
    BY DEF WorkerRecords, Report
  <1>5. /\ Len(reported') = n + 1 /\ reported'[n + 1] = [id |-> task, verdict |-> verdict]
        /\ \A i \in 1 .. n : reported'[i] = reported[i]
    BY <1>0, <1>3, <1>4, AppendProperties
  <1>7. PICK d \in {0, 1} :
          /\ d = 1 => m = MaxResults
          /\ d = 0 => m < MaxResults
          /\ Len(results') = m + 1 - d /\ results'[m + 1 - d] = r
          /\ \A j \in 1 .. m : j > d => results'[j - d] = results[j]
    BY RecordShift
  <1>8. r.id = task BY DEF NewResult
  <1>9. m <= MaxResults BY DEF ResultInv
  <1> HIDE DEF n, m, r
  <1>10. Len(results') <= MaxResults BY <1>0, <1>7, <1>9
  <1>11. ASSUME NEW i \in 1 .. n + 1 PROVE Kept(i)'
    <2>1. CASE i = n + 1
      <3>1. m + 1 - d \in 1 .. Len(results') BY <1>0, <1>7
      <3>2. results'[m + 1 - d].id = reported'[i].id BY <1>5, <1>7, <1>8, <2>1
      <3>3. Len(results') - (m + 1 - d) <= Len(reported') - i BY <1>0, <1>5, <1>7, <2>1
      <3> QED BY <3>1, <3>2, <3>3 DEF Kept
    <2>2. CASE i \in 1 .. n
      <3>1. reported'[i] = reported[i] BY <1>5, <2>2
      <3>2. Kept(i) BY <2>2 DEF ResultInv, n
      <3>3. CASE reported[i].verdict = "missing" BY <3>1, <3>3 DEF Kept
      <3>4. CASE i + MaxResults <= n
        <4>1. i + MaxResults <= Len(reported') BY <1>0, <1>5, <3>4
        <4> QED BY <4>1 DEF Kept
      <3>5. ASSUME NEW j \in 1 .. m, results[j].id = reported[i].id, m - j <= n - i
            PROVE  Kept(i)'
        <4>1. CASE j > d
          <5>1. j - d \in 1 .. Len(results') BY <1>0, <1>7, <4>1
          <5>2. results'[j - d].id = reported'[i].id BY <1>7, <3>1, <3>5, <4>1
          <5>3. Len(results') - (j - d) <= Len(reported') - i BY <1>0, <1>5, <1>7, <3>5
          <5> QED BY <5>1, <5>2, <5>3 DEF Kept
        <4>2. CASE j <= d
          <5>1. d = 1 /\ j = 1 /\ m = MaxResults BY <1>0, <1>7, <4>2
          <5>2. i + MaxResults <= Len(reported') BY <1>0, <1>5, <3>5, <5>1
          <5> QED BY <5>2 DEF Kept
        <4> QED BY <1>0, <1>7, <4>1, <4>2
      <3> QED BY <3>2, <3>3, <3>4, <3>5 DEF Kept, n, m
    <2> QED BY <1>0, <2>1, <2>2
  <1> QED BY <1>5, <1>10, <1>11 DEF ResultInv

LEMMA ResultMissing ==
  ASSUME Core, ResultInv, WorkerLooksUp, Mine \notin registered
  PROVE  ResultInv'
  <1> DEFINE n == Len(reported)
  <1>1. reported' = Append(reported, [id |-> task, verdict |-> "missing"]) /\ results' = results
    BY DEF WorkerLooksUp, Report
  <1>2. task \in Tasks BY DEF Core, WorkerLooksUp, WorkerAt, WorkerInv, Resting
  <1>3. [id |-> task, verdict |-> "missing"] \in [id : Tasks, verdict : Verdict]
    BY <1>2 DEF Verdict
  <1>4. /\ reported \in Seq([id : Tasks, verdict : Verdict]) /\ n \in Nat /\ MaxResults \in Nat
        /\ Len(results) \in Nat
    BY Assumptions DEF Core, TypeOK
  <1>5. /\ Len(reported') = n + 1 /\ reported'[n + 1].verdict = "missing"
        /\ \A i \in 1 .. n : reported'[i] = reported[i]
    BY <1>1, <1>3, <1>4, AppendProperties
  <1> HIDE DEF n
  <1>6. ASSUME NEW i \in 1 .. n + 1 PROVE Kept(i)'
    <2>1. CASE i = n + 1 BY <1>5, <2>1 DEF Kept
    <2>2. CASE i \in 1 .. n
      <3>1. reported'[i] = reported[i] BY <1>5, <2>2
      <3>2. Kept(i) BY <2>2 DEF ResultInv, n
      <3>3. CASE reported[i].verdict = "missing" BY <3>1, <3>3 DEF Kept
      <3>4. CASE i + MaxResults <= n
        <4>1. i + MaxResults <= Len(reported') BY <1>4, <1>5, <3>4
        <4> QED BY <4>1 DEF Kept
      <3>5. ASSUME NEW j \in 1 .. Len(results), results[j].id = reported[i].id,
                   Len(results) - j <= n - i
            PROVE  Kept(i)'
        <4>1. Len(results') - j <= Len(reported') - i BY <1>1, <1>4, <1>5, <3>5
        <4> QED BY <1>1, <3>1, <3>5, <4>1 DEF Kept
      <3> QED BY <3>2, <3>3, <3>4, <3>5 DEF Kept, n
    <2> QED BY <1>4, <2>1, <2>2
  <1> QED BY <1>1, <1>5, <1>6 DEF ResultInv

LEMMA ResultStep == Core /\ ResultInv /\ [Next]_vars => ResultInv'
  <1> SUFFICES ASSUME Core, ResultInv, [Next]_vars PROVE ResultInv'
    OBVIOUS
  <1>1. CASE UNCHANGED <<results, reported>> BY <1>1 DEF ResultInv, Kept
  <1>2. CASE \E c \in Clients : Calls(c) \/ CallSteps(c)
    BY <1>1, <1>2, QuickStep, LongCall, DestroyStep, CallStep DEF Calls, WorkerKept
  <1>3. CASE WorkerRecords BY <1>3, ResultRecord
  <1>4. CASE WorkerLooksUp BY <1>1, <1>4, ResultMissing DEF WorkerLooksUp
  <1>5. CASE (WorkerSteps /\ ~WorkerRecords /\ ~WorkerLooksUp) \/ WorkerTimesOut \/ SpuriousWakeup
    BY <1>1, <1>5 DEF WorkerSteps, WorkerTimesOut, SpuriousWakeup, WorkerStops, WorkerTests,
           WorkerBlocks, WorkerTakes, WorkerDone, WorkerSelects, WorkerStarts, WorkerExecutes,
           WorkerLaunches, WorkerCollects, WorkerInterrupts, WorkerJoins, WorkerJudges,
           WorkerReads, Rows, WorkerChecksStore, WorkerSaves, WorkerSavesToNull, output
  <1>6. CASE \E w \in Workflows : BodyBegins(w) \/ BodyEnds(w)
    BY <1>1, <1>6, BodyStep DEF WorkerKept
  <1>7. CASE UNCHANGED vars BY <1>1, <1>7 DEF vars, output
  <1> QED BY <1>2, <1>3, <1>4, <1>5, <1>6, <1>7 DEF Next

LEMMA ResultInit == Init => ResultInv
  BY Assumptions DEF Init, ResultInv

LEMMA QuietAll == Core /\ LineInv /\ ResultInv => QuietMeansDone
  <1> SUFFICES ASSUME Core, LineInv, ResultInv, queue = <<>>, ~processing
               PROVE  /\ accepted = ReportedIds
                      /\ \A i \in DOMAIN reported :
                           \/ reported[i].verdict = "missing"
                           \/ i + MaxResults <= Len(reported)
                           \/ \E j \in DOMAIN results : results[j].id = reported[i].id
    BY DEF QuietMeansDone
  <1>1. /\ accepted \in Seq(Tasks) /\ reported \in Seq([id : Tasks, verdict : Verdict])
        /\ DOMAIN results = 1 .. Len(results) /\ DOMAIN reported = 1 .. Len(reported)
        /\ Len(reported) \in Nat
    BY DEF Core, TypeOK
  <1>2. Held = 0 BY DEF Core, WorkerInv, Held
  <1>3. InLine(accepted, reported, 0, task, <<>>, enqueued) BY <1>2 DEF LineInv
  <1>4. Len(accepted) = Len(reported) /\ \A i \in 1 .. Len(reported) : accepted[i] = reported[i].id
    BY <1>1, <1>3 DEF InLine
  <1>5. accepted = [i \in 1 .. Len(reported) |-> reported[i].id] BY <1>1, <1>4
  <1>6. ReportedIds = [i \in 1 .. Len(reported) |-> reported[i].id] BY <1>1 DEF ReportedIds
  <1> QED BY <1>1, <1>5, <1>6 DEF ResultInv, Kept

\* What callers poll for: once the queue is empty and isQueueProcessing() is false, every
\* accepted task was reported and its result can be read, unless it was displaced by newer
\* ones (queueProcessingLoop raises the flag under the mutex that guards the queue).
THEOREM QuietIsDone == Spec => []QuietMeansDone
  <1>1. Init => Core /\ LineInv /\ ResultInv BY CoreInit, LineInit, ResultInit
  <1>2. Core /\ LineInv /\ ResultInv /\ [Next]_vars => (Core /\ LineInv /\ ResultInv)'
    BY CoreStep, LineStep, ResultStep
  <1> QED BY <1>1, <1>2, QuietAll, PTL DEF Spec

-----------------------------------------------------------------------------
(* The states of the workflows, and the runs that left them there.          *)

\* States in which the manager leaves a workflow between two of its steps.
Calm == {"IDLE", "READY"} \cup Running \cup Terminal

\* A final state stays, a body that began is not forgotten, a started workflow is not IDLE.
Onward(s, t) ==
  /\ t \in Calm
  /\ s \in Terminal => t = s
  /\ s \in Running => t \in Running \cup Terminal
  /\ s # "IDLE" => t # "IDLE"

\* What one step can make of state s.
Reached(s) ==
  {SetState(SetState(s, "INITIALIZING"), "READY"), SetState(s, "EXECUTING"),
   SetState(s, "COMPLETED"), SetState(s, "INTERRUPTED")} \cup {Stopped(o, s) : o \in Method}

StateOf(w) ==
  /\ wstate[w] \in Calm
  /\ launched[w] >= 1 => wstate[w] # "IDLE"
  /\ begun[w] => wstate[w] \in Running \cup Terminal
  /\ ended[w] >= 1 => wstate[w] \in Terminal

StateInv ==
  /\ \A w \in Workflows : StateOf(w)
  /\ wpc = "launch" => wstate[Mine] # "IDLE"
  /\ verdict = "ended" => wstate[Mine] \in Terminal
  /\ \A c \in Clients : pc[c] = "launch" => wstate[target[c]] # "IDLE"

LEMMA ReachedOnward ==
  ASSUME NEW s \in Calm, NEW t \in Reached(s)
  PROVE  Onward(s, t)
  <1> USE DEF Calm, Onward, SetState, isValidStateTransition, Running, Terminal
  <1>1. CASE t = SetState(SetState(s, "INITIALIZING"), "READY") BY <1>1
  <1>2. CASE t = SetState(s, "EXECUTING") BY <1>2
  <1>3. CASE t = SetState(s, "COMPLETED") BY <1>3
  <1>4. CASE t = SetState(s, "INTERRUPTED") BY <1>4
  <1>5. CASE t = SetState(s, "CANCELED") BY <1>5
  <1>6. CASE t = SetState(SetState(s, "TERMINATING"), "COMPLETED") BY <1>6
  <1>7. ASSUME NEW o \in Method, t = Stopped(o, s) PROVE Onward(s, t)
    BY <1>4, <1>5, <1>6, <1>7 DEF Stopped
  <1> QED BY <1>1, <1>2, <1>3, <1>4, <1>7 DEF Reached

\* Every step leaves every state, or moves one of them as Reached says.
LEMMA OneMove ==
  ASSUME Core, [Next]_vars
  PROVE  \/ wstate' = wstate
         \/ \E w \in Workflows : \E t \in Reached(wstate[w]) : wstate' = [wstate EXCEPT ![w] = t]
  <1>0. WorkerInv /\ ClientInv /\ current \in Workflows \cup {None} /\ op \in [Clients -> Method]
    BY DEF Core, TypeOK
  <1>1. CASE \E c \in Clients : Calls(c)
    BY <1>1 DEF Calls, registerWorkflow, unregisterWorkflow, startWorkflow, switchWorkflow,
           enqueueWorkflow, dequeueWorkflow, setDefaultTimeout, enablePersistence,
           disablePersistence, processQueue, interrupt, cancel, executeCurrent, Destroy, Quick,
           EntersWith, Enters
  <1>2. ASSUME NEW c \in Clients, CallSteps(c)
        PROVE  \/ wstate' = wstate
               \/ \E w \in Workflows : \E t \in Reached(wstate[w]) : wstate' = [wstate EXCEPT ![w] = t]
    <2>1. Placed(pc[c], op[c], target[c], victim[c]) BY <1>0 DEF ClientInv
    <2>2. CASE ClientJoin(c)
      <3>1. victim[c] \in Workflows BY <2>1, <2>2 DEF ClientJoin, ClientAt, Placed
      <3>2. wstate' = [wstate EXCEPT ![victim[c]] = Stopped(op[c], wstate[victim[c]])]
        BY <2>2 DEF ClientJoin
      <3>3. Stopped(op[c], wstate[victim[c]]) \in Reached(wstate[victim[c]])
        BY <1>0 DEF Reached
      <3> QED BY <3>1, <3>2, <3>3
    <2>3. CASE ClientStart(c)
      <3>1. current \in Workflows BY <1>0, <2>3 DEF ClientStart
      <3> QED BY <2>3, <3>1 DEF ClientStart, StartWorkflow, Reached
    <2>4. CASE ClientDirect(c)
      <3>1. target[c] \in Workflows BY <2>1, <2>4 DEF ClientDirect, ClientAt, Placed, Targeted
      <3> QED BY <2>4, <3>1 DEF ClientDirect, StartWorkflow, Reached
    <2> QED BY <1>2, <2>2, <2>3, <2>4
            DEF CallSteps, ClientGuard, ClientClear, ClientErase, ClientTest, ClientLoad,
                ClientClean, ClientSet, ClientAgain, ClientLaunch, ClientNotify,
                ClientJoinWorker, ClientDerefsNull
  <1>3. CASE WorkerStarts \/ WorkerJoins
    <2>1. Mine \in Workflows
      BY <1>0, <1>3, Assumptions DEF WorkerStarts, WorkerJoins, WorkerAt, WorkerInv, Resting, Mine
    <2> QED BY <1>3, <2>1 DEF WorkerStarts, WorkerJoins, StartWorkflow, Enter, Reached
  <1>4. CASE (WorkerSteps /\ ~WorkerStarts /\ ~WorkerJoins) \/ WorkerTimesOut \/ SpuriousWakeup
    BY <1>4 DEF WorkerSteps, WorkerTimesOut, SpuriousWakeup, WorkerStops, WorkerTests,
           WorkerBlocks, WorkerTakes, WorkerDone, WorkerLooksUp, WorkerSelects, WorkerExecutes,
           WorkerLaunches, WorkerCollects, WorkerInterrupts, WorkerRecords, WorkerJudges,
           WorkerReads, Rows, WorkerChecksStore, WorkerSaves, WorkerSavesToNull
  <1>5. CASE \E w \in Workflows : BodyBegins(w) \/ BodyEnds(w)
    BY <1>5 DEF BodyBegins, BodyEnds, Enter, Reached
  <1>6. CASE UNCHANGED vars BY <1>6 DEF vars
  <1> QED BY <1>1, <1>2, <1>3, <1>4, <1>5, <1>6 DEF Next

LEMMA AllOnward ==
  ASSUME Core, StateInv, [Next]_vars, NEW w \in Workflows
  PROVE  Onward(wstate[w], wstate'[w])
  <1>1. wstate[w] \in Calm BY DEF StateInv, StateOf
  <1>2. Onward(wstate[w], wstate[w]) BY <1>1 DEF Onward
  <1>3. wstate \in [Workflows -> WorkflowState] BY DEF Core, TypeOK
  <1>4. ASSUME NEW x \in Workflows, NEW t \in Reached(wstate[x]), wstate' = [wstate EXCEPT ![x] = t]
        PROVE  Onward(wstate[w], wstate'[w])
    <2>1. CASE x = w BY <1>1, <1>3, <1>4, <2>1, ReachedOnward
    <2>2. CASE x # w BY <1>2, <1>3, <1>4, <2>2
    <2> QED BY <2>1, <2>2
  <1> QED BY <1>2, <1>4, OneMove

\* Runs: who launches one, begins it and ends it.
LEMMA RunMoves ==
  ASSUME Core, StateInv, [Next]_vars, NEW w \in Workflows
  PROVE  /\ launched'[w] = launched[w] \/ wstate[w] # "IDLE"
         /\ begun'[w] => begun[w] \/ wstate'[w] \in Running \cup Terminal
         /\ ended'[w] = ended[w] \/ wstate'[w] \in Terminal
  <1>0. /\ wstate \in [Workflows -> WorkflowState]
        /\ launched \in [Workflows -> Nat] /\ ended \in [Workflows -> Nat]
        /\ begun \in [Workflows -> BOOLEAN] /\ WorkerInv
    BY DEF Core, TypeOK
  <1>1. CASE UNCHANGED bodies BY <1>1 DEF bodies
  <1>2. ASSUME NEW x \in Workflows, NEW by, Launch(x, by), wstate[x] # "IDLE"
        PROVE  /\ launched'[w] = launched[w] \/ wstate[w] # "IDLE"
               /\ UNCHANGED <<begun, ended>>
    BY <1>0, <1>2 DEF Launch
  <1>3. CASE WorkerLaunches
    <2>1. Launch(Mine, task) /\ wpc = "launch" BY <1>3 DEF WorkerLaunches, WorkerAt
    <2>2. Mine \in Workflows BY <1>0, <2>1, Assumptions DEF WorkerInv, Resting, Mine
    <2> QED BY <1>2, <2>1, <2>2 DEF StateInv
  <1>4. ASSUME NEW c \in Clients, ClientLaunch(c)
        PROVE  /\ launched'[w] = launched[w] \/ wstate[w] # "IDLE"
               /\ UNCHANGED <<begun, ended>>
    <2>1. Launch(target[c], None) /\ pc[c] = "launch" BY <1>4 DEF ClientLaunch, ClientAt
    <2>2. target[c] \in Workflows
      BY <2>1 DEF Core, ClientInv, Placed, Targeted
    <2> QED BY <1>2, <2>1, <2>2 DEF StateInv
  <1>5. ASSUME NEW x \in Workflows, BodyBegins(x)
        PROVE  /\ UNCHANGED <<launched, ended>>
               /\ begun'[w] => begun[w] \/ wstate'[w] \in Running \cup Terminal
    <2>1. /\ UNCHANGED <<launched, ended>> /\ begun' = [begun EXCEPT ![x] = TRUE] /\ Alive(x)
          /\ wstate' = [wstate EXCEPT ![x] = SetState(wstate[x], "EXECUTING")]
      BY <1>5 DEF BodyBegins, Enter
    <2>2. launched[x] >= 1 BY <1>0, <2>1 DEF Alive
    <2>3. wstate[x] \in Calm /\ wstate[x] # "IDLE" BY <2>2 DEF StateInv, StateOf
    <2>4. SetState(wstate[x], "EXECUTING") \in Running \cup Terminal
      BY <2>3 DEF SetState, isValidStateTransition, Calm, Running, Terminal
    <2> QED BY <1>0, <2>1, <2>4
  <1>6. ASSUME NEW x \in Workflows, BodyEnds(x)
        PROVE  /\ UNCHANGED launched /\ (begun'[w] => begun[w])
               /\ ended'[w] = ended[w] \/ wstate'[w] \in Terminal
    <2>1. /\ UNCHANGED launched /\ begun' = [begun EXCEPT ![x] = FALSE]
          /\ ended' = [ended EXCEPT ![x] = @ + 1] /\ begun[x]
          /\ wstate' = [wstate EXCEPT ![x] = SetState(wstate[x], "COMPLETED")]
      BY <1>6 DEF BodyEnds, Enter
    <2>2. wstate[x] \in Running \cup Terminal BY <2>1 DEF StateInv, StateOf
    <2>3. SetState(wstate[x], "COMPLETED") \in Terminal
      BY <2>2 DEF SetState, isValidStateTransition, Running, Terminal
    <2> QED BY <1>0, <2>1, <2>3
  <1>7. CASE \E c \in Clients : Calls(c)
    BY <1>1, <1>7 DEF Calls, registerWorkflow, unregisterWorkflow, startWorkflow, switchWorkflow,
           enqueueWorkflow, dequeueWorkflow, setDefaultTimeout, enablePersistence,
           disablePersistence, processQueue, interrupt, cancel, executeCurrent, Destroy, Quick,
           EntersWith, Enters
  <1>8. CASE \E c \in Clients : CallSteps(c) /\ ~ClientLaunch(c)
    BY <1>1, <1>8 DEF CallSteps, ClientGuard, ClientJoin, ClientClear, ClientErase, ClientTest,
           ClientLoad, ClientClean, ClientSet, ClientStart, ClientDirect, ClientAgain,
           ClientNotify, ClientJoinWorker, ClientDerefsNull
  <1>9. CASE (WorkerSteps /\ ~WorkerLaunches) \/ WorkerTimesOut \/ SpuriousWakeup
    BY <1>1, <1>9 DEF WorkerSteps, WorkerTimesOut, SpuriousWakeup, WorkerStops, WorkerTests,
           WorkerBlocks, WorkerTakes, WorkerDone, WorkerLooksUp, WorkerSelects, WorkerStarts,
           WorkerExecutes, WorkerCollects, WorkerInterrupts, WorkerJoins, WorkerRecords,
           WorkerJudges, WorkerReads, Rows, WorkerChecksStore, WorkerSaves, WorkerSavesToNull
  <1>10. CASE UNCHANGED vars BY <1>1, <1>10 DEF vars
  <1>11. CASE \E x \in Workflows : BodyBegins(x) BY <1>5, <1>11
  <1>12. CASE \E x \in Workflows : BodyEnds(x) BY <1>6, <1>12
  <1>13. CASE \E c \in Clients : ClientLaunch(c) BY <1>4, <1>13
  <1>14. CASE WorkerLaunches BY <1>3, <1>14
  <1> QED BY <1>7, <1>8, <1>9, <1>10, <1>11, <1>12, <1>13, <1>14 DEF Next

\* Where a client comes to launch a run.
LEMMA LaunchPlaces ==
  ASSUME Core, [Next]_vars, NEW c \in Clients, pc'[c] = "launch"
  PROVE  \/ pc[c] = "launch" /\ target'[c] = target[c]
         \/ target'[c] \in Workflows /\ wstate[target'[c]] = "READY"
  <1>0. ClientTypes /\ WorkerInv /\ ClientInv /\ current \in Workflows \cup {None}
    BY TypeParts DEF Core, TypeOK
  <1>1. CASE UNCHANGED clients BY <1>1 DEF clients
  <1>2. ASSUME NEW d \in Clients, NEW l, l # "launch", pc' = [pc EXCEPT ![d] = l],
               \A e \in Clients \ {d} : target'[e] = target[e]
        PROVE  pc[c] = "launch" /\ target'[c] = target[c]
    BY <1>0, <1>2 DEF ClientTypes
  <1>3. ASSUME NEW d \in Clients, Calls(d)
        PROVE  \/ pc[c] = "launch" /\ target'[c] = target[c]
               \/ target'[c] \in Workflows /\ wstate[target'[c]] = "READY"
    <2>1. ASSUME NEW l, NEW o, NEW w, NEW v, Enters(d, l, o, w, v), l # "launch"
          PROVE  pc[c] = "launch" /\ target'[c] = target[c]
      BY <1>0, <1>2, <2>1 DEF Enters, ClientTypes
    <2>2. CASE executeCurrent(d)
      <3>1. /\ current # None /\ wstate[current] = "READY"
            /\ pc' = [pc EXCEPT ![d] = "launch"] /\ target' = [target EXCEPT ![d] = current]
        BY <2>2 DEF executeCurrent, EntersWith, Enters
      <3>2. CASE c = d BY <1>0, <3>1, <3>2 DEF ClientTypes
      <3>3. CASE c # d BY <1>0, <3>1, <3>3 DEF ClientTypes
      <3> QED BY <3>2, <3>3
    <2>3. CASE \/ \E w \in Workflows : registerWorkflow(d, w)
               \/ \E k \in Tasks : enqueueWorkflow(d, k) \/ dequeueWorkflow(d, k)
               \/ \E on \in BOOLEAN : setDefaultTimeout(d, on)
               \/ enablePersistence(d) \/ disablePersistence(d) \/ processQueue(d)
      <3>1. Enters(d, "idle", "none", None, None)
        BY <2>3 DEF registerWorkflow, enqueueWorkflow, dequeueWorkflow, setDefaultTimeout,
                    enablePersistence, disablePersistence, processQueue, Quick
      <3> QED BY <2>1, <3>1
    <2>4. CASE interrupt(d) BY <2>1, <2>4 DEF interrupt, EntersWith
    <2>5. CASE cancel(d) BY <2>1, <2>5 DEF cancel, EntersWith
    <2>6. CASE Destroy(d) BY <2>1, <2>6 DEF Destroy
    <2>7. ASSUME NEW w \in Workflows, unregisterWorkflow(d, w)
          PROVE  pc[c] = "launch" /\ target'[c] = target[c]
      <3>1. PICK l \in {"guard", "erase"} : Enters(d, l, "unregister", w, w)
        BY <2>7 DEF unregisterWorkflow, EntersWith
      <3> QED BY <2>1, <3>1
    <2>8. ASSUME NEW w \in Workflows, startWorkflow(d, w)
          PROVE  pc[c] = "launch" /\ target'[c] = target[c]
      BY <2>1, <2>8 DEF startWorkflow, EntersWith
    <2>9. ASSUME NEW w \in Workflows, NEW keep \in BOOLEAN, switchWorkflow(d, w, keep)
          PROVE  pc[c] = "launch" /\ target'[c] = target[c]
      <3>1. PICK o \in Switching, l \in {"set", "guard"} : Enters(d, l, o, w, current)
        BY <2>9 DEF switchWorkflow, EntersWith, Switching
      <3> QED BY <2>1, <3>1
    <2> QED BY <1>3, <2>2, <2>3, <2>4, <2>5, <2>6, <2>7, <2>8, <2>9 DEF Calls
  <1>4. ASSUME NEW d \in Clients, CallSteps(d)
        PROVE  pc[c] = "launch" /\ target'[c] = target[c]
    <2>1. ASSUME NEW l, Goes(d, l), l # "launch" PROVE pc[c] = "launch" /\ target'[c] = target[c]
      BY <1>2, <2>1 DEF Goes
    <2>2. CASE Returns(d)
      BY <1>0, <1>2, <2>2 DEF Returns, ClientTypes
    <2>3. Placed(pc[d], op[d], target[d], victim[d]) BY <1>0 DEF ClientInv
    <2>4. op[d] \in Stoppers => After(op[d]) # "launch" BY DEF After, Stoppers, Switching
    <2>5. CASE ClientGuard(d)
      <3>1. op[d] \in Stoppers BY <2>3, <2>5 DEF ClientGuard, ClientAt, Placed
      <3>2. PICK l \in {"join", After(op[d])} : Goes(d, l) BY <2>5 DEF ClientGuard
      <3> QED BY <2>1, <2>4, <3>1, <3>2
    <2>6. CASE ClientJoin(d)
      <3>1. op[d] \in Stoppers BY <2>3, <2>6 DEF ClientJoin, ClientAt, Placed
      <3> QED BY <2>1, <2>4, <2>6, <3>1 DEF ClientJoin
    <2>7. CASE ClientTest(d)
      <3>1. PICK l \in {"set", "load"} : Goes(d, l) BY <2>7 DEF ClientTest
      <3> QED BY <2>1, <3>1
    <2>8. CASE ClientLoad(d) BY <2>1, <2>8 DEF ClientLoad
    <2>9. CASE ClientClean(d) BY <2>1, <2>9 DEF ClientClean
    <2>10. CASE ClientSet(d)
      <3>1. op[d] \in {"start"} \cup Switching BY <2>3, <2>10 DEF ClientSet, ClientAt, Placed
      <3>2. PICK l \in {"start", "again", "direct"} : Goes(d, l)
        BY <2>10, <3>1 DEF ClientSet, Switching
      <3> QED BY <2>1, <3>2
    <2>11. CASE ClientAgain(d)
      <3>1. CASE pc' = [pc EXCEPT ![d] = "test"] /\ UNCHANGED target BY <1>2, <3>1
      <3> QED BY <2>2, <2>11, <3>1 DEF ClientAgain
    <2>12. CASE ClientNotify(d)
      <3>1. pc' = [pc EXCEPT ![d] = "joinWorker"] /\ UNCHANGED target
        BY <2>12 DEF ClientNotify
      <3> QED BY <1>2, <3>1
    <2>13. CASE ClientDerefsNull(d)
      BY <2>13 DEF ClientDerefsNull, clients
    <2> QED BY <1>4, <2>2, <2>5, <2>6, <2>7, <2>8, <2>9, <2>10, <2>11, <2>12, <2>13
            DEF CallSteps, ClientClear, ClientErase, ClientStart, ClientDirect, ClientLaunch,
                ClientJoinWorker
  <1>5. CASE WorkerSteps \/ WorkerTimesOut \/ SpuriousWakeup
    BY <1>1, <1>5 DEF WorkerSteps, WorkerTimesOut, SpuriousWakeup, WorkerStops, WorkerTests,
           WorkerBlocks, WorkerTakes, WorkerDone, WorkerLooksUp, WorkerSelects, WorkerStarts,
           WorkerExecutes, WorkerLaunches, WorkerCollects, WorkerInterrupts, WorkerJoins,
           WorkerRecords, WorkerJudges, WorkerReads, Rows, WorkerChecksStore, WorkerSaves,
           WorkerSavesToNull, WorkerGoes, WorkerOnly
  <1>6. CASE \E w \in Workflows : BodyBegins(w) \/ BodyEnds(w)
    BY <1>1, <1>6 DEF BodyBegins, BodyEnds
  <1>7. CASE UNCHANGED vars BY <1>1, <1>7 DEF vars
  <1> QED BY <1>3, <1>4, <1>5, <1>6, <1>7 DEF Next

\* What the worker is told of the state of its workflow.
LEMMA WorkerPlaces ==
  ASSUME Core, StateInv, [Next]_vars
  PROVE  /\ wpc' = "launch" => /\ task' = task /\ task \in Tasks
                               /\ wstate[Mine] # "IDLE"
         /\ verdict' = "ended" => /\ task' = task /\ task \in Tasks
                                  /\ wstate[Mine] \in Terminal
  <1>0. WorkerInv BY DEF Core
  <1>1. /\ wpc = "launch" => task \in Tasks /\ wstate[Mine] # "IDLE"
        /\ verdict = "ended" => task \in Tasks /\ wstate[Mine] \in Terminal
    BY <1>0 DEF WorkerInv, Resting, StateInv
  <1>2. CASE WorkerKept BY <1>1, <1>2 DEF WorkerKept
  <1>3. CASE \E c \in Clients : Calls(c) \/ CallSteps(c)
    BY <1>2, <1>3, QuickStep, LongCall, DestroyStep, CallStep DEF Calls
  <1>4. CASE \E w \in Workflows : BodyBegins(w) \/ BodyEnds(w) BY <1>2, <1>4, BodyStep
  <1>5. CASE UNCHANGED vars BY <1>2, <1>5 DEF vars, worker, output, WorkerKept
  <1> USE DEF WorkerAt
  <1>6. CASE WorkerExecutes
    <2>1. task \in Tasks /\ verdict = "none" BY <1>0, <1>6 DEF WorkerExecutes, WorkerInv, Resting, Fresh
    <2> QED BY <1>6, <2>1 DEF WorkerExecutes
  <1>7. CASE WorkerCollects
    <2>1. task \in Tasks /\ run >= 1 /\ ended[Mine] >= run /\ run \in Nat /\ wpc' = "record"
          /\ task' = task
      BY <1>0, <1>7 DEF WorkerCollects, WorkerInv, Resting, Core, TypeOK
    <2>2. Mine \in Workflows BY <2>1, Assumptions DEF Mine
    <2>3. ended[Mine] \in Nat BY <2>2 DEF Core, TypeOK
    <2>4. ended[Mine] >= 1 BY <2>1, <2>3
    <2>5. wstate[Mine] \in Terminal BY <2>2, <2>4 DEF StateInv, StateOf
    <2> QED BY <2>1, <2>5
  <1>8. CASE WorkerTakes
    BY <1>0, <1>8 DEF WorkerTakes, WorkerInv, Resting
  <1>9. CASE WorkerTimesOut \/ WorkerDone
    BY <1>9 DEF WorkerTimesOut, WorkerDone
  <1>10. CASE \/ WorkerStops \/ WorkerTests \/ WorkerBlocks \/ SpuriousWakeup \/ WorkerLooksUp
              \/ WorkerSelects \/ WorkerStarts \/ WorkerInterrupts \/ WorkerJoins
              \/ WorkerRecords \/ WorkerChecksStore \/ WorkerSaves
    BY <1>1, <1>10 DEF WorkerStops, WorkerTests, WorkerBlocks, SpuriousWakeup, WorkerLooksUp,
           WorkerSelects, WorkerStarts, WorkerInterrupts, WorkerJoins, WorkerRecords,
           WorkerChecksStore, WorkerSaves, WorkerGoes
  <1>11. CASE WorkerLaunches \/ WorkerJudges \/ WorkerReads \/ WorkerSavesToNull
    BY <1>1, <1>11 DEF WorkerLaunches, WorkerJudges, WorkerReads, Rows, WorkerSavesToNull, worker
  <1> QED BY <1>3, <1>4, <1>5, <1>6, <1>7, <1>8, <1>9, <1>10, <1>11 DEF Next, WorkerSteps

LEMMA StateStep == Core /\ StateInv /\ [Next]_vars => StateInv'
  <1> SUFFICES ASSUME Core, StateInv, [Next]_vars PROVE StateInv'
    OBVIOUS
  <1>1. ASSUME NEW w \in Workflows PROVE StateOf(w)'
    <2>1. StateOf(w) /\ Onward(wstate[w], wstate'[w]) BY AllOnward DEF StateInv
    <2>2. /\ launched'[w] = launched[w] \/ wstate[w] # "IDLE"
          /\ begun'[w] => begun[w] \/ wstate'[w] \in Running \cup Terminal
          /\ ended'[w] = ended[w] \/ wstate'[w] \in Terminal
      BY RunMoves
    <2> QED BY <2>1, <2>2 DEF StateOf, Onward
  <1>2. \A w \in Workflows : Onward(wstate[w], wstate'[w]) BY AllOnward
  <1>3. /\ wpc' = "launch" => wstate'[Mine'] # "IDLE"
        /\ verdict' = "ended" => wstate'[Mine'] \in Terminal
    <2>1. task' = task /\ task \in Tasks => Mine' = Mine /\ Mine \in Workflows
      BY Assumptions DEF Mine
    <2> QED BY <1>2, <2>1, WorkerPlaces DEF Onward
  <1>4. ASSUME NEW c \in Clients, pc'[c] = "launch" PROVE wstate'[target'[c]] # "IDLE"
    <2>1. pc[c] = "launch" => target[c] \in Workflows /\ wstate[target[c]] # "IDLE"
      BY DEF Core, ClientInv, Placed, Targeted, StateInv
    <2>2. target'[c] \in Workflows /\ wstate[target'[c]] # "IDLE" BY <1>4, <2>1, LaunchPlaces
    <2> QED BY <1>2, <2>2 DEF Onward
  <1> QED BY <1>1, <1>3, <1>4 DEF StateInv

LEMMA StateInit == Init => StateInv
  BY DEF Init, StateInv, StateOf, Calm

-----------------------------------------------------------------------------
(* A task has one result and one row, and they agree.                      *)

\* The worker recorded a result and is about to write the row.
Writing == Told \ {"done"}

\* Result r of a task whose run was waited for.
Settled(r) == r.verdict = "ended" => r.state \in Terminal /\ r.state = wstate[WorkflowOf[r.id]]

Agree(s, r) ==
  s.id = r.id /\ r.verdict # "notReady"
    => s.state = r.state /\ s.success = (s.state = "COMPLETED")

AgreeInv ==
  /\ \A i \in 1 .. Len(results) : Known(results[i].id) /\ Settled(results[i])
  /\ \A i \in 1 .. Len(saved) : Known(saved[i].id)
  /\ \A i \in 1 .. Len(saved), j \in 1 .. Len(results) : Agree(saved[i], results[j])
  /\ wpc \in Writing =>
       /\ \A i \in 1 .. Len(saved) : saved[i].id # task
       /\ \A j \in 1 .. Len(results) : results[j].id = task =>
            /\ results[j].verdict = verdict
            /\ verdict # "notReady" => results[j].state = FinalState
  /\ wpc \in {"read", "save", "write"} /\ verdict # "notReady"
       => row.success = (FinalState = "COMPLETED")
  /\ wpc \in {"save", "write"} /\ verdict # "notReady" => row.state = FinalState

LEMMA FinalKept ==
  ASSUME Core, StateInv, [Next]_vars, task' = task, verdict' = verdict, task \in Tasks,
         verdict \in Outcome \ {"notReady"}
  PROVE  FinalState' = FinalState
  <1>1. Mine \in Workflows /\ Mine' = Mine BY Assumptions DEF Mine
  <1>2. verdict = "ended" => wstate'[Mine] = wstate[Mine]
    <2>1. Onward(wstate[Mine], wstate'[Mine]) BY <1>1, AllOnward
    <2> QED BY <2>1 DEF StateInv, Onward
  <1>3. CASE verdict = "timeout" BY <1>3 DEF FinalState
  <1>4. CASE verdict = "callback" BY <1>4 DEF FinalState
  <1>5. CASE verdict = "ended"
    <2>1. FinalState = wstate[Mine] BY <1>5 DEF FinalState
    <2>2. FinalState' = wstate'[Mine'] BY <1>5 DEF FinalState
    <2> QED BY <1>1, <1>2, <1>5, <2>1, <2>2
  <1> QED BY <1>3, <1>4, <1>5 DEF Outcome

LEMMA SettledKept ==
  ASSUME Core, StateInv, [Next]_vars,
         NEW r \in [id : Tasks, state : WorkflowState, verdict : Verdict], Settled(r)
  PROVE  Settled(r)'
  <1>1. WorkflowOf[r.id] \in Workflows BY Assumptions
  <1>2. Onward(wstate[WorkflowOf[r.id]], wstate'[WorkflowOf[r.id]]) BY <1>1, AllOnward
  <1> QED BY <1>2 DEF Settled, Onward

LEMMA ResultsType ==
  ASSUME Core
  PROVE  /\ results \in Seq([id : Tasks, state : WorkflowState, verdict : Verdict])
         /\ saved \in Seq([id : Tasks, state : WorkflowState, success : BOOLEAN])
         /\ reported \in Seq([id : Tasks, verdict : Verdict])
         /\ \A i \in 1 .. Len(results) :
              results[i] \in [id : Tasks, state : WorkflowState, verdict : Verdict]
         /\ Len(results) \in Nat /\ Len(saved) \in Nat
  <1>1. /\ results \in Seq([id : Tasks, state : WorkflowState, verdict : Verdict])
        /\ saved \in Seq([id : Tasks, state : WorkflowState, success : BOOLEAN])
        /\ reported \in Seq([id : Tasks, verdict : Verdict])
    BY DEF Core, TypeOK
  <1>2. ASSUME NEW T, results \in Seq(T) PROVE \A i \in 1 .. Len(results) : results[i] \in T
    BY <1>2, ElementOfSeq
  <1>3. \A i \in 1 .. Len(results) :
          results[i] \in [id : Tasks, state : WorkflowState, verdict : Verdict]
    BY <1>1, <1>2
  <1> QED BY <1>1, <1>3

\* What the worker holds while it writes.
LEMMA WritingHolds ==
  ASSUME Core, wpc \in Writing
  PROVE  task \in Tasks /\ verdict \in Outcome
  BY DEF Core, WorkerInv, Writing, Told, Resting, Outcome

\* The worker goes on where it was, or leaves the row behind.
LEMMA AgreeKept ==
  ASSUME Core, StateInv, AgreeInv, [Next]_vars, UNCHANGED <<results, saved, reported>>,
         wpc' \in Writing => wpc' = wpc /\ UNCHANGED <<task, verdict, row>>
  PROVE  AgreeInv'
  <1>1. \A k : Known(k)' <=> Known(k) BY DEF Known
  <1>2. \A i \in 1 .. Len(results) : Settled(results[i]) => Settled(results[i])'
    <2>1. ASSUME NEW i \in 1 .. Len(results), Settled(results[i]) PROVE Settled(results[i])'
      <3>1. results[i] \in [id : Tasks, state : WorkflowState, verdict : Verdict]
        BY ResultsType
      <3>2. ASSUME NEW r, r \in [id : Tasks, state : WorkflowState, verdict : Verdict], Settled(r)
            PROVE  Settled(r)'
        BY <3>2, SettledKept
      <3>3. results'[i] = results[i] OBVIOUS
      <3> QED BY <2>1, <3>1, <3>2, <3>3 DEF Settled
    <2> QED BY <2>1
  <1>3. \A i \in 1 .. Len(results') : Known(results[i].id)' /\ Settled(results[i])'
    BY <1>1, <1>2 DEF AgreeInv
  <1>4. \A i \in 1 .. Len(saved') : Known(saved[i].id)' BY <1>1 DEF AgreeInv
  <1>5. \A i \in 1 .. Len(saved'), j \in 1 .. Len(results') : Agree(saved'[i], results'[j])
    BY DEF AgreeInv
  <1>6. wpc' \in Writing =>
          /\ wpc' = wpc /\ UNCHANGED <<task, verdict, row>>
          /\ verdict # "notReady" => FinalState' = FinalState
    BY WritingHolds, FinalKept
  <1>7. wpc' \in {"read", "save", "write"} => wpc' \in Writing BY DEF Writing, Told
  <1> QED BY <1>3, <1>4, <1>5, <1>6, <1>7 DEF AgreeInv

\* A task that is not reported yet has neither a result nor a row.
LEMMA HeldIsNew ==
  ASSUME Core, LineInv, wpc \notin Resting \cup Told
  PROVE  ~Known(task)
  <1>1. Held = 1 /\ InLine(accepted, reported, 1, task, queue, enqueued) BY DEF Held, LineInv
  <1>2. DOMAIN reported = 1 .. Len(reported) /\ Len(reported) \in Nat /\ Len(queue) \in Nat
    BY DEF Core, TypeOK
  <1>3. /\ Len(accepted) = Len(reported) + 1 + Len(queue)
        /\ \A i \in 1 .. Len(reported) : accepted[i] = reported[i].id
        /\ accepted[Len(reported) + 1] = task
        /\ \A i, j \in 1 .. Len(accepted) : accepted[i] = accepted[j] => i = j
    BY <1>1 DEF InLine
  <1>4. ASSUME NEW i \in 1 .. Len(reported), reported[i].id = task PROVE FALSE
    <2>1. i \in 1 .. Len(accepted) /\ Len(reported) + 1 \in 1 .. Len(accepted)
          /\ i # Len(reported) + 1
      BY <1>2, <1>3
    <2> QED BY <1>3, <1>4, <2>1
  <1> QED BY <1>2, <1>4 DEF Known

LEMMA AgreeRecords ==
  ASSUME Core, LineInv, ResultInv, StateInv, AgreeInv, WorkerRecords
  PROVE  AgreeInv'
  <1>1. /\ wpc = "record" /\ UNCHANGED <<saved, task, verdict, row, wstate>>
        /\ reported' = Append(reported, [id |-> task, verdict |-> verdict])
        /\ wpc' = (IF verdict \in {"timeout", "callback"} THEN "read" ELSE "judge")
    BY DEF WorkerRecords, WorkerAt, WorkerGoes, Report
  <1>2. task \in Tasks /\ verdict \in Outcome /\ row = NoRow
    BY <1>1 DEF Core, WorkerInv, Resting
  <1>3. ~Known(task) BY <1>1, HeldIsNew DEF Resting, Told
  <1>4. FinalState' = FinalState BY <1>1 DEF FinalState, Mine
  <1>5. PICK d \in {0, 1} :
          /\ Len(results') = Len(results) + 1 - d
          /\ results'[Len(results) + 1 - d] = NewResult
          /\ \A j \in 1 .. Len(results) : j > d => results'[j - d] = results[j]
    BY RecordShift
  <1>6. Len(results) \in Nat BY ResultsType
  \* A result is the new one or was there.
  <1>7. ASSUME NEW j \in 1 .. Len(results')
        PROVE  results'[j] = NewResult \/ \E l \in 1 .. Len(results) : results'[j] = results[l]
    <2>1. CASE j = Len(results) + 1 - d BY <1>5, <2>1
    <2>2. CASE j < Len(results) + 1 - d
      <3>1. j + d \in 1 .. Len(results) /\ j + d > d /\ (j + d) - d = j BY <1>5, <1>6, <2>2
      <3> QED BY <1>5, <3>1
    <2> QED BY <1>5, <1>6, <2>1, <2>2
  <1>8. /\ \A k : Known(k) => Known(k)' /\ Known(task)'
    <2>1. reported \in Seq([id : Tasks, verdict : Verdict])
          /\ [id |-> task, verdict |-> verdict] \in [id : Tasks, verdict : Verdict]
      BY <1>2, ResultsType, Labels
    <2>2. \A k : Known(k) => Known(k)' BY <1>1, <1>2, <2>1, ReportGrows, Labels
    <2>3. /\ Len(reported') = Len(reported) + 1
          /\ reported'[Len(reported) + 1] = [id |-> task, verdict |-> verdict]
          /\ Len(reported) + 1 \in DOMAIN reported'
      BY <1>1, <2>1, AppendProperties
    <2>4. Known(task)' BY <1>1, <2>3 DEF Known
    <2> QED BY <2>2, <2>4
  <1>9. /\ NewResult.id = task /\ NewResult.verdict = verdict /\ NewResult.state = FinalState
    BY DEF NewResult
  <1>10. \A r : Settled(r)' <=> Settled(r) BY <1>1 DEF Settled
  <1>11. Settled(NewResult)
    <2>1. verdict = "ended" => FinalState = wstate[Mine] /\ wstate[Mine] \in Terminal
      BY DEF FinalState, StateInv
    <2> QED BY <1>9, <2>1 DEF Settled, Mine
  <1>12. \A j \in 1 .. Len(results') : Known(results[j].id)' /\ Settled(results[j])'
    <2>1. ASSUME NEW j \in 1 .. Len(results') PROVE Known(results[j].id)' /\ Settled(results[j])'
      <3>1. CASE results'[j] = NewResult
        <4>1. results'[j].id = task BY <1>9, <3>1
        <4>2. Settled(results'[j]) BY <1>11, <3>1
        <4>3. \E i \in DOMAIN reported' : reported'[i].id = results'[j].id
          BY <1>1, <1>8, <4>1 DEF Known
        <4> QED BY <1>1, <4>2, <4>3 DEF Known, Settled
      <3>2. ASSUME NEW l \in 1 .. Len(results), results'[j] = results[l]
            PROVE  Known(results[j].id)' /\ Settled(results[j])'
        <4>1. Known(results[l].id) /\ Settled(results[l]) BY DEF AgreeInv
        <4>2. \E i \in DOMAIN reported' : reported'[i].id = results[l].id
          BY <1>8, <4>1 DEF Known
        <4> QED BY <1>1, <3>2, <4>1, <4>2 DEF Known, Settled
      <3> QED BY <1>7, <3>1, <3>2
    <2> QED BY <2>1
  <1>13. \A i \in 1 .. Len(saved) : Known(saved[i].id) /\ saved[i].id # task
    BY <1>3 DEF AgreeInv
  <1>14. \A i \in 1 .. Len(saved), j \in 1 .. Len(results') : Agree(saved[i], results'[j])
    <2>1. ASSUME NEW i \in 1 .. Len(saved), NEW j \in 1 .. Len(results')
          PROVE  Agree(saved[i], results'[j])
      <3>1. CASE results'[j] = NewResult BY <1>9, <1>13, <3>1 DEF Agree
      <3>2. ASSUME NEW l \in 1 .. Len(results), results'[j] = results[l]
            PROVE  Agree(saved[i], results'[j])
        BY <3>2 DEF AgreeInv
      <3> QED BY <1>7, <3>1, <3>2
    <2> QED BY <2>1
  <1>15. \A j \in 1 .. Len(results') : results'[j].id = task =>
            results'[j].verdict = verdict /\ results'[j].state = FinalState
    <2>1. ASSUME NEW j \in 1 .. Len(results'), results'[j].id = task
          PROVE  results'[j].verdict = verdict /\ results'[j].state = FinalState
      <3>1. CASE results'[j] = NewResult BY <1>9, <3>1
      <3>2. ASSUME NEW l \in 1 .. Len(results), results'[j] = results[l] PROVE FALSE
        BY <1>3, <2>1, <3>2 DEF AgreeInv
      <3> QED BY <1>7, <3>1, <3>2
    <2> QED BY <2>1
  <1>16. wpc' = "read" => row.success = (FinalState = "COMPLETED")
    BY <1>1, <1>2 DEF NoRow, FinalState
  <1>17. wpc' \in {"judge", "read"} BY <1>1
  <1>18. \A i \in 1 .. Len(saved') : Known(saved[i].id)' BY <1>1, <1>8, <1>13 DEF Known
  <1> QED BY <1>1, <1>4, <1>12, <1>13, <1>14, <1>15, <1>16, <1>17, <1>18 DEF AgreeInv

LEMMA AgreeMissing ==
  ASSUME Core, StateInv, AgreeInv, WorkerLooksUp, Mine \notin registered
  PROVE  AgreeInv'
  <1>1. /\ UNCHANGED <<saved, results, wstate>> /\ wpc' = "done"
        /\ reported' = Append(reported, [id |-> task, verdict |-> "missing"])
    BY DEF WorkerLooksUp, WorkerGoes, Report
  <1>2. task \in Tasks BY DEF Core, WorkerLooksUp, WorkerAt, WorkerInv, Resting
  <1>3. "missing" \in Verdict BY DEF Verdict
  <1>4. \A k : Known(k) => Known(k)' BY <1>1, <1>2, <1>3, ReportGrows, ResultsType
  <1>5. \A r : Settled(r)' <=> Settled(r) BY <1>1 DEF Settled
  <1>6. \A i \in 1 .. Len(results') : Known(results[i].id)' /\ Settled(results[i])'
    BY <1>1, <1>4, <1>5 DEF AgreeInv, Known, Settled
  <1>7. \A i \in 1 .. Len(saved') : Known(saved[i].id)' BY <1>1, <1>4 DEF AgreeInv, Known
  <1>8. wpc' \notin Writing /\ wpc' \notin {"read", "save", "write"} BY <1>1 DEF Writing, Told
  <1> QED BY <1>1, <1>6, <1>7, <1>8 DEF AgreeInv

\* The steps from the result to the row.
LEMMA AgreeWrites ==
  ASSUME Core, StateInv, AgreeInv, [Next]_vars, WorkerJudges \/ WorkerReads \/ WorkerChecksStore
  PROVE  AgreeInv'
  <1>1. wpc \in Writing
    BY DEF WorkerJudges, WorkerReads, WorkerChecksStore, Rows, WorkerAt, Writing, Told
  <1>2. UNCHANGED <<results, saved, reported, task, verdict, wstate>>
    BY DEF WorkerJudges, WorkerReads, WorkerChecksStore, Rows, WorkerGoes, output
  <1>3. FinalState' = FinalState BY <1>2 DEF FinalState, Mine
  <1>4. (\A k : Known(k)' <=> Known(k)) /\ (\A r : Settled(r)' <=> Settled(r))
    BY <1>2 DEF Known, Settled
  <1>5. \A i \in 1 .. Len(results') : Known(results[i].id)' /\ Settled(results[i])'
    BY <1>2, <1>4 DEF AgreeInv, Known, Settled
  <1>6. \A i \in 1 .. Len(saved') : Known(saved[i].id)' BY <1>2, <1>4 DEF AgreeInv, Known
  <1>7. /\ \A i \in 1 .. Len(saved') : saved'[i].id # task'
        /\ \A j \in 1 .. Len(results') : results'[j].id = task' =>
             /\ results'[j].verdict = verdict'
             /\ verdict' # "notReady" => results'[j].state = FinalState'
        /\ \A i \in 1 .. Len(saved'), j \in 1 .. Len(results') : Agree(saved'[i], results'[j])
    BY <1>1, <1>2, <1>3 DEF AgreeInv
  <1>8. row \in [state : WorkflowState, success : BOOLEAN] BY DEF Core, TypeOK
  <1>9. /\ wpc' \in {"read", "save", "write"} /\ verdict' # "notReady"
             => row'.success = (FinalState' = "COMPLETED")
        /\ wpc' \in {"save", "write"} /\ verdict' # "notReady" => row'.state = FinalState'
    <2>1. CASE WorkerJudges
      <3>1. wpc' = "read" /\ row' = [row EXCEPT !.success = (FinalState = "COMPLETED")]
        BY <2>1 DEF WorkerJudges, Rows
      <3> HIDE DEF FinalState
      <3> QED BY <1>3, <1>8, <3>1
    <2>2. CASE WorkerReads
      <3>1. wpc = "read" /\ wpc' = "save" /\ row' = [row EXCEPT !.state = FinalState]
        BY <2>2 DEF WorkerReads, Rows, WorkerAt
      <3>2. row'.success = row.success /\ row'.state = FinalState BY <1>8, <3>1
      <3> QED BY <1>2, <1>3, <3>1, <3>2 DEF AgreeInv
    <2>3. CASE WorkerChecksStore
      <3>1. wpc = "save" /\ wpc' \in {"write", "done"} /\ row' = row
        BY <2>3 DEF WorkerChecksStore, WorkerAt, WorkerGoes
      <3> QED BY <1>2, <1>3, <3>1 DEF AgreeInv
    <2> QED BY <2>1, <2>2, <2>3
  <1> QED BY <1>5, <1>6, <1>7, <1>9 DEF AgreeInv

LEMMA AgreeSaves ==
  ASSUME Core, LineInv, StateInv, AgreeInv, WorkerSaves
  PROVE  AgreeInv'
  <1> DEFINE s == [id |-> task, state |-> row.state, success |-> row.success]
  <1>1. /\ wpc = "write" /\ wpc' = "done" /\ saved' = Append(saved, s)
        /\ UNCHANGED <<results, reported, task, verdict, row, wstate>>
    BY DEF WorkerSaves, WorkerAt, WorkerGoes
  <1>2. wpc \in Writing BY <1>1 DEF Writing, Told
  <1>3. task \in Tasks BY <1>2, WritingHolds
  <1>4. s \in [id : Tasks, state : WorkflowState, success : BOOLEAN]
    BY <1>3 DEF Core, TypeOK
  <1>5. Known(task)
    <2>1. reported # <<>> /\ reported[Len(reported)].id = task BY <1>1 DEF LineInv, Told
    <2>2. Len(reported) \in DOMAIN reported BY <2>1 DEF Core, TypeOK
    <2> QED BY <2>1, <2>2 DEF Known
  <1>6. s.id = task /\ s.state = row.state /\ s.success = row.success OBVIOUS
  <1> HIDE DEF s
  <1>7. /\ Len(saved') = Len(saved) + 1 /\ saved'[Len(saved) + 1] = s
        /\ \A i \in 1 .. Len(saved) : saved'[i] = saved[i]
    BY <1>1, <1>4, ResultsType, AppendProperties
  <1>8. ASSUME NEW i \in 1 .. Len(saved')
        PROVE  (i \in 1 .. Len(saved) /\ saved'[i] = saved[i]) \/ saved'[i] = s
    BY <1>7, ResultsType
  <1>9. (\A k : Known(k)' <=> Known(k)) /\ (\A r : Settled(r)' <=> Settled(r))
    BY <1>1 DEF Known, Settled
  <1>10. \A i \in 1 .. Len(results') : Known(results[i].id)' /\ Settled(results[i])'
    BY <1>1, <1>9 DEF AgreeInv, Known, Settled
  <1>11. \A i \in 1 .. Len(saved') : Known(saved'[i].id)
    BY <1>5, <1>6, <1>8 DEF AgreeInv
  <1>12. \A i \in 1 .. Len(saved') : Known(saved[i].id)' BY <1>1, <1>11 DEF Known
  <1>13. \A j \in 1 .. Len(results) : Agree(s, results[j])
    BY <1>1, <1>2, <1>6 DEF AgreeInv, Agree
  <1>14. \A i \in 1 .. Len(saved'), j \in 1 .. Len(results') : Agree(saved'[i], results'[j])
    BY <1>1, <1>8, <1>13 DEF AgreeInv
  <1>15. wpc' \notin Writing /\ wpc' \notin {"read", "save", "write"} BY <1>1 DEF Writing, Told
  <1> QED BY <1>10, <1>12, <1>14, <1>15 DEF AgreeInv

LEMMA AgreeStep ==
  Core /\ LineInv /\ ResultInv /\ StateInv /\ AgreeInv /\ [Next]_vars => AgreeInv'
  <1> SUFFICES ASSUME Core, LineInv, ResultInv, StateInv, AgreeInv, [Next]_vars PROVE AgreeInv'
    OBVIOUS
  <1>1. CASE WorkerKept
    <2>1. wpc' \in Writing => wpc' = wpc BY <1>1 DEF WorkerKept, Writing, Told
    <2> QED BY <1>1, <2>1, AgreeKept DEF WorkerKept
  <1>2. CASE \E c \in Clients : Calls(c) \/ CallSteps(c)
    BY <1>1, <1>2, QuickStep, LongCall, DestroyStep, CallStep DEF Calls
  <1>3. CASE \E w \in Workflows : BodyBegins(w) \/ BodyEnds(w) BY <1>1, <1>3, BodyStep
  <1>4. CASE UNCHANGED vars BY <1>1, <1>4 DEF vars, worker, output, WorkerKept
  <1>5. CASE WorkerRecords BY <1>5, AgreeRecords
  <1>6. CASE WorkerSaves BY <1>6, AgreeSaves
  <1>7. CASE WorkerJudges \/ WorkerReads \/ WorkerChecksStore BY <1>7, AgreeWrites
  <1>8. CASE WorkerLooksUp /\ Mine \notin registered BY <1>8, AgreeMissing
  <1> USE DEF Writing, Told
  <1>9. CASE WorkerLooksUp /\ Mine \in registered
    BY <1>9, AgreeKept DEF WorkerLooksUp, WorkerGoes
  <1>10. CASE \/ WorkerStops \/ WorkerTests \/ WorkerBlocks \/ WorkerTakes \/ WorkerDone
              \/ WorkerSelects \/ WorkerStarts \/ WorkerExecutes \/ SpuriousWakeup
    BY <1>10, AgreeKept DEF WorkerStops, WorkerTests, WorkerBlocks, WorkerTakes, WorkerDone,
           WorkerSelects, WorkerStarts, WorkerExecutes, SpuriousWakeup, WorkerGoes, output
  <1>11. CASE WorkerLaunches \/ WorkerCollects \/ WorkerInterrupts \/ WorkerJoins \/ WorkerTimesOut
    BY <1>11, AgreeKept DEF WorkerLaunches, WorkerCollects, WorkerInterrupts, WorkerJoins,
           WorkerTimesOut, WorkerGoes, output
  <1>12. CASE WorkerSavesToNull
    BY <1>12, AgreeKept DEF WorkerSavesToNull, worker, output
  <1> QED BY <1>2, <1>3, <1>4, <1>5, <1>6, <1>7, <1>8, <1>9, <1>10, <1>11, <1>12
          DEF Next, WorkerSteps

LEMMA AgreeInit == Init => AgreeInv
  BY DEF Init, AgreeInv, Writing, Told

LEMMA AgreeIsFinal == Core /\ AgreeInv => ResultsAreFinal
  <1> SUFFICES ASSUME Core, AgreeInv PROVE ResultsAreFinal
    OBVIOUS
  <1>1. DOMAIN results = 1 .. Len(results) /\ DOMAIN saved = 1 .. Len(saved)
    BY DEF Core, TypeOK
  <1>2. \A t \in Terminal : Stage(t) = Final BY DEF Terminal, Running, Stage
  <1>3. \A i \in DOMAIN results :
          results[i].verdict = "ended" => /\ Stage(results[i].state) = Final
                                          /\ results[i].state = wstate[WorkflowOf[results[i].id]]
    BY <1>1, <1>2 DEF AgreeInv, Settled
  <1>4. \A i \in DOMAIN saved, j \in DOMAIN results :
          saved[i].id = results[j].id /\ results[j].verdict # "notReady"
            => /\ saved[i].state = results[j].state
               /\ saved[i].success = (saved[i].state = "COMPLETED")
    BY <1>1 DEF AgreeInv, Agree
  <1> QED BY <1>3, <1>4 DEF ResultsAreFinal

\* What is read of a task is true: the result of one whose run was waited for has the final
\* state of its workflow, whatever other callers did to the workflow in between, and the row
\* in the database says the same, although the code reads the state three times without a
\* lock (executeTask, recordExecutionResult, saveWorkflowExecution).
THEOREM ResultsTrue == Spec => []ResultsAreFinal
  <1> DEFINE All == Core /\ LineInv /\ ResultInv /\ StateInv /\ AgreeInv
  <1>1. Init => All BY CoreInit, LineInit, ResultInit, StateInit, AgreeInit
  <1>2. All /\ [Next]_vars => All' BY CoreStep, LineStep, ResultStep, StateStep, AgreeStep
  <1>3. All => ResultsAreFinal BY AgreeIsFinal
  <1> HIDE DEF All
  <1> QED BY <1>1, <1>2, <1>3, PTL DEF Spec

=============================================================================

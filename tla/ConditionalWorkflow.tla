------------------------- MODULE ConditionalWorkflow ------------------------
(***************************************************************************)
(* A ConditionalWorkflow: branches with conditions and priorities, the     *)
(* threads that call it, and the execution thread that runs the selected   *)
(* branch.  No method takes a lock.  A step of a method goes up to where   *)
(* the order of two threads decides what a branch does: evaluating is one, *)
(* starting the branch it chose another.  The workflows of the branches    *)
(* are outside and outlive them: a branch becomes READY by start(), runs   *)
(* from execute() to its end, and interrupt() and finish() of one that     *)
(* runs return after it has ended.                                         *)
(***************************************************************************)
EXTENDS Callers, Sequences

VARIABLES
  cwState,      \* state_
  branches,     \* branches_
  defaultSet,   \* defaultBranch_ has a workflow
  selected,     \* selectedBranch_: 0 for nullptr, a branch, or Dead for a pointer that dangles
  chosen,       \* the branch evaluateAndExecute() of each thread is about to start, or Idle
  contextSet,   \* context_ is not null
  stopFlag,     \* stopFlag_, which no constructor sets
  executor,     \* where the execution thread is; "none" while it is not joinable
  ran,          \* the branch the execution thread launched and waits for
  branchState,  \* the workflow of each branch
  told,         \* branches that were told to stop
  waits,        \* the branch each thread waits for in interrupt(), 0 for none, or Idle
  stops,        \* the branch the execution thread interrupts, 0 for none
  delivered,    \* the promise was set
  cwLife,       \* "alive", "destroyed", "terminated", or "undefined": a dead pointer was used
  reshaped      \* history: a branch was added or cleared after the selection or execute(), or
                \* selected, started or, the default one, replaced after execute()

object == <<cwState, branches, defaultSet, selected, chosen, contextSet, stopFlag>>
shape  == <<branches, defaultSet, selected, chosen, contextSet, stopFlag>>
run    == <<executor, ran, stops, delivered>>
outer  == <<branchState, told>>
own  == <<object, run, outer, waits, cwLife, reshaped>>
vars == <<calls, now, own>>

MaxBranches == 2

\* Branches by their position, the default branch, the one whose workflow runs although it
\* was cleared or replaced, and what else a pointer or a thread may hold.
Positions  == 1 .. MaxBranches
Default    == MaxBranches + 1
Former     == MaxBranches + 2
BranchName == Positions \cup {Default, Former}
Dead       == MaxBranches + 3
Idle       == MaxBranches + 4

Branch == [priority : {-1, 0, 1}, workflow : BOOLEAN]

Init ==
  /\ CallersInit
  /\ cwState = "IDLE"
  /\ branches = <<>> /\ defaultSet = FALSE /\ selected = 0
  /\ chosen = [c \in Clients |-> Idle]
  /\ contextSet = FALSE
  /\ stopFlag \in BOOLEAN
  /\ executor = "none" /\ ran = 0 /\ stops = 0 /\ delivered = FALSE
  /\ branchState = [b \in BranchName |-> "IDLE"]
  /\ told = {}
  /\ waits = [c \in Clients |-> Idle]
  /\ cwLife = "alive"
  /\ reshaped = FALSE

Enters(c) == Called /\ cwLife = "alive" /\ waits[c] = Idle /\ chosen[c] = Idle

HasWorkflow(b) ==
  (b = Default /\ defaultSet) \/ (b \in DOMAIN branches /\ branches[b].workflow)

\* The body of the branch runs; start() while it does makes its state READY again.
Runs(b) == branchState[b] \in {"EXECUTING", "RESTARTED"}

-----------------------------------------------------------------------------
(* Branches and their selection.                                           *)

\* A pointer to an element of the vector dangles once the vector moved or lost it.
Moved(pointer) == IF pointer \in Positions THEN Dead ELSE pointer

MovePointers ==
  selected' = Moved(selected) /\ chosen' = [c \in Clients |-> Moved(chosen[c])]

\* The branches of gone get other workflows, or none.  What runs of them goes on.
Disown(gone) ==
  LET running == {b \in gone : Runs(b)}
      Name(b) == IF b \in running THEN Former ELSE b
  IN  /\ branchState' = [b \in BranchName |->
                           IF b \in gone THEN "IDLE"
                           ELSE IF b = Former /\ running # {} THEN "EXECUTING" ELSE branchState[b]]
      /\ told' = {Name(b) : b \in told \ (gone \ running)}
      /\ ran' = Name(ran) /\ stops' = Name(stops)
      /\ waits' = [c \in Clients |-> Name(waits[c])]

AddBranch(c, branch) ==
  /\ Enters(c) /\ Len(branches) < MaxBranches
  /\ branches' = Append(branches, branch)
  /\ reshaped' = (reshaped \/ selected # 0 \/ executor # "none")
  /\ MovePointers \/ UNCHANGED <<selected, chosen>>
  /\ UNCHANGED <<cwState, defaultSet, contextSet, stopFlag, run, outer, waits, cwLife>>

\* With another workflow, or with none.
SetDefaultBranch(c, workflow) ==
  /\ Enters(c)
  /\ defaultSet' = workflow
  /\ Disown({Default})
  /\ reshaped' = (reshaped \/ (selected = Default /\ executor # "none"))
  /\ UNCHANGED <<cwState, branches, selected, chosen, contextSet, stopFlag, executor, delivered,
                 cwLife>>

ClearBranches(c) ==
  /\ Enters(c)
  /\ branches' = <<>> /\ selected' = 0 /\ chosen' = [d \in Clients |-> Moved(chosen[d])]
  /\ Disown(Positions)
  /\ reshaped' = (reshaped \/ selected # 0 \/ executor # "none")
  /\ UNCHANGED <<cwState, defaultSet, contextSet, stopFlag, executor, delivered, cwLife>>

\* Mutant: the last one of a priority is kept.
ScanLast(holding) ==
  LET best[i \in 0 .. Len(branches)] ==
        IF i = 0 THEN [branch |-> 0, priority |-> -1]
        ELSE IF i \in holding /\ branches[i].priority >= best[i - 1].priority
        THEN [branch |-> i, priority |-> branches[i].priority]
        ELSE best[i - 1]
  IN  best[Len(branches)].branch

\* The loop over the branches, given those whose condition holds; a condition that
\* throws does not.  It keeps the first one above the highest priority so far.
Scan(holding) ==
  LET best[i \in 0 .. Len(branches)] ==
        IF i = 0 THEN [branch |-> 0, priority |-> -1]
        ELSE IF i \in holding /\ branches[i].priority > best[i - 1].priority
        THEN [branch |-> i, priority |-> branches[i].priority]
        ELSE best[i - 1]
  IN  best[Len(branches)].branch

Selection(holding) ==
  IF Scan(holding) = 0 /\ defaultSet THEN Default ELSE Scan(holding)

\* evaluateAndExecute() up to its write of selectedBranch_.  A selected branch without a
\* workflow stays selected, and nothing starts.
Evaluate(c, holding) ==
  LET b == Selection(holding)
  IN  /\ Enters(c)
      /\ cwState \in {"READY", "RUNNING"}
      /\ selected' = b
      /\ chosen' = IF HasWorkflow(b) THEN [chosen EXCEPT ![c] = b] ELSE chosen
      /\ reshaped' = (reshaped \/ executor # "none")
      /\ UNCHANGED <<cwState, branches, defaultSet, contextSet, stopFlag, run, outer, waits,
                     cwLife>>

\* The rest of evaluateAndExecute(), through its own pointer: the workflow gets the context
\* and is started, which does nothing without one.
StartBranch(c) ==
  LET b == chosen[c]
  IN  /\ b # Idle /\ cwLife = "alive"
      /\ IF HasWorkflow(b)
         THEN /\ cwState' = "RUNNING"
              /\ branchState' = [branchState EXCEPT ![b] =
                                   IF ~contextSet THEN @
                                   ELSE IF Runs(b) THEN "RESTARTED" ELSE "READY"]
              /\ UNCHANGED cwLife
         ELSE cwLife' = "undefined" /\ UNCHANGED <<cwState, branchState>>
      /\ chosen' = [chosen EXCEPT ![c] = Idle]
      /\ reshaped' = (reshaped \/ executor # "none")
      /\ UNCHANGED <<calls, now, branches, defaultSet, selected, contextSet, stopFlag, run, told,
                     waits>>

-----------------------------------------------------------------------------
(* Control.                                                                *)

Start(c, context) ==
  /\ Enters(c)
  /\ contextSet' = (contextSet \/ context)
  /\ cwState' = "READY"
  /\ UNCHANGED <<branches, defaultSet, selected, chosen, stopFlag, run, outer, waits, cwLife,
                 reshaped>>

\* Assigning a thread to a member that was not joined terminates the process.
Execute(c) ==
  /\ Enters(c)
  /\ cwState \in {"READY", "RUNNING", "EXECUTING"}
  /\ executor' = "begin"
  /\ cwLife' = IF executor = "none" THEN "alive" ELSE "terminated"
  /\ UNCHANGED <<object, ran, stops, delivered, outer, waits, reshaped>>

\* selectedBranch_ is followed: a dead pointer makes the behaviour undefined.
Tell(b) ==
  /\ told' = IF b # 0 THEN told \cup {b} ELSE told
  /\ cwLife' = IF selected = Dead THEN "undefined" ELSE cwLife

\* interrupt() and finish() of a branch are refused unless it is EXECUTING.
Target == IF HasWorkflow(selected) /\ branchState[selected] = "EXECUTING" THEN selected ELSE 0

\* interrupt() waits for the branch and raises its own flag afterwards.
Interrupt(c) ==
  /\ Enters(c)
  /\ Tell(Target)
  /\ waits' = [waits EXCEPT ![c] = Target]
  /\ UNCHANGED <<object, run, branchState, reshaped>>

HasEnded(b) == b # 0 => ~Runs(b)

InterruptFlags(c) ==
  /\ waits[c] # Idle /\ cwLife = "alive"
  /\ HasEnded(waits[c])
  /\ stopFlag' = TRUE
  /\ waits' = [waits EXCEPT ![c] = Idle]
  /\ UNCHANGED <<calls, now, cwState, branches, defaultSet, selected, chosen, contextSet, run,
                 outer, cwLife, reshaped>>

\* finish() and cancel() raise the flag first; none of the three changes state_.
Finish(c) ==
  /\ Enters(c)
  /\ stopFlag' = TRUE
  /\ Tell(Target)
  /\ UNCHANGED <<cwState, branches, defaultSet, selected, chosen, contextSet, run, branchState,
                 waits, reshaped>>

\* cancel() of a branch works in any state, and one that was READY is not any more.
Cancel(c) ==
  /\ Enters(c)
  /\ stopFlag' = TRUE
  /\ Tell(IF HasWorkflow(selected) /\ Runs(selected) THEN selected ELSE 0)
  /\ branchState' = IF HasWorkflow(selected) /\ branchState[selected] = "READY"
                    THEN [branchState EXCEPT ![selected] = "ENDED"] ELSE branchState
  /\ UNCHANGED <<cwState, branches, defaultSet, selected, chosen, contextSet, run, waits,
                 reshaped>>

\* The destructor raises the flag and joins; a joined or absent thread lets it go on.
Destroy(c) ==
  /\ Enters(c) /\ \A d \in Clients : waits[d] = Idle /\ chosen[d] = Idle
  /\ stopFlag' = TRUE
  /\ cwLife' = "destroyed"
  /\ UNCHANGED <<cwState, branches, defaultSet, selected, chosen, contextSet, run, outer, waits,
                 reshaped>>

-----------------------------------------------------------------------------
(* executeInternal() on the execution thread, and the branch it runs.      *)

ExecutorAt(from) == executor = from /\ cwLife \in {"alive", "destroyed"}

Deliver == delivered' = TRUE /\ UNCHANGED <<ran, stops, shape>>

\* Launches the selected branch; its future is ready at once if the branch is not READY.
\* Without a branch the promise is set and the run is complete.
ExecutorBegins ==
  /\ ExecutorAt("begin")
  /\ IF HasWorkflow(selected)
     THEN /\ executor' = "wait" /\ ran' = selected
          /\ cwState' = "EXECUTING"
          /\ branchState' = IF branchState[selected] = "READY"
                            THEN [branchState EXCEPT ![selected] = "EXECUTING"] ELSE branchState
          /\ UNCHANGED <<delivered, stops, shape>>
     ELSE executor' = "complete" /\ cwState' = "EXECUTING" /\ Deliver /\ UNCHANGED branchState
  /\ cwLife' = IF selected = Dead THEN "undefined" ELSE cwLife
  /\ UNCHANGED <<calls, now, told, waits, reshaped>>

\* The future is ready: the result is read from the context and delivered, first through
\* selectedBranch_, which may be another branch by now or none.
ExecutorFinds ==
  /\ ExecutorAt("wait")
  /\ ~Runs(ran)
  /\ IF selected \notin {0, Dead} /\ contextSet
     THEN executor' = "complete" /\ Deliver /\ UNCHANGED <<cwState, cwLife>>
     ELSE cwLife' = "undefined" /\ UNCHANGED <<run, object>>
  /\ UNCHANGED <<calls, now, outer, waits, reshaped>>

\* The flag is up: the branch that is selected now is interrupted.
ExecutorStops ==
  /\ ExecutorAt("wait")
  /\ Runs(ran) /\ stopFlag
  /\ executor' = "stopping" /\ stops' = Target
  /\ IF HasWorkflow(selected) \/ selected = Dead
     THEN Tell(Target)
     ELSE cwLife' = "undefined" /\ UNCHANGED told
  /\ UNCHANGED <<calls, now, object, ran, delivered, branchState, waits, reshaped>>

\* Mutant: the promise of an interrupted run is not set.
ExecutorInterruptedSilently ==
  /\ ExecutorAt("stopping")
  /\ HasEnded(stops)
  /\ executor' = "ended" /\ cwState' = "INTERRUPTED"
  /\ UNCHANGED <<calls, now, delivered, ran, stops, shape,
                 outer, waits, cwLife, reshaped>>

ExecutorInterrupted ==
  /\ ExecutorAt("stopping")
  /\ HasEnded(stops)
  /\ executor' = "ended" /\ cwState' = "INTERRUPTED"
  /\ Deliver
  /\ UNCHANGED <<calls, now, outer, waits, cwLife, reshaped>>

ExecutorCompletes ==
  /\ ExecutorAt("complete")
  /\ executor' = "ended" /\ cwState' = "COMPLETED"
  /\ UNCHANGED <<calls, now, ran, stops, delivered, shape,
                 outer, waits, cwLife, reshaped>>

\* The body of a branch returns, by itself or because it was told to.
BranchEnds(b) ==
  /\ Runs(b)
  /\ branchState' = [branchState EXCEPT ![b] = "ENDED"]
  /\ UNCHANGED <<calls, now, object, run, told, waits, cwLife, reshaped>>

Next ==
  \/ \E c \in Clients :
       \/ \E branch \in Branch : AddBranch(c, branch)
       \/ \E workflow \in BOOLEAN : SetDefaultBranch(c, workflow)
       \/ ClearBranches(c)
       \/ \E holding \in SUBSET DOMAIN branches : Evaluate(c, holding)
       \/ StartBranch(c)
       \/ \E context \in BOOLEAN : Start(c, context)
       \/ Execute(c) \/ Interrupt(c) \/ InterruptFlags(c) \/ Finish(c) \/ Cancel(c)
       \/ Destroy(c)
  \/ ExecutorBegins \/ ExecutorFinds \/ ExecutorStops \/ ExecutorInterrupted \/ ExecutorCompletes
  \/ \E b \in BranchName : BranchEnds(b)

ExecutorSteps ==
  ExecutorBegins \/ ExecutorFinds \/ ExecutorStops \/ ExecutorInterrupted \/ ExecutorCompletes

\* A branch that was told to stop ends.
ToldBranchEnds(b) == b \in told /\ BranchEnds(b)

Fairness == WF_vars(ExecutorSteps) /\ \A b \in BranchName : WF_vars(ToldBranchEnds(b))

Spec == Init /\ [][Next]_vars /\ Fairness

-----------------------------------------------------------------------------
TypeOK ==
  /\ CallersTypeOK
  /\ cwState \in {"IDLE", "READY", "RUNNING", "EXECUTING", "INTERRUPTED", "COMPLETED"}
  /\ branches \in Seq(Branch) /\ Len(branches) <= MaxBranches
  /\ defaultSet \in BOOLEAN /\ contextSet \in BOOLEAN /\ stopFlag \in BOOLEAN
  /\ selected \in BranchName \cup {0, Dead}
  /\ chosen \in [Clients -> BranchName \cup {Dead, Idle}]
  /\ ran \in BranchName \cup {0} /\ stops \in BranchName \cup {0}
  /\ executor \in {"none", "begin", "wait", "stopping", "complete", "ended"}
  /\ branchState \in [BranchName -> {"IDLE", "READY", "EXECUTING", "RESTARTED", "ENDED"}]
  /\ told \subseteq BranchName /\ waits \in [Clients -> BranchName \cup {0, Idle}]
  /\ delivered \in BOOLEAN /\ reshaped \in BOOLEAN
  /\ cwLife \in {"alive", "destroyed", "terminated", "undefined"}

\* The loop selects the first branch of the highest priority whose condition holds, and
\* none of a negative priority, for whatever conditions hold.
SelectsBest ==
  \A holding \in SUBSET DOMAIN branches :
    LET may == {i \in holding : branches[i].priority >= 0}
    IN  IF may = {} THEN Scan(holding) = 0
        ELSE /\ Scan(holding) \in may
             /\ \A i \in may : \/ branches[i].priority < branches[Scan(holding)].priority
                               \/ branches[i].priority = branches[Scan(holding)].priority
                                  /\ Scan(holding) <= i

\* While the branches stay as they were when one was selected, the end of the
\* execution thread means that its branch has ended and the promise is set; and only a
\* missing context makes the thread use a dead pointer.
EndMeansBranchEnded ==
  ~reshaped =>
    /\ executor \in {"complete", "ended"} => delivered /\ (ran # 0 => ~Runs(ran))
    /\ cwLife = "undefined" /\ executor # "none" => ~contextSet

\* A run whose stop flag is up ends, whether or not its branch would have, unless the
\* branches changed under it.
StoppedRunEnds ==
  stopFlag /\ executor = "wait" ~> delivered \/ reshaped \/ cwLife \in {"terminated", "undefined"}

=============================================================================

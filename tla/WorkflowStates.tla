--------------------------- MODULE WorkflowStates ---------------------------
(***************************************************************************)
(* The states of a workflow and the transition table that guards every     *)
(* write of BaseWorkflow::state_.  Shared by the detailed model of one     *)
(* workflow, by its abstract lifecycle and by the model of the manager.    *)
(***************************************************************************)
EXTENDS Naturals

Terminal == {"INTERRUPTED", "COMPLETED", "ERROR", "CANCELED", "FAILED", "ABORTED"}

Running == {"RUNNING", "EXECUTING"}

WorkflowState ==
  {"IDLE", "INITIALIZING", "READY", "PAUSED", "SUSPENDED", "TERMINATING"}
    \cup Running \cup Terminal

\* Mutant of the table: a paused workflow cannot be stopped before it is resumed.
NoStopWhilePaused(from, to) ==
  \/ from = to
  \/ from = "IDLE"         /\ to = "INITIALIZING"
  \/ from = "INITIALIZING" /\ to = "READY"
  \/ from = "READY"        /\ to = "EXECUTING"
  \/ from = "EXECUTING"    /\ to \in {"PAUSED", "SUSPENDED", "INTERRUPTED", "COMPLETED"}
  \/ from \in {"PAUSED", "SUSPENDED"} /\ to = "EXECUTING"

isValidStateTransition(from, to) ==
  \/ from = to
  \/ from = "IDLE"         /\ to = "INITIALIZING"
  \/ from = "INITIALIZING" /\ to \in {"READY", "ERROR"}
  \/ from = "READY"        /\ to \in Running \cup {"INTERRUPTED", "CANCELED"}
  \/ from \in Running      /\ to \in {"PAUSED", "SUSPENDED", "INTERRUPTED", "CANCELED",
                                      "COMPLETED", "ERROR", "TERMINATING"}
  \/ from \in {"PAUSED", "SUSPENDED"} /\ to \in {"EXECUTING", "INTERRUPTED", "CANCELED"}
  \/ from = "TERMINATING"  /\ to \in {"COMPLETED", "ERROR"}

\* Mutant: setState without the table.
SetStateUnchecked(from, to) == to

\* The value of state_ after setState(to): a rejected transition is only logged.
SetState(from, to) == IF isValidStateTransition(from, to) THEN to ELSE from

-----------------------------------------------------------------------------
(* How far a workflow is in its life.  The table never lets it go back.    *)

Final == 5

Stage(s) ==
  CASE s = "IDLE"                                   -> 0
    [] s = "INITIALIZING"                           -> 1
    [] s = "READY"                                  -> 2
    [] s \in Running \cup {"PAUSED", "SUSPENDED"}   -> 3
    [] s = "TERMINATING"                            -> 4
    [] s \in Terminal                                -> Final

=============================================================================

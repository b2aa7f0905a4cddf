------------------------- MODULE WorkflowLifecycle -------------------------
(***************************************************************************)
(* What a workflow promises to its callers, whatever the interleaving of   *)
(* its control methods with its execution thread: the life of the workflow *)
(* only goes forward and a final state is kept; bodies run one at a time,  *)
(* never before the workflow was made ready; every run delivers at most    *)
(* one result, and the next run starts only once the last one delivered.   *)
(***************************************************************************)
EXTENDS WorkflowStates

VARIABLES
  state,     \* state_ of the workflow
  started,   \* number of bodies launched on the execution thread
  delivered  \* number of results put in the futures of these runs

vars == <<state, started, delivered>>

Init ==
  /\ state = "IDLE"
  /\ started = 0
  /\ delivered = 0

Advance ==
  /\ Stage(state) < Final
  /\ \E s \in WorkflowState : Stage(s) >= Stage(state) /\ state' = s
  /\ UNCHANGED <<started, delivered>>

Launch ==
  /\ Stage(state) >= Stage("READY")
  /\ started = delivered
  /\ started' = started + 1
  /\ UNCHANGED <<state, delivered>>

Deliver ==
  /\ Stage(state) > Stage("READY")
  /\ delivered < started
  /\ delivered' = delivered + 1
  /\ UNCHANGED <<state, started>>

Next == Advance \/ Launch \/ Deliver

Spec == Init /\ [][Next]_vars

=============================================================================

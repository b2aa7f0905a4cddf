------------------------------ MODULE MCServices ------------------------------
(***************************************************************************)
(* The services around a workflow, side by side in one run: they share the *)
(* callers and the clock and nothing else, so a behaviour lets one of them *)
(* act, part, and leaves the others as they were made.                     *)
(***************************************************************************)
EXTENDS Callers, Sequences

CONSTANTS
  FewCalls,    \* bound: MaxCalls of the checkpoints
  ManyCalls,   \* bound: MaxCalls of the conditional workflow
  FewIds,      \* Ids of the alerts and of the records
  ShortTime,   \* bound: MaxTime of the database
  MaxHistory   \* maxHistorySize_ of the alerts

ASSUME ServicesAssumption ==
  /\ FewCalls \in Nat /\ ManyCalls \in Nat
  /\ IsFiniteSet(FewIds)
  /\ ShortTime \in Nat \ {0}
  /\ MaxHistory \in Nat

Parts == {"breaker", "timeout", "branches", "retry", "letters", "checkpoints", "alerts",
          "database", "records", "resources", "facade"}

VARIABLES
  part,
  cbState, failureCount, successCount, openTime, cbConfig, hasCallback, tail, overlapped,
  timeoutMs, policy, autoRestart, maxRetries, retryCount, timedOut, timerRunning, startTime,
  timerThread, stopping, life, interrupts, expired, restarted,
  cwState, branches, defaultSet, selected, chosen, contextSet, stopFlag, executor, ran,
  branchState, told, waits, stops, delivered, cwLife, reshaped,
  rpConfig, currentAttempt, attempt, asking, reconfigured,
  items, pendingQueue, maxItems, retentionMs, stuck, stale,
  checkpoints, workflowCheckpoints, executionCheckpoints, maxCheckpoints, expirationMs, collided,
  rules, activeAlerts, history,
  db, leaked, log, acknowledged,
  activeTraces, completedTraces, workflowTraces, maxTraces, traced, activeMetrics,
  metricsHistory, begun, replacedRuns, stats, startedAt,
  resources, created, directories, workingDir, doing, failed,
  manager, initialized, persistenceEnabled, connected, mutex, phase, replaced

Breaker     == INSTANCE CircuitBreaker
Timeout     == INSTANCE TimeoutHandler
Branches    == INSTANCE ConditionalWorkflow WITH MaxCalls <- ManyCalls
Retry       == INSTANCE RetryPolicy
Letters     == INSTANCE DeadLetterQueue
Checkpoints == INSTANCE CheckpointManager WITH MaxCalls <- FewCalls
Alerts      == INSTANCE AlertManager WITH Ids <- FewIds
Database    == INSTANCE WorkflowPersistence WITH MaxTime <- ShortTime
Records     == INSTANCE ExecutionRecords WITH
                 Ids <- FewIds, overlapped <- replacedRuns, startTime <- startedAt
Resources   == INSTANCE WorkflowResources
Facade      == INSTANCE SystemFacade

\* A component that does not act has some configuration.
Default(S) == CHOOSE x \in S : TRUE

Init ==
  /\ part \in Parts
  /\ Breaker!Init
  /\ part # "breaker" => cbConfig = Default(Breaker!CircuitBreakerConfig)
  /\ Timeout!Init
  /\ part # "timeout" => ~autoRestart /\ maxRetries = Default(Limits)
  /\ Branches!Init
  /\ part # "branches" => ~stopFlag
  /\ Retry!Init
  /\ part # "retry" => rpConfig = Default(Retry!RetryConfig)
  /\ Letters!Init
  /\ part # "letters" => maxItems = Default(Limits) /\ retentionMs = Default(Limits)
  /\ Checkpoints!Init
  /\ part # "checkpoints" => maxCheckpoints = Default(Limits) /\ expirationMs = Default(Limits)
  /\ Alerts!Init /\ Database!Init
  /\ Records!Init
  /\ part # "records" => maxTraces = Default(Limits)
  /\ Resources!Init /\ Facade!Init

breaker   == <<cbState, failureCount, successCount, openTime, cbConfig, hasCallback, tail,
                 overlapped>>
timeout   == <<timeoutMs, policy, autoRestart, maxRetries, retryCount, timedOut, timerRunning,
                 startTime, timerThread, stopping, life, interrupts, expired, restarted>>
condition == <<cwState, branches, defaultSet, selected, chosen, contextSet, stopFlag, executor, ran,
                 branchState, told, waits, stops, delivered, cwLife, reshaped>>
retry     == <<rpConfig, currentAttempt, attempt, asking, reconfigured>>
letters   == <<items, pendingQueue, maxItems, retentionMs, stuck, stale>>
saved     == <<checkpoints, workflowCheckpoints, executionCheckpoints, maxCheckpoints,
                 expirationMs, collided>>
alerts    == <<rules, activeAlerts, history>>
database  == <<db, leaked, log, acknowledged>>
records   == <<activeTraces, completedTraces, workflowTraces, maxTraces, traced, activeMetrics,
                 metricsHistory, begun, replacedRuns, stats, startedAt>>
directory == <<resources, created, directories, workingDir, doing, failed>>
facade    == <<manager, initialized, persistenceEnabled, connected, mutex, phase, replaced>>

Acts(p) ==
  /\ part = p /\ UNCHANGED part
  /\ IF p = "breaker"     THEN Breaker!Next     ELSE UNCHANGED breaker
  /\ IF p = "timeout"     THEN Timeout!Next     ELSE UNCHANGED timeout
  /\ IF p = "branches"    THEN Branches!Next    ELSE UNCHANGED condition
  /\ IF p = "retry"       THEN Retry!Next       ELSE UNCHANGED retry
  /\ IF p = "letters"     THEN Letters!Next     ELSE UNCHANGED letters
  /\ IF p = "checkpoints" THEN Checkpoints!Next ELSE UNCHANGED saved
  /\ IF p = "alerts"      THEN Alerts!Next      ELSE UNCHANGED alerts
  /\ IF p = "database"    THEN Database!Next    ELSE UNCHANGED database
  /\ IF p = "records"     THEN Records!Next     ELSE UNCHANGED records
  /\ IF p = "resources"   THEN Resources!Next   ELSE UNCHANGED directory
  /\ IF p = "facade"      THEN Facade!Next      ELSE UNCHANGED facade

Next == \E p \in Parts : Acts(p)

vars == <<part, calls, now, breaker, timeout, condition, retry, letters, saved, alerts,
          database, records, directory, facade>>

Spec ==
  Init /\ [][Next]_vars /\ Timeout!Fairness /\ Branches!Fairness /\ Facade!Fairness

-----------------------------------------------------------------------------
TypeOK ==
  /\ part = "breaker"     => Breaker!TypeOK
  /\ part = "timeout"     => Timeout!TypeOK
  /\ part = "branches"    => Branches!TypeOK
  /\ part = "retry"       => Retry!TypeOK
  /\ part = "letters"     => Letters!TypeOK
  /\ part = "checkpoints" => Checkpoints!TypeOK
  /\ part = "alerts"      => Alerts!TypeOK
  /\ part = "database"    => Database!TypeOK
  /\ part = "records"     => Records!TypeOK
  /\ part = "resources"   => Resources!TypeOK
  /\ part = "facade"      => Facade!TypeOK

\* Refinement: the circuit breaker does what BreakerPromise says.
BreakerImplemented == Breaker!BreakerImplemented

\* A store and its indices name the same things: the dead letter queue and its queue of
\* identifiers, the checkpoints and their two lists, the alerts and their history, the
\* traces that run, those that ended and those of a workflow.
IndicesAgree ==
  /\ part = "letters"     => Letters!PendingListed
  /\ part = "checkpoints" => Checkpoints!CheckpointsListed
  /\ part = "alerts"      => Alerts!HistoryAgrees
  /\ part = "records"     => Records!TracesListed

\* A limit on a store never costs it what it must keep: an unresolved item of the dead
\* letter queue; or the newest checkpoints of a workflow, the one being stored included.
LimitsKeep ==
  /\ Letters!UnresolvedKept
  /\ [][part = "checkpoints" => Checkpoints!OldestGo]_vars

\* What was recorded, acquired or opened is accounted for to the end: rows of the
\* database, executions of the metrics, directories, the connection.
NothingLost ==
  /\ part = "database"  => Database!SavedIsFound
  /\ part = "records"   => Records!RunsAccounted
  /\ part = "resources" => Resources!NothingLeaks
  /\ part = "facade"    => Facade!ConnectionKept

\* What the services decide about a run is right at the time it takes effect: whether a
\* request passes, a timeout strikes, an attempt is repeated, which branch runs and
\* when a run is over.
DecisionsHold ==
  /\ part = "breaker"  => Breaker!ViewsAgree
  /\ part = "timeout"  => Timeout!StopIsInTime /\ Timeout!TerminationNeedsExpiry
  /\ part = "branches" => Branches!SelectsBest /\ Branches!EndMeansBranchEnded
  /\ part = "retry"    => Retry!RetriesBounded /\ Retry!DelaysBounded
  /\ part = "letters"  => Letters!StuckMeansUnsettled

\* stopTimer() comes back, and a conditional workflow that was told to stop ends.
CallsReturn ==
  /\ part = "timeout"  => Timeout!StopComesBack
  /\ part = "branches" => Branches!StoppedRunEnds

=============================================================================

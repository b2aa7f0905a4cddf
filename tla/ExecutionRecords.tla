-------------------------- MODULE ExecutionRecords --------------------------
(***************************************************************************)
(* What is recorded about the executions of workflows: the traces of the   *)
(* WorkflowTracer, the metrics of the MetricsCollector and the statistics  *)
(* of the StatisticsObserver.  Each has a mutex of its own and every       *)
(* method is one step.  Workflows are Ids.                                 *)
(***************************************************************************)
EXTENDS Callers, Sequences

VARIABLES
  activeTraces,     \* activeTraces_: the traces that run, by number
  completedTraces,  \* completedTraces_, in the order of their end
  workflowTraces,   \* workflowTraces_: the numbers of the traces of each workflow
  maxTraces,        \* maxTraces_
  traced,           \* how many traces were started
  activeMetrics,    \* activeMetrics_: when the execution began, 0 for none
  metricsHistory,   \* metricsHistory_: durations and outcomes
  begun,            \* history: recordWorkflowStart() calls since the metrics were cleared
  overlapped,       \* history: of these, the ones that another start replaced
  stats,            \* stats_ of the observer
  startTime         \* startTime_ of the observer, 0 for none

traceVars == <<activeTraces, completedTraces, workflowTraces, maxTraces, traced>>
metricVars == <<activeMetrics, metricsHistory, begun, overlapped>>
statVars == <<stats, startTime>>
own  == <<traceVars, metricVars, statVars>>
vars == <<calls, now, own>>

NoStats ==
  [startCount |-> 0, finishCount |-> 0, interruptCount |-> 0, errorCount |-> 0,
   totalDuration |-> 0]

NoMetrics == [w \in Ids |-> <<>>]
Never == [w \in Ids |-> 0]

Init ==
  /\ CallersInit
  /\ activeTraces = {} /\ completedTraces = <<>> /\ workflowTraces = NoMetrics
  /\ maxTraces \in Limits /\ traced = 0
  /\ activeMetrics = Never /\ metricsHistory = NoMetrics
  /\ begun = Never /\ overlapped = Never
  /\ stats = [w \in Ids |-> NoStats] /\ startTime = Never

-----------------------------------------------------------------------------
(* WorkflowTracer.                                                         *)

Tracing == Called /\ UNCHANGED <<metricVars, statVars>>

StartTrace(w) ==
  /\ Tracing
  /\ traced' = traced + 1
  /\ activeTraces' = activeTraces \cup
       {[traceId |-> traced + 1, workflowName |-> w, startTime |-> now, errorCount |-> 0]}
  /\ workflowTraces' = [workflowTraces EXCEPT ![w] = Append(@, traced + 1)]
  /\ UNCHANGED <<completedTraces, maxTraces>>

\* Mutant: the trace stays active.
EndTraceKept(trace) ==
  /\ Tracing
  /\ completedTraces' = Append(completedTraces,
       [traceId |-> trace.traceId, workflowName |-> trace.workflowName, endTime |-> now,
        errorCount |-> trace.errorCount])
  /\ UNCHANGED <<activeTraces, workflowTraces, maxTraces, traced>>

\* One trace goes in and, beyond the limit, one goes out.
EndTrace(trace) ==
  LET ended == Append(completedTraces,
        [traceId |-> trace.traceId, workflowName |-> trace.workflowName, endTime |-> now,
         errorCount |-> trace.errorCount])
  IN  /\ Tracing
      /\ activeTraces' = activeTraces \ {trace}
      /\ completedTraces' = IF Len(ended) > maxTraces THEN Tail(ended) ELSE ended
      /\ UNCHANGED <<workflowTraces, maxTraces, traced>>

\* Events of a trace that runs; others are dropped.
RecordError(trace) ==
  /\ Tracing
  /\ activeTraces' = (activeTraces \ {trace}) \cup {[trace EXCEPT !.errorCount = @ + 1]}
  /\ UNCHANGED <<completedTraces, workflowTraces, maxTraces, traced>>

ClearTraces(workflows) ==
  /\ Tracing
  /\ activeTraces' = {trace \in activeTraces : trace.workflowName \notin workflows}
  /\ completedTraces' = Sublist(completedTraces,
       {i \in DOMAIN completedTraces : completedTraces[i].workflowName \notin workflows})
  /\ workflowTraces' = [w \in Ids |-> IF w \in workflows THEN <<>> ELSE workflowTraces[w]]
  /\ UNCHANGED <<maxTraces, traced>>

SetMaxTraces(limit) ==
  Tracing /\ maxTraces' = limit
  /\ UNCHANGED <<activeTraces, completedTraces, workflowTraces, traced>>

CompletedOf(w) == {i \in DOMAIN completedTraces : completedTraces[i].workflowName = w}

-----------------------------------------------------------------------------
(* MetricsCollector.                                                       *)

Measuring == Called /\ UNCHANGED <<traceVars, statVars>>

\* An execution of the same workflow that still runs is forgotten.
RecordWorkflowStart(w) ==
  /\ Measuring
  /\ activeMetrics' = [activeMetrics EXCEPT ![w] = now]
  /\ begun' = [begun EXCEPT ![w] = @ + 1]
  /\ overlapped' = IF activeMetrics[w] = 0 THEN overlapped
                   ELSE [overlapped EXCEPT ![w] = @ + 1]
  /\ UNCHANGED metricsHistory

RecordWorkflowEnd(w, success) ==
  /\ Measuring
  /\ activeMetrics[w] # 0
  /\ metricsHistory' = [metricsHistory EXCEPT ![w] =
       Append(@, [duration |-> now - activeMetrics[w], success |-> success])]
  /\ activeMetrics' = [activeMetrics EXCEPT ![w] = 0]
  /\ UNCHANGED <<begun, overlapped>>

ClearMetrics(workflows) ==
  LET Cleared(table, none) == [w \in Ids |-> IF w \in workflows THEN none ELSE table[w]]
  IN  /\ Measuring
      /\ activeMetrics' = Cleared(activeMetrics, 0)
      /\ metricsHistory' = Cleared(metricsHistory, <<>>)
      /\ begun' = Cleared(begun, 0) /\ overlapped' = Cleared(overlapped, 0)

TotalDuration(runs) ==
  LET total[i \in 0 .. Len(runs)] == IF i = 0 THEN 0 ELSE total[i - 1] + runs[i].duration
  IN  total[Len(runs)]

\* getStatistics().
Statistics(w) ==
  LET runs == metricsHistory[w]
      durations == {runs[i].duration : i \in DOMAIN runs}
  IN  [totalExecutions |-> Len(runs),
       successCount |-> Cardinality({i \in DOMAIN runs : runs[i].success}),
       totalDuration |-> TotalDuration(runs),
       minDuration |-> IF runs = <<>> THEN 0
                       ELSE CHOOSE d \in durations : \A e \in durations : d <= e,
       averageDuration |-> IF runs = <<>> THEN 0 ELSE TotalDuration(runs) \div Len(runs)]

-----------------------------------------------------------------------------
(* StatisticsObserver.                                                     *)

Observing == Called /\ UNCHANGED <<traceVars, metricVars>>

OnWorkflowStarted(w) ==
  /\ Observing
  /\ stats' = [stats EXCEPT ![w].startCount = @ + 1]
  /\ startTime' = [startTime EXCEPT ![w] = now]

\* Mutant: the start is not taken off the table.
OnWorkflowFinishedAgain(w) ==
  /\ Observing
  /\ stats' = [stats EXCEPT ![w].finishCount = @ + 1,
                            ![w].totalDuration =
                               IF startTime[w] = 0 THEN @ ELSE @ + (now - startTime[w])]
  /\ UNCHANGED startTime

\* The start is used once.
OnWorkflowFinished(w) ==
  /\ Observing
  /\ stats' = [stats EXCEPT ![w].finishCount = @ + 1,
                            ![w].totalDuration =
                               IF startTime[w] = 0 THEN @ ELSE @ + (now - startTime[w])]
  /\ startTime' = [startTime EXCEPT ![w] = 0]

\* The start stays for a later end.
OnWorkflowInterrupted(w) ==
  Observing /\ stats' = [stats EXCEPT ![w].interruptCount = @ + 1] /\ UNCHANGED startTime

OnWorkflowError(w) ==
  Observing /\ stats' = [stats EXCEPT ![w].errorCount = @ + 1] /\ UNCHANGED startTime

ClearStats == Observing /\ stats' = [w \in Ids |-> NoStats] /\ startTime' = Never

-----------------------------------------------------------------------------
Tick == Elapse /\ UNCHANGED <<traceVars, metricVars, statVars>>

Next ==
  \/ \E w \in Ids : \/ StartTrace(w) \/ RecordWorkflowStart(w)
                    \/ \E success \in BOOLEAN : RecordWorkflowEnd(w, success)
                    \/ OnWorkflowStarted(w) \/ OnWorkflowFinished(w)
                    \/ OnWorkflowInterrupted(w) \/ OnWorkflowError(w)
  \/ \E trace \in activeTraces : EndTrace(trace) \/ RecordError(trace)
  \/ \E workflows \in {{w} : w \in Ids} \cup {Ids} :
       ClearTraces(workflows) \/ ClearMetrics(workflows)
  \/ \E limit \in Limits : SetMaxTraces(limit)
  \/ ClearStats
  \/ Tick

Spec == Init /\ [][Next]_vars

-----------------------------------------------------------------------------
Trace == [traceId : Nat, workflowName : Ids, startTime : 1 .. MaxTime, errorCount : Nat]
CompletedTrace == [traceId : Nat, workflowName : Ids, endTime : 1 .. MaxTime, errorCount : Nat]
Measured == [duration : 0 .. MaxTime, success : BOOLEAN]

Stats == [startCount : Nat, finishCount : Nat, interruptCount : Nat, errorCount : Nat,
          totalDuration : Nat]

TypeOK ==
  /\ CallersTypeOK
  /\ \A trace \in activeTraces : trace \in Trace
  /\ completedTraces \in Seq(CompletedTrace)
  /\ workflowTraces \in [Ids -> Seq(Nat)]
  /\ maxTraces \in Limits /\ traced \in Nat
  /\ activeMetrics \in [Ids -> 0 .. MaxTime] /\ metricsHistory \in [Ids -> Seq(Measured)]
  /\ begun \in [Ids -> Nat] /\ overlapped \in [Ids -> Nat]
  /\ stats \in [Ids -> Stats] /\ startTime \in [Ids -> 0 .. MaxTime]

\* A trace is either running or completed, and can be found through its workflow as long
\* as it is kept; the completed ones are in the order of their end.
TracesListed ==
  LET running == {trace.traceId : trace \in activeTraces}
  IN  /\ \A i \in DOMAIN completedTraces : completedTraces[i].traceId \notin running
      /\ \A i, j \in DOMAIN completedTraces : i < j =>
           /\ completedTraces[i].traceId # completedTraces[j].traceId
           /\ completedTraces[i].endTime <= completedTraces[j].endTime
      /\ \A trace \in activeTraces :
           \E k \in DOMAIN workflowTraces[trace.workflowName] :
             workflowTraces[trace.workflowName][k] = trace.traceId
      /\ \A w \in Ids : \A i \in CompletedOf(w) :
           \E k \in DOMAIN workflowTraces[w] : workflowTraces[w][k] = completedTraces[i].traceId

\* Every execution that the metrics were told of is running, in the history, or was
\* replaced by the start of another; and the executions measured for one workflow, by the
\* metrics or by the observer, never overlap, so that no time is counted twice.
RunsAccounted ==
  \A w \in Ids :
    /\ begun[w] = Len(metricsHistory[w]) + overlapped[w] + (IF activeMetrics[w] = 0 THEN 0 ELSE 1)
    /\ Statistics(w).totalDuration <= now - 1
    /\ Statistics(w).minDuration <= Statistics(w).averageDuration
    /\ stats[w].totalDuration <= now - 1

=============================================================================

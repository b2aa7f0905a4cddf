------------------------ MODULE MCWorkflowScheduler -------------------------
(* Two schedules, two controllers, a configuration of each type; a tick
   is a day. *)
EXTENDS WorkflowScheduler

Unset == [type |-> "ONCE", startTime |-> 0, interval |-> 0, endTime |-> 0,
          maxExecutions |-> 0, enabled |-> TRUE]

MCConfigs ==
  {[Unset EXCEPT !.startTime = 2],
   [Unset EXCEPT !.type = "INTERVAL", !.interval = 1, !.endTime = 3, !.maxExecutions = 2],
   [Unset EXCEPT !.type = "DAILY", !.enabled = FALSE],
   [Unset EXCEPT !.type = "MONTHLY"]}

MonthlyConfigs == {[Unset EXCEPT !.type = "MONTHLY"]}

=============================================================================

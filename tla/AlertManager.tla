---------------------------- MODULE AlertManager ----------------------------
(***************************************************************************)
(* The AlertManager: rules by identifier, the alerts raised so far with    *)
(* the time they were resolved, and a bounded history of them, from which  *)
(* the rules count.  Every method runs under mutex_ and is one step.       *)
(***************************************************************************)
EXTENDS Callers, Sequences

CONSTANT MaxHistory  \* maxHistorySize_

VARIABLES
  rules,         \* rules_, with type "NONE" where there is no rule
  activeAlerts,  \* activeAlerts_, numbered in the order they were raised
  history        \* history_: numbers of alerts, with the copies' own resolved flags

own  == <<rules, activeAlerts, history>>
vars == <<calls, now, own>>

\* Two of the eight alert types, and the workflows alerts are about.
AlertType == {"WORKFLOW_FAILED", "WORKFLOW_TIMEOUT"}

\* A rule is about one workflow or, with an empty name, about all.
Rule ==
  [type : AlertType, workflowName : Ids \cup {""}, threshold : Limits, timeWindowMs : Limits,
   enabled : BOOLEAN]

NoRule == [type |-> "NONE", workflowName |-> "", threshold |-> 0, timeWindowMs |-> 0,
           enabled |-> FALSE]

AlertRecord == [type : AlertType, workflowName : Ids, triggeredAt : 1 .. MaxTime,
                resolved : BOOLEAN]

HistoryRecord == [alert : Nat, resolved : BOOLEAN]

Init ==
  /\ CallersInit
  /\ rules = [r \in Ids |-> NoRule]
  /\ activeAlerts = <<>>
  /\ history = <<>>

-----------------------------------------------------------------------------
(* Rules.                                                                  *)

\* addAlertRule() stores or replaces, updateAlertRule() replaces.
SetAlertRule(r, rule) ==
  /\ Called
  /\ rules' = [rules EXCEPT ![r] = rule]
  /\ UNCHANGED <<activeAlerts, history>>

RemoveAlertRule(r) == rules[r] # NoRule /\ SetAlertRule(r, NoRule)

EnableAlertRule(r, enabled) ==
  rules[r] # NoRule /\ SetAlertRule(r, [rules[r] EXCEPT !.enabled = enabled])

Concerns(rule, workflow) == rule.workflowName \in {"", workflow}

Matches(r, type, workflow) ==
  rules[r].enabled /\ rules[r].type = type /\ Concerns(rules[r], workflow)

-----------------------------------------------------------------------------
(* Alerts.  A log is a pair of the alerts raised and the history.          *)

\* getAlertCountInternal().
Count(rule, log) ==
  Cardinality({i \in DOMAIN log[2] :
    LET record == log[1][log[2][i].alert]
    IN  /\ record.triggeredAt >= now - rule.timeWindowMs
        /\ record.type = rule.type
        /\ Concerns(rule, record.workflowName)})

\* Mutant: an alert is not copied into the history once this is full.
RaiseUntrimmed(log, type, workflow) ==
  <<Append(log[1], [type |-> type, workflowName |-> workflow, triggeredAt |-> now,
                    resolved |-> FALSE]),
    IF Len(log[2]) = MaxHistory THEN log[2]
    ELSE Append(log[2], [alert |-> Len(log[1]) + 1, resolved |-> FALSE])>>

\* A new alert is stored and copied to the end of the history, which is trimmed.
Raise(log, type, workflow) ==
  LET copies == Append(log[2], [alert |-> Len(log[1]) + 1, resolved |-> FALSE])
  IN  <<Append(log[1], [type |-> type, workflowName |-> workflow, triggeredAt |-> now,
                        resolved |-> FALSE]),
        SubSeq(copies, IF Len(copies) > MaxHistory THEN Len(copies) - MaxHistory + 1 ELSE 1,
               Len(copies))>>

\* The matching rules in the order in which the table is traversed.
Traversals(type, workflow) ==
  LET matching == {r \in Ids : Matches(r, type, workflow)}
  IN  {order \in [1 .. Cardinality(matching) -> matching] :
         \A i, j \in DOMAIN order : i # j => order[i] # order[j]}

\* What the rules of order make of the log, one after the other.
Raised(order, type, workflow) ==
  LET after[i \in 0 .. Len(order)] ==
        IF i = 0 THEN <<activeAlerts, history>>
        ELSE IF Count(rules[order[i]], after[i - 1]) >= rules[order[i]].threshold
        THEN Raise(after[i - 1], type, workflow)
        ELSE after[i - 1]
  IN  after[Len(order)]

\* Every matching rule whose count reached its threshold raises an alert, which the next
\* rule counts; without a matching rule the alert is raised in any case.
TriggerAlert(type, workflow) ==
  /\ Called
  /\ \E order \in Traversals(type, workflow) :
       LET log == IF order = <<>> THEN Raise(<<activeAlerts, history>>, type, workflow)
                  ELSE Raised(order, type, workflow)
       IN  activeAlerts' = log[1] /\ history' = log[2]
  /\ UNCHANGED rules

\* Mutant: the copies in the history stay unresolved.
ResolveAlertOnly(a) ==
  /\ Called /\ a \in DOMAIN activeAlerts
  /\ activeAlerts' = [activeAlerts EXCEPT ![a].resolved = TRUE]
  /\ UNCHANGED <<rules, history>>

ResolveAlert(a) ==
  /\ Called /\ a \in DOMAIN activeAlerts
  /\ activeAlerts' = [activeAlerts EXCEPT ![a].resolved = TRUE]
  /\ history' = [i \in DOMAIN history |->
       IF history[i].alert = a THEN [history[i] EXCEPT !.resolved = TRUE] ELSE history[i]]
  /\ UNCHANGED rules

GetActiveAlerts == {a \in DOMAIN activeAlerts : ~activeAlerts[a].resolved}

Tick == Elapse /\ UNCHANGED <<rules, activeAlerts, history>>

Next ==
  \/ \E r \in Ids : \/ \E rule \in Rule : SetAlertRule(r, rule)
                    \/ RemoveAlertRule(r)
                    \/ \E enabled \in BOOLEAN : EnableAlertRule(r, enabled)
  \/ \E type \in AlertType, workflow \in Ids : TriggerAlert(type, workflow)
  \/ \E a \in 1 .. Len(activeAlerts) : ResolveAlert(a)
  \/ Tick

Spec == Init /\ [][Next]_vars

-----------------------------------------------------------------------------
TypeOK ==
  /\ CallersTypeOK
  /\ rules \in [Ids -> Rule \cup {NoRule}]
  /\ activeAlerts \in Seq(AlertRecord)
  /\ history \in Seq(HistoryRecord)

\* The history holds the alerts raised last, as many as it may, in order, and agrees
\* with the table of alerts on which of them are resolved.
HistoryAgrees ==
  LET size == IF Len(activeAlerts) < MaxHistory THEN Len(activeAlerts) ELSE MaxHistory
  IN  /\ Len(history) = size
      /\ \A i \in 1 .. Len(history) :
           /\ history[i].alert = Len(activeAlerts) - size + i
           /\ history[i].resolved <=> history[i].alert \notin GetActiveAlerts

=============================================================================

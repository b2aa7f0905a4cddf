------------------------ MODULE WorkflowPersistence ------------------------
(***************************************************************************)
(* SqliteWorkflowPersistence, the one connection of the process to the     *)
(* SQLite file, with WorkflowVersionControl, which keeps its versions in   *)
(* the same table as the definitions of the WorkflowManager.  SQLite is    *)
(* external: a statement commits or fails as a whole; in WAL mode with     *)
(* synchronous=NORMAL a commit survives the end of the process, but a loss *)
(* of power may drop the commits since the last checkpoint of the log.     *)
(***************************************************************************)
EXTENDS Callers, Sequences

VARIABLES
  db,           \* db_ and initialized_: "CLOSED", "OPEN", or "SPOILT": db_ is set by an
                \* initialize() that failed
  leaked,       \* handles that initialize() overwrote and nobody can close
  log,          \* the file: the committed tables since the last checkpoint of the log
  acknowledged  \* history: the rows saveWorkflow() said were saved, until they are deleted

own  == <<db, leaked, log, acknowledged>>
vars == <<calls, now, own>>

NoRow == [endTime |-> 0, success |-> FALSE]

\* A plain definition, one version of it, a list of versions, or the empty text.
Definition == {"DEFINITION", "VERSION", "LIST", "EMPTY"}

NoTables ==
  [workflows |-> [id \in Ids |-> NoRow], definitions |-> [id \in Ids |-> "NONE"]]

tables == log[Len(log)]

Rows == {id \in Ids : tables.workflows[id] # NoRow}

Init ==
  /\ CallersInit
  /\ db = "CLOSED" /\ leaked = 0
  /\ log = <<NoTables>>
  /\ acknowledged = [id \in Ids |-> NoRow]

-----------------------------------------------------------------------------
(* The connection.                                                         *)

\* The tables are created if they do not exist.  An open that fails leaves its handle
\* in db_; a later step that fails closes it again.
Initialize ==
  /\ Called
  /\ IF db = "OPEN" THEN UNCHANGED <<db, leaked>>
     ELSE /\ db' \in {"OPEN", "SPOILT", "CLOSED"}
          /\ leaked' = IF db = "SPOILT" THEN leaked + 1 ELSE leaked
  /\ UNCHANGED <<log, acknowledged>>

\* Closing the last connection moves the log into the file.
Close ==
  /\ Called
  /\ db' = "CLOSED"
  /\ log' = IF db = "OPEN" THEN <<tables>> ELSE log
  /\ UNCHANGED <<leaked, acknowledged>>

\* A call while the database is not open, or whose statement fails.
Refused == Called /\ UNCHANGED <<db, leaked, log, acknowledged>>

\* initialize() succeeds only if every statement could be prepared, and close() finalizes them.
Prepared == db = "OPEN"

Commit(new) == Called /\ Prepared /\ log' = Append(log, new) /\ UNCHANGED <<db, leaked>>

-----------------------------------------------------------------------------
(* Rows of executions.                                                     *)

\* Mutant: INSERT OR REPLACE.
InsertOrReplace(id, row) ==
  Commit([tables EXCEPT !.workflows[id] = row])

\* INSERT: a second row with the primary key of a first one is refused.
Insert(id, row) ==
  tables.workflows[id] = NoRow /\ Commit([tables EXCEPT !.workflows[id] = row])

SaveWorkflow(id, success) ==
  LET row == [endTime |-> now, success |-> success]
  IN  /\ Insert(id, row)
      /\ acknowledged' = IF acknowledged[id] = NoRow
                         THEN [acknowledged EXCEPT ![id] = row] ELSE acknowledged

\* It answers true for a row that does not exist, too.
DeleteWorkflow(id) ==
  /\ Commit([tables EXCEPT !.workflows[id] = NoRow])
  /\ acknowledged' = [acknowledged EXCEPT ![id] = NoRow]

ClearAllWorkflows ==
  /\ Commit([tables EXCEPT !.workflows = NoTables.workflows])
  /\ acknowledged' = NoTables.workflows

GetWorkflowById(id) == tables.workflows[id]

GetSuccessCount == Cardinality({id \in Rows : tables.workflows[id].success})
GetFailureCount == Cardinality({id \in Rows : ~tables.workflows[id].success})
GetTotalWorkflowCount == Cardinality(Rows)

\* In percent; no rows give NULL, which reads as zero.
GetSuccessRate ==
  IF Rows = {} THEN 0 ELSE (GetSuccessCount * 100) \div GetTotalWorkflowCount

\* Executions that began and ended within the range; here they take no time.
GetWorkflowsByTimeRange(from, to) ==
  {id \in Rows : tables.workflows[id].endTime \in from .. to}

-----------------------------------------------------------------------------
(* Definitions and versions share one row for each workflow.               *)

SaveWorkflowDefinition(id, text) ==
  /\ Commit([tables EXCEPT !.definitions[id] = text])
  /\ UNCHANGED acknowledged

GetWorkflowDefinition(id) == tables.definitions[id]

\* It finds no version in any text ...
ParseVersionsFromJson(text) == {}

GetAllVersions(id) == ParseVersionsFromJson(GetWorkflowDefinition(id))

\* ... so a new version has no parent, replaces the row,
SaveVersion(id) == SaveWorkflowDefinition(id, "VERSION")

\* no version is found to roll back to,
RollbackToVersion(id) == GetAllVersions(id) = {} /\ Refused

\* the list that says which version is active is empty,
SetActiveVersion(id) == SaveWorkflowDefinition(id, "LIST")

\* and whichever version is deleted, none is left.
DeleteVersion(id) ==
  SaveWorkflowDefinition(id, IF GetAllVersions(id) = {} THEN "EMPTY" ELSE "LIST")

DeleteAllVersions(id) == SaveWorkflowDefinition(id, "EMPTY")

-----------------------------------------------------------------------------
(* The environment.                                                        *)

Checkpoint == log' = <<tables>> /\ UNCHANGED <<calls, now, db, leaked, acknowledged>>

\* The process ends, perhaps between the commit of a save and its answer.
Crash ==
  /\ Called
  /\ db' = "CLOSED" /\ leaked' = 0
  /\ \/ UNCHANGED log
     \/ \E id \in Ids, success \in BOOLEAN :
          /\ Prepared /\ tables.workflows[id] = NoRow
          /\ log' = Append(log, [tables EXCEPT !.workflows[id] =
                                   [endTime |-> now, success |-> success]])
  /\ UNCHANGED acknowledged

PowerLoss ==
  /\ Called
  /\ db' = "CLOSED" /\ leaked' = 0
  /\ \E n \in DOMAIN log :
       /\ log' = SubSeq(log, 1, n)
       /\ acknowledged' = [id \in Ids |->
            IF log[n].workflows[id] = acknowledged[id] THEN acknowledged[id] ELSE NoRow]

Tick == Elapse /\ UNCHANGED <<db, leaked, log, acknowledged>>

Next ==
  \/ Initialize \/ Close \/ Refused
  \/ \E id \in Ids, success \in BOOLEAN : SaveWorkflow(id, success)
  \/ \E id \in Ids : \/ DeleteWorkflow(id)
                     \/ SaveWorkflowDefinition(id, "DEFINITION")
                     \/ SaveVersion(id) \/ RollbackToVersion(id) \/ SetActiveVersion(id)
                     \/ DeleteVersion(id) \/ DeleteAllVersions(id)
  \/ ClearAllWorkflows
  \/ Checkpoint \/ Crash \/ PowerLoss
  \/ Tick

Spec == Init /\ [][Next]_vars

-----------------------------------------------------------------------------
Row == [endTime : 1 .. MaxTime, success : BOOLEAN]

Tables == [workflows : [Ids -> Row \cup {NoRow}], definitions : [Ids -> Definition \cup {"NONE"}]]

TypeOK ==
  /\ CallersTypeOK
  /\ db \in {"CLOSED", "OPEN", "SPOILT"}
  /\ leaked \in Nat
  /\ log \in Seq(Tables) /\ log # <<>>
  /\ acknowledged \in [Ids -> Row \cup {NoRow}]

\* A row that saveWorkflow() acknowledged is in the file as it was first saved until it
\* is deleted: neither a later save under its id, nor closing and opening, nor the end of
\* the process changes it.  Every row counts as one success or one failure.
SavedIsFound ==
  /\ \A id \in Ids : acknowledged[id] # NoRow => GetWorkflowById(id) = acknowledged[id]
  /\ GetSuccessCount + GetFailureCount = GetTotalWorkflowCount
  /\ GetSuccessRate \in 0 .. 100
  /\ GetWorkflowsByTimeRange(1, now) = Rows

=============================================================================

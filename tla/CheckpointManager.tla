------------------------- MODULE CheckpointManager --------------------------
(***************************************************************************)
(* The CheckpointManager: checkpoints_ by identifier, and for every        *)
(* workflow and every execution a list of identifiers, oldest first.       *)
(* Every method runs under mutex_ and is one step.  An identifier is made  *)
(* of the workflow, the execution and the time, so that two checkpoints of *)
(* one execution made at one time share it.                                *)
(***************************************************************************)
EXTENDS Callers, Sequences

VARIABLES
  checkpoints,           \* checkpoints_, with status "NONE" where there is none
  workflowCheckpoints,   \* workflowCheckpoints_
  executionCheckpoints,  \* executionCheckpoints_
  maxCheckpoints,        \* config_.maxCheckpoints
  expirationMs,          \* config_.checkpointExpirationMs
  collided               \* history: workflows with an identifier that was given twice

own  == <<checkpoints, workflowCheckpoints, executionCheckpoints, maxCheckpoints, expirationMs,
          collided>>
vars == <<calls, now, own>>
lists == <<workflowCheckpoints, executionCheckpoints>>
config == <<maxCheckpoints, expirationMs>>

CheckpointStatus == {"VALID", "EXPIRED", "CORRUPTED", "RESTORED"}

NoCheckpoint == [status |-> "NONE", expiresAt |-> 0, version |-> 0]

Checkpoint == [status : CheckpointStatus, expiresAt : Nat, version : Nat]

\* A checkpoint's identifier: its workflow, its execution and the time it was created.
CheckpointId == Ids \X Ids \X (1 .. MaxTime)

Stored == {id \in CheckpointId : checkpoints[id].status # "NONE"}

\* The elements of a list, and a list without some of them.
Listed(list) == {list[i] : i \in DOMAIN list}

Without(list, gone) == Sublist(list, {i \in DOMAIN list : list[i] \notin gone})

Init ==
  /\ CallersInit
  /\ checkpoints = [id \in CheckpointId |-> NoCheckpoint]
  /\ workflowCheckpoints = [w \in Ids |-> <<>>]
  /\ executionCheckpoints = [e \in Ids |-> <<>>]
  /\ maxCheckpoints \in Limits
  /\ expirationMs \in Limits
  /\ collided = {}

\* Mutant: the workflow's list keeps the identifiers.
EraseHalf(gone) ==
  /\ checkpoints' = [id \in CheckpointId |-> IF id \in gone THEN NoCheckpoint ELSE checkpoints[id]]
  /\ workflowCheckpoints' = workflowCheckpoints
  /\ executionCheckpoints' = [e \in Ids |-> Without(executionCheckpoints[e], gone)]

\* The checkpoints of gone leave the table and both kinds of lists.
Erase(gone) ==
  /\ checkpoints' = [id \in CheckpointId |-> IF id \in gone THEN NoCheckpoint ELSE checkpoints[id]]
  /\ workflowCheckpoints' = [w \in Ids |-> Without(workflowCheckpoints[w], gone)]
  /\ executionCheckpoints' = [e \in Ids |-> Without(executionCheckpoints[e], gone)]

-----------------------------------------------------------------------------
(* Creation.  The list of the workflow is cut to its newest entries; what  *)
(* its dropped entries name is erased, even where a kept one names it too. *)

\* Mutant: the newest entries go.
EvictedNewest(list, limit) == {i \in DOMAIN list : i > limit}

\* enforceMaxCheckpoints(): the positions of the entries that go.
Evicted(list, limit) == {i \in DOMAIN list : i <= Len(list) - limit}

Cut(list, limit) == Sublist(list, DOMAIN list \ Evicted(list, limit))

\* createCheckpoint() and createFullCheckpoint().
CreateCheckpoint(w, e) ==
  LET id    == <<w, e, now>>
      list  == Append(workflowCheckpoints[w], id)
      gone  == {list[i] : i \in Evicted(list, maxCheckpoints)}
      entry == [status |-> "VALID", expiresAt |-> now + expirationMs, version |-> 1]
  IN  /\ Called
      /\ checkpoints' = [other \in CheckpointId |->
           IF other \in gone THEN NoCheckpoint
           ELSE IF other = id THEN entry ELSE checkpoints[other]]
      /\ workflowCheckpoints' = [workflowCheckpoints EXCEPT ![w] = Cut(list, maxCheckpoints)]
      /\ executionCheckpoints' = [x \in Ids |->
           Without(IF x = e THEN Append(executionCheckpoints[x], id) ELSE executionCheckpoints[x],
                   gone)]
      /\ collided' = IF id \in Listed(workflowCheckpoints[w]) THEN collided \cup {w} ELSE collided
      /\ UNCHANGED config

\* exportCheckpoint(): what the text says of a checkpoint, ...
Exported(id) ==
  [workflowName |-> id[1], executionId |-> id[2], createdAt |-> id[3], fields |-> checkpoints[id]]

\* ... and parseCheckpointJson(): the checkpoint that is read from it.
Parsed(text) ==
  [status |-> text.fields.status, expiresAt |-> text.fields.expiresAt,
   version |-> text.fields.version]

\* importCheckpoint(): a new identifier and new times, and no limit.
ImportCheckpoint(text) ==
  LET w  == text.workflowName
      e  == text.executionId
      id == <<w, e, now>>
  IN  /\ Called
      /\ checkpoints' =
           [checkpoints EXCEPT ![id] = [Parsed(text) EXCEPT !.expiresAt = now + expirationMs]]
      /\ workflowCheckpoints' = [workflowCheckpoints EXCEPT ![w] = Append(@, id)]
      /\ executionCheckpoints' = [executionCheckpoints EXCEPT ![e] = Append(@, id)]
      /\ collided' = IF id \in Listed(workflowCheckpoints[w]) THEN collided \cup {w} ELSE collided
      /\ UNCHANGED config

-----------------------------------------------------------------------------
(* Use.                                                                    *)

SetEntry(id, entry) ==
  /\ Called
  /\ checkpoints' = [checkpoints EXCEPT ![id] = entry]
  /\ UNCHANGED <<lists, config, collided>>

Valid(id) == checkpoints[id].status = "VALID"

\* validateCheckpointInternal().
Restorable(id) ==
  Valid(id) /\ (checkpoints[id].expiresAt > 0 => checkpoints[id].expiresAt >= now)

UpdateCheckpoint(id) ==
  Valid(id) /\ SetEntry(id, [checkpoints[id] EXCEPT !.version = @ + 1])

RestoreCheckpoint(id, validate) ==
  /\ id \in Stored
  /\ validate => Restorable(id)
  /\ SetEntry(id, [checkpoints[id] EXCEPT !.status = "RESTORED"])

\* getLatestCheckpointInternal(): the newest valid ones that the workflow's list names,
\* the first of those of one time.
Latest(w) ==
  LET list  == workflowCheckpoints[w]
      valid == {i \in DOMAIN list : Valid(list[i])}
  IN  {list[i] : i \in {i \in valid : \A j \in valid :
         list[j][3] < list[i][3] \/ (list[j][3] = list[i][3] /\ i <= j)}}

GetCheckpointsByWorkflow(w) == Listed(workflowCheckpoints[w]) \cap Stored

GetCheckpointsByExecution(e) == Listed(executionCheckpoints[e]) \cap Stored

RestoreLatestCheckpoint(w, validate) ==
  \E id \in Latest(w) : RestoreCheckpoint(id, validate)

-----------------------------------------------------------------------------
(* Removal and configuration.                                              *)

DeleteCheckpoint(id) ==
  /\ Called /\ id \in Stored
  /\ Erase({id})
  /\ UNCHANGED <<config, collided>>

DeleteCheckpointsByWorkflow(w) ==
  /\ Called
  /\ Erase(Listed(workflowCheckpoints[w]))
  /\ collided' = collided \ {w}
  /\ UNCHANGED config

Expired == {id \in Stored : checkpoints[id].expiresAt > 0 /\ checkpoints[id].expiresAt < now}

CleanupExpiredCheckpoints ==
  /\ Called
  /\ Erase(Expired)
  /\ UNCHANGED <<config, collided>>

SetConfig(limit, expiration) ==
  /\ Called
  /\ maxCheckpoints' = limit /\ expirationMs' = expiration
  /\ UNCHANGED <<checkpoints, lists, collided>>

Tick == Elapse /\ UNCHANGED <<checkpoints, lists, config, collided>>

Next ==
  \/ \E w, e \in Ids : CreateCheckpoint(w, e)
  \/ \E id \in Stored : ImportCheckpoint(Exported(id))
  \/ \E id \in CheckpointId, validate \in BOOLEAN : RestoreCheckpoint(id, validate)
  \/ \E id \in CheckpointId : UpdateCheckpoint(id) \/ DeleteCheckpoint(id)
  \/ \E w \in Ids : \/ DeleteCheckpointsByWorkflow(w)
                    \/ \E validate \in BOOLEAN : RestoreLatestCheckpoint(w, validate)
  \/ CleanupExpiredCheckpoints
  \/ \E limit, expiration \in Limits : SetConfig(limit, expiration)
  \/ Tick

Spec == Init /\ [][Next]_vars

-----------------------------------------------------------------------------
TypeOK ==
  /\ CallersTypeOK
  /\ checkpoints \in [CheckpointId -> Checkpoint \cup {NoCheckpoint}]
  /\ workflowCheckpoints \in [Ids -> Seq(CheckpointId)]
  /\ executionCheckpoints \in [Ids -> Seq(CheckpointId)]
  /\ maxCheckpoints \in Limits /\ expirationMs \in Limits
  /\ collided \subseteq Ids

\* The table and its two indices agree: a stored checkpoint is in the lists of its
\* workflow and of its execution; and, unless an identifier was given twice in this
\* workflow, the lists name nothing else, and in the order of creation.
CheckpointsListed ==
  /\ \A id \in Stored : /\ id \in GetCheckpointsByWorkflow(id[1])
                        /\ id \in GetCheckpointsByExecution(id[2])
  /\ \A e \in Ids : Listed(executionCheckpoints[e]) \subseteq {id \in Stored : id[2] = e}
  /\ \A w \in Ids \ collided :
       LET list == workflowCheckpoints[w]
       IN  /\ Listed(list) \subseteq {id \in Stored : id[1] = w}
           /\ \A i, j \in DOMAIN list : i < j => list[i] # list[j] /\ list[i][3] <= list[j][3]

\* createCheckpoint(w, e) against all that is stored, its own checkpoint included: with a
\* limit it keeps its own, and what goes is of the same workflow, no newer than what stays,
\* and no more than the limit asks for.
KeepsNewest(w, e) ==
  LET id   == <<w, e, now>>
      gone == (Stored \cup {id}) \ Stored'
  IN  /\ maxCheckpoints > 0 => id \notin gone
      /\ \A old \in gone :
           old[1] = w /\ \A kept \in Stored' : kept[1] = w => old[3] <= kept[3]
      /\ gone # {} => Len(workflowCheckpoints'[w]) = maxCheckpoints

\* That holds of every call, unless an identifier was given twice for the workflow.
OldestGo ==
  \A w, e \in Ids : CreateCheckpoint(w, e) /\ w \notin collided' => KeepsNewest(w, e)

=============================================================================

--------------------------- MODULE DeadLetterQueue --------------------------
(***************************************************************************)
(* The DeadLetterQueue: failed work that waits for a retry, a resolution   *)
(* or a person.  items_ maps identifiers to items and pendingQueue_ lists  *)
(* the identifiers retryAll() goes through; every method runs under mutex_ *)
(* and is one step.                                                        *)
(***************************************************************************)
EXTENDS Callers

VARIABLES
  items,         \* items_, with status "NONE" where there is no item
  pendingQueue,  \* how often pendingQueue_ holds each identifier
  maxItems,      \* config_.maxItems
  retentionMs,   \* config_.retentionMs
  stuck,         \* enqueue() is in its loop for ever and holds mutex_
  stale          \* history: identifiers used again, or given up by retry(), since
                 \* pendingQueue_ last let go of them

own  == <<items, pendingQueue, maxItems, retentionMs, stuck, stale>>
vars == <<calls, now, own>>
config == <<maxItems, retentionMs>>

Settled == {"RESOLVED", "DISCARDED"}
DeadLetterStatus == Settled \cup {"PENDING", "RETRYING", "MANUAL_REVIEW"}

NoItem == [status |-> "NONE", createdAt |-> 0, retryCount |-> 0, maxRetries |-> 0]

Present == {id \in Ids : items[id].status # "NONE"}

Init ==
  /\ CallersInit
  /\ items = [id \in Ids |-> NoItem]
  /\ pendingQueue = [id \in Ids |-> 0]
  /\ maxItems \in Limits
  /\ retentionMs \in Limits
  /\ stuck = FALSE
  /\ stale = {}

\* A method takes mutex_, which a stuck enqueue() never gives back.
Locks == Called /\ ~stuck

\* The table without the items of gone, nor their entries in pendingQueue_.
Drop(table, gone) == [id \in Ids |-> IF id \in gone THEN NoItem ELSE table[id]]

\* Mutant: the entries stay in pendingQueue_.
UnlistNothing(queue, gone) == queue

\* Mutant: erase() of one entry, whether find() found it or not.
UnlistOne(queue, gone) == [id \in Ids |-> IF id \in gone THEN queue[id] - 1 ELSE queue[id]]

Unlist(queue, gone) == [id \in Ids |-> IF id \in gone THEN 0 ELSE queue[id]]

-----------------------------------------------------------------------------
(* Capacity: removeOldestItem() until the table fits.                      *)

\* Mutant: the oldest items are removed whatever their status.
RemovedAny(table) ==
  {gone \in SUBSET {id \in Ids : table[id].status # "NONE"} :
     \A id \in gone, kept \in Ids \ gone :
       table[kept].status = "NONE" \/ table[id].createdAt < table[kept].createdAt}

\* What the loop may remove from table: the oldest settled items, in any order of those
\* that are equally old, until few enough are left or none of them is.
Removed(table) ==
  LET present == {id \in Ids : table[id].status # "NONE"}
      settled == {id \in Ids : table[id].status \in Settled}
  IN  {gone \in SUBSET settled :
         /\ \A id \in gone, kept \in settled \ gone : table[id].createdAt <= table[kept].createdAt
         /\ Cardinality(present) - Cardinality(gone) >= maxItems \/ gone = {}
         /\ Cardinality(present) - Cardinality(gone) <= maxItems \/ gone = settled}

\* How often an item may have been tried before it comes here: the caller says so.
Tried == {0} \cup Limits

\* item is stored under id, with the attempts it comes with; once the table has too many
\* items and nothing that may go, the loop does not end.
Enqueue(id, retries, tried) ==
  LET table == [items EXCEPT ![id] = [status |-> "PENDING", createdAt |-> now,
                                      retryCount |-> tried, maxRetries |-> retries]]
      queue == [pendingQueue EXCEPT ![id] = @ + 1]
  IN  /\ Locks
      /\ \E gone \in Removed(table) :
           /\ items' = Drop(table, gone)
           /\ pendingQueue' = Unlist(queue, gone)
           /\ stuck' = (Cardinality(Present \cup {id}) - Cardinality(gone) > maxItems)
           /\ stale' = IF pendingQueue[id] > 0 THEN (stale \cup {id}) \ gone ELSE stale \ gone
      /\ UNCHANGED config

\* enqueue() of an item without identifier, or enqueueFromError() of one never tried: a
\* fresh identifier is made up.
EnqueueFresh(id, retries, tried) ==
  items[id] = NoItem /\ pendingQueue[id] = 0 /\ Enqueue(id, retries, tried)

-----------------------------------------------------------------------------
(* Retries.                                                                *)

Retryable(id) == items[id].status \in {"PENDING", "RETRYING"}

Retry(id) ==
  /\ Locks
  /\ Retryable(id)
  /\ IF items[id].retryCount >= items[id].maxRetries
     THEN items' = [items EXCEPT ![id].status = "DISCARDED"] /\ stale' = stale \cup {id}
     ELSE items' = [items EXCEPT ![id].status = "RETRYING", ![id].retryCount = @ + 1]
          /\ UNCHANGED stale
  /\ UNCHANGED <<pendingQueue, stuck, config>>

\* Mutant: the limit is not looked at for each entry.
RetryAllUnbounded ==
  /\ Locks
  /\ items' = [id \in Ids |->
       IF Retryable(id) /\ pendingQueue[id] > 0
       THEN [items[id] EXCEPT !.status = "RETRYING", !.retryCount = @ + pendingQueue[id]]
       ELSE items[id]]
  /\ UNCHANGED <<pendingQueue, stuck, stale, config>>

\* One retry for each entry of pendingQueue_, as far as the limit allows.
RetryAll ==
  LET Attempts(id) == LET left == items[id].maxRetries - items[id].retryCount
                      IN  IF pendingQueue[id] < left THEN pendingQueue[id] ELSE left
  IN  /\ Locks
      /\ items' = [id \in Ids |->
           IF Retryable(id) /\ Attempts(id) > 0
           THEN [items[id] EXCEPT !.status = "RETRYING", !.retryCount = @ + Attempts(id)]
           ELSE items[id]]
      /\ UNCHANGED <<pendingQueue, stuck, stale, config>>

-----------------------------------------------------------------------------
(* Resolution.                                                             *)

\* resolve() and discard(): from any status, and off the queue.
Settle(id, status) ==
  /\ Locks
  /\ id \in Present
  /\ items' = [items EXCEPT ![id].status = status]
  /\ pendingQueue' = Unlist(pendingQueue, {id})
  /\ stale' = stale \ {id}
  /\ UNCHANGED <<stuck, config>>

MarkForManualReview(id) ==
  /\ Locks
  /\ id \in Present
  /\ items' = [items EXCEPT ![id].status = "MANUAL_REVIEW"]
  /\ UNCHANGED <<pendingQueue, stuck, stale, config>>

\* pendingQueue_ is not touched.
ClearResolved ==
  /\ Locks
  /\ items' = Drop(items, {id \in Ids : items[id].status \in Settled})
  /\ UNCHANGED <<pendingQueue, stuck, stale, config>>

Expired == {id \in Present : now - items[id].createdAt > retentionMs}

ClearExpired ==
  /\ Locks
  /\ items' = Drop(items, Expired)
  /\ pendingQueue' = Unlist(pendingQueue, Expired)
  /\ stale' = stale \ Expired
  /\ UNCHANGED <<stuck, config>>

ClearAll ==
  /\ Locks
  /\ items' = Drop(items, Ids)
  /\ pendingQueue' = Unlist(pendingQueue, Ids)
  /\ stale' = {}
  /\ UNCHANGED <<stuck, config>>

SetConfig(limit, retention) ==
  /\ Locks
  /\ maxItems' = limit /\ retentionMs' = retention
  /\ UNCHANGED <<items, pendingQueue, stuck, stale>>

Tick == Elapse /\ UNCHANGED <<items, pendingQueue, stuck, stale, config>>

Next ==
  \/ \E id \in Ids, retries \in Limits, tried \in Tried :
       Enqueue(id, retries, tried) \/ EnqueueFresh(id, retries, tried)
  \/ \E id \in Ids : Retry(id) \/ MarkForManualReview(id)
  \/ \E id \in Ids, status \in Settled : Settle(id, status)
  \/ RetryAll \/ ClearResolved \/ ClearExpired \/ ClearAll
  \/ \E limit, retention \in Limits : SetConfig(limit, retention)
  \/ Tick

Spec == Init /\ [][Next]_vars

-----------------------------------------------------------------------------
DeadLetterItem ==
  [status : DeadLetterStatus, createdAt : 1 .. MaxTime, retryCount : Nat, maxRetries : Limits]

TypeOK ==
  /\ CallersTypeOK
  /\ items \in [Ids -> DeadLetterItem \cup {NoItem}]
  /\ pendingQueue \in [Ids -> Nat]
  /\ maxItems \in Limits /\ retentionMs \in Limits
  /\ stuck \in BOOLEAN
  /\ stale \subseteq Ids

\* Every item that waits for a retry is reached by retryAll(), and exactly once per pass
\* unless its identifier was used again; what was resolved, discarded or cleared is not
\* queued, unless retry() gave it up; and no item is retried beyond its limit, however
\* often it had been tried before.
PendingListed ==
  /\ \A id \in Ids : Retryable(id) => pendingQueue[id] >= 1
  /\ \A id \in Ids \ stale : items[id].status \in Settled \cup {"NONE"} => pendingQueue[id] = 0
  /\ \A id \in Ids \ stale : pendingQueue[id] <= 1
  /\ \A id \in Ids : items[id].status = "RETRYING" => items[id].retryCount <= items[id].maxRetries

\* enqueue() hangs only when no more than its limit of items could be kept because not
\* one of them was settled.
StuckMeansUnsettled ==
  stuck => /\ Cardinality(Present) > maxItems
           /\ \A id \in Present : items[id].status \notin Settled

\* An item that nobody resolved or discarded is lost only by clearing everything, or by
\* clearing what is past its retention: the capacity limit never drops it.
UnresolvedKept ==
  [][\A id \in Present : items'[id].status = "NONE" =>
       \/ items[id].status \in Settled
       \/ id \in Expired
       \/ \A other \in Ids : items'[other].status = "NONE"]_vars

=============================================================================

----------------------------- MODULE StoreProofs -----------------------------
(***************************************************************************)
(* Proofs about the services of MCServices that keep records: the dead     *)
(* letter queue, the checkpoints, the alerts, the database and the records *)
(* of executions.  Every section proves what Init establishes and what the *)
(* steps of the component preserve, for any sets of identifiers, limits    *)
(* and bounds; ServiceProofs puts them together.                           *)
(***************************************************************************)
EXTENDS MCServices, FiniteSetTheorems, SequenceTheorems, WellFoundedInduction, TLAPS

-----------------------------------------------------------------------------
(* Numbers, parts of lists, and functions defined step by step.            *)

\* Numbers have a least one: what induction comes down to here.
LEMMA LeastNumber ==
  ASSUME NEW numbers \in SUBSET Nat, numbers # {}
  PROVE  \E least \in numbers : \A number \in numbers : least <= number
  <1> DEFINE less == OpToRel(<, Nat)
  <1>1. PICK least \in numbers : \A number \in numbers : ~(<<number, least>> \in less)
    BY NatLessThanWellFounded, WFMin
  <1>2. \A number \in numbers : ~(number < least)
    BY <1>1 DEF OpToRel
  <1> QED BY <1>2

\* Induction up to n, about a set of numbers.
LEMMA Upwards ==
  ASSUME NEW n \in Nat, NEW good, 0 \in good, \A i \in 1 .. n : i - 1 \in good => i \in good
  PROVE  \A i \in 0 .. n : i \in good
  <1> DEFINE bad == {i \in 0 .. n : i \notin good}
  <1> SUFFICES ASSUME bad # {} PROVE FALSE
    OBVIOUS
  <1>1. PICK least \in bad : \A number \in bad : least <= number
    <2>1. bad \in SUBSET Nat OBVIOUS
    <2> HIDE DEF bad
    <2> QED BY <2>1, LeastNumber
  <1>2. least \in 1 .. n BY <1>1
  <1>3. least - 1 \in 0 .. n /\ ~(least <= least - 1) BY <1>2
  <1>4. least - 1 \in good BY <1>1, <1>3
  <1> QED BY <1>1, <1>2, <1>4

\* Ranks number the kept positions in their order.
LEMMA RanksAreOrder ==
  ASSUME NEW n \in Nat, NEW kept \in SUBSET (1 .. n)
  PROVE  LET Rank(i) == Cardinality({j \in kept : j <= i})
         IN  /\ IsFiniteSet(kept) /\ Cardinality(kept) \in Nat
             /\ \A i \in kept : Rank(i) \in 1 .. Cardinality(kept)
             /\ \A i, j \in kept : i < j => Rank(i) < Rank(j)
  <1> DEFINE Upto(i) == {j \in kept : j <= i}
  <1>1. IsFiniteSet(kept)
    <2>1. IsFiniteSet(1 .. n) BY FS_Interval
    <2> QED BY <2>1, FS_Subset
  <1>2. \A i \in kept : /\ IsFiniteSet(Upto(i)) /\ Cardinality(Upto(i)) \in Nat
                        /\ Cardinality(Upto(i)) <= Cardinality(kept)
    <2> SUFFICES ASSUME NEW i \in kept
                 PROVE  /\ IsFiniteSet(Upto(i)) /\ Cardinality(Upto(i)) \in Nat
                        /\ Cardinality(Upto(i)) <= Cardinality(kept)
      OBVIOUS
    <2>1. Upto(i) \in SUBSET kept OBVIOUS
    <2> HIDE DEF Upto
    <2> QED BY <1>1, <2>1, FS_Subset, FS_CardinalityType
  <1>3. \A i \in kept : Cardinality(Upto(i)) # 0
    <2> SUFFICES ASSUME NEW i \in kept PROVE Cardinality(Upto(i)) # 0
      OBVIOUS
    <2>1. i \in Upto(i) OBVIOUS
    <2> HIDE DEF Upto
    <2> QED BY <1>2, <2>1, FS_EmptySet
  <1>4. \A i, j \in kept : i < j => Cardinality(Upto(i)) < Cardinality(Upto(j))
    <2> SUFFICES ASSUME NEW i \in kept, NEW j \in kept, i < j
                 PROVE  Cardinality(Upto(i)) < Cardinality(Upto(j))
      OBVIOUS
    <2>0. i \in Nat /\ j \in Nat /\ kept \subseteq Nat OBVIOUS
    <2>1. \A x \in Upto(i) : x \in Upto(j)
      <3> TAKE x \in Upto(i)
      <3>1. x \in kept /\ x <= i /\ x \in Nat BY <2>0
      <3>2. x <= j BY <2>0, <3>1
      <3> QED BY <3>1, <3>2
    <2>2. j \in Upto(j) /\ j \notin Upto(i) OBVIOUS
    <2> HIDE DEF Upto
    <2>3. /\ Cardinality(Upto(i)) <= Cardinality(Upto(j))
          /\ Cardinality(Upto(i)) = Cardinality(Upto(j)) => Upto(i) = Upto(j)
      BY <1>2, <2>1, FS_Subset
    <2> QED BY <1>2, <2>2, <2>3
  <1>5. Cardinality(kept) \in Nat BY <1>1, FS_CardinalityType
  <1>6. \A i \in kept : Cardinality(Upto(i)) \in 1 .. Cardinality(kept)
    <2> HIDE DEF Upto
    <2> QED BY <1>2, <1>3, <1>5
  <1> QED BY <1>1, <1>4, <1>5, <1>6

\* The functions that number the elements of a set of positions, in their order.
Placing(kept) ==
  {place \in [1 .. Cardinality(kept) -> kept] :
     /\ \A i \in kept : \E k \in 1 .. Cardinality(kept) : place[k] = i
     /\ \A k, l \in 1 .. Cardinality(kept) : k < l => place[k] < place[l]}

\* What a sublist is: the elements at the kept positions, each once and in order.
LEMMA SublistPicks ==
  ASSUME NEW list, NEW n \in Nat, NEW kept \in SUBSET (1 .. n)
  PROVE  /\ Cardinality(kept) \in Nat
         /\ \E place \in Placing(kept) :
              Sublist(list, kept) = [k \in 1 .. Cardinality(kept) |-> list[place[k]]]
  <1> DEFINE Rank(i) == Cardinality({j \in kept : j <= i})
             size == Cardinality(kept)
             rank == [i \in kept |-> Rank(i)]
             place == [k \in 1 .. size |-> CHOOSE i \in kept : Rank(i) = k]
  <1>1. /\ IsFiniteSet(kept) /\ size \in Nat
        /\ \A i \in kept : Rank(i) \in 1 .. size
        /\ \A i, j \in kept : i < j => Rank(i) < Rank(j)
    BY RanksAreOrder
  <1>2. Sublist(list, kept) = [k \in 1 .. size |-> list[place[k]]]
    BY DEF Sublist
  <1> HIDE DEF Rank, size
  <1>3. \A i, j \in kept : Rank(i) = Rank(j) => i = j
    <2>1. \A i \in kept : Rank(i) \in Nat /\ i \in Nat BY <1>1
    <2>2. \A i, j \in kept : i # j => i < j \/ j < i BY <2>1
    <2> QED BY <1>1, <2>1, <2>2
  <1>4. rank \in Injection(kept, 1 .. size)
    BY <1>1, <1>3 DEF Injection, IsInjective
  <1>5. rank \in Surjection(kept, 1 .. size)
    <2>1. IsFiniteSet(1 .. size) /\ Cardinality(1 .. size) = size
      BY <1>1, FS_Interval
    <2> HIDE DEF rank
    <2> QED BY <1>4, <2>1, FS_Injection DEF size
  <1>6. \A k \in 1 .. size : \E i \in kept : Rank(i) = k
    BY <1>5 DEF Surjection
  <1>7. \A k \in 1 .. size : place[k] \in kept /\ Rank(place[k]) = k
    BY <1>6
  <1>8. place \in [1 .. size -> kept] BY <1>7
  <1> HIDE DEF place, rank
  <1>9. \A i \in kept : \E k \in 1 .. size : place[k] = i
    BY <1>1, <1>3, <1>7
  <1>10. \A k, l \in 1 .. size : k < l => place[k] < place[l]
    <2> SUFFICES ASSUME NEW k \in 1 .. size, NEW l \in 1 .. size, k < l
                 PROVE  place[k] < place[l]
      OBVIOUS
    <2>1. place[k] \in kept /\ place[l] \in kept /\ kept \subseteq Nat BY <1>7
    <2>2. place[k] # place[l] BY <1>7
    <2>3. place[l] < place[k] => Rank(place[l]) < Rank(place[k]) BY <1>1, <2>1
    <2>4. Rank(place[k]) = k /\ Rank(place[l]) = l BY <1>7
    <2>5. k \in Nat /\ l \in Nat BY <1>1
    <2>6. place[k] \in Nat /\ place[l] \in Nat BY <2>1
    <2> QED BY <2>2, <2>3, <2>4, <2>5, <2>6
  <1>11. place \in Placing(kept) BY <1>8, <1>9, <1>10 DEF Placing, size
  <1> QED BY <1>1, <1>2, <1>11 DEF size

\* The functions on 0 .. n that begin with start and go on by next; there is one.
Walks(S, n, start, next) ==
  {f \in [0 .. n -> S] : f[0] = start /\ \A i \in 1 .. n : f[i] = next[<<i, f[i - 1]>>]}

LEMMA StepByStep ==
  ASSUME NEW S, NEW n \in Nat, NEW start \in S, NEW next \in [(1 .. n) \X S -> S]
  PROVE  Walks(S, n, start, next) # {}
  <1> DEFINE Reaches(m) == \E f \in [0 .. m -> S] :
                             f[0] = start /\ \A i \in 1 .. m : f[i] = next[<<i, f[i - 1]>>]
             missing == {m \in 0 .. n : ~Reaches(m)}
  <1> SUFFICES Reaches(n)
    BY DEF Walks
  <1> SUFFICES ASSUME ~Reaches(n) PROVE FALSE
    OBVIOUS
  <1>1. missing # {} /\ missing \in SUBSET Nat
    <2>1. n \in 0 .. n OBVIOUS
    <2> HIDE DEF Reaches
    <2> QED BY <2>1
  <1>2. PICK m \in missing : \A other \in missing : m <= other
    <2> HIDE DEF missing
    <2> QED BY <1>1, LeastNumber
  <1>3. m # 0
    <2> DEFINE f == [i \in 0 .. 0 |-> start]
    <2>1. f \in [0 .. 0 -> S] /\ f[0] = start OBVIOUS
    <2> HIDE DEF f
    <2>2. Reaches(0) BY <2>1
    <2> QED BY <1>2, <2>2
  <1>4. Reaches(m - 1)
    <2>1. m - 1 \in 0 .. n /\ ~(m <= m - 1) BY <1>2, <1>3
    <2> HIDE DEF Reaches
    <2> QED BY <1>2, <2>1
  <1>5. PICK f \in [0 .. m - 1 -> S] :
          f[0] = start /\ \A i \in 1 .. m - 1 : f[i] = next[<<i, f[i - 1]>>]
    BY <1>4
  <1> DEFINE g == [i \in 0 .. m |-> IF i = m THEN next[<<m, f[m - 1]>>] ELSE f[i]]
  <1>6. f[m - 1] \in S /\ next[<<m, f[m - 1]>>] \in S BY <1>3, <1>5
  <1>7. g \in [0 .. m -> S] BY <1>5, <1>6
  <1>8. g[0] = start BY <1>3, <1>5
  <1>9. ASSUME NEW i \in 1 .. m PROVE g[i] = next[<<i, g[i - 1]>>]
    <2>1. g[i - 1] = f[i - 1] BY <1>9
    <2>2. CASE i = m
      <3>1. g[i] = next[<<m, f[m - 1]>>] BY <1>9, <2>2
      <3> QED BY <2>1, <2>2, <3>1
    <2>3. CASE i # m
      <3>1. g[i] = f[i] /\ i \in 1 .. m - 1 BY <2>3
      <3> QED BY <1>5, <2>1, <3>1
    <2> QED BY <2>2, <2>3
  <1>10. Reaches(m) BY <1>7, <1>8, <1>9
  <1> QED BY <1>10

-----------------------------------------------------------------------------
(* The dead letter queue: its types, the agreement of the table with the   *)
(* queue of retries, when enqueue() hangs, and what it drops.              *)

\* The cardinalities in the component are those of FiniteSets.
LEMMA LettersCount == \A S : Letters!Cardinality(S) = Cardinality(S)
  BY DEF Letters!Cardinality, Cardinality

LettersItem == Letters!DeadLetterItem \cup {Letters!NoItem}

\* What a step may leave in the variables of the queue.
LettersTyped ==
  /\ items' \in [Ids -> LettersItem]
  /\ pendingQueue' \in [Ids -> Nat]
  /\ stuck' \in BOOLEAN
  /\ stale' \subseteq Ids

LEMMA LettersDropType ==
  ASSUME NEW table \in [Ids -> LettersItem], NEW gone
  PROVE  Letters!Drop(table, gone) \in [Ids -> LettersItem]
  BY DEF Letters!Drop, LettersItem

LEMMA LettersUnlistType ==
  ASSUME NEW queue \in [Ids -> Nat], NEW gone
  PROVE  Letters!Unlist(queue, gone) \in [Ids -> Nat]
  BY DEF Letters!Unlist

LEMMA LettersCalledType == Letters!TypeOK /\ Letters!Called => Letters!CallersTypeOK'
  BY CallersAssumption DEF Letters!TypeOK, Letters!Called, Letters!CallersTypeOK

\* The table after a new item was stored, as Enqueue has it.
LettersNewItem(retries, tried) ==
  [status |-> "PENDING", createdAt |-> now, retryCount |-> tried, maxRetries |-> retries]

LEMMA LettersTried == Letters!Tried \subseteq Nat
  BY CallersAssumption DEF Letters!Tried

LEMMA LettersStoreType ==
  ASSUME Letters!TypeOK, NEW id \in Ids, NEW retries \in Limits, NEW tried \in Letters!Tried
  PROVE  [items EXCEPT ![id] = LettersNewItem(retries, tried)] \in [Ids -> LettersItem]
  <1>1. now \in 1 .. MaxTime BY DEF Letters!TypeOK, Letters!CallersTypeOK
  <1>2. LettersNewItem(retries, tried) \in Letters!DeadLetterItem
    BY <1>1, LettersTried
       DEF LettersNewItem, Letters!DeadLetterItem, Letters!DeadLetterStatus, Letters!Settled
  <1>3. items \in [Ids -> LettersItem] BY DEF Letters!TypeOK, LettersItem
  <1> QED BY <1>2, <1>3 DEF LettersItem

\* An item with another status of a stored item, or with one more attempt.
LEMMA LettersStatusType ==
  ASSUME Letters!TypeOK, NEW id \in Letters!Present, NEW status \in Letters!DeadLetterStatus
  PROVE  [items EXCEPT ![id].status = status] \in [Ids -> LettersItem]
  <1>1. items \in [Ids -> LettersItem] /\ id \in Ids /\ items[id] # Letters!NoItem
    BY DEF Letters!TypeOK, LettersItem, Letters!Present, Letters!NoItem
  <1>2. items[id] \in Letters!DeadLetterItem BY <1>1 DEF LettersItem
  <1>3. [items[id] EXCEPT !.status = status] \in Letters!DeadLetterItem
    BY <1>2 DEF Letters!DeadLetterItem
  <1> QED BY <1>1, <1>3 DEF LettersItem

LEMMA LettersAttemptType ==
  ASSUME NEW item \in Letters!DeadLetterItem, NEW more \in Nat
  PROVE  [item EXCEPT !.status = "RETRYING", !.retryCount = @ + more] \in Letters!DeadLetterItem
  <1>1. "RETRYING" \in Letters!DeadLetterStatus BY DEF Letters!DeadLetterStatus
  <1>2. item.retryCount + more \in Nat BY DEF Letters!DeadLetterItem
  <1>3. [item EXCEPT !.status = "RETRYING"] \in Letters!DeadLetterItem
    BY <1>1 DEF Letters!DeadLetterItem
  <1> QED BY <1>2, <1>3 DEF Letters!DeadLetterItem

LEMMA LettersRetryableItem ==
  ASSUME Letters!TypeOK, NEW id \in Ids, Letters!Retryable(id)
  PROVE  items[id] \in Letters!DeadLetterItem
  BY DEF Letters!TypeOK, Letters!Retryable, Letters!NoItem

\* How many attempts retryAll() makes for one identifier.
LettersAttempts(id) ==
  LET left == items[id].maxRetries - items[id].retryCount
  IN  IF pendingQueue[id] < left THEN pendingQueue[id] ELSE left

LEMMA LettersAttemptsBounded ==
  ASSUME Letters!TypeOK, NEW id \in Ids, Letters!Retryable(id), LettersAttempts(id) > 0
  PROVE  /\ LettersAttempts(id) \in Nat
         /\ items[id].retryCount + LettersAttempts(id) <= items[id].maxRetries
  <1>1. items[id] \in Letters!DeadLetterItem BY LettersRetryableItem
  <1>2. items[id].retryCount \in Nat /\ items[id].maxRetries \in Nat /\ pendingQueue[id] \in Nat
    BY <1>1, CallersAssumption DEF Letters!DeadLetterItem, Letters!TypeOK
  <1> QED BY <1>2 DEF LettersAttempts

-----------------------------------------------------------------------------
(* Types.                                                                  *)

LEMMA LettersTypeInit == Letters!Init => Letters!TypeOK
  <1> SUFFICES ASSUME Letters!Init PROVE Letters!TypeOK
    OBVIOUS
  <1>1. Letters!CallersTypeOK
    BY CallersAssumption DEF Letters!Init, Letters!CallersInit, Letters!CallersTypeOK
  <1>2. items \in [Ids -> Letters!DeadLetterItem \cup {Letters!NoItem}] BY DEF Letters!Init
  <1>3. pendingQueue \in [Ids -> Nat] BY DEF Letters!Init
  <1> QED BY <1>1, <1>2, <1>3 DEF Letters!Init, Letters!TypeOK

LEMMA LettersTypeStep == Letters!TypeOK /\ [Letters!Next]_(Letters!vars) => Letters!TypeOK'
  <1> SUFFICES ASSUME Letters!TypeOK, [Letters!Next]_(Letters!vars) PROVE Letters!TypeOK'
    OBVIOUS
  <1>0. items \in [Ids -> LettersItem] /\ pendingQueue \in [Ids -> Nat]
    BY DEF Letters!TypeOK, LettersItem
  <1>1. ASSUME Letters!Called, LettersTyped, UNCHANGED Letters!config PROVE Letters!TypeOK'
    BY <1>1, LettersCalledType DEF LettersTyped, Letters!TypeOK, Letters!config, LettersItem
  <1>2. ASSUME NEW id \in Ids, NEW retries \in Limits, NEW tried \in Letters!Tried,
               Letters!Enqueue(id, retries, tried)
        PROVE  Letters!TypeOK'
    <2>1. PICK gone :
            /\ items' = Letters!Drop([items EXCEPT ![id] = LettersNewItem(retries, tried)], gone)
            /\ pendingQueue' = Letters!Unlist([pendingQueue EXCEPT ![id] = @ + 1], gone)
            /\ stuck' \in BOOLEAN
            /\ stale' \in {(stale \cup {id}) \ gone, stale \ gone}
      BY <1>2 DEF Letters!Enqueue, LettersNewItem
    <2>2. items' \in [Ids -> LettersItem] BY <2>1, LettersStoreType, LettersDropType
    <2>3. [pendingQueue EXCEPT ![id] = @ + 1] \in [Ids -> Nat] BY <1>0
    <2>4. pendingQueue' \in [Ids -> Nat] BY <2>1, <2>3, LettersUnlistType
    <2>5. stale' \subseteq Ids BY <2>1 DEF Letters!TypeOK
    <2> QED BY <1>1, <1>2, <2>1, <2>2, <2>4, <2>5
       DEF Letters!Enqueue, Letters!Locks, LettersTyped
  <1>3. ASSUME NEW id \in Ids, Letters!Retry(id) PROVE Letters!TypeOK'
    <2>1. id \in Letters!Present /\ items[id] \in Letters!DeadLetterItem
      BY <1>3, LettersRetryableItem DEF Letters!Retry, Letters!Retryable, Letters!Present
    <2>2. CASE items[id].retryCount >= items[id].maxRetries
      <3>0. items' = [items EXCEPT ![id].status = "DISCARDED"] BY <1>3, <2>2 DEF Letters!Retry
      <3>1. "DISCARDED" \in Letters!DeadLetterStatus
        BY DEF Letters!DeadLetterStatus, Letters!Settled
      <3>2. items' \in [Ids -> LettersItem] BY <2>1, <3>0, <3>1, LettersStatusType
      <3> QED BY <1>0, <1>1, <1>3, <2>2, <3>2
         DEF Letters!Retry, Letters!Locks, LettersTyped, Letters!TypeOK
    <2>3. CASE ~(items[id].retryCount >= items[id].maxRetries)
      <3>1. [items[id] EXCEPT !.status = "RETRYING", !.retryCount = @ + 1]
              \in Letters!DeadLetterItem
        BY <2>1, LettersAttemptType
      <3>2. items' = [items EXCEPT ![id] =
                       [items[id] EXCEPT !.status = "RETRYING", !.retryCount = @ + 1]]
        BY <1>0, <1>3, <2>1, <2>3 DEF Letters!Retry, Letters!DeadLetterItem
      <3>3. items' \in [Ids -> LettersItem] BY <1>0, <3>1, <3>2 DEF LettersItem
      <3> QED BY <1>0, <1>1, <1>3, <2>3, <3>3
         DEF Letters!Retry, Letters!Locks, LettersTyped, Letters!TypeOK
    <2> QED BY <2>2, <2>3
  <1>4. ASSUME NEW id \in Ids, Letters!MarkForManualReview(id) PROVE Letters!TypeOK'
    <2>1. items' \in [Ids -> LettersItem]
      BY <1>4, LettersStatusType DEF Letters!MarkForManualReview, Letters!DeadLetterStatus
    <2> QED BY <1>0, <1>1, <1>4, <2>1
       DEF Letters!MarkForManualReview, Letters!Locks, LettersTyped, Letters!TypeOK
  <1>5. ASSUME NEW id \in Ids, NEW status \in Letters!Settled, Letters!Settle(id, status)
        PROVE  Letters!TypeOK'
    <2>1. items' \in [Ids -> LettersItem]
      BY <1>5, LettersStatusType DEF Letters!Settle, Letters!DeadLetterStatus
    <2>2. pendingQueue' \in [Ids -> Nat] BY <1>0, <1>5, LettersUnlistType DEF Letters!Settle
    <2> QED BY <1>1, <1>5, <2>1, <2>2
       DEF Letters!Settle, Letters!Locks, LettersTyped, Letters!TypeOK
  <1>6. CASE Letters!RetryAll
    <2>1. items' = [id \in Ids |->
            IF Letters!Retryable(id) /\ LettersAttempts(id) > 0
            THEN [items[id] EXCEPT !.status = "RETRYING",
                                   !.retryCount = @ + LettersAttempts(id)]
            ELSE items[id]]
      BY <1>6 DEF Letters!RetryAll, LettersAttempts
    <2>2. ASSUME NEW id \in Ids PROVE items'[id] \in LettersItem
      <3>1. CASE Letters!Retryable(id) /\ LettersAttempts(id) > 0
        BY <2>1, <3>1, LettersRetryableItem, LettersAttemptsBounded, LettersAttemptType
           DEF LettersItem
      <3>2. CASE ~(Letters!Retryable(id) /\ LettersAttempts(id) > 0)
        BY <1>0, <2>1, <3>2
      <3> QED BY <3>1, <3>2
    <2>3. items' \in [Ids -> LettersItem] BY <2>1, <2>2
    <2> QED BY <1>0, <1>1, <1>6, <2>3
       DEF Letters!RetryAll, Letters!Locks, LettersTyped, Letters!TypeOK
  <1>7. ASSUME NEW gone, Letters!Called, items' = Letters!Drop(items, gone),
               UNCHANGED <<stuck, Letters!config>>,
               pendingQueue' \in {pendingQueue, Letters!Unlist(pendingQueue, gone)},
               stale' \subseteq Ids
        PROVE  Letters!TypeOK'
    <2>1. items' \in [Ids -> LettersItem] BY <1>0, <1>7, LettersDropType
    <2>2. pendingQueue' \in [Ids -> Nat] BY <1>0, <1>7, LettersUnlistType
    <2> QED BY <1>1, <1>7, <2>1, <2>2 DEF LettersTyped, Letters!TypeOK
  <1>8. CASE Letters!ClearResolved
    BY <1>7, <1>8 DEF Letters!ClearResolved, Letters!Locks, Letters!TypeOK
  <1>9. CASE Letters!ClearExpired
    BY <1>7, <1>9 DEF Letters!ClearExpired, Letters!Locks, Letters!TypeOK
  <1>10. CASE Letters!ClearAll BY <1>7, <1>10 DEF Letters!ClearAll, Letters!Locks
  <1>11. ASSUME NEW limit \in Limits, NEW retention \in Limits,
                Letters!SetConfig(limit, retention)
         PROVE  Letters!TypeOK'
    BY <1>11, LettersCalledType DEF Letters!SetConfig, Letters!Locks, Letters!TypeOK
  <1>12. CASE Letters!Tick
    BY <1>12, CallersAssumption
       DEF Letters!Tick, Letters!Elapse, Letters!TypeOK, Letters!CallersTypeOK, Letters!config
  <1>13. CASE UNCHANGED Letters!vars
    BY <1>13 DEF Letters!vars, Letters!own, Letters!TypeOK, Letters!CallersTypeOK
  <1> QED BY <1>2, <1>3, <1>4, <1>5, <1>6, <1>8, <1>9, <1>10, <1>11, <1>12, <1>13
          DEF Letters!Next, Letters!EnqueueFresh

-----------------------------------------------------------------------------
(* The table and the queue.                                                *)

\* PendingListed, of one identifier.
LettersAgree(id) ==
  /\ Letters!Retryable(id) => pendingQueue[id] >= 1
  /\ id \notin stale /\ items[id].status \in Letters!Settled \cup {"NONE"}
    => pendingQueue[id] = 0
  /\ id \notin stale => pendingQueue[id] <= 1
  /\ items[id].status = "RETRYING" => items[id].retryCount <= items[id].maxRetries

LEMMA LettersAgreeEach == Letters!PendingListed <=> \A id \in Ids : LettersAgree(id)
  BY DEF Letters!PendingListed, LettersAgree

\* An identifier that a step drops and unlists, and one that it leaves alone.
LEMMA LettersAgreeGone ==
  ASSUME NEW id \in Ids, items'[id] = Letters!NoItem, pendingQueue'[id] = 0
  PROVE  LettersAgree(id)'
  BY DEF LettersAgree, Letters!Retryable, Letters!NoItem

LEMMA LettersAgreeSame ==
  ASSUME NEW id \in Ids, LettersAgree(id), items'[id] = items[id],
         pendingQueue'[id] = pendingQueue[id], id \in stale => id \in stale'
  PROVE  LettersAgree(id)'
  BY DEF LettersAgree, Letters!Retryable

LEMMA LettersAgreeStep ==
  Letters!TypeOK /\ Letters!PendingListed /\ [Letters!Next]_(Letters!vars)
    => Letters!PendingListed'
  <1> SUFFICES ASSUME Letters!TypeOK, Letters!PendingListed, [Letters!Next]_(Letters!vars),
                      NEW other \in Ids
               PROVE  LettersAgree(other)'
    BY DEF Letters!PendingListed, LettersAgree, Letters!Retryable
  <1>0. /\ items \in [Ids -> LettersItem] /\ pendingQueue \in [Ids -> Nat]
        /\ LettersAgree(other)
    BY LettersAgreeEach DEF Letters!TypeOK, LettersItem
  <1>1. ASSUME NEW id \in Ids, NEW retries \in Limits, NEW tried \in Letters!Tried,
               Letters!Enqueue(id, retries, tried)
        PROVE  LettersAgree(other)'
    <2>1. PICK gone :
            /\ items' = Letters!Drop([items EXCEPT ![id] = LettersNewItem(retries, tried)], gone)
            /\ pendingQueue' = Letters!Unlist([pendingQueue EXCEPT ![id] = @ + 1], gone)
            /\ stale' = IF pendingQueue[id] > 0 THEN (stale \cup {id}) \ gone ELSE stale \ gone
      BY <1>1 DEF Letters!Enqueue, LettersNewItem
    <2>2. CASE other \in gone
      <3>1. items'[other] = Letters!NoItem BY <2>1, <2>2 DEF Letters!Drop
      <3>2. pendingQueue'[other] = 0 BY <2>1, <2>2 DEF Letters!Unlist
      <3> QED BY <3>1, <3>2, LettersAgreeGone
    <2>3. CASE other \notin gone /\ other # id
      <3>1. items'[other] = items[other] BY <1>0, <2>1, <2>3 DEF Letters!Drop
      <3>2. pendingQueue'[other] = pendingQueue[other] BY <1>0, <2>1, <2>3 DEF Letters!Unlist
      <3>3. other \in stale => other \in stale' BY <2>1, <2>3
      <3> QED BY <1>0, <3>1, <3>2, <3>3, LettersAgreeSame
    <2>4. CASE other \notin gone /\ other = id
      <3>1. items'[id] = LettersNewItem(retries, tried) BY <1>0, <2>1, <2>4 DEF Letters!Drop
      <3>2. pendingQueue'[id] = pendingQueue[id] + 1 BY <1>0, <2>1, <2>4 DEF Letters!Unlist
      <3>3. pendingQueue[id] > 0 => id \in stale' BY <2>1, <2>4
      <3>4. pendingQueue[id] \in Nat /\ retries \in Nat BY <1>0, CallersAssumption
      <3> QED BY <2>4, <3>1, <3>2, <3>3, <3>4
         DEF LettersAgree, Letters!Retryable, LettersNewItem, Letters!Settled
    <2> QED BY <2>2, <2>3, <2>4
  <1>2. ASSUME NEW id \in Ids, Letters!Retry(id) PROVE LettersAgree(other)'
    <2>1. items[id] \in Letters!DeadLetterItem BY <1>2, LettersRetryableItem DEF Letters!Retry
    <2>2. CASE other # id
      BY <1>0, <1>2, <2>2, LettersAgreeSame DEF Letters!Retry
    <2>3. CASE other = id /\ items[id].retryCount >= items[id].maxRetries
      <3>1. /\ items'[id] = [items[id] EXCEPT !.status = "DISCARDED"] /\ id \in stale'
            /\ pendingQueue' = pendingQueue
        BY <1>0, <1>2, <2>3 DEF Letters!Retry
      <3> QED BY <1>0, <2>1, <2>3, <3>1
         DEF LettersAgree, Letters!Retryable, Letters!DeadLetterItem
    <2>4. CASE other = id /\ ~(items[id].retryCount >= items[id].maxRetries)
      <3>1. /\ items'[id] = [items[id] EXCEPT !.status = "RETRYING", !.retryCount = @ + 1]
            /\ stale' = stale /\ pendingQueue' = pendingQueue /\ Letters!Retryable(id)
        BY <1>0, <1>2, <2>1, <2>4 DEF Letters!Retry, Letters!DeadLetterItem
      <3>2. /\ items'[id].status = "RETRYING"
            /\ items'[id].retryCount = items[id].retryCount + 1
            /\ items'[id].maxRetries = items[id].maxRetries
        BY <2>1, <3>1 DEF Letters!DeadLetterItem
      <3>3. items[id].retryCount \in Nat /\ items[id].maxRetries \in Nat
        BY <2>1, CallersAssumption DEF Letters!DeadLetterItem
      <3> QED BY <1>0, <2>4, <3>1, <3>2, <3>3
         DEF LettersAgree, Letters!Retryable, Letters!Settled
    <2> QED BY <2>2, <2>3, <2>4
  <1>3. ASSUME NEW id \in Ids, Letters!MarkForManualReview(id) PROVE LettersAgree(other)'
    <2>1. CASE other # id
      BY <1>0, <1>3, <2>1, LettersAgreeSame DEF Letters!MarkForManualReview
    <2>2. CASE other = id
      <3>1. items[id] \in Letters!DeadLetterItem
        BY <1>0, <1>3
           DEF Letters!MarkForManualReview, Letters!Present, LettersItem, Letters!NoItem
      <3>2. /\ items'[id] = [items[id] EXCEPT !.status = "MANUAL_REVIEW"]
            /\ stale' = stale /\ pendingQueue' = pendingQueue
        BY <1>0, <1>3 DEF Letters!MarkForManualReview
      <3> QED BY <1>0, <2>2, <3>1, <3>2
         DEF LettersAgree, Letters!Retryable, Letters!DeadLetterItem, Letters!Settled
    <2> QED BY <2>1, <2>2
  <1>4. ASSUME NEW id \in Ids, NEW status \in Letters!Settled, Letters!Settle(id, status)
        PROVE  LettersAgree(other)'
    <2>1. pendingQueue' = Letters!Unlist(pendingQueue, {id}) /\ stale' = stale \ {id}
      BY <1>4 DEF Letters!Settle
    <2>2. CASE other # id
      <3>1. pendingQueue'[other] = pendingQueue[other] BY <1>0, <2>1, <2>2 DEF Letters!Unlist
      <3> QED BY <1>0, <1>4, <2>1, <2>2, <3>1, LettersAgreeSame DEF Letters!Settle
    <2>3. CASE other = id
      <3>1. items[id] \in Letters!DeadLetterItem
        BY <1>0, <1>4 DEF Letters!Settle, Letters!Present, LettersItem, Letters!NoItem
      <3>2. items'[id] = [items[id] EXCEPT !.status = status] BY <1>0, <1>4 DEF Letters!Settle
      <3>3. pendingQueue'[id] = 0 BY <2>1 DEF Letters!Unlist
      <3> QED BY <1>0, <2>3, <3>1, <3>2, <3>3
         DEF LettersAgree, Letters!Retryable, Letters!DeadLetterItem, Letters!Settled
    <2> QED BY <2>2, <2>3
  <1>5. CASE Letters!RetryAll
    <2>1. /\ items'[other] = (IF Letters!Retryable(other) /\ LettersAttempts(other) > 0
                THEN [items[other] EXCEPT !.status = "RETRYING",
                                          !.retryCount = @ + LettersAttempts(other)]
                ELSE items[other])
          /\ pendingQueue' = pendingQueue /\ stale' = stale
      BY <1>5 DEF Letters!RetryAll, LettersAttempts
    <2>2. CASE ~(Letters!Retryable(other) /\ LettersAttempts(other) > 0)
      BY <1>0, <2>1, <2>2, LettersAgreeSame
    <2>3. CASE Letters!Retryable(other) /\ LettersAttempts(other) > 0
      <3>1. items[other] \in Letters!DeadLetterItem BY <2>3, LettersRetryableItem
      <3>2. /\ items'[other].status = "RETRYING"
            /\ items'[other].retryCount = items[other].retryCount + LettersAttempts(other)
            /\ items'[other].maxRetries = items[other].maxRetries
        BY <2>1, <2>3, <3>1 DEF Letters!DeadLetterItem
      <3>3. items[other].retryCount + LettersAttempts(other) <= items[other].maxRetries
        BY <2>3, LettersAttemptsBounded
      <3> QED BY <1>0, <2>1, <2>3, <3>2, <3>3
         DEF LettersAgree, Letters!Retryable, Letters!Settled
    <2> QED BY <2>2, <2>3
  <1>6. CASE Letters!ClearResolved
    <2>1. pendingQueue' = pendingQueue /\ stale' = stale BY <1>6 DEF Letters!ClearResolved
    <2>2. CASE items[other].status \in Letters!Settled
      <3>1. items'[other] = Letters!NoItem BY <1>6, <2>2 DEF Letters!ClearResolved, Letters!Drop
      <3> QED BY <1>0, <2>1, <2>2, <3>1 DEF LettersAgree, Letters!Retryable, Letters!NoItem
    <2>3. CASE items[other].status \notin Letters!Settled
      <3>1. items'[other] = items[other] BY <1>6, <2>3 DEF Letters!ClearResolved, Letters!Drop
      <3> QED BY <1>0, <2>1, <3>1, LettersAgreeSame
    <2> QED BY <2>2, <2>3
  <1>7. ASSUME NEW gone, items' = Letters!Drop(items, gone),
               pendingQueue' = Letters!Unlist(pendingQueue, gone),
               stale' = stale \ gone
        PROVE  LettersAgree(other)'
    <2>1. CASE other \in gone
      <3>1. items'[other] = Letters!NoItem BY <1>7, <2>1 DEF Letters!Drop
      <3>2. pendingQueue'[other] = 0 BY <1>7, <2>1 DEF Letters!Unlist
      <3> QED BY <3>1, <3>2, LettersAgreeGone
    <2>2. CASE other \notin gone
      <3>1. items'[other] = items[other] BY <1>7, <2>2 DEF Letters!Drop
      <3>2. pendingQueue'[other] = pendingQueue[other] BY <1>7, <2>2 DEF Letters!Unlist
      <3> QED BY <1>0, <1>7, <2>2, <3>1, <3>2, LettersAgreeSame
    <2> QED BY <2>1, <2>2
  <1>8. CASE Letters!ClearExpired BY <1>7, <1>8 DEF Letters!ClearExpired
  <1>9. CASE Letters!ClearAll
    <2>1. stale' = stale \ Ids BY <1>9 DEF Letters!ClearAll, Letters!TypeOK
    <2> QED BY <1>7, <1>9, <2>1 DEF Letters!ClearAll
  <1>10. CASE UNCHANGED <<items, pendingQueue, stale>>
    BY <1>0, <1>10, LettersAgreeSame
  <1> QED BY <1>1, <1>2, <1>3, <1>4, <1>5, <1>6, <1>8, <1>9, <1>10
          DEF Letters!Next, Letters!EnqueueFresh, Letters!SetConfig, Letters!Tick, Letters!vars,
              Letters!own

-----------------------------------------------------------------------------
(* Capacity.                                                               *)

LEMMA LettersStuckStep ==
  Letters!TypeOK /\ Letters!StuckMeansUnsettled /\ [Letters!Next]_(Letters!vars)
    => Letters!StuckMeansUnsettled'
  <1> SUFFICES ASSUME Letters!TypeOK, Letters!StuckMeansUnsettled,
                      [Letters!Next]_(Letters!vars), stuck'
               PROVE  /\ Cardinality(Letters!Present') > maxItems'
                      /\ \A id \in Letters!Present' : items'[id].status \notin Letters!Settled
    BY LettersCount DEF Letters!StuckMeansUnsettled
  <1>1. CASE ~stuck
    <2>1. PICK id \in Ids, retries \in Limits, tried \in Letters!Tried :
                 Letters!Enqueue(id, retries, tried)
      BY <1>1 DEF Letters!Next, Letters!EnqueueFresh, Letters!Retry,
                  Letters!MarkForManualReview, Letters!Settle, Letters!RetryAll,
                  Letters!ClearResolved, Letters!ClearExpired, Letters!ClearAll,
                  Letters!SetConfig, Letters!Tick, Letters!vars, Letters!own
    <2> DEFINE table   == [items EXCEPT ![id] = LettersNewItem(retries, tried)]
               present == {other \in Ids : table[other].status # "NONE"}
               settled == {other \in Ids : table[other].status \in Letters!Settled}
    <2>2. table \in [Ids -> LettersItem] BY LettersStoreType
    <2>3. PICK gone \in Letters!Removed(table) :
            /\ items' = Letters!Drop(table, gone)
            /\ stuck' = (Cardinality(Letters!Present \cup {id}) - Cardinality(gone) > maxItems)
            /\ maxItems' = maxItems
      BY <2>1, LettersCount DEF Letters!Enqueue, LettersNewItem, Letters!config
    <2>4. Letters!Present \cup {id} = present
      <3>1. table[id].status # "NONE" BY DEF Letters!TypeOK, LettersNewItem
      <3>2. \A other \in Ids \ {id} : table[other] = items[other] BY DEF Letters!TypeOK
      <3> QED BY <3>1, <3>2 DEF Letters!Present
    <2>5. Cardinality(present) - Cardinality(gone) > maxItems BY <2>3, <2>4
    <2>6. gone \subseteq settled BY <2>3 DEF Letters!Removed
    <2>7. settled \subseteq present BY DEF Letters!Settled
    <2>8. IsFiniteSet(present) /\ IsFiniteSet(gone)
      <3>1. present \subseteq Ids /\ gone \subseteq Ids BY <2>6
      <3> QED BY <3>1, FS_Subset, CallersAssumption
    <2>9. gone = settled
      <3>1. \/ Cardinality(present) - Cardinality(gone) <= maxItems
            \/ gone = settled
        BY <2>3, LettersCount DEF Letters!Removed
      <3>2. Cardinality(present) \in Nat /\ Cardinality(gone) \in Nat /\ maxItems \in Nat
        BY <2>8, FS_CardinalityType, CallersAssumption DEF Letters!TypeOK
      <3> QED BY <2>5, <3>1, <3>2
    <2>10. \A other \in Ids :
             items'[other] = IF other \in gone THEN Letters!NoItem ELSE table[other]
      BY <2>3 DEF Letters!Drop
    <2>11. Letters!Present' = present \ gone
      <3>1. Letters!Present' = {other \in Ids : items'[other].status # "NONE"}
        BY DEF Letters!Present
      <3> QED BY <2>10, <3>1 DEF Letters!NoItem
    <2>12. Cardinality(Letters!Present') = Cardinality(present) - Cardinality(gone)
      <3>1. present \cap gone = gone BY <2>6, <2>7
      <3> HIDE DEF present
      <3>2. Cardinality(present \ gone) = Cardinality(present) - Cardinality(present \cap gone)
        BY <2>8, FS_Difference
      <3> QED BY <2>11, <3>1, <3>2
    <2>13. ASSUME NEW other \in Letters!Present'
          PROVE  items'[other].status \notin Letters!Settled
      BY <2>9, <2>10, <2>11, <2>13
    <2> QED BY <2>3, <2>5, <2>12, <2>13
  <1>2. CASE stuck
    <2>1. UNCHANGED <<items, maxItems>>
      BY <1>2 DEF Letters!Next, Letters!Enqueue, Letters!EnqueueFresh, Letters!Retry,
                  Letters!MarkForManualReview, Letters!Settle, Letters!RetryAll,
                  Letters!ClearResolved, Letters!ClearExpired, Letters!ClearAll,
                  Letters!SetConfig, Letters!Locks, Letters!Tick, Letters!vars, Letters!own,
                  Letters!config
    <2> QED BY <1>2, <2>1, LettersCount DEF Letters!StuckMeansUnsettled, Letters!Present
  <1> QED BY <1>1, <1>2

\* What a step may do to the items that nobody settled.
LettersKeepsUnresolved ==
  \A id \in Letters!Present : items'[id].status = "NONE" =>
       \/ items[id].status \in Letters!Settled
       \/ id \in Letters!Expired
       \/ \A other \in Ids : items'[other].status = "NONE"

LEMMA LettersKeepsStep ==
  Letters!TypeOK /\ [Letters!Next]_(Letters!vars) => LettersKeepsUnresolved
  <1> SUFFICES ASSUME Letters!TypeOK, [Letters!Next]_(Letters!vars), NEW id \in Letters!Present,
                      items'[id].status = "NONE",
                      items[id].status \notin Letters!Settled, id \notin Letters!Expired
               PROVE  \A other \in Ids : items'[other].status = "NONE"
    BY DEF LettersKeepsUnresolved
  <1>0. items \in [Ids -> LettersItem] /\ id \in Ids /\ items[id].status # "NONE"
    BY DEF Letters!TypeOK, LettersItem, Letters!Present
  <1>1. ASSUME NEW other \in Ids, NEW retries \in Limits, NEW tried \in Letters!Tried,
               Letters!Enqueue(other, retries, tried)
        PROVE  FALSE
    <2> DEFINE table == [items EXCEPT ![other] = LettersNewItem(retries, tried)]
    <2>1. PICK gone \in Letters!Removed(table) : items' = Letters!Drop(table, gone)
      BY <1>1 DEF Letters!Enqueue, LettersNewItem
    <2>2. table[id].status \notin Letters!Settled \cup {"NONE"}
      BY <1>0 DEF LettersNewItem, Letters!Settled
    <2>3. id \notin gone BY <2>1, <2>2 DEF Letters!Removed
    <2>4. items'[id] = table[id] BY <1>0, <2>1, <2>3 DEF Letters!Drop
    <2> QED BY <2>2, <2>4
  <1>2. ASSUME NEW other \in Ids, NEW status \in Letters!DeadLetterStatus,
               items' = [items EXCEPT ![other].status = status]
        PROVE  FALSE
    <2>1. items[id] \in Letters!DeadLetterItem BY <1>0 DEF LettersItem, Letters!NoItem
    <2>2. items'[id].status \in {items[id].status, status}
      BY <1>0, <1>2, <2>1 DEF Letters!DeadLetterItem
    <2> QED BY <1>0, <2>2 DEF Letters!DeadLetterStatus, Letters!Settled
  <1>3. ASSUME NEW other \in Ids, Letters!Retry(other) PROVE FALSE
    <2>1. CASE items' = [items EXCEPT ![other].status = "DISCARDED"]
      <3>1. "DISCARDED" \in Letters!DeadLetterStatus
        BY DEF Letters!DeadLetterStatus, Letters!Settled
      <3> QED BY <1>2, <2>1, <3>1
    <2>2. CASE items' = [items EXCEPT ![other].status = "RETRYING", ![other].retryCount = @ + 1]
      <3>1. items[id] \in Letters!DeadLetterItem BY <1>0 DEF LettersItem, Letters!NoItem
      <3>2. items'[id].status \in {items[id].status, "RETRYING"}
        BY <1>0, <2>2, <3>1 DEF Letters!DeadLetterItem
      <3> QED BY <1>0, <3>2
    <2> QED BY <1>3, <2>1, <2>2 DEF Letters!Retry
  <1>4. ASSUME NEW other \in Ids, Letters!MarkForManualReview(other) PROVE FALSE
    <2>1. "MANUAL_REVIEW" \in Letters!DeadLetterStatus BY DEF Letters!DeadLetterStatus
    <2> QED BY <1>2, <1>4, <2>1 DEF Letters!MarkForManualReview
  <1>5. ASSUME NEW other \in Ids, NEW status \in Letters!Settled, Letters!Settle(other, status)
        PROVE  FALSE
    <2>1. status \in Letters!DeadLetterStatus BY DEF Letters!DeadLetterStatus
    <2> QED BY <1>2, <1>5, <2>1 DEF Letters!Settle
  <1>6. CASE Letters!RetryAll
    <2>1. items[id] \in Letters!DeadLetterItem BY <1>0 DEF LettersItem, Letters!NoItem
    <2>2. \/ items'[id] = items[id]
          \/ items'[id] = [items[id] EXCEPT !.status = "RETRYING",
                                            !.retryCount = @ + LettersAttempts(id)]
      BY <1>0, <1>6 DEF Letters!RetryAll, LettersAttempts
    <2>3. items'[id].status \in {items[id].status, "RETRYING"}
      BY <2>1, <2>2 DEF Letters!DeadLetterItem
    <2> QED BY <1>0, <2>3
  <1>7. CASE Letters!ClearResolved
    <2>1. items'[id] = items[id] BY <1>0, <1>7 DEF Letters!ClearResolved, Letters!Drop
    <2> QED BY <1>0, <2>1
  <1>8. CASE Letters!ClearExpired
    <2>1. items'[id] = items[id] BY <1>0, <1>8 DEF Letters!ClearExpired, Letters!Drop
    <2> QED BY <1>0, <2>1
  <1>9. CASE Letters!ClearAll
    BY <1>9 DEF Letters!ClearAll, Letters!Drop, Letters!NoItem
  <1>10. CASE UNCHANGED items
    BY <1>0, <1>10
  <1> QED BY <1>1, <1>3, <1>4, <1>5, <1>6, <1>7, <1>8, <1>9, <1>10
          DEF Letters!Next, Letters!EnqueueFresh, Letters!SetConfig, Letters!Tick, Letters!vars,
              Letters!own

LettersInv ==
  Letters!TypeOK /\ Letters!PendingListed /\ Letters!StuckMeansUnsettled

LEMMA LettersInit == Letters!Init => LettersInv
  <1> SUFFICES ASSUME Letters!Init PROVE LettersInv
    OBVIOUS
  <1>1. \A id \in Ids : items[id] = Letters!NoItem /\ pendingQueue[id] = 0
    BY DEF Letters!Init
  <1>2. Letters!PendingListed
    BY <1>1 DEF Letters!PendingListed, Letters!Retryable, Letters!NoItem
  <1>3. Letters!StuckMeansUnsettled BY DEF Letters!Init, Letters!StuckMeansUnsettled
  <1> QED BY <1>2, <1>3, LettersTypeInit DEF LettersInv

LEMMA LettersStep == LettersInv /\ [Letters!Next]_(Letters!vars) => LettersInv'
  BY LettersTypeStep, LettersAgreeStep, LettersStuckStep DEF LettersInv

-----------------------------------------------------------------------------
(* Checkpoints: their lists.                                               *)

LEMMA SublistOfCheckpoints ==
  \A list, kept : Checkpoints!Sublist(list, kept) = Sublist(list, kept)
  BY DEF Checkpoints!Sublist, Sublist, Checkpoints!Cardinality, Cardinality

CheckpointLists == Seq(Checkpoints!CheckpointId)

\* Each identifier once, and in the order of creation.
Ordered(list) ==
  \A i, j \in DOMAIN list : i < j => list[i] # list[j] /\ list[i][3] <= list[j][3]

LEMMA ListedIs ==
  ASSUME NEW list \in CheckpointLists
  PROVE  /\ Len(list) \in Nat /\ DOMAIN list = 1 .. Len(list)
         /\ \A id : id \in Checkpoints!Listed(list) <=> \E i \in 1 .. Len(list) : list[i] = id
         /\ \A i \in 1 .. Len(list) : list[i] \in Checkpoints!CheckpointId
  <1>1. /\ Len(list) \in Nat /\ DOMAIN list = 1 .. Len(list)
        /\ \A i \in 1 .. Len(list) : list[i] \in Checkpoints!CheckpointId
    BY LenProperties, ElementOfSeq DEF CheckpointLists
  <1> QED BY <1>1 DEF Checkpoints!Listed

LEMMA SublistKeeps ==
  ASSUME NEW list \in CheckpointLists, NEW kept \in SUBSET (1 .. Len(list))
  PROVE  /\ Sublist(list, kept) \in CheckpointLists
         /\ \A id : id \in Checkpoints!Listed(Sublist(list, kept))
              <=> \E i \in kept : list[i] = id
         /\ (\A i, j \in kept : i < j => list[i] # list[j] /\ list[i][3] <= list[j][3])
              => Ordered(Sublist(list, kept))
         /\ Len(Sublist(list, kept)) = Cardinality(kept)
  <1> DEFINE size == Cardinality(kept)
             cut == Sublist(list, kept)
  <1>1. Len(list) \in Nat /\ \A i \in 1 .. Len(list) : list[i] \in Checkpoints!CheckpointId
    BY ListedIs
  <1>2. size \in Nat BY <1>1, SublistPicks
  <1>3. PICK place \in Placing(kept) : cut = [k \in 1 .. size |-> list[place[k]]]
    BY <1>1, SublistPicks
  <1>4. /\ place \in [1 .. size -> kept]
        /\ \A i \in kept : \E k \in 1 .. size : place[k] = i
        /\ \A k, l \in 1 .. size : k < l => place[k] < place[l]
    BY DEF Placing
  <1> HIDE DEF cut, size
  <1>5. DOMAIN cut = 1 .. size /\ \A k \in 1 .. size : cut[k] = list[place[k]]
    BY <1>3, <1>4
  <1>6. cut \in CheckpointLists
    <2>1. \A k \in 1 .. size : list[place[k]] \in Checkpoints!CheckpointId BY <1>1, <1>3, <1>4
    <2>2. cut \in [1 .. size -> Checkpoints!CheckpointId] BY <1>3, <1>4, <2>1
    <2> QED BY <1>2, <2>2 DEF CheckpointLists
  <1>9. Len(cut) = size
    BY <1>2, <1>5, <1>6, ListedIs
  <1>7. \A id : id \in Checkpoints!Listed(cut) <=> \E i \in kept : list[i] = id
    <2>1. \A id : id \in Checkpoints!Listed(cut) <=> \E k \in 1 .. size : cut[k] = id
      BY <1>5 DEF Checkpoints!Listed
    <2> QED BY <1>3, <1>4, <1>5, <2>1
  <1>8. ASSUME \A i, j \in kept : i < j => list[i] # list[j] /\ list[i][3] <= list[j][3]
        PROVE  Ordered(cut)
    <2> SUFFICES ASSUME NEW k \in 1 .. size, NEW l \in 1 .. size, k < l
                 PROVE  cut[k] # cut[l] /\ cut[k][3] <= cut[l][3]
      BY <1>5 DEF Ordered
    <2>1. place[k] \in kept /\ place[l] \in kept /\ place[k] < place[l] BY <1>3, <1>4
    <2>2. list[place[k]] # list[place[l]] /\ list[place[k]][3] <= list[place[l]][3]
      BY <1>8, <2>1
    <2> QED BY <1>5, <2>2
  <1> QED BY <1>6, <1>7, <1>8, <1>9 DEF cut, size

LEMMA WithoutKeeps ==
  ASSUME NEW list \in CheckpointLists, NEW gone
  PROVE  /\ Checkpoints!Without(list, gone) \in CheckpointLists
         /\ \A id : id \in Checkpoints!Listed(Checkpoints!Without(list, gone))
                      <=> id \in Checkpoints!Listed(list) /\ id \notin gone
         /\ Ordered(list) => Ordered(Checkpoints!Without(list, gone))
  <1> DEFINE kept == {i \in DOMAIN list : list[i] \notin gone}
  <1>1. /\ DOMAIN list = 1 .. Len(list)
        /\ \A id : id \in Checkpoints!Listed(list) <=> \E i \in 1 .. Len(list) : list[i] = id
    BY ListedIs
  <1>2. kept \in SUBSET (1 .. Len(list)) /\ kept \subseteq DOMAIN list BY <1>1
  <1>3. Checkpoints!Without(list, gone) = Sublist(list, kept)
    BY SublistOfCheckpoints DEF Checkpoints!Without
  <1>4. \A id : (\E i \in kept : list[i] = id)
                  <=> (\E i \in 1 .. Len(list) : list[i] = id) /\ id \notin gone
    BY <1>1
  <1> HIDE DEF kept
  <1>5. /\ Sublist(list, kept) \in CheckpointLists
        /\ \A id : id \in Checkpoints!Listed(Sublist(list, kept))
             <=> \E i \in kept : list[i] = id
        /\ (\A i, j \in kept : i < j => list[i] # list[j] /\ list[i][3] <= list[j][3])
              => Ordered(Sublist(list, kept))
    BY <1>2, SublistKeeps
  <1>6. Ordered(list) => \A i, j \in kept : i < j
          => list[i] # list[j] /\ list[i][3] <= list[j][3]
    BY <1>2 DEF Ordered
  <1> QED BY <1>1, <1>3, <1>4, <1>5, <1>6

LEMMA AppendLists ==
  ASSUME NEW list \in CheckpointLists, NEW id \in Checkpoints!CheckpointId
  PROVE  /\ Append(list, id) \in CheckpointLists /\ Len(Append(list, id)) = Len(list) + 1
         /\ \A i \in 1 .. Len(list) : Append(list, id)[i] = list[i]
         /\ Append(list, id)[Len(list) + 1] = id
         /\ \A other : other \in Checkpoints!Listed(Append(list, id))
                         <=> other \in Checkpoints!Listed(list) \/ other = id
         /\ (Ordered(list) /\ \A other \in Checkpoints!Listed(list) :
                               other # id /\ other[3] <= id[3]) => Ordered(Append(list, id))
  <1> DEFINE longer == Append(list, id)
  <1>1. /\ longer \in CheckpointLists /\ Len(longer) = Len(list) + 1
        /\ \A i \in 1 .. Len(list) : longer[i] = list[i]
        /\ longer[Len(list) + 1] = id
    BY AppendProperties DEF CheckpointLists
  <1> HIDE DEF longer
  <1>2. /\ Len(list) \in Nat /\ DOMAIN list = 1 .. Len(list)
        /\ \A other : other \in Checkpoints!Listed(list)
                        <=> \E i \in 1 .. Len(list) : list[i] = other
    BY ListedIs
  <1>3. /\ DOMAIN longer = 1 .. Len(list) + 1
        /\ \A other : other \in Checkpoints!Listed(longer)
                        <=> \E i \in 1 .. Len(list) + 1 : longer[i] = other
    BY <1>1, ListedIs
  <1>4. \A i \in 1 .. Len(list) + 1 : i \in 1 .. Len(list) \/ i = Len(list) + 1 BY <1>2
  <1>5. Len(list) + 1 \in 1 .. Len(list) + 1 /\ \A i \in 1 .. Len(list) :
          i \in 1 .. Len(list) + 1
    BY <1>2
  <1>6. \A other : other \in Checkpoints!Listed(longer)
                     <=> other \in Checkpoints!Listed(list) \/ other = id
    BY <1>1, <1>2, <1>3, <1>4, <1>5
  <1>7. ASSUME Ordered(list),
               \A other \in Checkpoints!Listed(list) : other # id /\ other[3] <= id[3]
        PROVE  Ordered(longer)
    <2> SUFFICES ASSUME NEW i \in 1 .. Len(list) + 1, NEW j \in 1 .. Len(list) + 1, i < j
                 PROVE  longer[i] # longer[j] /\ longer[i][3] <= longer[j][3]
      BY <1>3 DEF Ordered
    <2>1. i \in 1 .. Len(list) BY <1>2
    <2>2. CASE j \in 1 .. Len(list) BY <1>1, <1>2, <1>7, <2>1, <2>2 DEF Ordered
    <2>3. CASE j = Len(list) + 1 BY <1>1, <1>2, <1>7, <2>1, <2>3
    <2> QED BY <1>4, <2>2, <2>3
  <1> QED BY <1>1, <1>6, <1>7 DEF longer

-----------------------------------------------------------------------------
(* Checkpoints: the table and its indices.                                 *)

StoredAreListed ==
  \A id \in Checkpoints!Stored : /\ id \in Checkpoints!Listed(workflowCheckpoints[id[1]])
                                 /\ id \in Checkpoints!Listed(executionCheckpoints[id[2]])

ExecutionListsFit ==
  \A e \in Ids : \A id \in Checkpoints!Listed(executionCheckpoints[e]) :
    id \in Checkpoints!Stored /\ id[2] = e

WorkflowListsFit ==
  \A w \in Ids \ collided : /\ Ordered(workflowCheckpoints[w])
                            /\ \A id \in Checkpoints!Listed(workflowCheckpoints[w]) :
                                 id \in Checkpoints!Stored

\* Also after an identifier was given twice, a list names identifiers of its workflow,
\* of times that have come.
ListsAreOfWorkflow ==
  \A w \in Ids : \A id \in Checkpoints!Listed(workflowCheckpoints[w]) :
    id[1] = w /\ id[3] <= now

IndicesFit == StoredAreListed /\ ExecutionListsFit /\ WorkflowListsFit /\ ListsAreOfWorkflow

CheckpointsInv == Checkpoints!TypeOK /\ IndicesFit

LEMMA CheckpointIds ==
  \A id \in Checkpoints!CheckpointId : id[1] \in Ids /\ id[2] \in Ids /\ id[3] \in 1 .. MaxTime
  BY DEF Checkpoints!CheckpointId

LEMMA StoredIs ==
  \A id : id \in Checkpoints!Stored
            <=> id \in Checkpoints!CheckpointId /\ checkpoints[id].status # "NONE"
  BY DEF Checkpoints!Stored

LEMMA CheckpointsListedHold == CheckpointsInv => Checkpoints!CheckpointsListed
  <1> SUFFICES ASSUME CheckpointsInv PROVE Checkpoints!CheckpointsListed
    OBVIOUS
  <1>1. \A id \in Checkpoints!Stored : /\ id \in Checkpoints!GetCheckpointsByWorkflow(id[1])
                                       /\ id \in Checkpoints!GetCheckpointsByExecution(id[2])
    BY DEF CheckpointsInv, IndicesFit, StoredAreListed, Checkpoints!GetCheckpointsByWorkflow,
           Checkpoints!GetCheckpointsByExecution
  <1>2. \A e \in Ids : Checkpoints!Listed(executionCheckpoints[e])
                         \subseteq {id \in Checkpoints!Stored : id[2] = e}
    BY DEF CheckpointsInv, IndicesFit, ExecutionListsFit
  <1>3. \A w \in Ids \ collided : Checkpoints!Listed(workflowCheckpoints[w])
                                    \subseteq {id \in Checkpoints!Stored : id[1] = w}
    BY DEF CheckpointsInv, IndicesFit, WorkflowListsFit, ListsAreOfWorkflow
  <1> QED BY <1>1, <1>2, <1>3
          DEF Checkpoints!CheckpointsListed, CheckpointsInv, IndicesFit, WorkflowListsFit,
              Ordered

LEMMA CheckpointsInit == Checkpoints!Init => CheckpointsInv
  <1> SUFFICES ASSUME Checkpoints!Init PROVE CheckpointsInv
    OBVIOUS
  <1>1. Checkpoints!CallersTypeOK
    BY CallersAssumption, ServicesAssumption
       DEF Checkpoints!Init, Checkpoints!CallersInit, Checkpoints!CallersTypeOK
  <1>2. /\ workflowCheckpoints \in [Ids -> CheckpointLists]
        /\ executionCheckpoints \in [Ids -> CheckpointLists]
    <2>1. <<>> \in CheckpointLists BY EmptySeq DEF CheckpointLists
    <2> QED BY <2>1 DEF Checkpoints!Init
  <1>3. Checkpoints!TypeOK
    BY <1>1, <1>2 DEF Checkpoints!Init, Checkpoints!TypeOK, CheckpointLists
  <1>4. Checkpoints!Listed(<<>>) = {} BY DEF Checkpoints!Listed
  <1>5. \A w \in Ids : workflowCheckpoints[w] = <<>> /\ executionCheckpoints[w] = <<>>
    BY DEF Checkpoints!Init
  <1>6. \A id \in Checkpoints!CheckpointId : id \notin Checkpoints!Stored
    BY DEF Checkpoints!Init, Checkpoints!Stored, Checkpoints!NoCheckpoint
  <1>7. Ordered(<<>>) BY DEF Ordered
  <1>8. StoredAreListed BY <1>6 DEF StoredAreListed, Checkpoints!Stored
  <1>9. ExecutionListsFit BY <1>4, <1>5 DEF ExecutionListsFit
  <1>10. WorkflowListsFit BY <1>4, <1>5, <1>7 DEF WorkflowListsFit
  <1>11. ListsAreOfWorkflow BY <1>4, <1>5 DEF ListsAreOfWorkflow
  <1> QED BY <1>3, <1>8, <1>9, <1>10, <1>11 DEF CheckpointsInv, IndicesFit

\* What an entry becomes, and which identifiers stay stored.
LEMMA EraseKeepsIndices ==
  ASSUME CheckpointsInv, NEW gone, Checkpoints!Erase(gone), now' = now,
         collided' \subseteq Ids,
         \A w \in Ids \ collided' :
           w \notin collided \/ Checkpoints!Listed(workflowCheckpoints[w]) \subseteq gone
  PROVE  /\ IndicesFit'
         /\ checkpoints' \in [Checkpoints!CheckpointId ->
                                Checkpoints!Checkpoint \cup {Checkpoints!NoCheckpoint}]
         /\ workflowCheckpoints' \in [Ids -> CheckpointLists]
         /\ executionCheckpoints' \in [Ids -> CheckpointLists]
         /\ \A id \in Checkpoints!Stored' : id \in Checkpoints!Stored /\ id \notin gone
  <1>0. /\ Checkpoints!TypeOK /\ IndicesFit
        /\ workflowCheckpoints \in [Ids -> CheckpointLists]
        /\ executionCheckpoints \in [Ids -> CheckpointLists]
    BY DEF CheckpointsInv, Checkpoints!TypeOK, CheckpointLists
  <1>1. \A w \in Ids :
          /\ workflowCheckpoints'[w] = Checkpoints!Without(workflowCheckpoints[w], gone)
          /\ executionCheckpoints'[w] = Checkpoints!Without(executionCheckpoints[w], gone)
    BY DEF Checkpoints!Erase
  <1>2. \A w \in Ids :
          /\ workflowCheckpoints'[w] \in CheckpointLists
          /\ \A id : id \in Checkpoints!Listed(workflowCheckpoints'[w])
                       <=> id \in Checkpoints!Listed(workflowCheckpoints[w]) /\ id \notin gone
          /\ Ordered(workflowCheckpoints[w]) => Ordered(workflowCheckpoints'[w])
    BY <1>0, <1>1, WithoutKeeps
  <1>3. \A e \in Ids :
          /\ executionCheckpoints'[e] \in CheckpointLists
          /\ \A id : id \in Checkpoints!Listed(executionCheckpoints'[e])
                       <=> id \in Checkpoints!Listed(executionCheckpoints[e]) /\ id \notin gone
    BY <1>0, <1>1, WithoutKeeps
  <1>4. \A id \in Checkpoints!CheckpointId :
          checkpoints'[id] = IF id \in gone THEN Checkpoints!NoCheckpoint ELSE checkpoints[id]
    BY DEF Checkpoints!Erase
  <1>5. \A id : id \in Checkpoints!Stored' <=> id \in Checkpoints!Stored /\ id \notin gone
    BY <1>4 DEF Checkpoints!Stored, Checkpoints!NoCheckpoint
  <1>6. /\ workflowCheckpoints' \in [Ids -> CheckpointLists]
        /\ executionCheckpoints' \in [Ids -> CheckpointLists]
    BY <1>2, <1>3 DEF Checkpoints!Erase
  <1>7. checkpoints' \in [Checkpoints!CheckpointId ->
                            Checkpoints!Checkpoint \cup {Checkpoints!NoCheckpoint}]
    BY <1>0 DEF Checkpoints!Erase, Checkpoints!TypeOK
  <1>8. StoredAreListed'
    <2> SUFFICES ASSUME NEW id \in Checkpoints!Stored'
                 PROVE  /\ id \in Checkpoints!Listed(workflowCheckpoints'[id[1]])
                        /\ id \in Checkpoints!Listed(executionCheckpoints'[id[2]])
      BY DEF StoredAreListed
    <2>1. id \in Checkpoints!Stored /\ id \notin gone BY <1>5
    <2>2. id[1] \in Ids /\ id[2] \in Ids BY <2>1, StoredIs, CheckpointIds
    <2> QED BY <1>0, <1>2, <1>3, <2>1, <2>2 DEF IndicesFit, StoredAreListed
  <1>9. ExecutionListsFit'
    <2> SUFFICES ASSUME NEW e \in Ids, NEW id \in Checkpoints!Listed(executionCheckpoints'[e])
                 PROVE  id \in Checkpoints!Stored' /\ id[2] = e
      BY DEF ExecutionListsFit
    <2> QED BY <1>0, <1>3, <1>5 DEF IndicesFit, ExecutionListsFit
  <1>10. WorkflowListsFit'
    <2> SUFFICES ASSUME NEW w \in Ids \ collided'
                 PROVE  /\ Ordered(workflowCheckpoints'[w])
                        /\ \A id \in Checkpoints!Listed(workflowCheckpoints'[w]) :
                             id \in Checkpoints!Stored'
      BY DEF WorkflowListsFit
    <2>1. CASE w \notin collided
      BY <1>0, <1>2, <1>5, <2>1 DEF IndicesFit, WorkflowListsFit
    <2>2. CASE Checkpoints!Listed(workflowCheckpoints[w]) \subseteq gone
      <3>1. \A id : id \notin Checkpoints!Listed(workflowCheckpoints'[w]) BY <1>2, <2>2
      <3>2. DOMAIN workflowCheckpoints'[w] = {}
        BY <3>1 DEF Checkpoints!Listed
      <3> QED BY <3>1, <3>2 DEF Ordered
    <2> QED BY <2>1, <2>2
  <1>11. ListsAreOfWorkflow'
    BY <1>0, <1>2 DEF IndicesFit, ListsAreOfWorkflow
  <1> QED BY <1>5, <1>6, <1>7, <1>8, <1>9, <1>10, <1>11 DEF IndicesFit

LEMMA CutKeeps ==
  ASSUME NEW list \in CheckpointLists, NEW limit \in Nat
  PROVE  /\ Checkpoints!Cut(list, limit) \in CheckpointLists
         /\ \A id : id \in Checkpoints!Listed(Checkpoints!Cut(list, limit))
                      <=> \E i \in 1 .. Len(list) : list[i] = id /\ i > Len(list) - limit
         /\ Ordered(list) => Ordered(Checkpoints!Cut(list, limit))
         /\ \A i : i \in Checkpoints!Evicted(list, limit)
                     <=> i \in 1 .. Len(list) /\ i <= Len(list) - limit
         /\ limit < Len(list) => Len(Checkpoints!Cut(list, limit)) = limit
  <1> DEFINE kept == DOMAIN list \ Checkpoints!Evicted(list, limit)
  <1>1. Len(list) \in Nat /\ DOMAIN list = 1 .. Len(list)
    BY ListedIs
  <1>2. \A i : i \in Checkpoints!Evicted(list, limit)
                 <=> i \in 1 .. Len(list) /\ i <= Len(list) - limit
    BY <1>1 DEF Checkpoints!Evicted
  <1>3. kept \in SUBSET (1 .. Len(list)) BY <1>1
  <1>4. Checkpoints!Cut(list, limit) = Sublist(list, kept)
    BY SublistOfCheckpoints DEF Checkpoints!Cut
  <1>5. \A id : (\E i \in kept : list[i] = id)
                  <=> (\E i \in 1 .. Len(list) : list[i] = id /\ i > Len(list) - limit)
    <2>1. \A i \in 1 .. Len(list) : i \in kept <=> i > Len(list) - limit BY <1>1, <1>2
    <2> HIDE DEF kept
    <2> QED BY <1>3, <2>1
  <1> HIDE DEF kept
  <1>6. /\ Sublist(list, kept) \in CheckpointLists
        /\ \A id : id \in Checkpoints!Listed(Sublist(list, kept))
             <=> \E i \in kept : list[i] = id
        /\ (\A i, j \in kept : i < j => list[i] # list[j] /\ list[i][3] <= list[j][3])
              => Ordered(Sublist(list, kept))
    BY <1>3, SublistKeeps
  <1>7. Ordered(list) => \A i, j \in kept : i < j
          => list[i] # list[j] /\ list[i][3] <= list[j][3]
    BY <1>1, <1>3 DEF Ordered
  <1>8. ASSUME limit < Len(list) PROVE Len(Sublist(list, kept)) = limit
    <2>1. \A i \in 1 .. Len(list) : i \in kept <=> i > Len(list) - limit
      BY <1>1, <1>2 DEF kept
    <2>2. PICK first \in Int : first = Len(list) - limit + 1 BY <1>1
    <2>3. /\ first <= Len(list) + 1 /\ Len(list) - first + 1 = limit /\ Len(list) \in Int
          /\ first >= 1
      BY <1>1, <1>8, <2>2
    <2>4. \A i : i \in kept <=> i \in first .. Len(list)
      <3>1. \A i \in kept : i \in 1 .. Len(list) BY <1>3
      <3>2. \A i \in 1 .. Len(list) : i > Len(list) - limit <=> i >= first
        BY <1>1, <2>2
      <3>3. \A i : i \in first .. Len(list) <=> i \in 1 .. Len(list) /\ i >= first
        BY <1>1, <2>3
      <3> QED BY <2>1, <3>1, <3>2, <3>3
    <2>5. kept = first .. Len(list) BY <2>4
    <2>6. Len(Sublist(list, kept)) = Cardinality(kept) BY <1>3, SublistKeeps
    <2>7. Cardinality(first .. Len(list))
            = IF first > Len(list) THEN 0 ELSE Len(list) - first + 1
      BY ONLY <2>3, FS_Interval, first \in Int
    <2>8. Cardinality(kept) = limit BY <2>3, <2>7, <2>5
    <2> QED BY ONLY <2>6, <2>8
  <1> QED BY <1>2, <1>4, <1>5, <1>6, <1>7, <1>8

\* A new identifier, given by a call on workflow w.
LEMMA NewIdentifier ==
  ASSUME CheckpointsInv, NEW w \in Ids, NEW e \in Ids, NEW id, id = <<w, e, now>>,
         collided' = IF id \in Checkpoints!Listed(workflowCheckpoints[w])
                     THEN collided \cup {w} ELSE collided,
         now' = now
  PROVE  /\ id \in Checkpoints!CheckpointId /\ id[1] = w /\ id[2] = e /\ id[3] = now
         /\ workflowCheckpoints[w] \in CheckpointLists
         /\ executionCheckpoints[e] \in CheckpointLists
         /\ Append(workflowCheckpoints[w], id) \in CheckpointLists
         /\ Append(executionCheckpoints[e], id) \in CheckpointLists
         /\ \A other \in Checkpoints!Listed(Append(workflowCheckpoints[w], id)) :
              other[1] = w /\ other[3] <= now'
         /\ w \notin collided' => Ordered(Append(workflowCheckpoints[w], id))
         /\ \A v \in Ids \ collided' : v \in Ids \ collided
         /\ collided' \subseteq Ids
  <1>0. now \in 1 .. MaxTime
    BY DEF CheckpointsInv, Checkpoints!TypeOK, Checkpoints!CallersTypeOK
  <1>1. id \in Checkpoints!CheckpointId /\ id[1] = w /\ id[2] = e /\ id[3] = now
    BY <1>0 DEF Checkpoints!CheckpointId
  <1>2. /\ workflowCheckpoints[w] \in CheckpointLists
        /\ executionCheckpoints[e] \in CheckpointLists
        /\ collided \subseteq Ids
    BY DEF CheckpointsInv, Checkpoints!TypeOK, CheckpointLists
  <1>3. /\ Append(workflowCheckpoints[w], id) \in CheckpointLists
        /\ Append(executionCheckpoints[e], id) \in CheckpointLists
    BY <1>1, <1>2, AppendLists
  <1>4. \A other : other \in Checkpoints!Listed(Append(workflowCheckpoints[w], id))
                     <=> other \in Checkpoints!Listed(workflowCheckpoints[w]) \/ other = id
    BY <1>1, <1>2, AppendLists
  <1>5. \A other \in Checkpoints!Listed(workflowCheckpoints[w]) :
          other[1] = w /\ other[3] <= now
    BY DEF CheckpointsInv, IndicesFit, ListsAreOfWorkflow
  <1>6. \A other \in Checkpoints!Listed(Append(workflowCheckpoints[w], id)) :
          other[1] = w /\ other[3] <= now'
    BY <1>0, <1>1, <1>4, <1>5
  <1>7. ASSUME w \notin collided' PROVE Ordered(Append(workflowCheckpoints[w], id))
    <2>1. id \notin Checkpoints!Listed(workflowCheckpoints[w]) /\ w \notin collided BY <1>7
    <2>2. Ordered(workflowCheckpoints[w])
      BY <2>1 DEF CheckpointsInv, IndicesFit, WorkflowListsFit
    <2>3. \A other \in Checkpoints!Listed(workflowCheckpoints[w]) :
            other # id /\ other[3] <= id[3]
      BY <1>1, <1>5, <2>1
    <2> QED BY <1>1, <1>2, <2>2, <2>3, AppendLists
  <1> QED BY <1>1, <1>2, <1>3, <1>6, <1>7

LEMMA ImportKeepsIndices ==
  ASSUME CheckpointsInv, NEW old \in Checkpoints!Stored,
         Checkpoints!ImportCheckpoint(Checkpoints!Exported(old))
  PROVE  CheckpointsInv'
  <1> DEFINE w == old[1]
             e == old[2]
             id == <<w, e, now>>
             entry == [Checkpoints!Parsed(Checkpoints!Exported(old))
                         EXCEPT !.expiresAt = now + expirationMs]
  <1>0. Checkpoints!TypeOK /\ IndicesFit BY DEF CheckpointsInv
  <1>1. w \in Ids /\ e \in Ids /\ old \in Checkpoints!CheckpointId BY StoredIs, CheckpointIds
  <1>2. /\ Checkpoints!Called
        /\ checkpoints' = [checkpoints EXCEPT ![id] = entry]
        /\ workflowCheckpoints' = [workflowCheckpoints EXCEPT ![w] = Append(@, id)]
        /\ executionCheckpoints' = [executionCheckpoints EXCEPT ![e] = Append(@, id)]
        /\ collided' = IF id \in Checkpoints!Listed(workflowCheckpoints[w])
                       THEN collided \cup {w} ELSE collided
        /\ UNCHANGED Checkpoints!config
    BY DEF Checkpoints!ImportCheckpoint, Checkpoints!Exported
  <1>3. entry \in Checkpoints!Checkpoint
    <2>1. checkpoints[old] \in Checkpoints!Checkpoint
      BY <1>0, <1>1, StoredIs DEF Checkpoints!TypeOK, Checkpoints!NoCheckpoint
    <2>2. now \in Nat /\ expirationMs \in Nat
      BY <1>0, CallersAssumption DEF Checkpoints!TypeOK, Checkpoints!CallersTypeOK
    <2>3. entry = [status |-> checkpoints[old].status, expiresAt |-> now + expirationMs,
                   version |-> checkpoints[old].version]
      BY DEF Checkpoints!Parsed, Checkpoints!Exported
    <2> QED BY <2>1, <2>2, <2>3 DEF Checkpoints!Checkpoint
  <1>4. entry.status # "NONE" BY <1>3 DEF Checkpoints!Checkpoint, Checkpoints!CheckpointStatus
  <1>5. now' = now /\ Checkpoints!CallersTypeOK'
    BY <1>0, <1>2, ServicesAssumption
       DEF Checkpoints!Called, Checkpoints!TypeOK, Checkpoints!CallersTypeOK
  <1> HIDE DEF w, e, entry
  <1>6. /\ id \in Checkpoints!CheckpointId /\ id[1] = w /\ id[2] = e /\ id[3] = now
        /\ workflowCheckpoints[w] \in CheckpointLists
        /\ executionCheckpoints[e] \in CheckpointLists
        /\ Append(workflowCheckpoints[w], id) \in CheckpointLists
        /\ Append(executionCheckpoints[e], id) \in CheckpointLists
        /\ \A other \in Checkpoints!Listed(Append(workflowCheckpoints[w], id)) :
             other[1] = w /\ other[3] <= now'
        /\ w \notin collided' => Ordered(Append(workflowCheckpoints[w], id))
        /\ \A v \in Ids \ collided' : v \in Ids \ collided
        /\ collided' \subseteq Ids
    BY <1>1, <1>2, <1>5, NewIdentifier
  <1> HIDE DEF id
  <1>7. /\ \A other : other \in Checkpoints!Listed(Append(workflowCheckpoints[w], id))
                        <=> other \in Checkpoints!Listed(workflowCheckpoints[w]) \/ other = id
        /\ \A other : other \in Checkpoints!Listed(Append(executionCheckpoints[e], id))
                        <=> other \in Checkpoints!Listed(executionCheckpoints[e]) \/ other = id
    BY <1>6, AppendLists
  <1>8. /\ workflowCheckpoints' \in [Ids -> CheckpointLists]
        /\ executionCheckpoints' \in [Ids -> CheckpointLists]
        /\ workflowCheckpoints'[w] = Append(workflowCheckpoints[w], id)
        /\ executionCheckpoints'[e] = Append(executionCheckpoints[e], id)
        /\ \A v \in Ids : v # w => workflowCheckpoints'[v] = workflowCheckpoints[v]
        /\ \A x \in Ids : x # e => executionCheckpoints'[x] = executionCheckpoints[x]
    BY <1>0, <1>1, <1>2, <1>6 DEF Checkpoints!TypeOK, CheckpointLists
  <1>9. /\ checkpoints' \in [Checkpoints!CheckpointId ->
                               Checkpoints!Checkpoint \cup {Checkpoints!NoCheckpoint}]
        /\ \A other : other \in Checkpoints!Stored'
                        <=> other \in Checkpoints!Stored \/ other = id
    <2>1. /\ checkpoints'[id] = entry
          /\ \A other \in Checkpoints!CheckpointId \ {id} :
               checkpoints'[other] = checkpoints[other]
      BY <1>0, <1>2, <1>6 DEF Checkpoints!TypeOK
    <2>2. \A other : other \in Checkpoints!Stored'
                       <=> other \in Checkpoints!CheckpointId
                             /\ checkpoints'[other].status # "NONE"
      BY DEF Checkpoints!Stored
    <2>3. \A other : other \in Checkpoints!Stored'
            <=> other \in Checkpoints!Stored \/ other = id
      BY <1>4, <1>6, <2>1, <2>2, StoredIs
    <2> QED BY <1>0, <1>2, <1>3, <2>3 DEF Checkpoints!TypeOK
  <1>10. Checkpoints!TypeOK'
    BY <1>0, <1>2, <1>5, <1>6, <1>8, <1>9
       DEF Checkpoints!TypeOK, Checkpoints!config, CheckpointLists
  <1>11. StoredAreListed'
    <2> SUFFICES ASSUME NEW other \in Checkpoints!Stored'
                 PROVE  /\ other \in Checkpoints!Listed(workflowCheckpoints'[other[1]])
                        /\ other \in Checkpoints!Listed(executionCheckpoints'[other[2]])
      BY DEF StoredAreListed
    <2>1. CASE other = id BY <1>6, <1>7, <1>8, <2>1
    <2>2. CASE other # id
      <3>1. other \in Checkpoints!Stored /\ other[1] \in Ids /\ other[2] \in Ids
        BY <1>9, <2>2, StoredIs, CheckpointIds
      <3>2. /\ other \in Checkpoints!Listed(workflowCheckpoints[other[1]])
            /\ other \in Checkpoints!Listed(executionCheckpoints[other[2]])
        BY <1>0, <3>1 DEF IndicesFit, StoredAreListed
      <3>3. other \in Checkpoints!Listed(workflowCheckpoints'[other[1]])
        <4>1. CASE other[1] = w BY <1>7, <1>8, <3>2, <4>1
        <4>2. CASE other[1] # w BY <1>8, <3>1, <3>2, <4>2
        <4> QED BY <4>1, <4>2
      <3>4. other \in Checkpoints!Listed(executionCheckpoints'[other[2]])
        <4>1. CASE other[2] = e BY <1>7, <1>8, <3>2, <4>1
        <4>2. CASE other[2] # e BY <1>8, <3>1, <3>2, <4>2
        <4> QED BY <4>1, <4>2
      <3> QED BY <3>3, <3>4
    <2> QED BY <2>1, <2>2
  <1>12. ExecutionListsFit'
    <2> SUFFICES ASSUME NEW x \in Ids,
                        NEW other \in Checkpoints!Listed(executionCheckpoints'[x])
                 PROVE  other \in Checkpoints!Stored' /\ other[2] = x
      BY DEF ExecutionListsFit
    <2>1. \A y \in Ids : \A older \in Checkpoints!Listed(executionCheckpoints[y]) :
            older \in Checkpoints!Stored /\ older[2] = y
      BY <1>0 DEF IndicesFit, ExecutionListsFit
    <2>2. CASE x = e
      <3>1. other \in Checkpoints!Listed(executionCheckpoints[e]) \/ other = id
        BY <1>7, <1>8, <2>2
      <3>2. CASE other \in Checkpoints!Listed(executionCheckpoints[e])
        BY <1>1, <1>9, <2>1, <2>2, <3>2
      <3>3. CASE other = id BY <1>6, <1>9, <2>2, <3>3
      <3> QED BY <3>1, <3>2, <3>3
    <2>3. CASE x # e BY <1>8, <1>9, <2>1, <2>3
    <2> QED BY <2>2, <2>3
  <1>13. WorkflowListsFit'
    <2> SUFFICES ASSUME NEW v \in Ids \ collided'
                 PROVE  /\ Ordered(workflowCheckpoints'[v])
                        /\ \A other \in Checkpoints!Listed(workflowCheckpoints'[v]) :
                             other \in Checkpoints!Stored'
      BY DEF WorkflowListsFit
    <2>1. /\ Ordered(workflowCheckpoints[v])
          /\ \A other \in Checkpoints!Listed(workflowCheckpoints[v]) :
               other \in Checkpoints!Stored
      BY <1>0, <1>6 DEF IndicesFit, WorkflowListsFit
    <2>2. CASE v = w BY <1>6, <1>7, <1>8, <1>9, <2>1, <2>2
    <2>3. CASE v # w BY <1>8, <1>9, <2>1, <2>3
    <2> QED BY <2>2, <2>3
  <1>14. ListsAreOfWorkflow'
    <2> SUFFICES ASSUME NEW v \in Ids, NEW other \in Checkpoints!Listed(workflowCheckpoints'[v])
                 PROVE  other[1] = v /\ other[3] <= now'
      BY DEF ListsAreOfWorkflow
    <2>1. CASE v = w BY <1>6, <1>8, <2>1
    <2>2. CASE v # w BY <1>0, <1>5, <1>8, <2>2 DEF IndicesFit, ListsAreOfWorkflow
    <2> QED BY <2>1, <2>2
  <1> QED BY <1>6, <1>8, <1>9, <1>10, <1>11, <1>12, <1>13, <1>14
             DEF CheckpointsInv, IndicesFit, w

\* createCheckpoint(): what is evicted is in the list of w only, and older than what is kept.
LEMMA CreateKeepsIndices ==
  ASSUME CheckpointsInv, NEW w \in Ids, NEW e \in Ids, Checkpoints!CreateCheckpoint(w, e)
  PROVE  /\ CheckpointsInv'
         /\ w \notin collided' => Checkpoints!KeepsNewest(w, e)
  <1> DEFINE id == <<w, e, now>>
             list == Append(workflowCheckpoints[w], id)
             gone == {list[i] : i \in Checkpoints!Evicted(list, maxCheckpoints)}
             entry == [status |-> "VALID", expiresAt |-> now + expirationMs, version |-> 1]
             runs(x) == IF x = e THEN Append(executionCheckpoints[x], id)
                        ELSE executionCheckpoints[x]
  <1>0. Checkpoints!TypeOK /\ IndicesFit /\ maxCheckpoints \in Nat /\ expirationMs \in Nat
    BY CallersAssumption DEF CheckpointsInv, Checkpoints!TypeOK
  <1>1. /\ Checkpoints!Called
        /\ checkpoints' = [other \in Checkpoints!CheckpointId |->
             IF other \in gone THEN Checkpoints!NoCheckpoint
             ELSE IF other = id THEN entry ELSE checkpoints[other]]
        /\ workflowCheckpoints' =
             [workflowCheckpoints EXCEPT ![w] = Checkpoints!Cut(list, maxCheckpoints)]
        /\ executionCheckpoints' = [x \in Ids |-> Checkpoints!Without(runs(x), gone)]
        /\ collided' = IF id \in Checkpoints!Listed(workflowCheckpoints[w])
                       THEN collided \cup {w} ELSE collided
        /\ UNCHANGED Checkpoints!config
    BY DEF Checkpoints!CreateCheckpoint
  <1>2. now' = now /\ now \in Nat /\ Checkpoints!CallersTypeOK'
    BY <1>0, <1>1, CallersAssumption, ServicesAssumption
       DEF Checkpoints!Called, Checkpoints!TypeOK, Checkpoints!CallersTypeOK
  <1>3. entry \in Checkpoints!Checkpoint /\ entry.status # "NONE"
    BY <1>0, <1>2 DEF Checkpoints!Checkpoint, Checkpoints!CheckpointStatus
  <1> HIDE DEF entry
  <1>4. /\ id \in Checkpoints!CheckpointId /\ id[1] = w /\ id[2] = e /\ id[3] = now
        /\ workflowCheckpoints[w] \in CheckpointLists
        /\ executionCheckpoints[e] \in CheckpointLists
        /\ list \in CheckpointLists
        /\ Append(executionCheckpoints[e], id) \in CheckpointLists
        /\ \A other \in Checkpoints!Listed(list) : other[1] = w /\ other[3] <= now'
        /\ w \notin collided' => Ordered(list)
        /\ \A v \in Ids \ collided' : v \in Ids \ collided
        /\ collided' \subseteq Ids
    BY <1>1, <1>2, NewIdentifier
  <1> HIDE DEF id
  <1>5. /\ \A other : other \in Checkpoints!Listed(list)
                        <=> other \in Checkpoints!Listed(workflowCheckpoints[w]) \/ other = id
        /\ \A other : other \in Checkpoints!Listed(Append(executionCheckpoints[e], id))
                        <=> other \in Checkpoints!Listed(executionCheckpoints[e]) \/ other = id
    BY <1>4, AppendLists
  <1> DEFINE cut == Checkpoints!Cut(list, maxCheckpoints)
  <1> HIDE DEF list
  <1>6. /\ cut \in CheckpointLists
        /\ \A other : other \in Checkpoints!Listed(cut)
                        <=> \E i \in 1 .. Len(list) :
                              list[i] = other /\ i > Len(list) - maxCheckpoints
        /\ Ordered(list) => Ordered(cut)
        /\ \A i : i \in Checkpoints!Evicted(list, maxCheckpoints)
                    <=> i \in 1 .. Len(list) /\ i <= Len(list) - maxCheckpoints
        /\ maxCheckpoints < Len(list) => Len(cut) = maxCheckpoints
    BY <1>0, <1>4, CutKeeps
  <1>7. /\ Len(list) \in Nat /\ DOMAIN list = 1 .. Len(list)
        /\ \A other : other \in Checkpoints!Listed(list)
             <=> \E i \in 1 .. Len(list) : list[i] = other
    BY <1>4, ListedIs
  <1>8. /\ \A other : other \in gone
                        <=> \E i \in 1 .. Len(list) :
                              list[i] = other /\ i <= Len(list) - maxCheckpoints
        /\ \A other \in gone : other \in Checkpoints!Listed(list)
        /\ \A other \in Checkpoints!Listed(list) :
             other \in gone \/ other \in Checkpoints!Listed(cut)
        /\ \A other \in Checkpoints!Listed(cut) : other \in Checkpoints!Listed(list)
    <2>1. \A other : other \in gone
                       <=> \E i \in 1 .. Len(list) :
                             list[i] = other /\ i <= Len(list) - maxCheckpoints
      BY <1>6
    <2>2. \A i \in 1 .. Len(list) :
            i <= Len(list) - maxCheckpoints \/ i > Len(list) - maxCheckpoints
      BY <1>0, <1>7
    <2> HIDE DEF gone, cut
    <2> QED BY <1>6, <1>7, <2>1, <2>2
  <1>9. ASSUME Ordered(list), NEW old \in gone, NEW kept \in Checkpoints!Listed(cut)
        PROVE  old # kept /\ old[3] <= kept[3]
    <2>1. PICK i \in 1 .. Len(list) : list[i] = old /\ i <= Len(list) - maxCheckpoints
      BY <1>8, <1>9
    <2>2. PICK j \in 1 .. Len(list) : list[j] = kept /\ j > Len(list) - maxCheckpoints
      BY <1>6, <1>9
    <2>3. i < j BY <1>0, <1>7, <2>1, <2>2
    <2> QED BY <1>7, <1>9, <2>1, <2>2, <2>3 DEF Ordered
  <1> HIDE DEF gone, cut
  <1>10. \A x \in Ids : /\ runs(x) \in CheckpointLists
                        /\ \A other : other \in Checkpoints!Listed(runs(x))
                             <=> \/ other \in Checkpoints!Listed(executionCheckpoints[x])
                                 \/ x = e /\ other = id
    BY <1>0, <1>4, <1>5 DEF Checkpoints!TypeOK, CheckpointLists
  <1> HIDE DEF runs
  <1>11. \A x \in Ids : /\ executionCheckpoints'[x] \in CheckpointLists
                        /\ \A other : other \in Checkpoints!Listed(executionCheckpoints'[x])
                             <=> /\ \/ other \in Checkpoints!Listed(executionCheckpoints[x])
                                    \/ x = e /\ other = id
                                 /\ other \notin gone
    <2> SUFFICES ASSUME NEW x \in Ids
                 PROVE  /\ executionCheckpoints'[x] \in CheckpointLists
                        /\ \A other : other \in Checkpoints!Listed(executionCheckpoints'[x])
                             <=> /\ \/ other \in Checkpoints!Listed(executionCheckpoints[x])
                                    \/ x = e /\ other = id
                                 /\ other \notin gone
      OBVIOUS
    <2>1. executionCheckpoints'[x] = Checkpoints!Without(runs(x), gone) BY <1>1
    <2>2. runs(x) \in CheckpointLists BY <1>10
    <2>3. /\ Checkpoints!Without(runs(x), gone) \in CheckpointLists
          /\ \A other : other \in Checkpoints!Listed(Checkpoints!Without(runs(x), gone))
                          <=> other \in Checkpoints!Listed(runs(x)) /\ other \notin gone
      BY <2>2, WithoutKeeps
    <2> QED BY <1>10, <2>1, <2>3
  <1>12. /\ workflowCheckpoints' \in [Ids -> CheckpointLists]
         /\ executionCheckpoints' \in [Ids -> CheckpointLists]
         /\ workflowCheckpoints'[w] = cut
         /\ \A v \in Ids : v # w => workflowCheckpoints'[v] = workflowCheckpoints[v]
    <2>1. workflowCheckpoints \in [Ids -> CheckpointLists]
      BY <1>0 DEF Checkpoints!TypeOK, CheckpointLists
    <2>2. workflowCheckpoints' = [workflowCheckpoints EXCEPT ![w] = cut] BY <1>1 DEF cut
    <2>3. executionCheckpoints' \in [Ids -> CheckpointLists] BY <1>1, <1>11
    <2> QED BY <1>6, <2>1, <2>2, <2>3
  <1>13. /\ checkpoints' \in [Checkpoints!CheckpointId ->
                                Checkpoints!Checkpoint \cup {Checkpoints!NoCheckpoint}]
         /\ \A other : other \in Checkpoints!Stored'
                         <=> (other \in Checkpoints!Stored \/ other = id) /\ other \notin gone
    <2>1. \A other \in Checkpoints!CheckpointId :
            checkpoints'[other] = IF other \in gone THEN Checkpoints!NoCheckpoint
                                  ELSE IF other = id THEN entry ELSE checkpoints[other]
      BY <1>1
    <2>2. \A other : other \in Checkpoints!Stored'
                       <=> other \in Checkpoints!CheckpointId
                             /\ checkpoints'[other].status # "NONE"
      BY DEF Checkpoints!Stored
    <2>3. Checkpoints!NoCheckpoint.status = "NONE" BY DEF Checkpoints!NoCheckpoint
    <2>4. \A other : other \in Checkpoints!Stored'
                       <=> (other \in Checkpoints!Stored \/ other = id) /\ other \notin gone
      BY <1>3, <1>4, <2>1, <2>2, <2>3, StoredIs
    <2>5. checkpoints' \in [Checkpoints!CheckpointId ->
                              Checkpoints!Checkpoint \cup {Checkpoints!NoCheckpoint}]
      BY <1>0, <1>1, <1>3 DEF Checkpoints!TypeOK
    <2> QED BY <2>4, <2>5
  <1>14. Checkpoints!TypeOK'
    BY <1>0, <1>1, <1>2, <1>4, <1>12, <1>13
       DEF Checkpoints!TypeOK, Checkpoints!config, CheckpointLists
  <1>15. StoredAreListed'
    <2> SUFFICES ASSUME NEW other \in Checkpoints!Stored'
                 PROVE  /\ other \in Checkpoints!Listed(workflowCheckpoints'[other[1]])
                        /\ other \in Checkpoints!Listed(executionCheckpoints'[other[2]])
      BY DEF StoredAreListed
    <2>1. other \notin gone /\ (other \in Checkpoints!Stored \/ other = id) BY <1>13
    <2>2. CASE other = id
      <3>1. other \in Checkpoints!Listed(cut) BY <1>5, <1>8, <2>1, <2>2
      <3>2. other \in Checkpoints!Listed(executionCheckpoints'[e]) BY <1>11, <2>1, <2>2
      <3> QED BY <1>4, <1>12, <2>2, <3>1, <3>2
    <2>3. CASE other # id
      <3>1. other \in Checkpoints!Stored /\ other[1] \in Ids /\ other[2] \in Ids
        BY <2>1, <2>3, StoredIs, CheckpointIds
      <3>2. /\ other \in Checkpoints!Listed(workflowCheckpoints[other[1]])
            /\ other \in Checkpoints!Listed(executionCheckpoints[other[2]])
        BY <1>0, <3>1 DEF IndicesFit, StoredAreListed
      <3>3. other \in Checkpoints!Listed(executionCheckpoints'[other[2]])
        BY <1>11, <2>1, <3>1, <3>2
      <3>4. CASE other[1] = w
        <4>1. other \in Checkpoints!Listed(cut) BY <1>5, <1>8, <2>1, <3>2, <3>4
        <4> QED BY <1>12, <3>3, <3>4, <4>1
      <3>5. CASE other[1] # w BY <1>12, <3>1, <3>2, <3>3, <3>5
      <3> QED BY <3>4, <3>5
    <2> QED BY <2>2, <2>3
  <1>16. ExecutionListsFit'
    <2> SUFFICES ASSUME NEW x \in Ids,
                        NEW other \in Checkpoints!Listed(executionCheckpoints'[x])
                 PROVE  other \in Checkpoints!Stored' /\ other[2] = x
      BY DEF ExecutionListsFit
    <2>1. \A older \in Checkpoints!Listed(executionCheckpoints[x]) :
            older \in Checkpoints!Stored /\ older[2] = x
      BY <1>0 DEF IndicesFit, ExecutionListsFit
    <2>2. /\ \/ other \in Checkpoints!Listed(executionCheckpoints[x])
             \/ x = e /\ other = id
          /\ other \notin gone
      BY <1>11
    <2> QED BY <1>4, <1>13, <2>1, <2>2
  <1>17. WorkflowListsFit'
    <2> SUFFICES ASSUME NEW v \in Ids \ collided'
                 PROVE  /\ Ordered(workflowCheckpoints'[v])
                        /\ \A other \in Checkpoints!Listed(workflowCheckpoints'[v]) :
                             other \in Checkpoints!Stored'
      BY DEF WorkflowListsFit
    <2>1. /\ Ordered(workflowCheckpoints[v])
          /\ \A other \in Checkpoints!Listed(workflowCheckpoints[v]) :
               other \in Checkpoints!Stored
      BY <1>0, <1>4 DEF IndicesFit, WorkflowListsFit
    <2>2. CASE v = w
      <3>1. Ordered(list) /\ Ordered(cut) BY <1>4, <1>6, <2>2
      <3>2. ASSUME NEW other \in Checkpoints!Listed(cut) PROVE other \in Checkpoints!Stored'
        <4>1. other \notin gone BY <1>9, <3>1, <3>2
        <4>2. other \in Checkpoints!Listed(workflowCheckpoints[w]) \/ other = id
          BY <1>5, <1>8, <3>2
        <4> QED BY <1>13, <2>1, <2>2, <4>1, <4>2
      <3> QED BY <1>12, <2>2, <3>1, <3>2
    <2>3. CASE v # w
      <3>1. \A other \in Checkpoints!Listed(workflowCheckpoints[v]) : other[1] = v
        BY <1>0 DEF IndicesFit, ListsAreOfWorkflow
      <3>2. \A other \in gone : other[1] = w BY <1>4, <1>8
      <3> QED BY <1>12, <1>13, <2>1, <2>3, <3>1, <3>2
    <2> QED BY <2>2, <2>3
  <1>18. ListsAreOfWorkflow'
    <2> SUFFICES ASSUME NEW v \in Ids, NEW other \in Checkpoints!Listed(workflowCheckpoints'[v])
                 PROVE  other[1] = v /\ other[3] <= now'
      BY DEF ListsAreOfWorkflow
    <2>1. CASE v = w BY <1>4, <1>8, <1>12, <2>1
    <2>2. CASE v # w BY <1>0, <1>2, <1>12, <2>2 DEF IndicesFit, ListsAreOfWorkflow
    <2> QED BY <2>1, <2>2
  <1>19. ASSUME w \notin collided', maxCheckpoints > 0 PROVE id \in Checkpoints!Stored'
    <2>1. list[Len(list)] = id /\ Len(list) >= 1
      BY <1>4, AppendProperties DEF list, CheckpointLists
    <2>2. Len(list) \in 1 .. Len(list) /\ Len(list) > Len(list) - maxCheckpoints
      BY <1>0, <1>7, <1>19, <2>1
    <2>3. id \in Checkpoints!Listed(cut) BY <1>6, <2>1, <2>2
    <2>4. id \notin gone BY <1>4, <1>9, <1>19, <2>3
    <2> QED BY <1>13, <2>4
  <1>20. ASSUME w \notin collided', NEW old \in gone,
                NEW kept \in Checkpoints!Stored', kept[1] = w
         PROVE  old[3] <= kept[3]
    <2>1. kept \in Checkpoints!Listed(workflowCheckpoints'[w])
      BY <1>15, <1>20 DEF StoredAreListed
    <2>2. kept \in Checkpoints!Listed(cut) BY <1>12, <2>1
    <2> QED BY <1>4, <1>9, <1>20, <2>2
  <1>21. ASSUME NEW old \in gone PROVE old[1] = w /\ Len(cut) = maxCheckpoints
    <2>1. maxCheckpoints < Len(list) BY <1>0, <1>7, <1>8, <1>21
    <2> QED BY <1>4, <1>6, <1>8, <1>21, <2>1
  <1>22. w \notin collided' => Checkpoints!KeepsNewest(w, e)
    <2>1. \A old \in (Checkpoints!Stored \cup {id}) \ Checkpoints!Stored' : old \in gone
      BY <1>13
    <2>2. id = <<w, e, now>> BY DEF id
    <2> QED BY <1>12, <1>19, <1>20, <1>21, <2>1, <2>2 DEF Checkpoints!KeepsNewest
  <1> QED BY <1>12, <1>14, <1>15, <1>16, <1>17, <1>18, <1>22
             DEF CheckpointsInv, IndicesFit

\* A step that changes entries but not which identifiers have one.
LEMMA SameIndices ==
  ASSUME CheckpointsInv, UNCHANGED Checkpoints!lists, collided' = collided,
         now' = now \/ now' = now + 1, Checkpoints!Stored' = Checkpoints!Stored
  PROVE  IndicesFit'
  <1>0. IndicesFit /\ now \in Nat
    BY CallersAssumption DEF CheckpointsInv, Checkpoints!TypeOK, Checkpoints!CallersTypeOK
  <1>1. workflowCheckpoints' = workflowCheckpoints
          /\ executionCheckpoints' = executionCheckpoints
    BY DEF Checkpoints!lists
  <1>2. StoredAreListed' BY <1>0, <1>1 DEF IndicesFit, StoredAreListed
  <1>3. ExecutionListsFit' BY <1>0, <1>1 DEF IndicesFit, ExecutionListsFit
  <1>4. WorkflowListsFit' BY <1>0, <1>1 DEF IndicesFit, WorkflowListsFit
  <1>5. ListsAreOfWorkflow'
    <2> SUFFICES ASSUME NEW w \in Ids, NEW id \in Checkpoints!Listed(workflowCheckpoints[w])
                 PROVE  id[1] = w /\ id[3] <= now'
      BY <1>1 DEF ListsAreOfWorkflow
    <2>1. id[1] = w /\ id[3] <= now BY <1>0 DEF IndicesFit, ListsAreOfWorkflow
    <2>2. id[3] \in Nat
      <3>1. workflowCheckpoints[w] \in CheckpointLists
        BY DEF CheckpointsInv, Checkpoints!TypeOK, CheckpointLists
      <3>2. id \in Checkpoints!CheckpointId BY <3>1, ListedIs
      <3> QED BY <3>2, CheckpointIds, CallersAssumption
    <2> QED BY <1>0, <2>1, <2>2
  <1> QED BY <1>2, <1>3, <1>4, <1>5 DEF IndicesFit

LEMMA SetEntryKeeps ==
  ASSUME CheckpointsInv, NEW id \in Checkpoints!Stored, NEW entry \in Checkpoints!Checkpoint,
         Checkpoints!SetEntry(id, entry)
  PROVE  CheckpointsInv' /\ Checkpoints!Stored' = Checkpoints!Stored
           /\ UNCHANGED Checkpoints!lists
  <1>0. /\ Checkpoints!TypeOK /\ id \in Checkpoints!CheckpointId /\ entry.status # "NONE"
        /\ checkpoints[id].status # "NONE"
    BY StoredIs DEF CheckpointsInv, Checkpoints!Checkpoint, Checkpoints!CheckpointStatus
  <1>1. /\ checkpoints' = [checkpoints EXCEPT ![id] = entry]
        /\ UNCHANGED <<Checkpoints!lists, Checkpoints!config, collided, now>>
        /\ Checkpoints!Called
    BY DEF Checkpoints!SetEntry, Checkpoints!Called
  <1>2. \A other \in Checkpoints!CheckpointId :
          checkpoints'[other].status # "NONE" <=> checkpoints[other].status # "NONE"
    <2>1. \A other \in Checkpoints!CheckpointId :
            checkpoints'[other] = IF other = id THEN entry ELSE checkpoints[other]
      BY <1>0, <1>1 DEF Checkpoints!TypeOK
    <2> QED BY <1>0, <2>1
  <1>3. Checkpoints!Stored' = Checkpoints!Stored BY <1>2 DEF Checkpoints!Stored
  <1>4. IndicesFit' BY <1>1, <1>3, SameIndices
  <1>5. Checkpoints!CallersTypeOK'
    BY <1>0, <1>1, ServicesAssumption
       DEF Checkpoints!Called, Checkpoints!TypeOK, Checkpoints!CallersTypeOK
  <1>6. Checkpoints!TypeOK'
    BY <1>0, <1>1, <1>5 DEF Checkpoints!TypeOK, Checkpoints!lists, Checkpoints!config
  <1> QED BY <1>1, <1>3, <1>4, <1>6 DEF CheckpointsInv

\* updateCheckpoint(), restoreCheckpoint() and restoreLatestCheckpoint().
LEMMA UsesKeepIndices ==
  ASSUME CheckpointsInv,
         \/ \E id \in Checkpoints!CheckpointId, validate \in BOOLEAN :
              Checkpoints!RestoreCheckpoint(id, validate)
         \/ \E id \in Checkpoints!CheckpointId : Checkpoints!UpdateCheckpoint(id)
         \/ \E w \in Ids, validate \in BOOLEAN :
              Checkpoints!RestoreLatestCheckpoint(w, validate)
  PROVE  CheckpointsInv' /\ Checkpoints!Stored' = Checkpoints!Stored
           /\ UNCHANGED Checkpoints!lists
  <1>0. \A id \in Checkpoints!Stored : checkpoints[id] \in Checkpoints!Checkpoint
    BY StoredIs DEF CheckpointsInv, Checkpoints!TypeOK, Checkpoints!NoCheckpoint
  <1>1. ASSUME NEW id, NEW validate, Checkpoints!RestoreCheckpoint(id, validate)
        PROVE  \E entry \in Checkpoints!Checkpoint :
                 id \in Checkpoints!Stored /\ Checkpoints!SetEntry(id, entry)
    <2>1. id \in Checkpoints!Stored BY <1>1 DEF Checkpoints!RestoreCheckpoint
    <2>2. [checkpoints[id] EXCEPT !.status = "RESTORED"] \in Checkpoints!Checkpoint
      BY <1>0, <2>1 DEF Checkpoints!Checkpoint, Checkpoints!CheckpointStatus
    <2> QED BY <1>1, <2>1, <2>2 DEF Checkpoints!RestoreCheckpoint
  <1>2. ASSUME NEW id \in Checkpoints!CheckpointId, Checkpoints!UpdateCheckpoint(id)
        PROVE  \E entry \in Checkpoints!Checkpoint :
                 id \in Checkpoints!Stored /\ Checkpoints!SetEntry(id, entry)
    <2>1. id \in Checkpoints!Stored
      BY <1>2, StoredIs DEF Checkpoints!UpdateCheckpoint, Checkpoints!Valid
    <2>2. [checkpoints[id] EXCEPT !.version = @ + 1] \in Checkpoints!Checkpoint
      BY <1>0, <2>1 DEF Checkpoints!Checkpoint
    <2> QED BY <1>2, <2>1, <2>2 DEF Checkpoints!UpdateCheckpoint
  <1>3. \E id \in Checkpoints!Stored, entry \in Checkpoints!Checkpoint :
          Checkpoints!SetEntry(id, entry)
    BY <1>1, <1>2 DEF Checkpoints!RestoreLatestCheckpoint
  <1> QED BY <1>3, SetEntryKeeps

\* deleteCheckpoint(), deleteCheckpointsByWorkflow() and cleanupExpiredCheckpoints().
LEMMA RemovalsKeepIndices ==
  ASSUME CheckpointsInv,
         \/ \E id \in Checkpoints!CheckpointId : Checkpoints!DeleteCheckpoint(id)
         \/ \E w \in Ids : Checkpoints!DeleteCheckpointsByWorkflow(w)
         \/ Checkpoints!CleanupExpiredCheckpoints
  PROVE  CheckpointsInv' /\ \A id \in Checkpoints!Stored' : id \in Checkpoints!Stored
  <1>0. Checkpoints!TypeOK BY DEF CheckpointsInv
  <1>1. \E gone : /\ Checkpoints!Erase(gone) /\ collided' \subseteq Ids
                  /\ \A w \in Ids \ collided' :
                       \/ w \notin collided
                       \/ Checkpoints!Listed(workflowCheckpoints[w]) \subseteq gone
    BY <1>0 DEF Checkpoints!TypeOK, Checkpoints!DeleteCheckpoint,
                Checkpoints!DeleteCheckpointsByWorkflow, Checkpoints!CleanupExpiredCheckpoints
  <1>2. /\ Checkpoints!Called /\ UNCHANGED Checkpoints!config
    BY DEF Checkpoints!DeleteCheckpoint, Checkpoints!DeleteCheckpointsByWorkflow,
           Checkpoints!CleanupExpiredCheckpoints
  <1>3. now' = now /\ Checkpoints!CallersTypeOK'
    BY <1>0, <1>2, ServicesAssumption
       DEF Checkpoints!Called, Checkpoints!TypeOK, Checkpoints!CallersTypeOK
  <1>4. /\ IndicesFit' /\ collided' \subseteq Ids
        /\ checkpoints' \in [Checkpoints!CheckpointId ->
                               Checkpoints!Checkpoint \cup {Checkpoints!NoCheckpoint}]
        /\ workflowCheckpoints' \in [Ids -> CheckpointLists]
        /\ executionCheckpoints' \in [Ids -> CheckpointLists]
        /\ \A id \in Checkpoints!Stored' : id \in Checkpoints!Stored
    BY <1>1, <1>3, EraseKeepsIndices
  <1>5. Checkpoints!TypeOK'
    BY <1>0, <1>2, <1>3, <1>4 DEF Checkpoints!TypeOK, Checkpoints!config, CheckpointLists
  <1> QED BY <1>4, <1>5 DEF CheckpointsInv

\* setConfig(), and time that passes.
LEMMA OthersKeepIndices ==
  ASSUME CheckpointsInv,
         \/ \E limit, expiration \in Limits : Checkpoints!SetConfig(limit, expiration)
         \/ Checkpoints!Tick \/ UNCHANGED Checkpoints!vars
  PROVE  CheckpointsInv' /\ UNCHANGED <<checkpoints, Checkpoints!lists>>
  <1>0. Checkpoints!TypeOK BY DEF CheckpointsInv
  <1>1. /\ UNCHANGED <<checkpoints, Checkpoints!lists, collided>>
        /\ maxCheckpoints' \in Limits /\ expirationMs' \in Limits
        /\ now' = now \/ now' = now + 1
        /\ Checkpoints!CallersTypeOK'
    BY <1>0, CallersAssumption, ServicesAssumption
       DEF Checkpoints!SetConfig, Checkpoints!Called, Checkpoints!Tick, Checkpoints!Elapse,
           Checkpoints!config, Checkpoints!vars, Checkpoints!own, Checkpoints!lists,
           Checkpoints!TypeOK, Checkpoints!CallersTypeOK
  <1>2. Checkpoints!Stored' = Checkpoints!Stored BY <1>1 DEF Checkpoints!Stored
  <1>3. IndicesFit' BY <1>1, <1>2, SameIndices
  <1>4. Checkpoints!TypeOK' BY <1>0, <1>1 DEF Checkpoints!TypeOK, Checkpoints!lists
  <1> QED BY <1>1, <1>3, <1>4 DEF CheckpointsInv

LEMMA CheckpointsStep ==
  CheckpointsInv /\ [Checkpoints!Next]_(Checkpoints!vars) => CheckpointsInv'
  BY CreateKeepsIndices, ImportKeepsIndices, UsesKeepIndices, RemovalsKeepIndices,
     OthersKeepIndices
     DEF Checkpoints!Next

-----------------------------------------------------------------------------
(* Checkpoints: what a limit may cost.                                     *)

LEMMA CheckpointsKeepNewest == CheckpointsInv => Checkpoints!OldestGo
  BY CreateKeepsIndices DEF Checkpoints!OldestGo

\* The table of checkpoints and the lists of workflows and executions name the same
\* checkpoints, in the order of creation, as long as no identifier was given twice.
THEOREM CheckpointsStayListed == Checkpoints!Spec => []Checkpoints!CheckpointsListed
  BY CheckpointsInit, CheckpointsStep, CheckpointsListedHold, PTL DEF Checkpoints!Spec

-----------------------------------------------------------------------------
(* The alerts: the history is the end of what was raised.                  *)

\* That a history agrees with the alerts raised.
AlertsAgree(raised, copies) ==
  LET size == IF Len(raised) < MaxHistory THEN Len(raised) ELSE MaxHistory
  IN  /\ Len(copies) = size
      /\ \A i \in 1 .. Len(copies) :
           /\ copies[i].alert = Len(raised) - size + i
           /\ copies[i].resolved = raised[copies[i].alert].resolved

\* The logs that agree.
AlertsLogs ==
  {book \in Seq(Alerts!AlertRecord) \X Seq(Alerts!HistoryRecord) :
     AlertsAgree(book[1], book[2])}

AlertsInv == Alerts!TypeOK /\ AlertsAgree(activeAlerts, history)

LEMMA AlertsInit == Alerts!Init => AlertsInv
  <1> SUFFICES ASSUME Alerts!Init PROVE AlertsInv
    OBVIOUS
  <1>1. activeAlerts = <<>> /\ history = <<>>
    BY DEF Alerts!Init
  <1>2. Len(activeAlerts) = 0 /\ Len(history) = 0 BY <1>1
  <1>3. AlertsAgree(activeAlerts, history)
    BY <1>2, ServicesAssumption DEF AlertsAgree
  <1>4. Alerts!TypeOK
    BY CallersAssumption
    DEF Alerts!Init, Alerts!CallersInit, Alerts!TypeOK, Alerts!CallersTypeOK
  <1> QED BY <1>3, <1>4 DEF AlertsInv

\* Raising an alert keeps the log in agreement: the copies move down by one when the
\* oldest goes.
LEMMA AlertsRaiseAgrees ==
  ASSUME now \in 1 .. MaxTime, NEW book \in AlertsLogs,
         NEW type \in Alerts!AlertType, NEW workflow \in FewIds
  PROVE  Alerts!Raise(book, type, workflow) \in AlertsLogs
  <1> DEFINE old == book[1]
             kept == book[2]
             alert == [type |-> type, workflowName |-> workflow, triggeredAt |-> now,
                       resolved |-> FALSE]
             copy == [alert |-> Len(old) + 1, resolved |-> FALSE]
             raised == Append(old, alert)
             copies == Append(kept, copy)
             first == IF Len(copies) > MaxHistory THEN Len(copies) - MaxHistory + 1 ELSE 1
             last == SubSeq(copies, first, Len(copies))
  <1>1. /\ old \in Seq(Alerts!AlertRecord) /\ kept \in Seq(Alerts!HistoryRecord)
        /\ AlertsAgree(old, kept)
    BY DEF AlertsLogs
  <1>2. Len(old) \in Nat /\ Len(kept) \in Nat /\ MaxHistory \in Nat
    BY <1>1, LenProperties, ServicesAssumption
  <1>3. alert \in Alerts!AlertRecord BY DEF Alerts!AlertRecord
  <1>4. copy \in Alerts!HistoryRecord BY <1>2 DEF Alerts!HistoryRecord
  <1> HIDE DEF alert, copy
  <1>5. /\ raised \in Seq(Alerts!AlertRecord) /\ Len(raised) = Len(old) + 1
        /\ \A i \in 1 .. Len(old) : raised[i] = old[i]
        /\ raised[Len(old) + 1] = alert
    <2> HIDE DEF old
    <2> QED BY <1>1, <1>3, AppendProperties
  <1>6. /\ copies \in Seq(Alerts!HistoryRecord) /\ Len(copies) = Len(kept) + 1
        /\ \A i \in 1 .. Len(kept) : copies[i] = kept[i]
        /\ copies[Len(kept) + 1] = copy
    <2> HIDE DEF kept
    <2> QED BY <1>1, <1>4, AppendProperties
  <1> HIDE DEF raised, copies, old, kept
  <1>7. first \in 1 .. Len(copies) + 1 BY <1>2, <1>6
  <1>8. /\ last \in Seq(Alerts!HistoryRecord)
        /\ Len(last) = Len(copies) - first + 1
        /\ \A i \in 1 .. Len(last) : last[i] = copies[first + i - 1]
    <2> HIDE DEF first
    <2>1. first \in 1 .. Len(copies) + 1 /\ Len(copies) \in Nat BY <1>2, <1>6, <1>7
    <2>2. CASE first <= Len(copies)
      <3>1. /\ last \in Seq(Alerts!HistoryRecord)
            /\ Len(last) = Len(copies) - first + 1
            /\ \A i \in 1 .. Len(copies) - first + 1 : last[i] = copies[first + i - 1]
        BY <1>6, <2>1, <2>2, SubSeqProperties
      <3> QED BY <3>1
    <2>3. CASE first > Len(copies)
      <3>1. last = <<>> BY <1>6, <2>1, <2>3, SubSeqProperties
      <3>2. Len(copies) - first + 1 = 0 BY <2>1, <2>3
      <3> QED BY <3>1, <3>2
    <2> QED BY <2>1, <2>2, <2>3
  <1> HIDE DEF last
  <1> DEFINE before == IF Len(old) < MaxHistory THEN Len(old) ELSE MaxHistory
             after == IF Len(raised) < MaxHistory THEN Len(raised) ELSE MaxHistory
  <1>9. /\ before \in Nat /\ Len(kept) = before
        /\ \A i \in 1 .. Len(kept) : /\ kept[i].alert = Len(old) - before + i
                                     /\ kept[i].resolved = old[kept[i].alert].resolved
    BY <1>1, <1>2 DEF AlertsAgree
  <1>10. after \in Nat /\ Len(last) = after /\ Len(copies) - after = first - 1
    <2>1. Len(copies) = before + 1 /\ Len(raised) = Len(old) + 1 BY <1>5, <1>6, <1>9
    <2>2. CASE Len(old) < MaxHistory
      <3>1. before = Len(old) /\ first = 1 /\ after = Len(old) + 1
        BY <1>2, <2>1, <2>2
      <3> HIDE DEF first, before, after
      <3> QED BY <1>2, <1>8, <2>1, <3>1
    <2>3. CASE ~(Len(old) < MaxHistory)
      <3>1. before = MaxHistory /\ first = 2 /\ after = MaxHistory
        BY <1>2, <2>1, <2>3
      <3> HIDE DEF first, before, after
      <3> QED BY <1>2, <1>8, <2>1, <3>1
    <2> QED BY <2>2, <2>3
  <1>11. ASSUME NEW i \in 1 .. Len(last)
         PROVE  /\ last[i].alert = Len(raised) - after + i
                /\ last[i].resolved = raised[last[i].alert].resolved
    <2> DEFINE j == first + i - 1
    <2>1. j \in 1 .. Len(copies) /\ last[i] = copies[j] BY <1>2, <1>6, <1>7, <1>8, <1>10, <1>11
    <2>2. Len(old) - before + j = Len(raised) - after + i
      <3>1. Len(copies) = before + 1 /\ Len(raised) = Len(old) + 1 BY <1>5, <1>6, <1>9
      <3>2. i \in Int BY <1>10, <1>11
      <3> HIDE DEF first, before, after
      <3>3. first \in Int /\ Len(copies) - after = first - 1 BY <1>2, <1>6, <1>7, <1>10
      <3>4. before \in Int /\ after \in Int /\ Len(old) \in Int BY <1>2, <1>9, <1>10
      <3>5. Len(copies) \in Int BY <3>1, <3>4
      <3> QED BY <3>1, <3>2, <3>3, <3>4, <3>5
    <2> HIDE DEF j, first, before, after
    <2>3. CASE j = Len(kept) + 1
      <3>1. last[i] = copy BY <1>6, <2>1, <2>3
      <3>2. last[i].alert = Len(old) + 1 /\ last[i].resolved = FALSE BY <3>1 DEF copy
      <3>3. raised[last[i].alert].resolved = FALSE BY <1>5, <3>2 DEF alert
      <3>4. Len(old) + 1 = Len(raised) - after + i
        BY <1>2, <1>9, <2>2, <2>3
      <3> QED BY <3>2, <3>3, <3>4
    <2>4. CASE j # Len(kept) + 1
      <3>1. j \in 1 .. Len(kept) BY <1>2, <1>6, <2>1, <2>4
      <3>2. last[i] = kept[j] BY <1>6, <2>1, <3>1
      <3>3. kept[j].alert = Len(old) - before + j BY <1>9, <3>1
      <3>4. kept[j].alert \in 1 .. Len(old)
        <4>1. before <= Len(old) BY <1>2 DEF before
        <4> QED BY <1>2, <1>9, <3>1, <3>3, <4>1
      <3>5. raised[kept[j].alert] = old[kept[j].alert] BY <1>5, <3>4
      <3> QED BY <1>9, <2>2, <3>1, <3>2, <3>3, <3>5
    <2> QED BY <2>3, <2>4
  <1> HIDE DEF first, last
  <1>12. AlertsAgree(raised, last)
    BY <1>10, <1>11 DEF AlertsAgree
  <1>13. Alerts!Raise(book, type, workflow) = <<raised, last>>
    BY DEF Alerts!Raise, raised, last, first, copies, alert, copy, old, kept
  <1> QED BY <1>5, <1>8, <1>12, <1>13 DEF AlertsLogs

\* The rules, one after the other, keep the log in agreement.
LEMMA AlertsRaisedAgrees ==
  ASSUME now \in 1 .. MaxTime, <<activeAlerts, history>> \in AlertsLogs,
         NEW type \in Alerts!AlertType, NEW workflow \in FewIds,
         NEW order, Len(order) \in Nat
  PROVE  Alerts!Raised(order, type, workflow) \in AlertsLogs
  <1> DEFINE n == Len(order)
             start == <<activeAlerts, history>>
             fires(i, book) == Alerts!Count(rules[order[i]], book) >= rules[order[i]].threshold
             body(f) == [i \in 0 .. n |->
                           IF i = 0 THEN start
                           ELSE IF fires(i, f[i - 1])
                           THEN Alerts!Raise(f[i - 1], type, workflow)
                           ELSE f[i - 1]]
             next == [p \in (1 .. n) \X AlertsLogs |->
                        IF fires(p[1], p[2]) THEN Alerts!Raise(p[2], type, workflow)
                        ELSE p[2]]
             after == CHOOSE f : f = body(f)
  <1>1. next \in [(1 .. n) \X AlertsLogs -> AlertsLogs]
    <2> HIDE DEF fires, n
    <2>1. \A p \in (1 .. n) \X AlertsLogs : Alerts!Raise(p[2], type, workflow) \in AlertsLogs
      BY AlertsRaiseAgrees
    <2> QED BY <2>1
  <1>2. \A i \in 1 .. n, book \in AlertsLogs :
          next[<<i, book>>] =
            IF fires(i, book) THEN Alerts!Raise(book, type, workflow) ELSE book
    <2> HIDE DEF fires, n
    <2> QED OBVIOUS
  <1>3. Alerts!Raised(order, type, workflow) = after[n]
    BY DEF Alerts!Raised
  <1> HIDE DEF next, fires, n
  <1>0. n \in Nat BY DEF n
  <1>4. PICK f \in [0 .. n -> AlertsLogs] :
          f[0] = start /\ \A i \in 1 .. n : f[i] = next[<<i, f[i - 1]>>]
    <2>1. Walks(AlertsLogs, n, start, next) # {} BY <1>0, <1>1, StepByStep
    <2> QED BY <2>1 DEF Walks
  <1> HIDE DEF start
  <1>5. f = body(f)
    <2>1. \A i \in 0 .. n : i # 0 => i \in 1 .. n /\ i - 1 \in 0 .. n BY <1>0
    <2>2. \A i \in 0 .. n : i # 0 => f[i - 1] \in AlertsLogs BY <1>4, <2>1
    <2>3. \A i \in 0 .. n :
            f[i] = IF i = 0 THEN start
                   ELSE IF fires(i, f[i - 1]) THEN Alerts!Raise(f[i - 1], type, workflow)
                   ELSE f[i - 1]
      BY <1>2, <1>4, <2>1, <2>2
    <2> QED BY <2>3
  <1>6. after = body(after) BY <1>5
  <1> HIDE DEF after
  <1>7. /\ after[0] = start
        /\ \A i \in 1 .. n :
             after[i] = IF fires(i, after[i - 1])
                        THEN Alerts!Raise(after[i - 1], type, workflow) ELSE after[i - 1]
    <2>1. 0 \in 0 .. n /\ \A i \in 1 .. n : i \in 0 .. n /\ i # 0 BY <1>0
    <2> QED BY <1>6, <2>1
  <1> DEFINE good == {j \in 0 .. n : after[j] \in AlertsLogs}
  <1>8. 0 \in good
    <2>1. 0 \in 0 .. n /\ start \in AlertsLogs BY <1>0 DEF start
    <2> QED BY <1>7, <2>1
  <1>9. ASSUME NEW i \in 1 .. n, i - 1 \in good PROVE i \in good
    <2>1. after[i - 1] \in AlertsLogs BY <1>9
    <2>2. Alerts!Raise(after[i - 1], type, workflow) \in AlertsLogs
      BY <2>1, AlertsRaiseAgrees
    <2>3. after[i] \in AlertsLogs BY <1>7, <1>9, <2>1, <2>2
    <2>4. i \in 0 .. n BY <1>0
    <2> QED BY <2>3, <2>4
  <1>10. n \in good
    <2>1. n \in 0 .. n BY <1>0
    <2> HIDE DEF good
    <2> QED BY <1>0, <1>8, <1>9, <2>1, Upwards
  <1> QED BY <1>3, <1>10

LEMMA AlertsTriggerAgrees ==
  ASSUME AlertsInv, NEW type \in Alerts!AlertType, NEW workflow \in FewIds,
         Alerts!TriggerAlert(type, workflow)
  PROVE  <<activeAlerts', history'>> \in AlertsLogs
  <1>1. now \in 1 .. MaxTime /\ <<activeAlerts, history>> \in AlertsLogs
    BY DEF AlertsInv, AlertsLogs, Alerts!TypeOK, Alerts!CallersTypeOK
  <1>2. PICK order \in Alerts!Traversals(type, workflow) :
          LET book == IF order = <<>>
                     THEN Alerts!Raise(<<activeAlerts, history>>, type, workflow)
                     ELSE Alerts!Raised(order, type, workflow)
          IN  activeAlerts' = book[1] /\ history' = book[2]
    BY DEF Alerts!TriggerAlert
  <1>3. Len(order) \in Nat
    <2> DEFINE matching == {r \in FewIds : Alerts!Matches(r, type, workflow)}
    <2>1. IsFiniteSet(matching) BY ServicesAssumption, FS_Subset
    <2>2. Cardinality(matching) \in Nat BY <2>1, FS_CardinalityType
    <2>3. order \in [1 .. Cardinality(matching) -> matching]
      BY DEF Alerts!Traversals, Alerts!Cardinality, Cardinality
    <2> HIDE DEF matching
    <2>4. order \in Seq(matching) BY <2>2, <2>3
    <2> QED BY <2>4, LenProperties
  <1>4. Alerts!Raise(<<activeAlerts, history>>, type, workflow) \in AlertsLogs
    BY <1>1, AlertsRaiseAgrees
  <1>5. Alerts!Raised(order, type, workflow) \in AlertsLogs
    BY <1>1, <1>3, AlertsRaisedAgrees
  <1>6. \A book \in AlertsLogs : <<book[1], book[2]>> = book
    BY DEF AlertsLogs
  <1> QED BY <1>2, <1>4, <1>5, <1>6

LEMMA AlertsResolveAgrees ==
  ASSUME AlertsInv, NEW a \in 1 .. Len(activeAlerts), Alerts!ResolveAlert(a)
  PROVE  <<activeAlerts', history'>> \in AlertsLogs
  <1>1. /\ activeAlerts \in Seq(Alerts!AlertRecord) /\ history \in Seq(Alerts!HistoryRecord)
        /\ AlertsAgree(activeAlerts, history)
    BY DEF AlertsInv, Alerts!TypeOK
  <1>2. /\ activeAlerts' = [activeAlerts EXCEPT ![a].resolved = TRUE]
        /\ history' = [i \in DOMAIN history |->
             IF history[i].alert = a THEN [history[i] EXCEPT !.resolved = TRUE]
             ELSE history[i]]
    BY DEF Alerts!ResolveAlert
  <1>3. \A record \in Alerts!AlertRecord :
          [record EXCEPT !.resolved = TRUE] \in Alerts!AlertRecord
    BY DEF Alerts!AlertRecord
  <1>4. \A record \in Alerts!HistoryRecord :
          [record EXCEPT !.resolved = TRUE] \in Alerts!HistoryRecord
    BY DEF Alerts!HistoryRecord
  <1>5. /\ activeAlerts' \in Seq(Alerts!AlertRecord)
        /\ Len(activeAlerts') = Len(activeAlerts)
        /\ \A i \in 1 .. Len(activeAlerts) : i # a => activeAlerts'[i] = activeAlerts[i]
        /\ activeAlerts'[a] = [activeAlerts[a] EXCEPT !.resolved = TRUE]
    <2>1. activeAlerts[a] \in Alerts!AlertRecord BY <1>1, ElementOfSeq
    <2>2. [activeAlerts[a] EXCEPT !.resolved = TRUE] \in Alerts!AlertRecord BY <1>3, <2>1
    <2>3. activeAlerts' = [activeAlerts EXCEPT ![a] = [@ EXCEPT !.resolved = TRUE]]
      BY <1>2
    <2>4. a \in 1 .. Len(activeAlerts) OBVIOUS
    <2> DEFINE resolved == [activeAlerts[a] EXCEPT !.resolved = TRUE]
    <2>5. activeAlerts' = [activeAlerts EXCEPT ![a] = resolved] BY <2>3
    <2>6. resolved \in Alerts!AlertRecord BY <2>2
    <2> HIDE DEF resolved
    <2>7. /\ activeAlerts' \in Seq(Alerts!AlertRecord)
          /\ Len(activeAlerts') = Len(activeAlerts)
          /\ \A i \in 1 .. Len(activeAlerts) :
               activeAlerts'[i] = IF i = a THEN resolved ELSE activeAlerts[i]
      BY <1>1, <2>4, <2>5, <2>6, ExceptSeq
    <2>8. \A i \in 1 .. Len(activeAlerts) : i # a => activeAlerts'[i] = activeAlerts[i]
      BY <2>7
    <2>9. activeAlerts'[a] = resolved BY <2>4, <2>7
    <2> QED BY <2>7, <2>8, <2>9 DEF resolved
  <1>6. /\ history' \in Seq(Alerts!HistoryRecord)
        /\ Len(history') = Len(history)
        /\ \A i \in 1 .. Len(history) :
             history'[i] = IF history[i].alert = a THEN [history[i] EXCEPT !.resolved = TRUE]
                           ELSE history[i]
    <2>1. DOMAIN history = 1 .. Len(history) /\ Len(history) \in Nat
      BY <1>1, LenProperties
    <2>2. \A i \in 1 .. Len(history) : history[i] \in Alerts!HistoryRecord
      BY <1>1, ElementOfSeq
    <2>3. \A i \in 1 .. Len(history) : history'[i] \in Alerts!HistoryRecord
      BY <1>2, <1>4, <2>1, <2>2
    <2>4. history' \in [1 .. Len(history) -> Alerts!HistoryRecord]
      BY <1>2, <2>1, <2>3
    <2>5. history' \in Seq(Alerts!HistoryRecord) BY <2>1, <2>4
    <2>6. Len(history') = Len(history) BY <2>1, <2>4, <2>5, LenProperties
    <2> QED BY <1>2, <2>1, <2>5, <2>6
  <1> DEFINE size == IF Len(activeAlerts) < MaxHistory THEN Len(activeAlerts) ELSE MaxHistory
  <1>7. /\ Len(history) = size /\ size \in Nat /\ size <= Len(activeAlerts)
        /\ Len(activeAlerts) \in Nat
        /\ \A i \in 1 .. Len(history) :
             /\ history[i].alert = Len(activeAlerts) - size + i
             /\ history[i].resolved = activeAlerts[history[i].alert].resolved
    <2>1. Len(activeAlerts) \in Nat /\ MaxHistory \in Nat
      BY <1>1, LenProperties, ServicesAssumption
    <2>2. size \in Nat /\ size <= Len(activeAlerts) BY <2>1
    <2> QED BY <1>1, <2>1, <2>2 DEF AlertsAgree
  <1>8. ASSUME NEW i \in 1 .. Len(history)
        PROVE  /\ history'[i].alert = history[i].alert
               /\ history'[i].resolved = activeAlerts'[history[i].alert].resolved
    <2>1. history[i] \in Alerts!HistoryRecord BY <1>1, ElementOfSeq
    <2>2. history[i].alert \in 1 .. Len(activeAlerts) BY <1>7
    <2>3. CASE history[i].alert = a
      <3>1. history'[i] = [history[i] EXCEPT !.resolved = TRUE] BY <1>6, <2>3
      <3>2. activeAlerts[a] \in Alerts!AlertRecord BY <1>1, ElementOfSeq
      <3> QED BY <1>5, <2>1, <2>3, <3>1, <3>2 DEF Alerts!HistoryRecord, Alerts!AlertRecord
    <2>4. CASE history[i].alert # a
      BY <1>5, <1>6, <1>7, <2>2, <2>4
    <2> QED BY <2>3, <2>4
  <1>9. AlertsAgree(activeAlerts', history')
    BY <1>5, <1>6, <1>7, <1>8 DEF AlertsAgree
  <1> QED BY <1>5, <1>6, <1>9 DEF AlertsLogs

LEMMA AlertsStep == AlertsInv /\ [Alerts!Next]_(Alerts!vars) => AlertsInv'
  <1> SUFFICES ASSUME AlertsInv, [Alerts!Next]_(Alerts!vars) PROVE AlertsInv'
    OBVIOUS
  <1>1. ASSUME Alerts!Called PROVE Alerts!CallersTypeOK'
    BY <1>1, CallersAssumption
    DEF AlertsInv, Alerts!TypeOK, Alerts!Called, Alerts!CallersTypeOK
  <1>2. ASSUME <<activeAlerts', history'>> \in AlertsLogs, Alerts!Called, UNCHANGED rules
        PROVE  AlertsInv'
    <2>1. /\ activeAlerts' \in Seq(Alerts!AlertRecord)
          /\ history' \in Seq(Alerts!HistoryRecord)
          /\ AlertsAgree(activeAlerts', history')
      BY <1>2 DEF AlertsLogs
    <2> QED BY <1>1, <1>2, <2>1 DEF AlertsInv, AlertsAgree, Alerts!TypeOK
  <1>3. ASSUME NEW r \in FewIds, NEW rule \in Alerts!Rule \cup {Alerts!NoRule},
               Alerts!SetAlertRule(r, rule)
        PROVE  AlertsInv'
    <2>1. Alerts!Called /\ UNCHANGED <<activeAlerts, history>>
          /\ rules' = [rules EXCEPT ![r] = rule]
      BY <1>3 DEF Alerts!SetAlertRule
    <2>2. rules' \in [FewIds -> Alerts!Rule \cup {Alerts!NoRule}]
      BY <2>1 DEF AlertsInv, Alerts!TypeOK
    <2> QED BY <1>1, <2>1, <2>2 DEF AlertsInv, AlertsAgree, Alerts!TypeOK
  <1>4. ASSUME NEW r \in FewIds, Alerts!RemoveAlertRule(r) PROVE AlertsInv'
    BY <1>3, <1>4 DEF Alerts!RemoveAlertRule
  <1>5. ASSUME NEW r \in FewIds, NEW enabled \in BOOLEAN, Alerts!EnableAlertRule(r, enabled)
        PROVE  AlertsInv'
    <2>1. rules[r] \in Alerts!Rule
      BY <1>5 DEF AlertsInv, Alerts!TypeOK, Alerts!EnableAlertRule
    <2>2. [rules[r] EXCEPT !.enabled = enabled] \in Alerts!Rule
      BY <2>1 DEF Alerts!Rule
    <2> QED BY <1>3, <1>5, <2>2 DEF Alerts!EnableAlertRule
  <1>6. ASSUME NEW type \in Alerts!AlertType, NEW workflow \in FewIds,
               Alerts!TriggerAlert(type, workflow)
        PROVE  AlertsInv'
    BY <1>2, <1>6, AlertsTriggerAgrees DEF Alerts!TriggerAlert
  <1>7. ASSUME NEW a \in 1 .. Len(activeAlerts), Alerts!ResolveAlert(a) PROVE AlertsInv'
    BY <1>2, <1>7, AlertsResolveAgrees DEF Alerts!ResolveAlert
  <1>8. CASE Alerts!Tick
    BY <1>8, CallersAssumption
    DEF AlertsInv, AlertsAgree, Alerts!TypeOK, Alerts!CallersTypeOK, Alerts!Tick, Alerts!Elapse
  <1>9. CASE UNCHANGED Alerts!vars
    BY <1>9
    DEF AlertsInv, AlertsAgree, Alerts!TypeOK, Alerts!CallersTypeOK, Alerts!vars, Alerts!own
  <1> QED BY <1>3, <1>4, <1>5, <1>6, <1>7, <1>8, <1>9 DEF Alerts!Next

LEMMA AlertsHistoryAgrees == AlertsInv => Alerts!HistoryAgrees
  <1> SUFFICES ASSUME AlertsInv PROVE Alerts!HistoryAgrees
    OBVIOUS
  <1> DEFINE size == IF Len(activeAlerts) < MaxHistory THEN Len(activeAlerts) ELSE MaxHistory
  <1>1. /\ activeAlerts \in Seq(Alerts!AlertRecord) /\ Len(activeAlerts) \in Nat
        /\ DOMAIN activeAlerts = 1 .. Len(activeAlerts)
        /\ history \in Seq(Alerts!HistoryRecord)
    BY LenProperties DEF AlertsInv, Alerts!TypeOK
  <1>2. /\ Len(history) = size /\ size <= Len(activeAlerts) /\ size \in Nat
        /\ \A i \in 1 .. Len(history) :
             /\ history[i].alert = Len(activeAlerts) - size + i
             /\ history[i].resolved = activeAlerts[history[i].alert].resolved
    <2>1. MaxHistory \in Nat BY ServicesAssumption
    <2>2. size \in Nat /\ size <= Len(activeAlerts) BY <1>1, <2>1
    <2> QED BY <2>2 DEF AlertsInv, AlertsAgree
  <1>3. ASSUME NEW i \in 1 .. Len(history)
        PROVE  history[i].resolved <=> history[i].alert \notin Alerts!GetActiveAlerts
    <2>1. history[i].alert \in DOMAIN activeAlerts BY <1>1, <1>2
    <2>2. history[i].resolved \in BOOLEAN
      <3>1. history[i] \in Alerts!HistoryRecord BY <1>1, ElementOfSeq
      <3> QED BY <3>1 DEF Alerts!HistoryRecord
    <2>3. activeAlerts[history[i].alert].resolved = history[i].resolved BY <1>2
    <2> QED BY <2>1, <2>2, <2>3 DEF Alerts!GetActiveAlerts
  <1> QED BY <1>2, <1>3 DEF Alerts!HistoryAgrees

\* The history of the alerts is what was raised last, as much as it may hold, and agrees
\* with the table of alerts on which of them are resolved.
THEOREM HistoryIsTheEnd == Alerts!Spec => []Alerts!HistoryAgrees
  <1>1. Alerts!Init => AlertsInv BY AlertsInit
  <1>2. AlertsInv /\ [Alerts!Next]_(Alerts!vars) => AlertsInv' BY AlertsStep
  <1>3. AlertsInv => Alerts!HistoryAgrees BY AlertsHistoryAgrees
  <1> QED BY <1>1, <1>2, <1>3, PTL DEF Alerts!Spec

-----------------------------------------------------------------------------
(* The database: what a save acknowledged stays found, and the counts.     *)

\* No row of a file ends in the future.
DatabaseEnds(file) ==
  \A k \in 1 .. Len(file) : \A id \in Ids : file[k].workflows[id].endTime <= now

DatabaseKeeps ==
  \A id \in Ids :
    acknowledged[id] # Database!NoRow => Database!tables.workflows[id] = acknowledged[id]

DatabaseInv == Database!TypeOK /\ DatabaseEnds(log) /\ DatabaseKeeps

DatabaseRow == Database!Row \cup {Database!NoRow}

LEMMA DatabaseRowEnds ==
  ASSUME NEW row \in DatabaseRow
  PROVE  /\ row.endTime \in Nat
         /\ row # Database!NoRow => row.endTime >= 1 /\ row.success \in BOOLEAN
  BY ServicesAssumption DEF DatabaseRow, Database!Row, Database!NoRow

LEMMA DatabaseTables ==
  ASSUME Database!TypeOK
  PROVE  /\ Len(log) \in Nat /\ Len(log) >= 1 /\ DOMAIN log = 1 .. Len(log)
         /\ Database!tables \in Database!Tables
         /\ Database!tables.workflows \in [Ids -> DatabaseRow]
  <1>1. log \in Seq(Database!Tables) /\ log # <<>> BY DEF Database!TypeOK
  <1>2. Len(log) \in Nat /\ DOMAIN log = 1 .. Len(log) BY <1>1, LenProperties
  <1>3. Len(log) # 0 BY <1>1, EmptySeq
  <1>4. Len(log) \in 1 .. Len(log) BY <1>2, <1>3
  <1>5. Database!tables \in Database!Tables
    BY <1>1, <1>4, ElementOfSeq DEF Database!tables
  <1>6. \A entry \in Database!Tables : entry.workflows \in [Ids -> DatabaseRow]
    BY DEF Database!Tables, DatabaseRow
  <1> QED BY <1>2, <1>3, <1>5, <1>6

LEMMA DatabaseInit == Database!Init => DatabaseInv
  <1> SUFFICES ASSUME Database!Init PROVE DatabaseInv
    OBVIOUS
  <1>1. log = <<Database!NoTables>> BY DEF Database!Init
  <1>2. Len(log) = 1 /\ log[1] = Database!NoTables BY <1>1
  <1>3. Database!NoTables \in Database!Tables
    BY DEF Database!NoTables, Database!Tables
  <1>4. log \in Seq(Database!Tables) /\ log # <<>> BY <1>1, <1>3
  <1>5. Database!TypeOK
    BY <1>4, CallersAssumption, ServicesAssumption
    DEF Database!Init, Database!CallersInit, Database!TypeOK, Database!CallersTypeOK
  <1>6. DatabaseEnds(log)
    BY <1>2 DEF DatabaseEnds, Database!NoTables, Database!NoRow, Database!Init,
                Database!CallersInit
  <1>7. DatabaseKeeps BY DEF DatabaseKeeps, Database!Init
  <1> QED BY <1>5, <1>6, <1>7 DEF DatabaseInv

\* A commit adds the new tables at the end of the log.
LEMMA DatabaseCommits ==
  ASSUME DatabaseInv, NEW new \in Database!Tables,
         \A id \in Ids : new.workflows[id].endTime <= now,
         log' = Append(log, new), UNCHANGED now
  PROVE  /\ log' \in Seq(Database!Tables) /\ log' # <<>>
         /\ Database!tables' = new
         /\ DatabaseEnds(log)'
  <1>1. log \in Seq(Database!Tables) /\ Len(log) \in Nat
    BY LenProperties DEF DatabaseInv, Database!TypeOK
  <1>2. /\ log' \in Seq(Database!Tables) /\ log' # <<>> /\ Len(log') = Len(log) + 1
        /\ \A k \in 1 .. Len(log) : log'[k] = log[k]
        /\ log'[Len(log) + 1] = new
    BY <1>1, AppendProperties
  <1>3. Database!tables' = new BY <1>2 DEF Database!tables
  <1>4. \A k \in 1 .. Len(log') : k \in 1 .. Len(log) \/ k = Len(log) + 1
    BY <1>1, <1>2
  <1>5. DatabaseEnds(log)'
    BY <1>2, <1>4 DEF DatabaseInv, DatabaseEnds
  <1> QED BY <1>2, <1>3, <1>5

\* Tables with another row, or other definitions.
LEMMA DatabaseNewRow ==
  ASSUME DatabaseInv, NEW id \in Ids, NEW row \in DatabaseRow, row.endTime <= now,
         NEW new, new = [Database!tables EXCEPT !.workflows[id] = row]
  PROVE  /\ new \in Database!Tables
         /\ \A other \in Ids :
              new.workflows[other] = IF other = id THEN row
                                     ELSE Database!tables.workflows[other]
         /\ \A other \in Ids : new.workflows[other].endTime <= now
  <1>1. /\ Len(log) \in 1 .. Len(log)
        /\ Database!tables \in Database!Tables
        /\ Database!tables.workflows \in [Ids -> DatabaseRow]
    BY DatabaseTables DEF DatabaseInv
  <1>2. new = [Database!tables EXCEPT
                 !.workflows = [Database!tables.workflows EXCEPT ![id] = row]]
    OBVIOUS
  <1>3. new \in Database!Tables /\
        new.workflows = [Database!tables.workflows EXCEPT ![id] = row]
    BY <1>1, <1>2 DEF Database!Tables, DatabaseRow
  <1>4. \A other \in Ids :
          new.workflows[other] = IF other = id THEN row ELSE Database!tables.workflows[other]
    BY <1>1, <1>3
  <1>5. \A other \in Ids : Database!tables.workflows[other].endTime <= now
    BY <1>1 DEF DatabaseInv, DatabaseEnds, Database!tables
  <1> QED BY <1>3, <1>4, <1>5

LEMMA DatabaseNewDefinition ==
  ASSUME DatabaseInv, NEW id \in Ids, NEW text \in Database!Definition,
         NEW new, new = [Database!tables EXCEPT !.definitions[id] = text]
  PROVE  /\ new \in Database!Tables
         /\ new.workflows = Database!tables.workflows
         /\ \A other \in Ids : new.workflows[other].endTime <= now
  <1>1. /\ Len(log) \in 1 .. Len(log)
        /\ Database!tables \in Database!Tables
    BY DatabaseTables DEF DatabaseInv
  <1>2. new = [Database!tables EXCEPT
                 !.definitions = [Database!tables.definitions EXCEPT ![id] = text]]
    OBVIOUS
  <1>3. new \in Database!Tables /\ new.workflows = Database!tables.workflows
    BY <1>1, <1>2 DEF Database!Tables
  <1>4. \A other \in Ids : Database!tables.workflows[other].endTime <= now
    BY <1>1 DEF DatabaseInv, DatabaseEnds, Database!tables
  <1> QED BY <1>3, <1>4

\* What a step must show to keep the invariant.
LEMMA DatabaseKept ==
  ASSUME Database!CallersTypeOK', db' \in {"CLOSED", "OPEN", "SPOILT"}, leaked' \in Nat,
         log' \in Seq(Database!Tables), log' # <<>>,
         acknowledged' \in [Ids -> DatabaseRow], DatabaseEnds(log)', DatabaseKeeps'
  PROVE  DatabaseInv'
  BY DEF DatabaseInv, Database!TypeOK, DatabaseRow

LEMMA DatabaseCalled ==
  DatabaseInv /\ Database!Called => Database!CallersTypeOK' /\ UNCHANGED now
  BY CallersAssumption, ServicesAssumption
  DEF DatabaseInv, Database!TypeOK, Database!Called, Database!CallersTypeOK

\* A commit of the rows and the acknowledgements together.
LEMMA DatabaseCommitKeeps ==
  ASSUME DatabaseInv, NEW new \in Database!Tables,
         \A id \in Ids : new.workflows[id].endTime <= now,
         Database!Commit(new),
         acknowledged' \in [Ids -> DatabaseRow],
         \A id \in Ids : acknowledged'[id] # Database!NoRow
                           => new.workflows[id] = acknowledged'[id]
  PROVE  DatabaseInv'
  <1>1. Database!Called /\ log' = Append(log, new) /\ UNCHANGED <<db, leaked>>
    BY DEF Database!Commit
  <1>2. Database!CallersTypeOK' /\ UNCHANGED now BY <1>1, DatabaseCalled
  <1>3. /\ log' \in Seq(Database!Tables) /\ log' # <<>>
        /\ Database!tables' = new
        /\ DatabaseEnds(log)'
    BY <1>1, <1>2, DatabaseCommits
  <1>4. DatabaseKeeps' BY <1>3 DEF DatabaseKeeps
  <1> QED BY <1>1, <1>2, <1>3, <1>4, DatabaseKept DEF DatabaseInv, Database!TypeOK

LEMMA DatabaseSaveKeeps ==
  ASSUME DatabaseInv, NEW id \in Ids, NEW success \in BOOLEAN,
         Database!SaveWorkflow(id, success)
  PROVE  DatabaseInv'
  <1> DEFINE row == [endTime |-> now, success |-> success]
             new == [Database!tables EXCEPT !.workflows[id] = row]
  <1>1. row \in DatabaseRow /\ row.endTime <= now
    BY ServicesAssumption
    DEF DatabaseInv, Database!TypeOK, Database!CallersTypeOK, DatabaseRow, Database!Row
  <1>2. /\ Database!tables.workflows[id] = Database!NoRow
        /\ Database!Commit(new)
        /\ acknowledged' = IF acknowledged[id] = Database!NoRow
                           THEN [acknowledged EXCEPT ![id] = row] ELSE acknowledged
    BY DEF Database!SaveWorkflow, Database!Insert
  <1> HIDE DEF row
  <1>3. /\ new \in Database!Tables
        /\ \A other \in Ids :
             new.workflows[other] = IF other = id THEN row
                                    ELSE Database!tables.workflows[other]
        /\ \A other \in Ids : new.workflows[other].endTime <= now
    BY <1>1, DatabaseNewRow
  <1> HIDE DEF new
  <1>4. acknowledged[id] = Database!NoRow
    BY <1>2 DEF DatabaseInv, DatabaseKeeps
  <1>5. acknowledged \in [Ids -> DatabaseRow]
    BY DEF DatabaseInv, Database!TypeOK, DatabaseRow
  <1>6. acknowledged' = [acknowledged EXCEPT ![id] = row] BY <1>2, <1>4
  <1>7. acknowledged' \in [Ids -> DatabaseRow] BY <1>1, <1>5, <1>6
  <1>8. \A other \in Ids : acknowledged'[other] # Database!NoRow
                             => new.workflows[other] = acknowledged'[other]
    BY <1>3, <1>5, <1>6 DEF DatabaseInv, DatabaseKeeps
  <1> QED BY <1>2, <1>3, <1>7, <1>8, DatabaseCommitKeeps

LEMMA DatabaseDeleteKeeps ==
  ASSUME DatabaseInv, NEW id \in Ids, Database!DeleteWorkflow(id)
  PROVE  DatabaseInv'
  <1> DEFINE new == [Database!tables EXCEPT !.workflows[id] = Database!NoRow]
  <1>1. Database!NoRow \in DatabaseRow /\ Database!NoRow.endTime <= now
    BY ServicesAssumption
    DEF DatabaseInv, Database!TypeOK, Database!CallersTypeOK, DatabaseRow, Database!NoRow
  <1>2. Database!Commit(new) /\ acknowledged' = [acknowledged EXCEPT ![id] = Database!NoRow]
    BY DEF Database!DeleteWorkflow
  <1>3. /\ new \in Database!Tables
        /\ \A other \in Ids :
             new.workflows[other] = IF other = id THEN Database!NoRow
                                    ELSE Database!tables.workflows[other]
        /\ \A other \in Ids : new.workflows[other].endTime <= now
    BY <1>1, DatabaseNewRow
  <1> HIDE DEF new
  <1>4. acknowledged \in [Ids -> DatabaseRow]
    BY DEF DatabaseInv, Database!TypeOK, DatabaseRow
  <1>5. acknowledged' \in [Ids -> DatabaseRow] BY <1>1, <1>2, <1>4
  <1>6. \A other \in Ids : acknowledged'[other] # Database!NoRow
                             => new.workflows[other] = acknowledged'[other]
    BY <1>2, <1>3, <1>4 DEF DatabaseInv, DatabaseKeeps
  <1> QED BY <1>2, <1>3, <1>5, <1>6, DatabaseCommitKeeps

LEMMA DatabaseClearKeeps ==
  ASSUME DatabaseInv, Database!ClearAllWorkflows
  PROVE  DatabaseInv'
  <1> DEFINE none == Database!NoTables.workflows
             new == [Database!tables EXCEPT !.workflows = none]
  <1>1. none = [id \in Ids |-> Database!NoRow] BY DEF Database!NoTables
  <1>2. Database!tables \in Database!Tables BY DatabaseTables DEF DatabaseInv
  <1>3. Database!NoRow \in DatabaseRow /\ Database!NoRow.endTime <= now
    BY ServicesAssumption
    DEF DatabaseInv, Database!TypeOK, Database!CallersTypeOK, DatabaseRow, Database!NoRow
  <1>4. Database!Commit(new) /\ acknowledged' = none
    BY DEF Database!ClearAllWorkflows
  <1> HIDE DEF none
  <1>5. new \in Database!Tables /\ new.workflows = none
    <2>1. none \in [Ids -> DatabaseRow] BY <1>1, <1>3
    <2> QED BY <1>2, <2>1 DEF Database!Tables, DatabaseRow
  <1> HIDE DEF new
  <1>6. \A id \in Ids : new.workflows[id].endTime <= now BY <1>1, <1>3, <1>5
  <1>7. acknowledged' \in [Ids -> DatabaseRow] BY <1>1, <1>3, <1>4
  <1>8. \A id \in Ids : acknowledged'[id] # Database!NoRow
                          => new.workflows[id] = acknowledged'[id]
    BY <1>4, <1>5
  <1> QED BY <1>4, <1>5, <1>6, <1>7, <1>8, DatabaseCommitKeeps

LEMMA DatabaseDefinitionKeeps ==
  ASSUME DatabaseInv, NEW id \in Ids, NEW text \in Database!Definition,
         Database!SaveWorkflowDefinition(id, text)
  PROVE  DatabaseInv'
  <1> DEFINE new == [Database!tables EXCEPT !.definitions[id] = text]
  <1>1. Database!Commit(new) /\ UNCHANGED acknowledged
    BY DEF Database!SaveWorkflowDefinition
  <1>2. /\ new \in Database!Tables
        /\ new.workflows = Database!tables.workflows
        /\ \A other \in Ids : new.workflows[other].endTime <= now
    BY DatabaseNewDefinition
  <1> HIDE DEF new
  <1>3. acknowledged' \in [Ids -> DatabaseRow]
    BY <1>1 DEF DatabaseInv, Database!TypeOK, DatabaseRow
  <1>4. \A other \in Ids : acknowledged'[other] # Database!NoRow
                             => new.workflows[other] = acknowledged'[other]
    BY <1>1, <1>2 DEF DatabaseInv, DatabaseKeeps
  <1> QED BY <1>1, <1>2, <1>3, <1>4, DatabaseCommitKeeps

\* The log is cut to its last entry; the tables stay as they are.
LEMMA DatabaseFolds ==
  ASSUME DatabaseInv, log' = <<Database!tables>>, UNCHANGED <<now, acknowledged>>
  PROVE  log' \in Seq(Database!Tables) /\ log' # <<>> /\ DatabaseEnds(log)' /\ DatabaseKeeps'
  <1>1. Database!tables \in Database!Tables /\ Len(log) \in 1 .. Len(log)
    BY DatabaseTables DEF DatabaseInv
  <1>2. log' \in Seq(Database!Tables) /\ log' # <<>> BY <1>1
  <1>3. Len(log') = 1 /\ log'[1] = Database!tables OBVIOUS
  <1>4. Database!tables' = Database!tables BY <1>3 DEF Database!tables
  <1>5. \A id \in Ids : Database!tables.workflows[id].endTime <= now
    BY <1>1 DEF DatabaseInv, DatabaseEnds, Database!tables
  <1>6. DatabaseEnds(log)' BY <1>3, <1>5 DEF DatabaseEnds
  <1>7. DatabaseKeeps' BY <1>4 DEF DatabaseInv, DatabaseKeeps
  <1> QED BY <1>2, <1>6, <1>7

LEMMA DatabaseCrashKeeps ==
  ASSUME DatabaseInv, Database!Crash
  PROVE  DatabaseInv'
  <1>1. /\ Database!Called /\ db' = "CLOSED" /\ leaked' = 0 /\ UNCHANGED acknowledged
        /\ Database!CallersTypeOK' /\ UNCHANGED now
    BY DatabaseCalled DEF Database!Crash
  <1>2. acknowledged' \in [Ids -> DatabaseRow]
    BY <1>1 DEF DatabaseInv, Database!TypeOK, DatabaseRow
  <1>3. CASE UNCHANGED log
    BY <1>1, <1>3
    DEF DatabaseInv, Database!TypeOK, DatabaseEnds, DatabaseKeeps, Database!tables
  <1>4. ASSUME NEW id \in Ids, NEW success \in BOOLEAN,
               Database!tables.workflows[id] = Database!NoRow,
               log' = Append(log, [Database!tables EXCEPT !.workflows[id] =
                                     [endTime |-> now, success |-> success]])
        PROVE  DatabaseInv'
    <2> DEFINE row == [endTime |-> now, success |-> success]
               new == [Database!tables EXCEPT !.workflows[id] = row]
    <2>1. row \in DatabaseRow /\ row.endTime <= now
      BY ServicesAssumption
      DEF DatabaseInv, Database!TypeOK, Database!CallersTypeOK, DatabaseRow, Database!Row
    <2>2. log' = Append(log, new) BY <1>4
    <2> HIDE DEF row
    <2>3. /\ new \in Database!Tables
          /\ \A other \in Ids :
               new.workflows[other] = IF other = id THEN row
                                      ELSE Database!tables.workflows[other]
          /\ \A other \in Ids : new.workflows[other].endTime <= now
      BY <2>1, DatabaseNewRow
    <2> HIDE DEF new
    <2>4. /\ log' \in Seq(Database!Tables) /\ log' # <<>>
          /\ Database!tables' = new
          /\ DatabaseEnds(log)'
      BY <1>1, <2>2, <2>3, DatabaseCommits
    <2>5. acknowledged[id] = Database!NoRow BY <1>4 DEF DatabaseInv, DatabaseKeeps
    <2>6. DatabaseKeeps' BY <1>1, <2>3, <2>4, <2>5 DEF DatabaseInv, DatabaseKeeps
    <2> QED BY <1>1, <1>2, <2>4, <2>6, DatabaseKept
  <1> QED BY <1>3, <1>4 DEF Database!Crash

LEMMA DatabasePowerLossKeeps ==
  ASSUME DatabaseInv, Database!PowerLoss
  PROVE  DatabaseInv'
  <1>1. /\ Database!Called /\ db' = "CLOSED" /\ leaked' = 0
        /\ Database!CallersTypeOK' /\ UNCHANGED now
    BY DatabaseCalled DEF Database!PowerLoss
  <1>2. PICK n \in DOMAIN log :
          /\ log' = SubSeq(log, 1, n)
          /\ acknowledged' = [id \in Ids |->
               IF log[n].workflows[id] = acknowledged[id] THEN acknowledged[id]
               ELSE Database!NoRow]
    BY DEF Database!PowerLoss
  <1>3. log \in Seq(Database!Tables) /\ n \in 1 .. Len(log) /\ Len(log) \in Nat
    BY DatabaseTables DEF DatabaseInv, Database!TypeOK
  <1>4. /\ log' \in Seq(Database!Tables) /\ Len(log') = n
        /\ \A k \in 1 .. n : log'[k] = log[k]
    <2>1. 1 \in 1 .. Len(log) + 1 /\ n \in 1 - 1 .. Len(log) BY <1>3
    <2>2. /\ SubSeq(log, 1, n) \in Seq(Database!Tables)
          /\ Len(SubSeq(log, 1, n)) = n - 1 + 1
          /\ \A k \in 1 .. n - 1 + 1 : SubSeq(log, 1, n)[k] = log[1 + k - 1]
      <3>1. 1 <= n /\ 1 \in 1 .. Len(log) + 1 /\ n \in 0 .. Len(log) BY <1>3
      <3> QED BY <1>3, <3>1, SubSeqProperties
    <2>3. n - 1 + 1 = n /\ \A k \in 1 .. n : 1 + k - 1 = k BY <1>3
    <2> QED BY <1>2, <2>2, <2>3
  <1>5. log' # <<>> /\ n \in 1 .. n BY <1>3, <1>4
  <1>6. Database!tables' = log[n] BY <1>4, <1>5 DEF Database!tables
  <1>7. DatabaseEnds(log)'
    <2>1. \A k \in 1 .. n : k \in 1 .. Len(log) BY <1>3
    <2> QED BY <1>1, <1>4, <2>1 DEF DatabaseInv, DatabaseEnds
  <1>8. DatabaseKeeps' BY <1>2, <1>6 DEF DatabaseKeeps
  <1>9. acknowledged' \in [Ids -> DatabaseRow]
    BY <1>2 DEF DatabaseInv, Database!TypeOK, DatabaseRow
  <1> QED BY <1>1, <1>4, <1>5, <1>7, <1>8, <1>9, DatabaseKept

LEMMA DatabaseStep == DatabaseInv /\ [Database!Next]_(Database!vars) => DatabaseInv'
  <1> SUFFICES ASSUME DatabaseInv, [Database!Next]_(Database!vars) PROVE DatabaseInv'
    OBVIOUS
  <1> DEFINE same == log' = log /\ acknowledged' = acknowledged
  <1>1. ASSUME same, Database!CallersTypeOK', now <= now',
               db' \in {"CLOSED", "OPEN", "SPOILT"}, leaked' \in Nat
        PROVE  DatabaseInv'
    <2>1. DatabaseEnds(log)'
      <3>1. \A k \in 1 .. Len(log) : \A id \in Ids : log[k].workflows[id].endTime \in Nat
        <4>1. \A k \in 1 .. Len(log) : log[k] \in Database!Tables
          BY ElementOfSeq DEF DatabaseInv, Database!TypeOK
        <4>2. \A entry \in Database!Tables : \A id \in Ids :
                entry.workflows[id] \in DatabaseRow
          BY DEF Database!Tables, DatabaseRow
        <4> QED BY <4>1, <4>2, DatabaseRowEnds
      <3>2. now \in Nat /\ now' \in Nat
        BY <1>1, ServicesAssumption DEF DatabaseInv, Database!TypeOK, Database!CallersTypeOK
      <3> QED BY <1>1, <3>1, <3>2 DEF DatabaseInv, DatabaseEnds
    <2> QED BY <1>1, <2>1 DEF DatabaseInv, Database!TypeOK, DatabaseKeeps, Database!tables
  <1>2. now \in Nat /\ leaked \in Nat /\ db \in {"CLOSED", "OPEN", "SPOILT"}
    BY ServicesAssumption DEF DatabaseInv, Database!TypeOK, Database!CallersTypeOK
  <1>3. CASE Database!Initialize
    <2>1. same /\ Database!CallersTypeOK' /\ now <= now'
      BY <1>2, <1>3, DatabaseCalled DEF Database!Initialize
    <2>2. db' \in {"CLOSED", "OPEN", "SPOILT"} /\ leaked' \in Nat
      BY <1>2, <1>3 DEF Database!Initialize
    <2> QED BY <1>1, <2>1, <2>2
  <1>4. CASE Database!Close
    <2>1. /\ Database!CallersTypeOK' /\ UNCHANGED <<now, leaked, acknowledged>>
          /\ db' = "CLOSED"
          /\ log' = IF db = "OPEN" THEN <<Database!tables>> ELSE log
      BY <1>4, DatabaseCalled DEF Database!Close
    <2>2. CASE db = "OPEN"
      BY <1>2, <2>1, <2>2, DatabaseFolds, DatabaseKept
      DEF DatabaseInv, Database!TypeOK, DatabaseRow
    <2>3. CASE db # "OPEN"
      <3> HIDE DEF same
      <3>1. same /\ now <= now' BY <1>2, <2>1, <2>3 DEF same
      <3> QED BY <1>1, <1>2, <2>1, <3>1
    <2> QED BY <2>2, <2>3
  <1>5. CASE Database!Refused
    BY <1>1, <1>2, <1>5, DatabaseCalled DEF Database!Refused
  <1>6. CASE \E id \in Ids, success \in BOOLEAN : Database!SaveWorkflow(id, success)
    BY <1>6, DatabaseSaveKeeps
  <1>7. ASSUME NEW id \in Ids,
               \/ Database!DeleteWorkflow(id)
               \/ Database!SaveWorkflowDefinition(id, "DEFINITION")
               \/ Database!SaveVersion(id) \/ Database!RollbackToVersion(id)
               \/ Database!SetActiveVersion(id)
               \/ Database!DeleteVersion(id) \/ Database!DeleteAllVersions(id)
        PROVE  DatabaseInv'
    <2>1. CASE Database!DeleteWorkflow(id) BY <2>1, DatabaseDeleteKeeps
    <2>2. CASE Database!RollbackToVersion(id)
      BY <1>1, <1>2, <2>2, DatabaseCalled DEF Database!Refused, Database!RollbackToVersion
    <2>3. ASSUME NEW text \in Database!Definition,
                 Database!SaveWorkflowDefinition(id, text)
          PROVE  DatabaseInv'
      BY <2>3, DatabaseDefinitionKeeps
    <2>4. \A text \in {"DEFINITION", "VERSION", "LIST", "EMPTY"} : text \in Database!Definition
      BY DEF Database!Definition
    <2> QED BY <1>7, <2>1, <2>2, <2>3, <2>4
            DEF Database!SaveVersion, Database!SetActiveVersion, Database!DeleteVersion,
                Database!DeleteAllVersions
  <1>8. CASE Database!ClearAllWorkflows BY <1>8, DatabaseClearKeeps
  <1>9. CASE Database!Checkpoint
    BY <1>9, DatabaseFolds, DatabaseKept
    DEF Database!Checkpoint, DatabaseInv, Database!TypeOK, Database!CallersTypeOK, DatabaseRow
  <1>10. CASE Database!Crash BY <1>10, DatabaseCrashKeeps
  <1>11. CASE Database!PowerLoss BY <1>11, DatabasePowerLossKeeps
  <1>12. CASE Database!Tick
    <2>1. same /\ now <= now' /\ Database!CallersTypeOK' /\ UNCHANGED <<db, leaked>>
      BY <1>2, <1>12, CallersAssumption, ServicesAssumption
      DEF Database!Tick, Database!Elapse, DatabaseInv, Database!TypeOK, Database!CallersTypeOK
    <2> QED BY <1>1, <1>2, <2>1
  <1>13. CASE UNCHANGED Database!vars
    BY <1>1, <1>2, <1>13
    DEF Database!vars, Database!own, DatabaseInv, Database!TypeOK, Database!CallersTypeOK
  <1> QED BY <1>3, <1>4, <1>5, <1>6, <1>7, <1>8, <1>9, <1>10, <1>11, <1>12, <1>13
          DEF Database!Next

\* A part of a whole, in percent.
LEMMA Percent ==
  ASSUME NEW amount \in Nat, NEW whole \in Nat \ {0}, amount <= whole
  PROVE  (amount * 100) \div whole \in 0 .. 100
  <1> DEFINE rate == (amount * 100) \div whole
  <1>1. /\ rate \in Int /\ rate * whole <= amount * 100
        /\ amount * 100 < (rate + 1) * whole
    OBVIOUS
  <1> HIDE DEF rate
  <1>2. rate * whole <= 100 * whole BY <1>1
  <1>3. rate <= 100 BY <1>1, <1>2
  <1>4. rate >= 0 BY <1>1
  <1> QED BY <1>1, <1>3, <1>4 DEF rate

LEMMA DatabaseSavedIsFound == DatabaseInv => Database!SavedIsFound
  <1> SUFFICES ASSUME DatabaseInv PROVE Database!SavedIsFound
    OBVIOUS
  <1> DEFINE rows == Database!tables.workflows
             good == {id \in Database!Rows : rows[id].success}
             bad == {id \in Database!Rows : ~rows[id].success}
  <1>1. \A id \in Ids : acknowledged[id] # Database!NoRow
                          => Database!GetWorkflowById(id) = acknowledged[id]
    BY DEF DatabaseInv, DatabaseKeeps, Database!GetWorkflowById
  <1>2. IsFiniteSet(Database!Rows)
    BY CallersAssumption, FS_Subset DEF Database!Rows
  <1>3. IsFiniteSet(good) /\ IsFiniteSet(bad) BY <1>2, FS_Subset
  <1>4. Cardinality(good) + Cardinality(bad) = Cardinality(Database!Rows)
    <2>1. good \cup bad = Database!Rows /\ good \cap bad = {} OBVIOUS
    <2>2. Cardinality(good) \in Nat /\ Cardinality(bad) \in Nat
      BY <1>3, FS_CardinalityType
    <2>3. Cardinality({}) = 0 BY FS_EmptySet
    <2> HIDE DEF good, bad
    <2>4. Cardinality(good \cup bad)
            = Cardinality(good) + Cardinality(bad) - Cardinality(good \cap bad)
      BY <1>3, FS_Union
    <2>5. /\ Cardinality(good \cup bad) = Cardinality(Database!Rows)
          /\ Cardinality(good \cap bad) = 0
      BY <2>1, <2>3
    <2> QED BY <2>2, <2>4, <2>5
  <1>5. /\ Database!GetSuccessCount = Cardinality(good)
        /\ Database!GetFailureCount = Cardinality(bad)
        /\ Database!GetTotalWorkflowCount = Cardinality(Database!Rows)
    BY DEF Database!GetSuccessCount, Database!GetFailureCount, Database!GetTotalWorkflowCount,
           Database!Cardinality, Cardinality
  <1>6. Database!GetSuccessRate \in 0 .. 100
    <2>1. CASE Database!Rows = {} BY <2>1 DEF Database!GetSuccessRate
    <2>2. CASE Database!Rows # {}
      <3> HIDE DEF good, bad
      <3>1. /\ Cardinality(good) \in Nat /\ Cardinality(bad) \in Nat
            /\ Cardinality(Database!Rows) \in Nat
        BY <1>2, <1>3, FS_CardinalityType
      <3>2. Cardinality(Database!Rows) # 0 BY <1>2, <2>2, FS_EmptySet
      <3>3. Cardinality(good) <= Cardinality(Database!Rows) BY <1>4, <3>1
      <3>4. (Cardinality(good) * 100) \div Cardinality(Database!Rows) \in 0 .. 100
        BY <3>1, <3>2, <3>3, Percent
      <3> QED BY <1>5, <2>2, <3>4 DEF Database!GetSuccessRate
    <2> QED BY <2>1, <2>2
  <1>7. Database!GetWorkflowsByTimeRange(1, now) = Database!Rows
    <2>1. Len(log) \in 1 .. Len(log) /\ rows \in [Ids -> DatabaseRow]
      BY DatabaseTables DEF DatabaseInv
    <2>2. \A id \in Ids : rows[id].endTime <= now
      BY <2>1 DEF DatabaseInv, DatabaseEnds, Database!tables
    <2>3. \A id \in Database!Rows : rows[id] \in DatabaseRow /\ rows[id] # Database!NoRow
      BY <2>1 DEF Database!Rows
    <2>4. now \in Nat
      BY ServicesAssumption DEF DatabaseInv, Database!TypeOK, Database!CallersTypeOK
    <2>5. \A id \in Database!Rows : rows[id].endTime \in 1 .. now
      <3> TAKE id \in Database!Rows
      <3>1. rows[id].endTime \in Nat /\ rows[id].endTime >= 1
        BY <2>3, DatabaseRowEnds
      <3>2. rows[id].endTime <= now BY <2>2 DEF Database!Rows
      <3> QED BY <2>4, <3>1, <3>2
    <2> QED BY <2>5 DEF Database!GetWorkflowsByTimeRange
  <1> QED BY <1>1, <1>4, <1>5, <1>6, <1>7 DEF Database!SavedIsFound

\* A row that was acknowledged stays in the file as it was saved until it is deleted,
\* whatever ends the process; every row counts as a success or a failure.
THEOREM RowsAreFound == Database!Spec => []Database!SavedIsFound
  <1>1. Database!Init => DatabaseInv BY DatabaseInit
  <1>2. DatabaseInv /\ [Database!Next]_(Database!vars) => DatabaseInv' BY DatabaseStep
  <1>3. DatabaseInv => Database!SavedIsFound BY DatabaseSavedIsFound
  <1> QED BY <1>1, <1>2, <1>3, PTL DEF Database!Spec

-----------------------------------------------------------------------------
(* Totals.                                                                 *)

LEMMA TotalSteps ==
  ASSUME NEW runs \in Seq(Records!Measured)
  PROVE  \E total \in [0 .. Len(runs) -> Nat] :
           /\ total[0] = 0
           /\ \A i \in 1 .. Len(runs) : total[i] = total[i - 1] + runs[i].duration
           /\ Records!TotalDuration(runs) = total[Len(runs)]
  <1> DEFINE n == Len(runs)
             body(f) == [i \in 0 .. n |-> IF i = 0 THEN 0 ELSE f[i - 1] + runs[i].duration]
             next == [p \in (1 .. n) \X Nat |-> p[2] + runs[p[1]].duration]
             total == CHOOSE f : f = body(f)
  <1>1. n \in Nat /\ \A i \in 1 .. n : runs[i].duration \in Nat
    <2>1. n \in Nat BY LenProperties
    <2>2. \A i \in 1 .. n : runs[i] \in Records!Measured BY ElementOfSeq
    <2>3. \A run \in Records!Measured : run.duration \in Nat
      BY CallersAssumption DEF Records!Measured
    <2> QED BY <2>1, <2>2, <2>3
  <1>2. next \in [(1 .. n) \X Nat -> Nat] BY <1>1
  <1>3. \A i \in 1 .. n, x \in Nat : next[<<i, x>>] = x + runs[i].duration
    OBVIOUS
  <1> HIDE DEF n, next
  <1>4. PICK f \in [0 .. n -> Nat] : f[0] = 0 /\ \A i \in 1 .. n : f[i] = next[<<i, f[i - 1]>>]
    <2>1. 0 \in Nat OBVIOUS
    <2>2. Walks(Nat, n, 0, next) # {} BY <1>1, <1>2, <2>1, StepByStep
    <2> QED BY <2>2 DEF Walks
  <1>5. f = body(f)
    <2>1. \A i \in 0 .. n : i # 0 => i \in 1 .. n /\ f[i - 1] \in Nat BY <1>1
    <2>2. \A i \in 0 .. n : f[i] = IF i = 0 THEN 0 ELSE f[i - 1] + runs[i].duration
      BY <1>3, <1>4, <2>1
    <2> QED BY <2>2
  <1>6. total = body(total) BY <1>5
  <1>7. Records!TotalDuration(runs) = total[n]
    BY DEF Records!TotalDuration, n
  <1>8. total[0] = 0 /\ \A i \in 1 .. n : total[i] = total[i - 1] + runs[i].duration
    <2> HIDE DEF total
    <2>1. 0 \in 0 .. n /\ \A i \in 1 .. n : i \in 0 .. n /\ i # 0 BY <1>1
    <2> QED BY <1>6, <2>1
  <1>9. \A i \in 0 .. n : i \in {j \in 0 .. n : total[j] \in Nat}
    <2> DEFINE good == {j \in 0 .. n : total[j] \in Nat}
    <2> HIDE DEF total
    <2>1. 0 \in good BY <1>1, <1>8
    <2>2. ASSUME NEW i \in 1 .. n, i - 1 \in good PROVE i \in good
      <3>1. total[i - 1] \in Nat /\ runs[i].duration \in Nat BY <1>1, <2>2
      <3>2. total[i] \in Nat BY <1>8, <3>1
      <3>3. i \in 0 .. n BY <1>1
      <3> QED BY <3>2, <3>3
    <2> HIDE DEF good
    <2>3. \A i \in 0 .. n : i \in good BY <1>1, <2>1, <2>2, Upwards
    <2> QED BY <2>3 DEF good
  <1>10. total \in [0 .. n -> Nat]
    <2> HIDE DEF total
    <2>1. \A i \in 0 .. n : total[i] \in Nat BY <1>9
    <2>2. total = [i \in 0 .. n |-> total[i]] BY <1>6
    <2> QED BY <2>1, <2>2
  <1> HIDE DEF total
  <1> QED BY <1>7, <1>8, <1>10 DEF n

-----------------------------------------------------------------------------
(* The records of executions: traces, metrics and statistics.              *)

\* The total of an empty list, and of one with another run at its end.
LEMMA TotalOfNothing == Records!TotalDuration(<<>>) = 0
  <1>1. <<>> \in Seq(Records!Measured) /\ Len(<<>>) = 0 OBVIOUS
  <1>2. \E total \in [0 .. Len(<<>>) -> Nat] :
          total[0] = 0 /\ Records!TotalDuration(<<>>) = total[Len(<<>>)]
    BY <1>1, TotalSteps
  <1> QED BY <1>1, <1>2

LEMMA TotalOfMore ==
  ASSUME NEW runs \in Seq(Records!Measured), NEW run \in Records!Measured
  PROVE  /\ Records!TotalDuration(runs) \in Nat
         /\ Records!TotalDuration(Append(runs, run))
              = Records!TotalDuration(runs) + run.duration
  <1> DEFINE more == Append(runs, run)
             n == Len(runs)
  <1>1. /\ more \in Seq(Records!Measured) /\ Len(more) = n + 1 /\ n \in Nat
        /\ \A i \in 1 .. n : more[i] = runs[i]
        /\ more[n + 1] = run
    BY AppendProperties, LenProperties
  <1> HIDE DEF more
  <1>2. PICK total \in [0 .. n -> Nat] :
          /\ total[0] = 0
          /\ \A i \in 1 .. n : total[i] = total[i - 1] + runs[i].duration
          /\ Records!TotalDuration(runs) = total[n]
    BY TotalSteps
  <1>3. PICK longer \in [0 .. Len(more) -> Nat] :
          /\ longer[0] = 0
          /\ \A i \in 1 .. Len(more) : longer[i] = longer[i - 1] + more[i].duration
          /\ Records!TotalDuration(more) = longer[Len(more)]
    BY <1>1, TotalSteps
  <1> HIDE DEF n
  <1> DEFINE good == {i \in 0 .. n : total[i] = longer[i]}
  <1>4. 0 \in good BY <1>1, <1>2, <1>3
  <1>5. ASSUME NEW i \in 1 .. n, i - 1 \in good PROVE i \in good
    <2>1. i \in 1 .. Len(more) /\ i \in 0 .. n BY <1>1
    <2>2. total[i] = total[i - 1] + runs[i].duration BY <1>2
    <2>3. longer[i] = longer[i - 1] + more[i].duration BY <1>3, <2>1
    <2> QED BY <1>1, <1>5, <2>1, <2>2, <2>3
  <1>6. n \in good
    <2>1. n \in 0 .. n BY <1>1
    <2> HIDE DEF good
    <2> QED BY <1>1, <1>4, <1>5, <2>1, Upwards
  <1>7. longer[n + 1] = longer[n] + run.duration
    <2>1. n + 1 \in 1 .. Len(more) /\ n + 1 - 1 = n BY <1>1
    <2> QED BY <1>1, <1>3, <2>1
  <1>8. total[n] \in Nat
    <2>1. n \in 0 .. n BY <1>1
    <2> QED BY <1>2, <2>1
  <1> QED BY <1>1, <1>2, <1>3, <1>6, <1>7, <1>8 DEF more

\* A total is at least as many times the shortest run as there are runs.
LEMMA TotalIsEnough ==
  ASSUME NEW runs \in Seq(Records!Measured), NEW least \in Nat,
         \A i \in 1 .. Len(runs) : least <= runs[i].duration
  PROVE  Len(runs) * least <= Records!TotalDuration(runs)
  <1> DEFINE n == Len(runs)
  <1>1. n \in Nat BY LenProperties
  <1>2. \A i \in 1 .. n : runs[i].duration \in Nat
    <2>1. \A i \in 1 .. n : runs[i] \in Records!Measured BY ElementOfSeq
    <2> QED BY <2>1, CallersAssumption DEF Records!Measured
  <1>3. PICK total \in [0 .. n -> Nat] :
          /\ total[0] = 0
          /\ \A i \in 1 .. n : total[i] = total[i - 1] + runs[i].duration
          /\ Records!TotalDuration(runs) = total[n]
    BY TotalSteps
  <1>4. \A i \in 1 .. n : least <= runs[i].duration OBVIOUS
  <1> HIDE DEF n
  <1> DEFINE good == {i \in 0 .. n : i * least <= total[i]}
  <1>5. 0 \in good BY <1>1, <1>3
  <1>6. ASSUME NEW i \in 1 .. n, i - 1 \in good PROVE i \in good
    <2>1. total[i] = total[i - 1] + runs[i].duration BY <1>3
    <2>2. (i - 1) * least <= total[i - 1] BY <1>6
    <2>3. i - 1 \in 0 .. n /\ i \in 0 .. n BY <1>1
    <2>4. total[i - 1] \in Nat /\ runs[i].duration \in Nat BY <1>2, <1>3, <2>3
    <2>5. i * least = (i - 1) * least + least BY <1>1
    <2>6. (i - 1) * least \in Int BY <1>1
    <2>7. i * least <= total[i] BY <1>4, <2>1, <2>2, <2>4, <2>5, <2>6
    <2> QED BY <2>3, <2>7
  <1>7. n \in good
    <2>1. n \in 0 .. n BY <1>1
    <2> HIDE DEF good
    <2> QED BY <1>1, <1>5, <1>6, <2>1, Upwards
  <1> QED BY <1>3, <1>7 DEF n

LEMMA AtLeastTheLeast ==
  ASSUME NEW total \in Nat, NEW count \in Nat \ {0}, NEW least \in Nat, count * least <= total
  PROVE  least <= total \div count
  <1> DEFINE average == total \div count
  <1>1. /\ average \in Int
        /\ total < (average + 1) * count
    OBVIOUS
  <1> HIDE DEF average
  <1>2. count * least < (average + 1) * count BY <1>1
  <1>3. least < average + 1 BY <1>1, <1>2
  <1> QED BY <1>1, <1>3 DEF average

\* The average of some runs is not below the shortest of them.
LEMMA MinIsBelowAverage ==
  ASSUME NEW w \in FewIds, metricsHistory[w] \in Seq(Records!Measured)
  PROVE  Records!Statistics(w).minDuration <= Records!Statistics(w).averageDuration
  <1> DEFINE runs == metricsHistory[w]
             durations == {runs[i].duration : i \in DOMAIN runs}
             least == CHOOSE d \in durations : \A e \in durations : d <= e
  <1>1. /\ Records!Statistics(w).minDuration = IF runs = <<>> THEN 0 ELSE least
        /\ Records!Statistics(w).averageDuration
             = IF runs = <<>> THEN 0 ELSE Records!TotalDuration(runs) \div Len(runs)
    BY DEF Records!Statistics
  <1>2. CASE runs = <<>> BY <1>1, <1>2
  <1>3. CASE runs # <<>>
    <2>1. runs \in Seq(Records!Measured) /\ Len(runs) \in Nat /\ DOMAIN runs = 1 .. Len(runs)
      BY LenProperties
    <2> HIDE DEF runs
    <2>2. Len(runs) # 0 BY <1>3, <2>1, EmptySeq
    <2>3. \A i \in 1 .. Len(runs) : runs[i].duration \in Nat
      <3>1. \A i \in 1 .. Len(runs) : runs[i] \in Records!Measured BY <2>1, ElementOfSeq
      <3> QED BY <3>1, CallersAssumption DEF Records!Measured
    <2>4. 1 \in DOMAIN runs BY <2>1, <2>2
    <2>5. durations # {} /\ durations \in SUBSET Nat BY <2>1, <2>3, <2>4
    <2>6. \A i \in 1 .. Len(runs) : runs[i].duration \in durations BY <2>1
    <2> HIDE DEF durations
    <2>7. \E d \in durations : \A e \in durations : d <= e BY <2>5, LeastNumber
    <2>8. least \in durations /\ \A e \in durations : least <= e BY <2>7
    <2> HIDE DEF least
    <2>9. least \in Nat /\ \A i \in 1 .. Len(runs) : least <= runs[i].duration
      BY <2>5, <2>6, <2>8
    <2>10. Len(runs) * least <= Records!TotalDuration(runs) BY <2>1, <2>9, TotalIsEnough
    <2>11. Records!TotalDuration(runs) \in Nat
      <3>1. [duration |-> 0, success |-> TRUE] \in Records!Measured
        BY CallersAssumption DEF Records!Measured
      <3> QED BY <2>1, <3>1, TotalOfMore
    <2>12. least <= Records!TotalDuration(runs) \div Len(runs)
      BY <2>1, <2>2, <2>9, <2>10, <2>11, AtLeastTheLeast
    <2> QED BY <1>1, <1>3, <2>12
  <1> QED BY <1>2, <1>3

LEMMA SublistOfTraces == \A list, kept : Records!Sublist(list, kept) = Sublist(list, kept)
  BY DEF Records!Sublist, Sublist, Records!Cardinality, Cardinality

\* A trace is found through the list of its workflow.
RecordsFound(lists, trace) ==
  \E k \in 1 .. Len(lists[trace.workflowName]) : lists[trace.workflowName][k] = trace.traceId

\* What holds of a completed trace, and of the list of them.
RecordsEntry(entry, active, lists, n, time) ==
  /\ entry.traceId <= n /\ entry.endTime <= time
  /\ \A trace \in active : trace.traceId # entry.traceId
  /\ RecordsFound(lists, entry)

RecordsOrdered(done) ==
  \A i, j \in 1 .. Len(done) :
    i < j => done[i].traceId # done[j].traceId /\ done[i].endTime <= done[j].endTime

RecordsActive(active, lists, n) ==
  /\ \A trace \in active : trace \in Records!Trace /\ trace.traceId <= n
                           /\ RecordsFound(lists, trace)
  /\ \A trace, other \in active : trace.traceId = other.traceId => trace = other

RecordsTraces ==
  /\ completedTraces \in Seq(Records!CompletedTrace)
  /\ workflowTraces \in [FewIds -> Seq(Nat)]
  /\ maxTraces \in Limits /\ traced \in Nat
  /\ RecordsActive(activeTraces, workflowTraces, traced)
  /\ \A i \in 1 .. Len(completedTraces) :
       RecordsEntry(completedTraces[i], activeTraces, workflowTraces, traced, now)
  /\ RecordsOrdered(completedTraces)

\* The runs measured so far ended before the one that is being measured began.
RecordsMetrics ==
  /\ activeMetrics \in [FewIds -> 0 .. MaxTime]
  /\ metricsHistory \in [FewIds -> Seq(Records!Measured)]
  /\ begun \in [FewIds -> Nat] /\ replacedRuns \in [FewIds -> Nat]
  /\ \A w \in FewIds :
       /\ activeMetrics[w] <= now
       /\ begun[w] = Len(metricsHistory[w]) + replacedRuns[w]
                       + (IF activeMetrics[w] = 0 THEN 0 ELSE 1)
       /\ Records!TotalDuration(metricsHistory[w])
            <= (IF activeMetrics[w] = 0 THEN now ELSE activeMetrics[w]) - 1

RecordsStats ==
  /\ stats \in [FewIds -> Records!Stats] /\ startedAt \in [FewIds -> 0 .. MaxTime]
  /\ \A w \in FewIds :
       /\ startedAt[w] <= now
       /\ stats[w].totalDuration <= (IF startedAt[w] = 0 THEN now ELSE startedAt[w]) - 1

RecordsInv == Records!CallersTypeOK /\ RecordsTraces /\ RecordsMetrics /\ RecordsStats

LEMMA RecordsInit == Records!Init => RecordsInv
  <1> SUFFICES ASSUME Records!Init PROVE RecordsInv
    OBVIOUS
  <1>1. Records!CallersTypeOK
    BY CallersAssumption DEF Records!Init, Records!CallersInit, Records!CallersTypeOK
  <1>2. now = 1 BY DEF Records!Init, Records!CallersInit
  <1>3. RecordsTraces
    <2>1. Len(completedTraces) = 0 BY DEF Records!Init
    <2>2. workflowTraces \in [FewIds -> Seq(Nat)] BY DEF Records!Init, Records!NoMetrics
    <2> QED BY <2>1, <2>2 DEF RecordsTraces, Records!Init, RecordsActive, RecordsOrdered
  <1>4. RecordsMetrics
    <2>1. /\ activeMetrics \in [FewIds -> 0 .. MaxTime]
          /\ metricsHistory \in [FewIds -> Seq(Records!Measured)]
          /\ begun \in [FewIds -> Nat] /\ replacedRuns \in [FewIds -> Nat]
      BY CallersAssumption DEF Records!Init, Records!NoMetrics, Records!Never
    <2>2. \A w \in FewIds : /\ activeMetrics[w] = 0 /\ metricsHistory[w] = <<>>
                            /\ begun[w] = 0 /\ replacedRuns[w] = 0
      BY DEF Records!Init, Records!NoMetrics, Records!Never
    <2>3. Len(<<>>) = 0 OBVIOUS
    <2> QED BY <1>2, <2>1, <2>2, <2>3, TotalOfNothing DEF RecordsMetrics
  <1>5. RecordsStats
    BY <1>2, CallersAssumption
    DEF RecordsStats, Records!Init, Records!Never, Records!NoStats, Records!Stats
  <1> QED BY <1>1, <1>3, <1>4, <1>5 DEF RecordsInv

LEMMA RecordsTyped == RecordsInv => Records!TypeOK
  BY DEF RecordsInv, RecordsTraces, RecordsActive, RecordsMetrics, RecordsStats,
         Records!TypeOK

LEMMA RecordsCalled ==
  RecordsInv /\ Records!Called => Records!CallersTypeOK' /\ UNCHANGED now
  BY CallersAssumption DEF RecordsInv, Records!Called, Records!CallersTypeOK

\* A component of the records that a step leaves alone keeps its part.
LEMMA RecordsTracesKept ==
  ASSUME RecordsInv, UNCHANGED Records!traceVars, UNCHANGED now
  PROVE  RecordsTraces'
  BY DEF RecordsInv, RecordsTraces, Records!traceVars

LEMMA RecordsMetricsKept ==
  ASSUME RecordsInv, UNCHANGED Records!metricVars, UNCHANGED now
  PROVE  RecordsMetrics'
  BY DEF RecordsInv, RecordsMetrics, Records!metricVars

LEMMA RecordsStatsKept ==
  ASSUME RecordsInv, UNCHANGED Records!statVars, UNCHANGED now
  PROVE  RecordsStats'
  BY DEF RecordsInv, RecordsStats, Records!statVars

\* The traces.
LEMMA RecordsStartTrace ==
  ASSUME RecordsInv, NEW w \in FewIds, Records!StartTrace(w)
  PROVE  RecordsTraces'
  <1> DEFINE trace == [traceId |-> traced + 1, workflowName |-> w, startTime |-> now,
                       errorCount |-> 0]
             list == workflowTraces[w]
  <1>1. /\ UNCHANGED <<now, completedTraces, maxTraces>>
        /\ traced' = traced + 1 /\ activeTraces' = activeTraces \cup {trace}
        /\ workflowTraces' = [workflowTraces EXCEPT ![w] = Append(list, traced + 1)]
    BY DEF Records!StartTrace, Records!Tracing, Records!Called
  <1>2. /\ workflowTraces \in [FewIds -> Seq(Nat)] /\ traced \in Nat
        /\ completedTraces \in Seq(Records!CompletedTrace) /\ maxTraces \in Limits
        /\ RecordsActive(activeTraces, workflowTraces, traced)
        /\ \A i \in 1 .. Len(completedTraces) :
             RecordsEntry(completedTraces[i], activeTraces, workflowTraces, traced, now)
        /\ RecordsOrdered(completedTraces)
    BY DEF RecordsInv, RecordsTraces
  <1>3. /\ Append(list, traced + 1) \in Seq(Nat) /\ Len(list) \in Nat
        /\ Len(Append(list, traced + 1)) = Len(list) + 1
        /\ \A k \in 1 .. Len(list) : Append(list, traced + 1)[k] = list[k]
        /\ Append(list, traced + 1)[Len(list) + 1] = traced + 1
    <2>1. list \in Seq(Nat) /\ traced + 1 \in Nat BY <1>2
    <2> QED BY <2>1, AppendProperties, LenProperties
  <1> DEFINE longer == Append(list, traced + 1)
  <1>4. /\ workflowTraces' \in [FewIds -> Seq(Nat)]
        /\ \A v \in FewIds : workflowTraces'[v] = IF v = w THEN longer ELSE workflowTraces[v]
    BY <1>1, <1>2, <1>3
  <1> HIDE DEF longer
  <1>5. trace \in Records!Trace /\ trace.workflowName = w /\ trace.traceId = traced + 1
    BY <1>2 DEF Records!Trace, RecordsInv, Records!CallersTypeOK
  <1> HIDE DEF trace
  <1>6. ASSUME NEW entry, entry.workflowName \in FewIds, RecordsFound(workflowTraces, entry)
        PROVE  RecordsFound(workflowTraces', entry)
    <2>1. PICK k \in 1 .. Len(workflowTraces[entry.workflowName]) :
            workflowTraces[entry.workflowName][k] = entry.traceId
      BY <1>6 DEF RecordsFound
    <2>2. CASE entry.workflowName = w
      <3>1. k \in 1 .. Len(longer) /\ longer[k] = entry.traceId
        BY <1>3, <2>1, <2>2 DEF longer
      <3>2. workflowTraces'[entry.workflowName] = longer BY <1>4, <2>2
      <3> QED BY <3>1, <3>2 DEF RecordsFound
    <2>3. CASE entry.workflowName # w
      BY <1>4, <1>6, <2>1, <2>3 DEF RecordsFound
    <2> QED BY <2>2, <2>3
  <1>7. RecordsFound(workflowTraces', trace)
    <2>1. Len(list) + 1 \in 1 .. Len(longer) /\ longer[Len(list) + 1] = traced + 1
      BY <1>3 DEF longer
    <2>2. workflowTraces'[trace.workflowName] = longer BY <1>4, <1>5
    <2> QED BY <1>5, <2>1, <2>2 DEF RecordsFound
  <1>8. /\ \A other \in activeTraces : /\ other \in Records!Trace /\ other.traceId <= traced
                                       /\ RecordsFound(workflowTraces, other)
        /\ \A one, other \in activeTraces : one.traceId = other.traceId => one = other
    BY <1>2 DEF RecordsActive
  <1>9. \A other \in activeTraces : other.traceId < traced + 1 /\ other.workflowName \in FewIds
                                    /\ other.traceId \in Nat
    BY <1>2, <1>8 DEF Records!Trace
  <1>10. RecordsActive(activeTraces, workflowTraces, traced)'
    <2>1. \A other \in activeTraces' : /\ other \in Records!Trace /\ other.traceId <= traced + 1
                                       /\ RecordsFound(workflowTraces', other)
      <3> TAKE other \in activeTraces'
      <3>1. CASE other = trace BY <1>2, <1>5, <1>7, <3>1
      <3>2. CASE other \in activeTraces
        <4>1. RecordsFound(workflowTraces', other) BY <1>6, <1>8, <1>9, <3>2
        <4>2. other.traceId \in Nat /\ other.traceId <= traced BY <1>8, <1>9, <3>2
        <4>3. other.traceId <= traced + 1 BY <1>2, <4>2
        <4> QED BY <1>8, <3>2, <4>1, <4>3
      <3> QED BY <1>1, <3>1, <3>2
    <2>2. \A one, other \in activeTraces' : one.traceId = other.traceId => one = other
      BY <1>1, <1>2, <1>5, <1>8, <1>9
    <2> QED BY <1>1, <2>1, <2>2 DEF RecordsActive
  <1>11. ASSUME NEW i \in 1 .. Len(completedTraces)
         PROVE  RecordsEntry(completedTraces[i], activeTraces', workflowTraces',
                             traced + 1, now)
    <2>1. RecordsEntry(completedTraces[i], activeTraces, workflowTraces, traced, now)
      BY <1>2
    <2>2. completedTraces[i] \in Records!CompletedTrace BY <1>2, ElementOfSeq
    <2>3. completedTraces[i].workflowName \in FewIds /\ completedTraces[i].traceId \in Nat
      BY <2>2 DEF Records!CompletedTrace
    <2>4. RecordsFound(workflowTraces', completedTraces[i])
      BY <1>6, <2>1, <2>3 DEF RecordsEntry
    <2>5. completedTraces[i].traceId <= traced BY <2>1 DEF RecordsEntry
    <2>6. completedTraces[i].traceId <= traced + 1 /\ completedTraces[i].traceId # traced + 1
      BY <1>2, <2>3, <2>5
    <2> QED BY <1>1, <1>5, <2>1, <2>4, <2>6 DEF RecordsEntry
  <1>12. \A i \in 1 .. Len(completedTraces) :
           RecordsEntry(completedTraces[i], activeTraces, workflowTraces, traced, now)'
    BY <1>1, <1>11
  <1>13. traced' \in Nat BY <1>1, <1>2
  <1>14. /\ (completedTraces \in Seq(Records!CompletedTrace))'
         /\ (maxTraces \in Limits)' /\ RecordsOrdered(completedTraces)'
    BY <1>1, <1>2
  <1> QED BY <1>1, <1>4, <1>10, <1>12, <1>13, <1>14 DEF RecordsTraces

\* Some of the entries, in their order.
LEMMA RecordsPick ==
  ASSUME NEW done \in Seq(Records!CompletedTrace), RecordsOrdered(done),
         NEW m \in Nat, NEW place \in [1 .. m -> 1 .. Len(done)],
         \A k, l \in 1 .. m : k < l => place[k] < place[l],
         NEW fewer, fewer = [k \in 1 .. m |-> done[place[k]]]
  PROVE  /\ fewer \in Seq(Records!CompletedTrace) /\ Len(fewer) = m
         /\ RecordsOrdered(fewer)
  <1>1. \A k \in 1 .. m : fewer[k] \in Records!CompletedTrace
    BY ElementOfSeq
  <1>2. fewer \in Seq(Records!CompletedTrace) /\ Len(fewer) = m
    <2>1. fewer \in [1 .. m -> Records!CompletedTrace] BY <1>1
    <2>2. fewer \in Seq(Records!CompletedTrace) BY <2>1
    <2> QED BY <2>1, <2>2, LenProperties
  <1>3. RecordsOrdered(fewer) BY <1>2 DEF RecordsOrdered
  <1> QED BY <1>2, <1>3

LEMMA RecordsEndTrace ==
  ASSUME RecordsInv, NEW trace \in activeTraces, Records!EndTrace(trace)
  PROVE  RecordsTraces'
  <1> DEFINE entry == [traceId |-> trace.traceId, workflowName |-> trace.workflowName,
                       endTime |-> now, errorCount |-> trace.errorCount]
             ended == Append(completedTraces, entry)
  <1>1. /\ UNCHANGED <<now, workflowTraces, maxTraces, traced>>
        /\ activeTraces' = activeTraces \ {trace}
        /\ completedTraces' = IF Len(ended) > maxTraces THEN Tail(ended) ELSE ended
    BY DEF Records!EndTrace, Records!Tracing, Records!Called
  <1>2. /\ workflowTraces \in [FewIds -> Seq(Nat)] /\ traced \in Nat
        /\ completedTraces \in Seq(Records!CompletedTrace) /\ maxTraces \in Limits
        /\ RecordsActive(activeTraces, workflowTraces, traced)
        /\ \A i \in 1 .. Len(completedTraces) :
             RecordsEntry(completedTraces[i], activeTraces, workflowTraces, traced, now)
        /\ RecordsOrdered(completedTraces)
    BY DEF RecordsInv, RecordsTraces
  <1>3. now \in 1 .. MaxTime /\ now \in Nat
    BY CallersAssumption DEF RecordsInv, Records!CallersTypeOK
  <1>4. trace \in Records!Trace /\ trace.traceId <= traced
          /\ RecordsFound(workflowTraces, trace)
    BY <1>2 DEF RecordsActive
  <1>5. entry \in Records!CompletedTrace
    BY <1>3, <1>4 DEF Records!Trace, Records!CompletedTrace
  <1>6. RecordsEntry(entry, activeTraces', workflowTraces, traced, now)
    BY <1>1, <1>2, <1>3, <1>4 DEF RecordsEntry, RecordsActive, RecordsFound
  <1>7. entry.traceId = trace.traceId /\ entry.endTime = now OBVIOUS
  <1> HIDE DEF entry
  <1>8. /\ ended \in Seq(Records!CompletedTrace) /\ Len(ended) = Len(completedTraces) + 1
        /\ \A i \in 1 .. Len(completedTraces) : ended[i] = completedTraces[i]
        /\ ended[Len(completedTraces) + 1] = entry
        /\ Len(completedTraces) \in Nat
    BY <1>2, <1>5, AppendProperties, LenProperties
  <1> HIDE DEF ended
  <1>9. \A i \in 1 .. Len(ended) :
          i \in 1 .. Len(completedTraces) \/ i = Len(completedTraces) + 1
    BY <1>8
  <1>10. \A i \in 1 .. Len(completedTraces) :
           /\ completedTraces[i].traceId # trace.traceId /\ completedTraces[i].endTime <= now
           /\ RecordsEntry(completedTraces[i], activeTraces', workflowTraces, traced, now)
    BY <1>1, <1>2 DEF RecordsEntry
  <1>11. \A i \in 1 .. Len(ended) :
           RecordsEntry(ended[i], activeTraces', workflowTraces, traced, now)
    BY <1>6, <1>8, <1>9, <1>10
  <1>12. RecordsOrdered(ended)
    <2> SUFFICES ASSUME NEW i \in 1 .. Len(ended), NEW j \in 1 .. Len(ended), i < j
                 PROVE  ended[i].traceId # ended[j].traceId
                          /\ ended[i].endTime <= ended[j].endTime
      BY DEF RecordsOrdered
    <2>1. i \in 1 .. Len(completedTraces) BY <1>8
    <2>2. CASE j \in 1 .. Len(completedTraces)
      BY <1>2, <1>8, <2>1, <2>2 DEF RecordsOrdered
    <2>3. CASE j = Len(completedTraces) + 1
      BY <1>7, <1>8, <1>10, <2>1, <2>3
    <2> QED BY <1>9, <2>2, <2>3
  <1>13. /\ completedTraces' \in Seq(Records!CompletedTrace)
         /\ RecordsOrdered(completedTraces')
         /\ \A i \in 1 .. Len(completedTraces') :
              RecordsEntry(completedTraces'[i], activeTraces', workflowTraces, traced, now)
    <2>1. CASE completedTraces' = ended BY <1>8, <1>11, <1>12, <2>1
    <2>2. CASE completedTraces' = Tail(ended)
      <3> DEFINE m == Len(completedTraces)
                 place == [k \in 1 .. m |-> k + 1]
      <3>1. ended # <<>> BY <1>8
      <3>2. /\ Tail(ended) \in Seq(Records!CompletedTrace)
            /\ Len(Tail(ended)) = Len(ended) - 1
            /\ \A k \in 1 .. Len(Tail(ended)) : Tail(ended)[k] = ended[k + 1]
        BY <1>8, <3>1, HeadTailProperties
      <3>3. Len(Tail(ended)) = m /\ m \in Nat BY <1>8, <3>2
      <3>4. \A k \in 1 .. m : k + 1 \in 1 .. Len(ended) BY <1>8
      <3> HIDE DEF m
      <3>5. RecordsOrdered(Tail(ended))
        <4> SUFFICES ASSUME NEW i \in 1 .. m, NEW j \in 1 .. m, i < j
                     PROVE  /\ Tail(ended)[i].traceId # Tail(ended)[j].traceId
                            /\ Tail(ended)[i].endTime <= Tail(ended)[j].endTime
          BY <3>3 DEF RecordsOrdered
        <4>1. /\ i + 1 \in 1 .. Len(ended) /\ j + 1 \in 1 .. Len(ended) /\ i + 1 < j + 1
              /\ Tail(ended)[i] = ended[i + 1] /\ Tail(ended)[j] = ended[j + 1]
          BY <3>2, <3>3, <3>4
        <4> QED BY <1>12, <4>1 DEF RecordsOrdered
      <3>6. \A i \in 1 .. Len(Tail(ended)) :
              RecordsEntry(Tail(ended)[i], activeTraces', workflowTraces, traced, now)
        BY <1>11, <3>2, <3>3, <3>4
      <3> QED BY <2>2, <3>2, <3>5, <3>6
    <2> QED BY <1>1, <2>1, <2>2
  <1>14. RecordsActive(activeTraces, workflowTraces, traced)'
    BY <1>1, <1>2 DEF RecordsActive
  <1> QED BY <1>1, <1>2, <1>13, <1>14 DEF RecordsTraces

LEMMA RecordsRecordError ==
  ASSUME RecordsInv, NEW trace \in activeTraces, Records!RecordError(trace)
  PROVE  RecordsTraces'
  <1> DEFINE more == [trace EXCEPT !.errorCount = @ + 1]
  <1>1. /\ UNCHANGED <<now, completedTraces, workflowTraces, maxTraces, traced>>
        /\ activeTraces' = (activeTraces \ {trace}) \cup {more}
    BY DEF Records!RecordError, Records!Tracing, Records!Called
  <1>2. /\ completedTraces \in Seq(Records!CompletedTrace)
        /\ RecordsActive(activeTraces, workflowTraces, traced)
        /\ \A i \in 1 .. Len(completedTraces) :
             RecordsEntry(completedTraces[i], activeTraces, workflowTraces, traced, now)
    BY DEF RecordsInv, RecordsTraces
  <1>3. trace \in Records!Trace BY <1>2 DEF RecordsActive
  <1>4. /\ more \in Records!Trace /\ more.traceId = trace.traceId
        /\ more.workflowName = trace.workflowName
    BY <1>3 DEF Records!Trace
  <1> HIDE DEF more
  <1>5. RecordsActive(activeTraces, workflowTraces, traced)'
    <2>1. RecordsFound(workflowTraces, more)
      BY <1>2, <1>4 DEF RecordsActive, RecordsFound
    <2> QED BY <1>1, <1>2, <1>4, <2>1 DEF RecordsActive
  <1>6. \A i \in 1 .. Len(completedTraces) :
          RecordsEntry(completedTraces[i], activeTraces', workflowTraces, traced, now)
    BY <1>1, <1>2, <1>4 DEF RecordsEntry
  <1> QED BY <1>1, <1>5, <1>6 DEF RecordsInv, RecordsTraces

LEMMA RecordsClearTraces ==
  ASSUME RecordsInv, NEW workflows, Records!ClearTraces(workflows)
  PROVE  RecordsTraces'
  <1> DEFINE kept == {i \in DOMAIN completedTraces :
                        completedTraces[i].workflowName \notin workflows}
  <1>1. /\ UNCHANGED <<now, maxTraces, traced>>
        /\ activeTraces' = {trace \in activeTraces : trace.workflowName \notin workflows}
        /\ completedTraces' = Sublist(completedTraces, kept)
        /\ workflowTraces' = [w \in FewIds |->
                                IF w \in workflows THEN <<>> ELSE workflowTraces[w]]
    BY SublistOfTraces DEF Records!ClearTraces, Records!Tracing, Records!Called
  <1>2. /\ workflowTraces \in [FewIds -> Seq(Nat)] /\ traced \in Nat
        /\ completedTraces \in Seq(Records!CompletedTrace) /\ maxTraces \in Limits
        /\ RecordsActive(activeTraces, workflowTraces, traced)
        /\ \A i \in 1 .. Len(completedTraces) :
             RecordsEntry(completedTraces[i], activeTraces, workflowTraces, traced, now)
        /\ RecordsOrdered(completedTraces)
    BY DEF RecordsInv, RecordsTraces
  <1>3. Len(completedTraces) \in Nat /\ DOMAIN completedTraces = 1 .. Len(completedTraces)
    BY <1>2, LenProperties
  <1>4. kept \in SUBSET (1 .. Len(completedTraces)) BY <1>3
  <1>5. \A i \in kept : completedTraces[i].workflowName \notin workflows OBVIOUS
  <1> HIDE DEF kept
  <1>6. PICK place \in Placing(kept) :
          Sublist(completedTraces, kept)
            = [k \in 1 .. Cardinality(kept) |-> completedTraces[place[k]]]
    BY <1>3, <1>4, SublistPicks
  <1>7. Cardinality(kept) \in Nat BY <1>3, <1>4, SublistPicks
  <1>8. /\ place \in [1 .. Cardinality(kept) -> kept]
        /\ \A k, l \in 1 .. Cardinality(kept) : k < l => place[k] < place[l]
    BY DEF Placing
  <1>9. place \in [1 .. Cardinality(kept) -> 1 .. Len(completedTraces)] BY <1>4, <1>8
  <1>10. /\ completedTraces' \in Seq(Records!CompletedTrace)
         /\ Len(completedTraces') = Cardinality(kept)
         /\ RecordsOrdered(completedTraces')
    <2> DEFINE m == Cardinality(kept)
               fewer == [k \in 1 .. m |-> completedTraces[place[k]]]
    <2>1. m \in Nat /\ place \in [1 .. m -> 1 .. Len(completedTraces)] BY <1>7, <1>9
    <2>2. \A k, l \in 1 .. m : k < l => place[k] < place[l] BY <1>8
    <2>3. completedTraces' = fewer BY <1>1, <1>6
    <2> HIDE DEF m
    <2>4. /\ fewer \in Seq(Records!CompletedTrace) /\ Len(fewer) = m
          /\ RecordsOrdered(fewer)
      BY <1>2, <2>1, <2>2, RecordsPick
    <2> QED BY <2>3, <2>4 DEF m
  <1>11. workflowTraces' \in [FewIds -> Seq(Nat)]
    <2>1. <<>> \in Seq(Nat) OBVIOUS
    <2> QED BY <1>1, <1>2, <2>1
  <1>12. ASSUME NEW trace, trace.workflowName \in FewIds, trace.workflowName \notin workflows,
                RecordsFound(workflowTraces, trace)
         PROVE  RecordsFound(workflowTraces', trace)
    <2>1. workflowTraces'[trace.workflowName] = workflowTraces[trace.workflowName]
      BY <1>1, <1>12
    <2> QED BY <1>12, <2>1 DEF RecordsFound
  <1>13. RecordsActive(activeTraces, workflowTraces, traced)'
    <2>1. \A trace \in activeTraces : /\ trace \in Records!Trace /\ trace.traceId <= traced
                                      /\ RecordsFound(workflowTraces, trace)
      BY <1>2 DEF RecordsActive
    <2>2. \A trace \in activeTraces : trace.workflowName \in FewIds
      BY <2>1 DEF Records!Trace
    <2>3. \A trace \in activeTraces' : /\ trace \in Records!Trace /\ trace.traceId <= traced
                                       /\ RecordsFound(workflowTraces', trace)
      BY <1>1, <1>12, <2>1, <2>2
    <2>4. \A one, other \in activeTraces' : one.traceId = other.traceId => one = other
      BY <1>1, <1>2 DEF RecordsActive
    <2> QED BY <1>1, <2>3, <2>4 DEF RecordsActive
  <1>14. ASSUME NEW k \in 1 .. Len(completedTraces')
         PROVE  RecordsEntry(completedTraces'[k], activeTraces', workflowTraces', traced, now)
    <2>1. place[k] \in kept /\ place[k] \in 1 .. Len(completedTraces)
          /\ completedTraces'[k] = completedTraces[place[k]]
      BY <1>1, <1>6, <1>8, <1>9, <1>10
    <2>2. RecordsEntry(completedTraces[place[k]], activeTraces, workflowTraces, traced, now)
      BY <1>2, <2>1
    <2>3. completedTraces[place[k]] \in Records!CompletedTrace BY <1>2, <2>1, ElementOfSeq
    <2>4. RecordsFound(workflowTraces', completedTraces[place[k]])
      BY <1>5, <1>12, <2>1, <2>2, <2>3 DEF Records!CompletedTrace, RecordsEntry
    <2> QED BY <1>1, <2>1, <2>2, <2>4 DEF RecordsEntry
  <1> QED BY <1>1, <1>2, <1>10, <1>11, <1>13, <1>14 DEF RecordsTraces

\* The metrics.
LEMMA RecordsStart ==
  ASSUME RecordsInv, NEW w \in FewIds, Records!RecordWorkflowStart(w)
  PROVE  RecordsMetrics'
  <1>1. /\ UNCHANGED <<now, metricsHistory>>
        /\ activeMetrics' = [activeMetrics EXCEPT ![w] = now]
        /\ begun' = [begun EXCEPT ![w] = @ + 1]
        /\ replacedRuns' = IF activeMetrics[w] = 0 THEN replacedRuns
                           ELSE [replacedRuns EXCEPT ![w] = @ + 1]
    BY DEF Records!RecordWorkflowStart, Records!Measuring, Records!Called
  <1>2. now \in 1 .. MaxTime /\ MaxTime \in Nat
    BY CallersAssumption DEF RecordsInv, Records!CallersTypeOK
  <1>3. RecordsMetrics BY DEF RecordsInv
  <1>4. \A v \in FewIds : Len(metricsHistory[v]) \in Nat
    BY <1>3, LenProperties DEF RecordsMetrics
  <1>5. \A v \in FewIds : Records!TotalDuration(metricsHistory[v]) \in Nat
    <2>1. [duration |-> 0, success |-> TRUE] \in Records!Measured
      BY CallersAssumption DEF Records!Measured
    <2> QED BY <1>3, <2>1, TotalOfMore DEF RecordsMetrics
  <1>6. /\ activeMetrics' \in [FewIds -> 0 .. MaxTime] /\ begun' \in [FewIds -> Nat]
        /\ replacedRuns' \in [FewIds -> Nat]
    BY <1>1, <1>2, <1>3 DEF RecordsMetrics
  <1>7. ASSUME NEW v \in FewIds
        PROVE  /\ activeMetrics'[v] <= now
               /\ begun'[v] = Len(metricsHistory[v]) + replacedRuns'[v]
                                + (IF activeMetrics'[v] = 0 THEN 0 ELSE 1)
               /\ Records!TotalDuration(metricsHistory[v])
                    <= (IF activeMetrics'[v] = 0 THEN now ELSE activeMetrics'[v]) - 1
    <2>1. CASE v # w BY <1>1, <1>3, <2>1 DEF RecordsMetrics
    <2>2. CASE v = w
      <3>1. /\ activeMetrics'[v] = now /\ begun'[v] = begun[v] + 1
            /\ replacedRuns'[v] = IF activeMetrics[v] = 0 THEN replacedRuns[v]
                                  ELSE replacedRuns[v] + 1
        BY <1>1, <1>3, <2>2 DEF RecordsMetrics
      <3>2. /\ activeMetrics[v] \in Nat /\ begun[v] \in Nat /\ replacedRuns[v] \in Nat
            /\ activeMetrics[v] <= now
            /\ begun[v] = Len(metricsHistory[v]) + replacedRuns[v]
                            + (IF activeMetrics[v] = 0 THEN 0 ELSE 1)
            /\ Records!TotalDuration(metricsHistory[v])
                 <= (IF activeMetrics[v] = 0 THEN now ELSE activeMetrics[v]) - 1
        BY <1>2, <1>3 DEF RecordsMetrics
      <3>3. /\ Len(metricsHistory[v]) \in Nat
            /\ Records!TotalDuration(metricsHistory[v]) \in Nat
        BY <1>4, <1>5
      <3>4. now \in Nat /\ now # 0 BY <1>2
      <3>5. CASE activeMetrics[v] = 0 BY <3>1, <3>2, <3>3, <3>4, <3>5
      <3>6. CASE activeMetrics[v] # 0
        <4>1. /\ activeMetrics'[v] = now /\ begun'[v] = begun[v] + 1
              /\ replacedRuns'[v] = replacedRuns[v] + 1
          BY <3>1, <3>6
        <4>2. /\ begun[v] = Len(metricsHistory[v]) + replacedRuns[v] + 1
              /\ Records!TotalDuration(metricsHistory[v]) <= activeMetrics[v] - 1
          BY <3>2, <3>6
        <4>3. begun'[v] = Len(metricsHistory[v]) + replacedRuns'[v] + 1
          BY ONLY <3>2, <3>3, <4>1, <4>2
        <4>4. Records!TotalDuration(metricsHistory[v]) <= now - 1
          BY ONLY <3>2, <3>3, <3>4, <4>2
        <4> QED BY <3>4, <4>1, <4>3, <4>4
      <3> QED BY <3>5, <3>6
    <2> QED BY <2>1, <2>2
  <1> QED BY <1>1, <1>3, <1>6, <1>7 DEF RecordsMetrics

LEMMA RecordsEnd ==
  ASSUME RecordsInv, NEW w \in FewIds, NEW success \in BOOLEAN,
         Records!RecordWorkflowEnd(w, success)
  PROVE  RecordsMetrics'
  <1> DEFINE run == [duration |-> now - activeMetrics[w], success |-> success]
             runs == metricsHistory[w]
  <1>1. /\ UNCHANGED <<now, begun, replacedRuns>> /\ activeMetrics[w] # 0
        /\ metricsHistory' = [metricsHistory EXCEPT ![w] = Append(runs, run)]
        /\ activeMetrics' = [activeMetrics EXCEPT ![w] = 0]
    BY DEF Records!RecordWorkflowEnd, Records!Measuring, Records!Called
  <1>2. now \in 1 .. MaxTime /\ MaxTime \in Nat
    BY CallersAssumption DEF RecordsInv, Records!CallersTypeOK
  <1>3. RecordsMetrics BY DEF RecordsInv
  <1>4. activeMetrics[w] \in 0 .. MaxTime /\ activeMetrics[w] <= now
          /\ runs \in Seq(Records!Measured)
    BY <1>3 DEF RecordsMetrics
  <1>5. run \in Records!Measured /\ run.duration = now - activeMetrics[w]
    BY <1>2, <1>4 DEF Records!Measured
  <1> HIDE DEF run
  <1> DEFINE more == Append(runs, run)
  <1>6. /\ more \in Seq(Records!Measured) /\ Len(more) = Len(runs) + 1 /\ Len(runs) \in Nat
    BY <1>4, <1>5, AppendProperties, LenProperties
  <1>7. /\ Records!TotalDuration(runs) \in Nat
        /\ Records!TotalDuration(more) = Records!TotalDuration(runs) + run.duration
    BY <1>4, <1>5, TotalOfMore
  <1>8. /\ metricsHistory' \in [FewIds -> Seq(Records!Measured)]
        /\ activeMetrics' \in [FewIds -> 0 .. MaxTime]
    BY <1>1, <1>2, <1>3, <1>6 DEF RecordsMetrics
  <1>9. ASSUME NEW v \in FewIds
        PROVE  /\ activeMetrics'[v] <= now
               /\ begun[v] = Len(metricsHistory'[v]) + replacedRuns[v]
                                + (IF activeMetrics'[v] = 0 THEN 0 ELSE 1)
               /\ Records!TotalDuration(metricsHistory'[v])
                    <= (IF activeMetrics'[v] = 0 THEN now ELSE activeMetrics'[v]) - 1
    <2>1. CASE v # w BY <1>1, <1>3, <2>1 DEF RecordsMetrics
    <2>2. CASE v = w
      <3>1. activeMetrics'[v] = 0 /\ metricsHistory'[v] = more
        BY <1>1, <1>3, <2>2 DEF RecordsMetrics
      <3>2. /\ begun[v] \in Nat /\ replacedRuns[v] \in Nat
            /\ begun[v] = Len(runs) + replacedRuns[v] + 1
            /\ Records!TotalDuration(runs) <= activeMetrics[w] - 1
        BY <1>1, <1>3, <2>2 DEF RecordsMetrics
      <3> HIDE DEF more, runs
      <3>3. /\ activeMetrics[w] \in Nat /\ now \in Nat
            /\ Records!TotalDuration(more)
                 = Records!TotalDuration(runs) + (now - activeMetrics[w])
        BY <1>2, <1>4, <1>5, <1>7
      <3>4. Records!TotalDuration(more) <= now - 1 BY <1>7, <3>2, <3>3
      <3>5. begun[v] = Len(more) + replacedRuns[v] + 0 BY <1>6, <3>2
      <3> QED BY <3>1, <3>3, <3>4, <3>5
    <2> QED BY <2>1, <2>2
  <1> QED BY <1>1, <1>3, <1>8, <1>9 DEF RecordsMetrics

LEMMA RecordsClearMetrics ==
  ASSUME RecordsInv, NEW workflows, Records!ClearMetrics(workflows)
  PROVE  RecordsMetrics'
  <1>1. /\ UNCHANGED now
        /\ activeMetrics' = [w \in FewIds |-> IF w \in workflows THEN 0 ELSE activeMetrics[w]]
        /\ metricsHistory'
             = [w \in FewIds |-> IF w \in workflows THEN <<>> ELSE metricsHistory[w]]
        /\ begun' = [w \in FewIds |-> IF w \in workflows THEN 0 ELSE begun[w]]
        /\ replacedRuns' = [w \in FewIds |-> IF w \in workflows THEN 0 ELSE replacedRuns[w]]
    BY DEF Records!ClearMetrics, Records!Measuring, Records!Called
  <1>2. now \in 1 .. MaxTime /\ MaxTime \in Nat
    BY CallersAssumption DEF RecordsInv, Records!CallersTypeOK
  <1>3. RecordsMetrics BY DEF RecordsInv
  <1>4. <<>> \in Seq(Records!Measured) /\ Len(<<>>) = 0 OBVIOUS
  <1>5. /\ activeMetrics' \in [FewIds -> 0 .. MaxTime] /\ begun' \in [FewIds -> Nat]
        /\ replacedRuns' \in [FewIds -> Nat]
        /\ metricsHistory' \in [FewIds -> Seq(Records!Measured)]
    BY <1>1, <1>2, <1>3, <1>4 DEF RecordsMetrics
  <1>6. ASSUME NEW v \in FewIds
        PROVE  /\ activeMetrics'[v] <= now
               /\ begun'[v] = Len(metricsHistory'[v]) + replacedRuns'[v]
                                + (IF activeMetrics'[v] = 0 THEN 0 ELSE 1)
               /\ Records!TotalDuration(metricsHistory'[v])
                    <= (IF activeMetrics'[v] = 0 THEN now ELSE activeMetrics'[v]) - 1
    <2>1. CASE v \notin workflows BY <1>1, <1>3, <2>1 DEF RecordsMetrics
    <2>2. CASE v \in workflows
      <3>1. /\ activeMetrics'[v] = 0 /\ metricsHistory'[v] = <<>>
            /\ begun'[v] = 0 /\ replacedRuns'[v] = 0
        BY <1>1, <2>2
      <3> QED BY <1>2, <1>4, <3>1, TotalOfNothing
    <2> QED BY <2>1, <2>2
  <1> QED BY <1>1, <1>5, <1>6 DEF RecordsMetrics

\* The statistics.
LEMMA RecordsStatsStep ==
  ASSUME RecordsInv, UNCHANGED now, NEW w \in FewIds, NEW new \in Records!Stats,
         stats' = [stats EXCEPT ![w] = new],
         NEW begin \in 0 .. MaxTime, startedAt' = [startedAt EXCEPT ![w] = begin],
         begin <= now, new.totalDuration <= (IF begin = 0 THEN now ELSE begin) - 1
  PROVE  RecordsStats'
  <1>1. RecordsStats BY DEF RecordsInv
  <1>2. stats' \in [FewIds -> Records!Stats] /\ startedAt' \in [FewIds -> 0 .. MaxTime]
    BY <1>1 DEF RecordsStats
  <1>3. \A v \in FewIds : /\ stats'[v] = IF v = w THEN new ELSE stats[v]
                          /\ startedAt'[v] = IF v = w THEN begin ELSE startedAt[v]
    BY <1>1 DEF RecordsStats
  <1> QED BY <1>1, <1>2, <1>3 DEF RecordsStats

LEMMA RecordsObserved ==
  ASSUME RecordsInv, NEW w \in FewIds,
         \/ Records!OnWorkflowStarted(w) \/ Records!OnWorkflowFinished(w)
         \/ Records!OnWorkflowInterrupted(w) \/ Records!OnWorkflowError(w)
  PROVE  RecordsStats'
  <1> DEFINE old == stats[w]
             since == startedAt[w]
  <1>1. now \in 1 .. MaxTime /\ MaxTime \in Nat /\ UNCHANGED now
    BY CallersAssumption
    DEF RecordsInv, Records!CallersTypeOK, Records!OnWorkflowStarted,
        Records!OnWorkflowFinished, Records!OnWorkflowInterrupted, Records!OnWorkflowError,
        Records!Observing, Records!Called
  <1>2. /\ stats \in [FewIds -> Records!Stats] /\ startedAt \in [FewIds -> 0 .. MaxTime]
        /\ old \in Records!Stats /\ since \in 0 .. MaxTime /\ since <= now
        /\ old.totalDuration <= (IF since = 0 THEN now ELSE since) - 1
    BY DEF RecordsInv, RecordsStats
  <1>3. /\ old.startCount \in Nat /\ old.finishCount \in Nat /\ old.interruptCount \in Nat
        /\ old.errorCount \in Nat /\ old.totalDuration \in Nat
    BY <1>2 DEF Records!Stats
  <1>4. CASE Records!OnWorkflowStarted(w)
    <2> DEFINE new == [old EXCEPT !.startCount = @ + 1]
    <2>1. stats' = [stats EXCEPT ![w] = new] /\ startedAt' = [startedAt EXCEPT ![w] = now]
      BY <1>4 DEF Records!OnWorkflowStarted
    <2>2. new \in Records!Stats /\ new.totalDuration = old.totalDuration
      BY <1>2, <1>3 DEF Records!Stats
    <2> HIDE DEF new, old, since
    <2>3. new.totalDuration <= (IF now = 0 THEN now ELSE now) - 1 /\ now \in 0 .. MaxTime
          /\ now <= now
      BY <1>1, <1>2, <1>3, <2>2
    <2> QED BY <1>1, <2>1, <2>2, <2>3, RecordsStatsStep
  <1>5. CASE Records!OnWorkflowFinished(w)
    <2> DEFINE total == IF since = 0 THEN old.totalDuration
                        ELSE old.totalDuration + (now - since)
               new == [old EXCEPT !.finishCount = @ + 1, !.totalDuration = total]
    <2>1. stats' = [stats EXCEPT ![w] = new] /\ startedAt' = [startedAt EXCEPT ![w] = 0]
      <3>1. /\ stats' = [stats EXCEPT ![w].finishCount = @ + 1,
                           ![w].totalDuration =
                              IF startedAt[w] = 0 THEN @ ELSE @ + (now - startedAt[w])]
            /\ startedAt' = [startedAt EXCEPT ![w] = 0]
        BY <1>5 DEF Records!OnWorkflowFinished
      <3> DEFINE once == [old EXCEPT !.finishCount = @ + 1]
      <3>2. once.totalDuration = old.totalDuration BY <1>2 DEF Records!Stats
      <3> QED BY <1>2, <3>1, <3>2
    <2>2. total \in Nat /\ total <= now - 1
      <3> HIDE DEF old, since
      <3> QED BY <1>1, <1>2, <1>3
    <2> HIDE DEF total
    <2>3. new \in Records!Stats /\ new.totalDuration = total
      <3>1. [old EXCEPT !.finishCount = @ + 1] \in Records!Stats
        BY <1>2, <1>3 DEF Records!Stats
      <3> DEFINE once == [old EXCEPT !.finishCount = @ + 1]
      <3>2. new = [once EXCEPT !.totalDuration = total] OBVIOUS
      <3>3. once \in Records!Stats BY <3>1
      <3> HIDE DEF once, new
      <3> QED BY <2>2, <3>2, <3>3 DEF Records!Stats
    <2> HIDE DEF new, old, since
    <2>4. 0 \in 0 .. MaxTime /\ 0 <= now BY <1>1
    <2> QED BY <1>1, <2>1, <2>2, <2>3, <2>4, RecordsStatsStep
  <1>6. ASSUME NEW new \in Records!Stats, stats' = [stats EXCEPT ![w] = new],
               UNCHANGED startedAt, new.totalDuration = old.totalDuration
        PROVE  RecordsStats'
    <2>1. startedAt' = [startedAt EXCEPT ![w] = since] BY <1>2, <1>6
    <2> HIDE DEF old, since
    <2>2. new.totalDuration <= (IF since = 0 THEN now ELSE since) - 1 BY <1>2, <1>6
    <2> QED BY <1>1, <1>2, <1>6, <2>1, <2>2, RecordsStatsStep
  <1>7. CASE Records!OnWorkflowInterrupted(w)
    <2> DEFINE new == [old EXCEPT !.interruptCount = @ + 1]
    <2>1. stats' = [stats EXCEPT ![w] = new] /\ UNCHANGED startedAt
      BY <1>7 DEF Records!OnWorkflowInterrupted
    <2>2. new \in Records!Stats /\ new.totalDuration = old.totalDuration
      BY <1>2, <1>3 DEF Records!Stats
    <2> HIDE DEF new
    <2> QED BY <1>6, <2>1, <2>2
  <1>8. CASE Records!OnWorkflowError(w)
    <2> DEFINE new == [old EXCEPT !.errorCount = @ + 1]
    <2>1. stats' = [stats EXCEPT ![w] = new] /\ UNCHANGED startedAt
      BY <1>8 DEF Records!OnWorkflowError
    <2>2. new \in Records!Stats /\ new.totalDuration = old.totalDuration
      BY <1>2, <1>3 DEF Records!Stats
    <2> HIDE DEF new
    <2> QED BY <1>6, <2>1, <2>2
  <1> QED BY <1>4, <1>5, <1>7, <1>8

LEMMA RecordsTickKeeps ==
  ASSUME RecordsInv, Records!Tick
  PROVE  RecordsInv'
  <1>1. /\ now' = now + 1 /\ Records!CallersTypeOK'
        /\ UNCHANGED <<Records!traceVars, Records!metricVars, Records!statVars>>
    BY CallersAssumption
    DEF RecordsInv, Records!CallersTypeOK, Records!Tick, Records!Elapse
  <1>2. now \in Nat BY CallersAssumption DEF RecordsInv, Records!CallersTypeOK
  <1>3. RecordsTraces'
    <2>1. ASSUME NEW i \in 1 .. Len(completedTraces)
          PROVE  RecordsEntry(completedTraces[i], activeTraces, workflowTraces, traced, now')
      <3>1. RecordsEntry(completedTraces[i], activeTraces, workflowTraces, traced, now)
        BY DEF RecordsInv, RecordsTraces
      <3>2. completedTraces[i] \in Records!CompletedTrace
        BY ElementOfSeq DEF RecordsInv, RecordsTraces
      <3>3. completedTraces[i].endTime \in Nat
        BY <3>2, CallersAssumption DEF Records!CompletedTrace
      <3> QED BY <1>1, <1>2, <3>1, <3>3 DEF RecordsEntry
    <2> QED BY <1>1, <2>1 DEF RecordsInv, RecordsTraces, Records!traceVars
  <1>4. RecordsMetrics'
    <2>1. [duration |-> 0, success |-> TRUE] \in Records!Measured
      BY CallersAssumption DEF Records!Measured
    <2>2. \A w \in FewIds : Records!TotalDuration(metricsHistory[w]) \in Nat
      BY <2>1, TotalOfMore DEF RecordsInv, RecordsMetrics
    <2>3. \A w \in FewIds : activeMetrics[w] \in Nat
      BY CallersAssumption DEF RecordsInv, RecordsMetrics
    <2> QED BY <1>1, <1>2, <2>2, <2>3 DEF RecordsInv, RecordsMetrics, Records!metricVars
  <1>5. RecordsStats'
    <2>1. \A w \in FewIds : startedAt[w] \in Nat /\ stats[w].totalDuration \in Nat
      BY CallersAssumption DEF RecordsInv, RecordsStats, Records!Stats
    <2> QED BY <1>1, <1>2, <2>1 DEF RecordsInv, RecordsStats, Records!statVars
  <1> QED BY <1>1, <1>3, <1>4, <1>5 DEF RecordsInv

LEMMA RecordsStep == RecordsInv /\ [Records!Next]_(Records!vars) => RecordsInv'
  <1> SUFFICES ASSUME RecordsInv, [Records!Next]_(Records!vars) PROVE RecordsInv'
    OBVIOUS
  <1>1. ASSUME Records!Tracing, RecordsTraces' PROVE RecordsInv'
    BY <1>1, RecordsCalled, RecordsMetricsKept, RecordsStatsKept
    DEF Records!Tracing, RecordsInv
  <1>2. ASSUME Records!Measuring, RecordsMetrics' PROVE RecordsInv'
    BY <1>2, RecordsCalled, RecordsTracesKept, RecordsStatsKept
    DEF Records!Measuring, RecordsInv
  <1>3. ASSUME Records!Observing, RecordsStats' PROVE RecordsInv'
    BY <1>3, RecordsCalled, RecordsTracesKept, RecordsMetricsKept
    DEF Records!Observing, RecordsInv
  <1>4. ASSUME NEW w \in FewIds, Records!StartTrace(w) PROVE RecordsInv'
    BY <1>1, <1>4, RecordsStartTrace DEF Records!StartTrace
  <1>5. ASSUME NEW w \in FewIds, Records!RecordWorkflowStart(w) PROVE RecordsInv'
    BY <1>2, <1>5, RecordsStart DEF Records!RecordWorkflowStart
  <1>6. ASSUME NEW w \in FewIds, NEW success \in BOOLEAN, Records!RecordWorkflowEnd(w, success)
        PROVE  RecordsInv'
    BY <1>2, <1>6, RecordsEnd DEF Records!RecordWorkflowEnd
  <1>7. ASSUME NEW w \in FewIds,
               \/ Records!OnWorkflowStarted(w) \/ Records!OnWorkflowFinished(w)
               \/ Records!OnWorkflowInterrupted(w) \/ Records!OnWorkflowError(w)
        PROVE  RecordsInv'
    <2>1. Records!Observing
      BY <1>7 DEF Records!OnWorkflowStarted, Records!OnWorkflowFinished,
                  Records!OnWorkflowInterrupted, Records!OnWorkflowError
    <2> QED BY <1>3, <1>7, <2>1, RecordsObserved
  <1>8. ASSUME NEW trace \in activeTraces, Records!EndTrace(trace) PROVE RecordsInv'
    BY <1>1, <1>8, RecordsEndTrace DEF Records!EndTrace
  <1>9. ASSUME NEW trace \in activeTraces, Records!RecordError(trace) PROVE RecordsInv'
    BY <1>1, <1>9, RecordsRecordError DEF Records!RecordError
  <1>10. ASSUME NEW workflows, Records!ClearTraces(workflows) PROVE RecordsInv'
    BY <1>1, <1>10, RecordsClearTraces DEF Records!ClearTraces
  <1>11. ASSUME NEW workflows, Records!ClearMetrics(workflows) PROVE RecordsInv'
    BY <1>2, <1>11, RecordsClearMetrics DEF Records!ClearMetrics
  <1>12. ASSUME NEW limit \in Limits, Records!SetMaxTraces(limit) PROVE RecordsInv'
    <2>1. /\ Records!Tracing /\ maxTraces' = limit
          /\ UNCHANGED <<now, activeTraces, completedTraces, workflowTraces, traced>>
      BY <1>12 DEF Records!SetMaxTraces, Records!Tracing, Records!Called
    <2>2. RecordsTraces' BY <2>1 DEF RecordsInv, RecordsTraces
    <2> QED BY <1>1, <2>1, <2>2
  <1>13. CASE Records!ClearStats
    <2>1. /\ Records!Observing /\ UNCHANGED now
          /\ stats' = [w \in FewIds |-> Records!NoStats] /\ startedAt' = [w \in FewIds |-> 0]
      BY <1>13 DEF Records!ClearStats, Records!Observing, Records!Called, Records!Never
    <2>2. now \in 1 .. MaxTime /\ MaxTime \in Nat
      BY CallersAssumption DEF RecordsInv, Records!CallersTypeOK
    <2>3. RecordsStats' BY <2>1, <2>2 DEF RecordsStats, Records!NoStats, Records!Stats
    <2> QED BY <1>3, <2>1, <2>3
  <1>14. CASE Records!Tick BY <1>14, RecordsTickKeeps
  <1>15. CASE UNCHANGED Records!vars
    <2>1. /\ Records!CallersTypeOK'
          /\ UNCHANGED <<now, Records!traceVars, Records!metricVars, Records!statVars>>
      BY <1>15 DEF Records!vars, Records!own, RecordsInv, Records!CallersTypeOK
    <2> QED BY <2>1, RecordsTracesKept, RecordsMetricsKept, RecordsStatsKept DEF RecordsInv
  <1> QED BY <1>4, <1>5, <1>6, <1>7, <1>8, <1>9, <1>10, <1>11, <1>12, <1>13, <1>14, <1>15
          DEF Records!Next

LEMMA RecordsTracesListed == RecordsInv => Records!TracesListed
  <1> SUFFICES ASSUME RecordsInv PROVE Records!TracesListed
    OBVIOUS
  <1>1. /\ completedTraces \in Seq(Records!CompletedTrace)
        /\ workflowTraces \in [FewIds -> Seq(Nat)]
        /\ RecordsActive(activeTraces, workflowTraces, traced)
        /\ \A i \in 1 .. Len(completedTraces) :
             RecordsEntry(completedTraces[i], activeTraces, workflowTraces, traced, now)
        /\ RecordsOrdered(completedTraces)
    BY DEF RecordsInv, RecordsTraces
  <1>2. DOMAIN completedTraces = 1 .. Len(completedTraces) BY <1>1, LenProperties
  <1>3. \A w \in FewIds : DOMAIN workflowTraces[w] = 1 .. Len(workflowTraces[w])
    BY <1>1, LenProperties
  <1>4. \A i \in DOMAIN completedTraces :
          completedTraces[i].traceId \notin {trace.traceId : trace \in activeTraces}
    BY <1>1, <1>2 DEF RecordsEntry
  <1>5. \A i, j \in DOMAIN completedTraces : i < j =>
          /\ completedTraces[i].traceId # completedTraces[j].traceId
          /\ completedTraces[i].endTime <= completedTraces[j].endTime
    BY <1>1, <1>2 DEF RecordsOrdered
  <1>6. \A trace \in activeTraces :
          \E k \in DOMAIN workflowTraces[trace.workflowName] :
            workflowTraces[trace.workflowName][k] = trace.traceId
    <2> TAKE trace \in activeTraces
    <2>1. trace \in Records!Trace /\ RecordsFound(workflowTraces, trace)
      BY <1>1 DEF RecordsActive
    <2>2. trace.workflowName \in FewIds BY <2>1 DEF Records!Trace
    <2> QED BY <1>3, <2>1, <2>2 DEF RecordsFound
  <1>7. \A w \in FewIds : \A i \in Records!CompletedOf(w) :
          \E k \in DOMAIN workflowTraces[w] : workflowTraces[w][k] = completedTraces[i].traceId
    BY <1>1, <1>2, <1>3 DEF Records!CompletedOf, RecordsEntry, RecordsFound
  <1> QED BY <1>4, <1>5, <1>6, <1>7 DEF Records!TracesListed

LEMMA RecordsRunsAccounted == RecordsInv => Records!RunsAccounted
  <1> SUFFICES ASSUME RecordsInv, NEW w \in FewIds
               PROVE  /\ begun[w] = Len(metricsHistory[w]) + replacedRuns[w]
                                      + (IF activeMetrics[w] = 0 THEN 0 ELSE 1)
                      /\ Records!Statistics(w).totalDuration <= now - 1
                      /\ Records!Statistics(w).minDuration
                           <= Records!Statistics(w).averageDuration
                      /\ stats[w].totalDuration <= now - 1
    BY DEF Records!RunsAccounted
  <1>1. now \in Nat BY CallersAssumption DEF RecordsInv, Records!CallersTypeOK
  <1>2. /\ metricsHistory[w] \in Seq(Records!Measured)
        /\ activeMetrics[w] \in Nat /\ activeMetrics[w] <= now
        /\ begun[w] = Len(metricsHistory[w]) + replacedRuns[w]
                        + (IF activeMetrics[w] = 0 THEN 0 ELSE 1)
        /\ Records!TotalDuration(metricsHistory[w])
             <= (IF activeMetrics[w] = 0 THEN now ELSE activeMetrics[w]) - 1
    BY CallersAssumption DEF RecordsInv, RecordsMetrics
  <1>3. Records!TotalDuration(metricsHistory[w]) \in Nat
    <2>1. [duration |-> 0, success |-> TRUE] \in Records!Measured
      BY CallersAssumption DEF Records!Measured
    <2> QED BY <1>2, <2>1, TotalOfMore
  <1>4. Records!Statistics(w).totalDuration <= now - 1
    BY <1>1, <1>2, <1>3 DEF Records!Statistics
  <1>5. stats[w].totalDuration <= now - 1
    <2>1. startedAt[w] \in Nat /\ startedAt[w] <= now /\ stats[w].totalDuration \in Nat
          /\ stats[w].totalDuration <= (IF startedAt[w] = 0 THEN now ELSE startedAt[w]) - 1
      BY CallersAssumption DEF RecordsInv, RecordsStats, Records!Stats
    <2> QED BY <1>1, <2>1
  <1> QED BY <1>2, <1>4, <1>5, MinIsBelowAverage

\* A trace runs or is completed, never both, and is found through its workflow.
THEOREM TracesAreFound == Records!Spec => []Records!TracesListed
  <1>1. Records!Init => RecordsInv BY RecordsInit
  <1>2. RecordsInv /\ [Records!Next]_(Records!vars) => RecordsInv' BY RecordsStep
  <1>3. RecordsInv => Records!TracesListed BY RecordsTracesListed
  <1> QED BY <1>1, <1>2, <1>3, PTL DEF Records!Spec

\* Every execution that began is running, measured or replaced, and no time is counted
\* twice, neither by the metrics nor by the observer.
THEOREM RunsAreAccounted == Records!Spec => []Records!RunsAccounted
  <1>1. Records!Init => RecordsInv BY RecordsInit
  <1>2. RecordsInv /\ [Records!Next]_(Records!vars) => RecordsInv' BY RecordsStep
  <1>3. RecordsInv => Records!RunsAccounted BY RecordsRunsAccounted
  <1> QED BY <1>1, <1>2, <1>3, PTL DEF Records!Spec

=============================================================================

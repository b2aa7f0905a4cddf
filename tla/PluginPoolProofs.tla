-------------------------- MODULE PluginPoolProofs --------------------------
(***************************************************************************)
(* Proofs about the plugin components that keep queues or threads of their *)
(* own: the channel, the message bus, the event bus, the thread pool, the  *)
(* data channels and the timer service.  Lemmas about lists and subscription*)
(* tables come first, then the lemmas about QueueWorkers that the first four*)
(* share, then for each component an inductive invariant that every step   *)
(* keeps and that implies its properties.                                  *)
(***************************************************************************)
EXTENDS MCPlugins, FiniteSetTheorems, SequenceTheorems, WellFoundedInduction, TLAPS

-----------------------------------------------------------------------------
(* Numbers, parts of lists, and functions defined step by step.            *)

\* Numbers have a least one: what induction comes down to here.
LEMMA LeastNumber ==
  ASSUME NEW numbers \in SUBSET Nat, numbers # {}
  PROVE  \E least \in numbers : \A number \in numbers : least <= number
  <1> DEFINE less == OpToRel(<, Nat)
  <1>1. PICK least \in numbers : \A number \in numbers : ~(<<number, least>> \in less)
    BY NatLessThanWellFounded, WFMin
  <1>2. \A number \in numbers : ~(number < least)
    BY <1>1 DEF OpToRel
  <1> QED BY <1>2

\* Induction up to n, about a set of numbers.
LEMMA Upwards ==
  ASSUME NEW n \in Nat, NEW good, 0 \in good, \A i \in 1 .. n : i - 1 \in good => i \in good
  PROVE  \A i \in 0 .. n : i \in good
  <1> DEFINE bad == {i \in 0 .. n : i \notin good}
  <1> SUFFICES ASSUME bad # {} PROVE FALSE
    OBVIOUS
  <1>1. PICK least \in bad : \A number \in bad : least <= number
    <2>1. bad \in SUBSET Nat OBVIOUS
    <2> HIDE DEF bad
    <2> QED BY <2>1, LeastNumber
  <1>2. least \in 1 .. n BY <1>1
  <1>3. least - 1 \in 0 .. n /\ ~(least <= least - 1) BY <1>2
  <1>4. least - 1 \in good BY <1>1, <1>3
  <1> QED BY <1>1, <1>2, <1>4

\* Ranks number the kept positions in their order.
LEMMA RanksAreOrder ==
  ASSUME NEW n \in Nat, NEW kept \in SUBSET (1 .. n)
  PROVE  LET Rank(i) == Cardinality({j \in kept : j <= i})
         IN  /\ IsFiniteSet(kept) /\ Cardinality(kept) \in Nat
             /\ \A i \in kept : Rank(i) \in 1 .. Cardinality(kept)
             /\ \A i, j \in kept : i < j => Rank(i) < Rank(j)
  <1> DEFINE Upto(i) == {j \in kept : j <= i}
  <1>1. IsFiniteSet(kept)
    <2>1. IsFiniteSet(1 .. n) BY FS_Interval
    <2> QED BY <2>1, FS_Subset
  <1>2. \A i \in kept : /\ IsFiniteSet(Upto(i)) /\ Cardinality(Upto(i)) \in Nat
                        /\ Cardinality(Upto(i)) <= Cardinality(kept)
    <2> SUFFICES ASSUME NEW i \in kept
                 PROVE  /\ IsFiniteSet(Upto(i)) /\ Cardinality(Upto(i)) \in Nat
                        /\ Cardinality(Upto(i)) <= Cardinality(kept)
      OBVIOUS
    <2>1. Upto(i) \in SUBSET kept OBVIOUS
    <2> HIDE DEF Upto
    <2> QED BY <1>1, <2>1, FS_Subset, FS_CardinalityType
  <1>3. \A i \in kept : Cardinality(Upto(i)) # 0
    <2> SUFFICES ASSUME NEW i \in kept PROVE Cardinality(Upto(i)) # 0
      OBVIOUS
    <2>1. i \in Upto(i) OBVIOUS
    <2> HIDE DEF Upto
    <2> QED BY <1>2, <2>1, FS_EmptySet
  <1>4. \A i, j \in kept : i < j => Cardinality(Upto(i)) < Cardinality(Upto(j))
    <2> SUFFICES ASSUME NEW i \in kept, NEW j \in kept, i < j
                 PROVE  Cardinality(Upto(i)) < Cardinality(Upto(j))
      OBVIOUS
    <2>0. i \in Nat /\ j \in Nat /\ kept \subseteq Nat OBVIOUS
    <2>1. \A x \in Upto(i) : x \in Upto(j)
      <3> TAKE x \in Upto(i)
      <3>1. x \in kept /\ x <= i /\ x \in Nat BY <2>0
      <3>2. x <= j BY <2>0, <3>1
      <3> QED BY <3>1, <3>2
    <2>2. j \in Upto(j) /\ j \notin Upto(i) OBVIOUS
    <2> HIDE DEF Upto
    <2>3. /\ Cardinality(Upto(i)) <= Cardinality(Upto(j))
          /\ Cardinality(Upto(i)) = Cardinality(Upto(j)) => Upto(i) = Upto(j)
      BY <1>2, <2>1, FS_Subset
    <2> QED BY <1>2, <2>2, <2>3
  <1>5. Cardinality(kept) \in Nat BY <1>1, FS_CardinalityType
  <1>6. \A i \in kept : Cardinality(Upto(i)) \in 1 .. Cardinality(kept)
    <2> HIDE DEF Upto
    <2> QED BY <1>2, <1>3, <1>5
  <1> QED BY <1>1, <1>4, <1>5, <1>6

\* The functions that number the elements of a set of positions, in their order.
Placing(kept) ==
  {pick \in [1 .. Cardinality(kept) -> kept] :
     /\ \A i \in kept : \E k \in 1 .. Cardinality(kept) : pick[k] = i
     /\ \A k, l \in 1 .. Cardinality(kept) : k < l => pick[k] < pick[l]}

\* What a sublist is: the elements at the kept positions, each once and in order.
LEMMA SublistPicks ==
  ASSUME NEW list, NEW n \in Nat, NEW kept \in SUBSET (1 .. n)
  PROVE  /\ Cardinality(kept) \in Nat
         /\ \E pick \in Placing(kept) :
              Sublist(list, kept) = [k \in 1 .. Cardinality(kept) |-> list[pick[k]]]
  <1> DEFINE Rank(i) == Cardinality({j \in kept : j <= i})
             size == Cardinality(kept)
             rank == [i \in kept |-> Rank(i)]
             pick == [k \in 1 .. size |-> CHOOSE i \in kept : Rank(i) = k]
  <1>1. /\ IsFiniteSet(kept) /\ size \in Nat
        /\ \A i \in kept : Rank(i) \in 1 .. size
        /\ \A i, j \in kept : i < j => Rank(i) < Rank(j)
    BY RanksAreOrder
  <1>2. Sublist(list, kept) = [k \in 1 .. size |-> list[pick[k]]]
    BY DEF Sublist
  <1> HIDE DEF Rank, size
  <1>3. \A i, j \in kept : Rank(i) = Rank(j) => i = j
    <2>1. \A i \in kept : Rank(i) \in Nat /\ i \in Nat BY <1>1
    <2>2. \A i, j \in kept : i # j => i < j \/ j < i BY <2>1
    <2> QED BY <1>1, <2>1, <2>2
  <1>4. rank \in Injection(kept, 1 .. size)
    BY <1>1, <1>3 DEF Injection, IsInjective
  <1>5. rank \in Surjection(kept, 1 .. size)
    <2>1. IsFiniteSet(1 .. size) /\ Cardinality(1 .. size) = size
      BY <1>1, FS_Interval
    <2> HIDE DEF rank
    <2> QED BY <1>4, <2>1, FS_Injection DEF size
  <1>6. \A k \in 1 .. size : \E i \in kept : Rank(i) = k
    BY <1>5 DEF Surjection
  <1>7. \A k \in 1 .. size : pick[k] \in kept /\ Rank(pick[k]) = k
    BY <1>6
  <1>8. pick \in [1 .. size -> kept] BY <1>7
  <1> HIDE DEF pick, rank
  <1>9. \A i \in kept : \E k \in 1 .. size : pick[k] = i
    BY <1>1, <1>3, <1>7
  <1>10. \A k, l \in 1 .. size : k < l => pick[k] < pick[l]
    <2> SUFFICES ASSUME NEW k \in 1 .. size, NEW l \in 1 .. size, k < l
                 PROVE  pick[k] < pick[l]
      OBVIOUS
    <2>1. pick[k] \in kept /\ pick[l] \in kept /\ kept \subseteq Nat BY <1>7
    <2>2. pick[k] # pick[l] BY <1>7
    <2>3. pick[l] < pick[k] => Rank(pick[l]) < Rank(pick[k]) BY <1>1, <2>1
    <2>4. Rank(pick[k]) = k /\ Rank(pick[l]) = l BY <1>7
    <2>5. k \in Nat /\ l \in Nat BY <1>1
    <2>6. pick[k] \in Nat /\ pick[l] \in Nat BY <2>1
    <2> QED BY <2>2, <2>3, <2>4, <2>5, <2>6
  <1>11. pick \in Placing(kept) BY <1>8, <1>9, <1>10 DEF Placing, size
  <1> QED BY <1>1, <1>2, <1>11 DEF size

\* What is at the positions of a sublist, and which elements it has.
LEMMA SublistOf ==
  ASSUME NEW S, NEW list \in Seq(S), NEW kept \in SUBSET (1 .. Len(list))
  PROVE  /\ Sublist(list, kept) \in Seq(S)
         /\ Len(Sublist(list, kept)) = Cardinality(kept) /\ Cardinality(kept) \in Nat
         /\ \E pick \in [1 .. Cardinality(kept) -> kept] :
              /\ \A k \in 1 .. Cardinality(kept) : Sublist(list, kept)[k] = list[pick[k]]
              /\ \A k, l \in 1 .. Cardinality(kept) : k < l => pick[k] < pick[l]
         /\ \A i \in kept : \E k \in 1 .. Cardinality(kept) : Sublist(list, kept)[k] = list[i]
  <1> DEFINE size == Cardinality(kept)
             less == Sublist(list, kept)
  <1>1. Len(list) \in Nat OBVIOUS
  <1>2. size \in Nat BY <1>1, SublistPicks
  <1>3. PICK pick \in Placing(kept) : less = [k \in 1 .. size |-> list[pick[k]]]
    BY <1>1, SublistPicks
  <1> HIDE DEF size, less
  <1>4. /\ pick \in [1 .. size -> kept]
        /\ \A i \in kept : \E k \in 1 .. size : pick[k] = i
        /\ \A k, l \in 1 .. size : k < l => pick[k] < pick[l]
    BY DEF Placing, size
  <1>5. \A k \in 1 .. size : less[k] = list[pick[k]] /\ list[pick[k]] \in S
    <2> TAKE k \in 1 .. size
    <2>1. pick[k] \in 1 .. Len(list) BY <1>4
    <2>2. list[pick[k]] \in S BY <2>1
    <2> QED BY <1>3, <2>2
  <1>6. less \in Seq(S) /\ Len(less) = size BY <1>2, <1>3, <1>5
  <1>7. \A i \in kept : \E k \in 1 .. size : less[k] = list[i] BY <1>4, <1>5
  <1> QED BY <1>2, <1>4, <1>5, <1>6, <1>7 DEF size, less

\* Lists one after the other.
LEMMA ConcatIs ==
  ASSUME NEW S, NEW one \in Seq(S), NEW two \in Seq(S)
  PROVE  /\ one \o two \in Seq(S) /\ Len(one \o two) = Len(one) + Len(two)
         /\ \A i \in 1 .. Len(one) : (one \o two)[i] = one[i]
         /\ \A i \in 1 .. Len(two) : (one \o two)[Len(one) + i] = two[i]
  <1>1. one \o two \in Seq(S) OBVIOUS
  <1>2. Len(one \o two) = Len(one) + Len(two) OBVIOUS
  <1>3. \A i \in 1 .. Len(one) : (one \o two)[i] = one[i] OBVIOUS
  <1>4. \A i \in 1 .. Len(two) : (one \o two)[Len(one) + i] = two[i]
    <2> TAKE i \in 1 .. Len(two)
    <2>1. /\ Len(one) + i \in 1 .. Len(one) + Len(two) /\ ~(Len(one) + i <= Len(one))
          /\ Len(one) + i - Len(one) = i
      OBVIOUS
    <2> QED BY <2>1, ConcatProperties
  <1> QED BY <1>1, <1>2, <1>3, <1>4

\* A list with one element more, after the first k.
Insertion(list, k, item) == SubSeq(list, 1, k) \o <<item>> \o SubSeq(list, k + 1, Len(list))

\* An element inserted after the first k.
LEMMA InsertionIs ==
  ASSUME NEW S, NEW list \in Seq(S), NEW item \in S, NEW k \in 0 .. Len(list)
  PROVE  /\ Insertion(list, k, item) \in Seq(S)
         /\ Len(Insertion(list, k, item)) = Len(list) + 1
         /\ \A i \in 1 .. k : Insertion(list, k, item)[i] = list[i]
         /\ Insertion(list, k, item)[k + 1] = item
         /\ \A i \in k + 1 .. Len(list) : Insertion(list, k, item)[i + 1] = list[i]
  <1> DEFINE n == Len(list)
             first == SubSeq(list, 1, k)
             mid == <<item>>
             last == SubSeq(list, k + 1, n)
  <1>1. n \in Nat /\ k \in Nat /\ k <= n OBVIOUS
  <1>2. first \in Seq(S) /\ Len(first) = k /\ \A i \in 1 .. k : first[i] = list[i]
    BY <1>1, SubSeqProperties
  <1>3. /\ last \in Seq(S) /\ Len(last) = n - k
        /\ \A i \in 1 .. n - k : last[i] = list[i + k]
    <2>1. \A i \in k + 1 .. n : list[i] \in S BY <1>1
    <2>2. /\ last \in Seq(S)
          /\ Len(last) = (IF k + 1 <= n THEN n - (k + 1) + 1 ELSE 0)
          /\ \A i \in 1 .. n - (k + 1) + 1 : last[i] = list[k + 1 + i - 1]
      BY <1>1, <2>1, SubSeqProperties
    <2> HIDE DEF last, n
    <2>3. \A i \in 1 .. n - k : k + 1 + i - 1 = i + k BY <1>1
    <2> QED BY <1>1, <2>2, <2>3
  <1>4. mid \in Seq(S) /\ Len(mid) = 1 /\ mid[1] = item OBVIOUS
  <1> HIDE DEF first, mid, last, n
  <1>5. /\ first \o mid \in Seq(S) /\ Len(first \o mid) = k + 1
        /\ \A i \in 1 .. k : (first \o mid)[i] = first[i]
        /\ (first \o mid)[k + 1] = item
    <2>1. /\ first \o mid \in Seq(S) /\ Len(first \o mid) = Len(first) + Len(mid)
          /\ \A i \in 1 .. Len(first) : (first \o mid)[i] = first[i]
          /\ \A i \in 1 .. Len(mid) : (first \o mid)[Len(first) + i] = mid[i]
      <3>1. first \in Seq(S) /\ mid \in Seq(S) BY <1>2, <1>4
      <3> QED BY ONLY <3>1, ConcatIs
    <2>2. Len(first) = k /\ \A i \in 1 .. k : first[i] = list[i] BY <1>2
    <2>3. Len(mid) = 1 /\ mid[1] = item BY <1>4
    <2>4. 1 \in 1 .. Len(mid) BY <2>3
    <2>5. (first \o mid)[k + 1] = item BY <2>1, <2>2, <2>3, <2>4
    <2> QED BY <2>1, <2>2, <2>3, <2>5
  <1> DEFINE all == first \o mid \o last
  <1>6. /\ all \in Seq(S) /\ Len(all) = n + 1
        /\ \A i \in 1 .. k + 1 : all[i] = (first \o mid)[i]
        /\ \A i \in k + 1 .. n : all[i + 1] = last[i - k]
    <2> DEFINE begin == first \o mid
    <2>1. k + 1 + (n - k) = n + 1 BY <1>1
    <2>2. begin \in Seq(S) /\ Len(begin) = k + 1 BY <1>5
    <2> HIDE DEF begin
    <2>3. /\ begin \o last \in Seq(S) /\ Len(begin \o last) = Len(begin) + Len(last)
          /\ \A i \in 1 .. Len(begin) : (begin \o last)[i] = begin[i]
          /\ \A i \in 1 .. Len(last) : (begin \o last)[Len(begin) + i] = last[i]
      <3>1. begin \in Seq(S) /\ last \in Seq(S) BY <1>3, <2>2
      <3> QED BY ONLY <3>1, ConcatIs
    <2>4. Len(begin) = k + 1 /\ Len(last) = n - k BY <1>3, <2>2
    <2>5. \A i \in k + 1 .. n : (begin \o last)[i + 1] = last[i - k]
      <3> TAKE i \in k + 1 .. n
      <3>1. i - k \in 1 .. n - k /\ k + 1 + (i - k) = i + 1 BY <1>1
      <3> QED BY <2>3, <2>4, <3>1
    <2>6. Len(begin \o last) = n + 1 BY <2>1, <2>3, <2>4
    <2> QED BY <2>3, <2>4, <2>5, <2>6 DEF begin
  <1>7. all = Insertion(list, k, item) BY DEF Insertion, first, mid, last, n
  <1> HIDE DEF all
  <1>8. \A i \in 1 .. k : all[i] = list[i]
    <2> TAKE i \in 1 .. k
    <2>1. i \in 1 .. k + 1 BY <1>1
    <2> QED BY <1>2, <1>5, <1>6, <2>1
  <1>9. all[k + 1] = item
    <2>1. k + 1 \in 1 .. k + 1 BY <1>1
    <2> QED BY <1>5, <1>6, <2>1
  <1>10. \A i \in k + 1 .. n : all[i + 1] = list[i]
    <2> TAKE i \in k + 1 .. n
    <2>1. i - k \in 1 .. n - k /\ i - k + k = i BY <1>1
    <2> QED BY <1>3, <1>6, <2>1
  <1> QED BY <1>6, <1>7, <1>8, <1>9, <1>10 DEF n

\* A list of subscriptions, each with an identifier of its own, by priority.
Table(list, ids) ==
  /\ \A i \in 1 .. Len(list) : list[i].id \in ids
  /\ \A id \in ids : \E i \in 1 .. Len(list) : list[i].id = id
  /\ \A i, k \in 1 .. Len(list) : list[i].id = list[k].id => i = k
  /\ \A i, k \in 1 .. Len(list) : i < k => list[i].priority >= list[k].priority

\* A table has as many subscriptions as identifiers.
LEMMA TableCounted ==
  ASSUME NEW S, NEW list \in Seq(S), NEW ids, Table(list, ids)
  PROVE  IsFiniteSet(ids) /\ Cardinality(ids) = Len(list) /\ Len(list) \in Nat
  <1> DEFINE name == [i \in 1 .. Len(list) |-> list[i].id]
  <1>1. Len(list) \in Nat OBVIOUS
  <1>2. IsFiniteSet(1 .. Len(list)) /\ Cardinality(1 .. Len(list)) = Len(list)
    BY <1>1, FS_Interval
  <1>3. name \in Bijection(1 .. Len(list), ids)
    BY DEF Bijection, Injection, Surjection, IsInjective, Table
  <1>4. ExistsBijection(1 .. Len(list), ids) BY <1>3 DEF ExistsBijection
  <1> QED BY <1>1, <1>2, <1>4, FS_Bijection

\* A table without the subscriptions of some identifiers, ...
LEMMA TableWithout ==
  ASSUME NEW S, NEW list \in Seq(S), NEW ids, Table(list, ids), NEW gone
  PROVE  LET kept == {i \in DOMAIN list : list[i].id \notin gone}
         IN  Sublist(list, kept) \in Seq(S) /\ Table(Sublist(list, kept), ids \ gone)
  <1> DEFINE kept == {i \in DOMAIN list : list[i].id \notin gone}
             less == Sublist(list, kept)
  <1>1. DOMAIN list = 1 .. Len(list) OBVIOUS
  <1>2. kept \in SUBSET (1 .. Len(list)) BY <1>1
  <1>3. \A i \in 1 .. Len(list) : list[i].id \notin gone => i \in kept BY <1>1
  <1>4. \A i \in kept : i \in 1 .. Len(list) /\ list[i].id \notin gone BY <1>1
  <1> HIDE DEF kept
  <1>5. /\ less \in Seq(S) /\ Len(less) = Cardinality(kept) /\ Cardinality(kept) \in Nat
        /\ \E pick \in [1 .. Cardinality(kept) -> kept] :
             /\ \A k \in 1 .. Cardinality(kept) : less[k] = list[pick[k]]
             /\ \A k, l \in 1 .. Cardinality(kept) : k < l => pick[k] < pick[l]
        /\ \A i \in kept : \E k \in 1 .. Cardinality(kept) : less[k] = list[i]
    <2>1. list \in Seq(S) OBVIOUS
    <2> QED BY ONLY <1>2, <2>1, SublistOf
  <1>6. PICK pick \in [1 .. Cardinality(kept) -> kept] :
          /\ \A k \in 1 .. Cardinality(kept) : less[k] = list[pick[k]]
          /\ \A k, l \in 1 .. Cardinality(kept) : k < l => pick[k] < pick[l]
    BY <1>5
  <1> HIDE DEF less
  <1>7. \A k \in 1 .. Len(less) : /\ less[k] = list[pick[k]] /\ pick[k] \in 1 .. Len(list)
                                  /\ pick[k] \in kept
    BY <1>4, <1>5, <1>6
  <1>8. \A k \in 1 .. Len(less) : less[k].id \in ids \ gone BY <1>4, <1>7 DEF Table
  <1>9. \A id \in ids \ gone : \E k \in 1 .. Len(less) : less[k].id = id
    <2> TAKE id \in ids \ gone
    <2>1. PICK i \in 1 .. Len(list) : list[i].id = id BY DEF Table
    <2>2. i \in kept BY <1>3, <2>1
    <2> QED BY <1>5, <2>1, <2>2
  <1>10. \A k, l \in 1 .. Len(less) : k < l => pick[k] < pick[l] BY <1>5, <1>6
  <1>11. \A k, l \in 1 .. Len(less) : less[k].id = less[l].id => k = l
    <2> SUFFICES ASSUME NEW k \in 1 .. Len(less), NEW l \in 1 .. Len(less),
                        less[k].id = less[l].id
                 PROVE  k = l
      OBVIOUS
    <2>1. pick[k] = pick[l]
      <3>1. \A i, j \in 1 .. Len(list) : list[i].id = list[j].id => i = j BY DEF Table
      <3>2. /\ pick[k] \in 1 .. Len(list) /\ pick[l] \in 1 .. Len(list)
            /\ less[k] = list[pick[k]] /\ less[l] = list[pick[l]]
        BY <1>7
      <3> QED BY <3>1, <3>2, Zenon
    <2>2. k < l => pick[k] < pick[l] BY <1>10
    <2>3. l < k => pick[l] < pick[k] BY <1>10
    <2>4. pick[k] \in Nat /\ pick[l] \in Nat BY <1>7
    <2> QED BY <1>5, <2>1, <2>2, <2>3, <2>4
  <1>12. \A k, l \in 1 .. Len(less) : k < l => less[k].priority >= less[l].priority
    <2> TAKE k, l \in 1 .. Len(less)
    <2> HAVE k < l
    <2>1. /\ pick[k] < pick[l] /\ pick[k] \in 1 .. Len(list) /\ pick[l] \in 1 .. Len(list)
          /\ less[k] = list[pick[k]] /\ less[l] = list[pick[l]]
      BY <1>7, <1>10
    <2>2. list[pick[k]].priority >= list[pick[l]].priority BY <2>1 DEF Table
    <2> QED BY <2>1, <2>2
  <1>13. Table(less, ids \ gone) BY <1>8, <1>9, <1>11, <1>12 DEF Table
  <1> QED BY <1>5, <1>13 DEF less, kept

\* ... and with one more, between those of a higher and those of a lower priority.
LEMMA TableInserted ==
  ASSUME NEW S, \A s \in S : s.priority \in Int,
         NEW list \in Seq(S), NEW ids, Table(list, ids),
         NEW sub \in S, sub.id \notin ids, NEW k \in 0 .. Len(list),
         \A j \in 1 .. k : list[j].priority >= sub.priority,
         \A j \in k + 1 .. Len(list) : list[j].priority <= sub.priority
  PROVE  /\ Insertion(list, k, sub) \in Seq(S)
         /\ Table(Insertion(list, k, sub), ids \cup {sub.id})
  <1> DEFINE more == Insertion(list, k, sub)
             old(i) == IF i <= k THEN i ELSE i - 1
  <1>1. /\ more \in Seq(S) /\ Len(more) = Len(list) + 1
        /\ \A i \in 1 .. k : more[i] = list[i]
        /\ more[k + 1] = sub
        /\ \A i \in k + 1 .. Len(list) : more[i + 1] = list[i]
    <2>1. list \in Seq(S) /\ sub \in S /\ k \in 0 .. Len(list) OBVIOUS
    <2>2. more \in Seq(S) BY ONLY <2>1, InsertionIs
    <2>3. Len(more) = Len(list) + 1 BY ONLY <2>1, InsertionIs
    <2>4. \A i \in 1 .. k : more[i] = list[i] BY ONLY <2>1, InsertionIs
    <2>5. more[k + 1] = sub BY ONLY <2>1, InsertionIs
    <2>6. \A i \in k + 1 .. Len(list) : more[i + 1] = list[i] BY ONLY <2>1, InsertionIs
    <2> QED BY <2>2, <2>3, <2>4, <2>5, <2>6
  <1> HIDE DEF more
  <1>2. Len(list) \in Nat /\ k \in Nat /\ k <= Len(list) OBVIOUS
  <1>3. \A i \in 1 .. Len(more) : i # k + 1 => old(i) \in 1 .. Len(list) /\ more[i] = list[old(i)]
    <2> SUFFICES ASSUME NEW i \in 1 .. Len(more), i # k + 1
                 PROVE  old(i) \in 1 .. Len(list) /\ more[i] = list[old(i)]
      OBVIOUS
    <2>1. CASE i <= k BY <1>1, <1>2, <2>1
    <2>2. CASE i > k
      <3>1. i - 1 \in k + 1 .. Len(list) /\ i - 1 + 1 = i /\ i - 1 \in 1 .. Len(list)
        BY <1>1, <1>2, <2>2
      <3>2. more[i] = list[i - 1] BY <1>1, <3>1
      <3>3. ~(i <= k) BY <1>2, <2>2
      <3> QED BY <3>1, <3>2, <3>3
    <2> QED BY <1>1, <1>2, <2>1, <2>2
  <1>4. \A i, l \in 1 .. Len(more) : i # k + 1 /\ l # k + 1 => (old(i) = old(l) => i = l)
    BY <1>1, <1>2
  <1>5. \A i, l \in 1 .. Len(more) : i # k + 1 /\ l # k + 1 /\ i < l => old(i) < old(l)
    BY <1>1, <1>2
  <1>6. \A i \in 1 .. Len(more) : /\ i < k + 1 => old(i) \in 1 .. k
                                  /\ i > k + 1 => old(i) \in k + 1 .. Len(list)
    BY <1>1, <1>2
  <1> HIDE DEF old
  <1>7. k + 1 \in 1 .. Len(more) BY <1>1, <1>2
  <1>8. \A i \in 1 .. Len(more) : more[i].id \in ids \cup {sub.id} BY <1>1, <1>3 DEF Table
  <1>9. \A id \in ids \cup {sub.id} : \E i \in 1 .. Len(more) : more[i].id = id
    <2> TAKE id \in ids \cup {sub.id}
    <2>1. CASE id = sub.id BY <1>1, <1>7, <2>1
    <2>2. CASE id \in ids
      <3>1. PICK i \in 1 .. Len(list) : list[i].id = id BY <2>2 DEF Table
      <3>2. CASE i <= k
        <4>1. i \in 1 .. k /\ i \in 1 .. Len(more) BY <1>1, <1>2, <3>2
        <4> QED BY <1>1, <3>1, <4>1
      <3>3. CASE ~(i <= k)
        <4>1. i \in k + 1 .. Len(list) /\ i + 1 \in 1 .. Len(more) BY <1>1, <1>2, <3>3
        <4> QED BY <1>1, <3>1, <4>1
      <3> QED BY <3>2, <3>3
    <2> QED BY <2>1, <2>2
  <1>10. \A i, l \in 1 .. Len(more) : more[i].id = more[l].id => i = l
    <2> SUFFICES ASSUME NEW i \in 1 .. Len(more), NEW l \in 1 .. Len(more),
                        more[i].id = more[l].id
                 PROVE  i = l
      OBVIOUS
    <2>1. \A j \in 1 .. Len(more) : j # k + 1 => more[j].id # sub.id
      <3>1. \A j \in 1 .. Len(list) : list[j].id \in ids BY DEF Table
      <3> QED BY <1>3, <3>1, Zenon
    <2>2. CASE i = k + 1 BY <1>1, <2>1, <2>2
    <2>3. CASE l = k + 1 BY <1>1, <2>1, <2>3
    <2>4. CASE i # k + 1 /\ l # k + 1
      <3>1. old(i) = old(l)
        <4>1. \A j, m \in 1 .. Len(list) : list[j].id = list[m].id => j = m BY DEF Table
        <4>2. /\ old(i) \in 1 .. Len(list) /\ old(l) \in 1 .. Len(list)
              /\ more[i] = list[old(i)] /\ more[l] = list[old(l)]
          BY <1>3, <2>4
        <4> QED BY <4>1, <4>2, Zenon
      <3> QED BY <1>4, <2>4, <3>1
    <2> QED BY <2>2, <2>3, <2>4
  <1>11. \A i, l \in 1 .. Len(more) : i < l => more[i].priority >= more[l].priority
    <2> SUFFICES ASSUME NEW i \in 1 .. Len(more), NEW l \in 1 .. Len(more), i < l
                 PROVE  more[i].priority >= more[l].priority
      OBVIOUS
    <2>1. CASE i = k + 1
      <3>1. l # k + 1 /\ old(l) \in k + 1 .. Len(list) BY <1>1, <1>2, <1>6, <2>1
      <3>2. list[old(l)] \in S /\ more[l] = list[old(l)] BY <1>3, <3>1
      <3>3. list[old(l)].priority <= sub.priority BY <3>1
      <3> QED BY <1>1, <2>1, <3>2, <3>3
    <2>2. CASE l = k + 1
      <3>1. i # k + 1 /\ old(i) \in 1 .. k BY <1>1, <1>2, <1>6, <2>2
      <3>2. more[i] = list[old(i)] BY <1>3, <3>1
      <3> QED BY <1>1, <2>2, <3>1, <3>2
    <2>3. CASE i # k + 1 /\ l # k + 1
      <3>1. old(i) < old(l) BY <1>5, <2>3
      <3> QED BY <1>3, <2>3, <3>1 DEF Table
    <2> QED BY <2>1, <2>2, <2>3
  <1>12. Table(more, ids \cup {sub.id}) BY <1>8, <1>9, <1>10, <1>11 DEF Table
  <1> QED BY <1>1, <1>12 DEF more

-----------------------------------------------------------------------------
(* Worker threads and their queues: the lemmas about QueueWorkers that the *)
(* four components with such threads share.                                *)

Pool(lane, clients) == INSTANCE QueueWorkers WITH Lane <- lane, Clients <- clients

Places == {"none", "loop", "lock", "dozing", "asleep", "busy", "ended"}

\* The types; no thread runs when the pool is stopped and joined; and an item is in the hands
\* of a busy worker, at most one.
PoolTypes(lane, clients, items) ==
  /\ running \in BOOLEAN /\ missed \in BOOLEAN /\ stolen \in BOOLEAN
  /\ worker \in [DOMAIN lane -> Places]
  /\ queue \in [Pool(lane, clients)!Lanes -> Seq(items)]
  /\ handling \in [DOMAIN lane -> Seq(items)]
  /\ stopper \in clients \cup {"NONE"}
  /\ waiting \in [clients -> Pool(lane, clients)!Lanes \cup {"none"}] /\ woken \subseteq clients

PoolInv(lane, clients, items) ==
  /\ PoolTypes(lane, clients, items)
  /\ stopper # "NONE" => ~running
  /\ ~running /\ stopper = "NONE" => \A w \in DOMAIN lane : worker[w] = "none"
  /\ \A w \in DOMAIN lane : /\ Len(handling[w]) <= 1
                            /\ worker[w] # "busy" => handling[w] = <<>>

\* The steps that leave the queues and the items alone.
PoolMoves(lane, clients) ==
  \/ Pool(lane, clients)!PoolStart
  \/ \E c \in clients :
       \/ Pool(lane, clients)!PoolStop(c) \/ Pool(lane, clients)!PoolStopped(c)
       \/ \E l \in Pool(lane, clients)!Lanes : Pool(lane, clients)!PoolWait(c, l)
       \/ Pool(lane, clients)!PoolWaitTests(c)
  \/ \E w \in DOMAIN lane : Pool(lane, clients)!Idles(w)
  \/ UNCHANGED pool

\* The threads and queues as they are made.
LEMMA PoolInits ==
  ASSUME NEW lane, NEW clients, NEW items, Pool(lane, clients)!PoolInit
  PROVE  PoolInv(lane, clients, items)
  <1> DEFINE lanes == Pool(lane, clients)!Lanes
  <1>1. /\ running = FALSE /\ missed = FALSE /\ stolen = FALSE /\ stopper = "NONE"
        /\ worker = [w \in DOMAIN lane |-> "none"] /\ queue = [l \in lanes |-> <<>>]
        /\ handling = [w \in DOMAIN lane |-> <<>>]
        /\ waiting = [c \in clients |-> "none"] /\ woken = {}
    BY DEF Pool!PoolInit, Pool!Workers, Pool!NoClient
  <1>2. <<>> \in Seq(items) /\ Len(<<>>) = 0 OBVIOUS
  <1>3. PoolTypes(lane, clients, items) BY <1>1, <1>2 DEF PoolTypes, Places
  <1> QED BY <1>1, <1>2, <1>3 DEF PoolInv

\* A step that neither queues nor takes anything keeps the lists and the hands.
LEMMA PoolMoved ==
  ASSUME NEW lane, NEW clients, NEW items, "NONE" \notin clients,
         PoolInv(lane, clients, items), PoolMoves(lane, clients)
  PROVE  /\ PoolInv(lane, clients, items)'
         /\ queue' = queue /\ handling' = handling
         /\ \A w \in DOMAIN lane : worker'[w] = "busy" <=> worker[w] = "busy"
  <1> DEFINE Kept == /\ queue' = queue /\ handling' = handling
                     /\ \A w \in DOMAIN lane : worker'[w] = "busy" <=> worker[w] = "busy"
             lanes == Pool(lane, clients)!Lanes
  <1> SUFFICES PoolInv(lane, clients, items)' /\ Kept
    OBVIOUS
  <1>1. /\ running \in BOOLEAN /\ missed \in BOOLEAN /\ stolen \in BOOLEAN
        /\ worker \in [DOMAIN lane -> Places]
        /\ queue \in [lanes -> Seq(items)] /\ handling \in [DOMAIN lane -> Seq(items)]
        /\ stopper \in clients \cup {"NONE"}
        /\ waiting \in [clients -> lanes \cup {"none"}] /\ woken \subseteq clients
    BY DEF PoolInv, PoolTypes
  <1>2. CASE Pool(lane, clients)!PoolStart
    <2>1. /\ ~running /\ stopper = "NONE" /\ running' = TRUE
          /\ worker' = [w \in DOMAIN lane |-> "loop"]
          /\ UNCHANGED <<queue, handling, stopper, waiting, woken, stolen, missed>>
      BY <1>2 DEF Pool!PoolStart, Pool!NoClient, Pool!Workers, Pool!waiters
    <2>2. \A w \in DOMAIN lane : worker[w] = "none" BY <2>1 DEF PoolInv
    <2>3. PoolTypes(lane, clients, items)' BY <1>1, <2>1 DEF PoolTypes, Places
    <2> QED BY <2>1, <2>2, <2>3 DEF PoolInv
  <1>3. ASSUME NEW c \in clients, Pool(lane, clients)!PoolStop(c)
        PROVE  PoolInv(lane, clients, items)' /\ Kept
    <2>1. /\ running /\ stopper = "NONE" /\ running' = FALSE /\ stopper' = c
          /\ worker' = [w \in DOMAIN lane |-> IF worker[w] = "asleep" THEN "lock"
                                              ELSE worker[w]]
          /\ missed' = (missed \/ \E w \in DOMAIN lane : worker[w] = "dozing")
          /\ woken' = {d \in clients : waiting[d] # "none"}
          /\ UNCHANGED <<queue, handling, waiting, stolen>>
      BY <1>3 DEF Pool!PoolStop, Pool!NoClient, Pool!Workers
    <2>2. missed' \in BOOLEAN BY <2>1
    <2>3. worker' \in [DOMAIN lane -> Places] BY <1>1, <2>1 DEF Places
    <2>4. PoolTypes(lane, clients, items)' BY <1>1, <2>1, <2>2, <2>3 DEF PoolTypes
    <2> QED BY <1>1, <2>1, <2>4 DEF PoolInv
  <1>4. ASSUME NEW c \in clients, Pool(lane, clients)!PoolStopped(c)
        PROVE  PoolInv(lane, clients, items)' /\ Kept
    <2>1. /\ stopper = c /\ stopper' = "NONE"
          /\ \A w \in DOMAIN lane : worker[w] \in {"none", "ended"}
          /\ worker' = [w \in DOMAIN lane |-> "none"]
          /\ UNCHANGED <<running, queue, handling, waiting, woken, stolen, missed>>
      BY <1>4 DEF Pool!PoolStopped, Pool!NoClient, Pool!Workers, Pool!waiters
    <2>2. PoolTypes(lane, clients, items)' BY <1>1, <2>1 DEF PoolTypes, Places
    <2> QED BY <2>1, <2>2 DEF PoolInv
  <1>5. ASSUME NEW c \in clients, NEW l \in lanes, Pool(lane, clients)!PoolWait(c, l)
        PROVE  PoolInv(lane, clients, items)' /\ Kept
    <2>1. /\ waiting' = [waiting EXCEPT ![c] = l]
          /\ UNCHANGED <<running, worker, queue, handling, stopper, woken, missed, stolen>>
      BY <1>5 DEF Pool!PoolWait
    <2>2. PoolTypes(lane, clients, items)' BY <1>1, <2>1 DEF PoolTypes
    <2> QED BY <2>1, <2>2 DEF PoolInv
  <1>6. ASSUME NEW c \in clients, Pool(lane, clients)!PoolWaitTests(c)
        PROVE  PoolInv(lane, clients, items)' /\ Kept
    <2>1. /\ woken' = woken \ {c}
          /\ \/ waiting' = waiting
             \/ waiting' = [waiting EXCEPT ![c] = "none"]
          /\ UNCHANGED <<running, worker, queue, handling, stopper, missed, stolen>>
      BY <1>6 DEF Pool!PoolWaitTests
    <2>2. waiting' \in [clients -> lanes \cup {"none"}] BY <1>1, <2>1
    <2>3. PoolTypes(lane, clients, items)' BY <1>1, <2>1, <2>2 DEF PoolTypes
    <2> QED BY <2>1, <2>3 DEF PoolInv
  <1>7. ASSUME NEW w \in DOMAIN lane, Pool(lane, clients)!Idles(w)
        PROVE  PoolInv(lane, clients, items)' /\ Kept
    <2>1. PICK to \in Places \ {"busy"} :
            /\ worker' = [worker EXCEPT ![w] = to]
            /\ worker[w] \in {"loop", "lock", "dozing"}
            /\ UNCHANGED <<running, queue, handling, stopper, waiting, woken, stolen, missed>>
      BY <1>7
      DEF Pool!Idles, Pool!LoopTest, Pool!FallAsleep, Pool!Sleep, Pool!BreakOff, Pool!Moves,
          Pool!waiters, Places
    <2>2. PoolTypes(lane, clients, items)' BY <1>1, <2>1 DEF PoolTypes
    <2>3. ~(~running /\ stopper = "NONE") BY <2>1 DEF PoolInv
    <2>4. Kept BY <1>1, <2>1
    <2>5. \A v \in DOMAIN lane : /\ Len(handling'[v]) <= 1
                                 /\ worker'[v] # "busy" => handling'[v] = <<>>
      BY <2>1, <2>4 DEF PoolInv
    <2> QED BY <2>1, <2>2, <2>3, <2>4, <2>5 DEF PoolInv
  <1>8. CASE UNCHANGED pool
    BY <1>8 DEF pool, PoolInv, PoolTypes
  <1> QED BY <1>2, <1>3, <1>4, <1>5, <1>6, <1>7, <1>8 DEF PoolMoves

\* A push appends to the list of its lane, ...
LEMMA PoolPushed ==
  ASSUME NEW lane, NEW clients, NEW items, PoolInv(lane, clients, items),
         NEW l \in Pool(lane, clients)!Lanes, NEW item \in items,
         Pool(lane, clients)!Push(l, item)
  PROVE  /\ PoolInv(lane, clients, items)'
         /\ queue' = [queue EXCEPT ![l] = Append(@, item)] /\ handling' = handling
         /\ \A w \in DOMAIN lane : worker'[w] = "busy" <=> worker[w] = "busy"
         /\ running' = running
  <1> DEFINE lanes == Pool(lane, clients)!Lanes
  <1>1. /\ running \in BOOLEAN /\ missed \in BOOLEAN /\ stolen \in BOOLEAN
        /\ worker \in [DOMAIN lane -> Places]
        /\ queue \in [lanes -> Seq(items)] /\ handling \in [DOMAIN lane -> Seq(items)]
        /\ stopper \in clients \cup {"NONE"}
        /\ waiting \in [clients -> lanes \cup {"none"}] /\ woken \subseteq clients
    BY DEF PoolInv, PoolTypes
  <1>2. /\ queue' = [queue EXCEPT ![l] = Append(@, item)]
        /\ UNCHANGED <<running, handling, stopper, waiting, missed>>
    BY DEF Pool!Push
  <1>3. queue' \in [lanes -> Seq(items)]
    <2>1. queue[l] \in Seq(items) BY <1>1
    <2>2. Append(queue[l], item) \in Seq(items) BY <2>1
    <2> QED BY <1>1, <1>2, <2>2
  <1>4. CASE UNCHANGED <<worker, woken, stolen>>
    <2>1. PoolTypes(lane, clients, items)' BY <1>1, <1>2, <1>3, <1>4 DEF PoolTypes
    <2> QED BY <1>2, <1>4, <2>1 DEF PoolInv
  <1>5. ASSUME NEW w \in Pool(lane, clients)!Asleep(l), worker' = [worker EXCEPT ![w] = "lock"],
               UNCHANGED <<woken, stolen>>
        PROVE  /\ PoolInv(lane, clients, items)'
               /\ \A v \in DOMAIN lane : worker'[v] = "busy" <=> worker[v] = "busy"
    <2>1. w \in DOMAIN lane /\ worker[w] = "asleep" BY <1>5 DEF Pool!Asleep, Pool!Workers
    <2>2. \A v \in DOMAIN lane : worker'[v] = "busy" <=> worker[v] = "busy"
      BY <1>1, <1>5, <2>1
    <2>3. PoolTypes(lane, clients, items)' BY <1>1, <1>2, <1>3, <1>5 DEF PoolTypes, Places
    <2>4. ~(~running /\ stopper = "NONE") BY <2>1 DEF PoolInv
    <2>5. \A v \in DOMAIN lane : /\ Len(handling'[v]) <= 1
                                 /\ worker'[v] # "busy" => handling'[v] = <<>>
      BY <1>2, <2>2 DEF PoolInv
    <2>6. stopper' # "NONE" => ~running' BY <1>2 DEF PoolInv
    <2> QED BY <1>2, <2>2, <2>3, <2>4, <2>5, <2>6 DEF PoolInv
  <1>6. ASSUME NEW c \in Pool(lane, clients)!Waiting(l), woken' = woken \cup {c},
               stolen' = (stolen \/ Pool(lane, clients)!Asleep(l) # {}), UNCHANGED worker
        PROVE  PoolInv(lane, clients, items)'
    <2>1. c \in clients BY <1>6 DEF Pool!Waiting
    <2>2. stolen' \in BOOLEAN BY <1>6
    <2>3. PoolTypes(lane, clients, items)' BY <1>1, <1>2, <1>3, <1>6, <2>1, <2>2 DEF PoolTypes
    <2> QED BY <1>2, <1>6, <2>3 DEF PoolInv
  <1> QED BY <1>2, <1>4, <1>5, <1>6 DEF Pool!Push

\* ... a worker takes the first of its lane in its hand, ...
LEMMA PoolTakes ==
  ASSUME NEW lane, NEW clients, NEW items, PoolInv(lane, clients, items),
         NEW w \in DOMAIN lane, Pool(lane, clients)!Take(w)
  PROVE  /\ PoolInv(lane, clients, items)'
         /\ lane[w] \in Pool(lane, clients)!Lanes
         /\ queue[lane[w]] \in Seq(items) /\ queue[lane[w]] # <<>>
         /\ Head(queue[lane[w]]) \in items
         /\ queue' = [queue EXCEPT ![lane[w]] = Tail(@)]
         /\ handling' = [handling EXCEPT ![w] = <<Head(queue[lane[w]])>>]
         /\ worker' = [worker EXCEPT ![w] = "busy"] /\ worker[w] = "lock"
         /\ handling[w] = <<>>
         /\ UNCHANGED <<calls, now, running, stopper>>
  <1> DEFINE lanes == Pool(lane, clients)!Lanes
  <1>1. /\ running \in BOOLEAN /\ missed \in BOOLEAN /\ stolen \in BOOLEAN
        /\ worker \in [DOMAIN lane -> Places]
        /\ queue \in [lanes -> Seq(items)] /\ handling \in [DOMAIN lane -> Seq(items)]
        /\ stopper \in clients \cup {"NONE"}
        /\ waiting \in [clients -> lanes \cup {"none"}] /\ woken \subseteq clients
    BY DEF PoolInv, PoolTypes
  <1>2. /\ queue[lane[w]] # <<>> /\ worker[w] = "lock" /\ running
        /\ worker' = [worker EXCEPT ![w] = "busy"]
        /\ queue' = [queue EXCEPT ![lane[w]] = Tail(@)]
        /\ handling' = [handling EXCEPT ![w] = <<Head(queue[lane[w]])>>]
        /\ UNCHANGED <<calls, now, running, stopper, waiting, woken, stolen, missed>>
    BY DEF Pool!Take, Pool!Moves, Pool!waiters
  <1>3. lane[w] \in lanes BY DEF Pool!Lanes, Pool!Workers
  <1>4. queue[lane[w]] \in Seq(items) BY <1>1, <1>3
  <1>5. Head(queue[lane[w]]) \in items /\ Tail(queue[lane[w]]) \in Seq(items)
    BY <1>2, <1>4
  <1>6. /\ <<Head(queue[lane[w]])>> \in Seq(items) /\ Len(<<Head(queue[lane[w]])>>) = 1
    BY <1>5
  <1>7. handling[w] = <<>> BY <1>2 DEF PoolInv
  <1>8. PoolTypes(lane, clients, items)'
    <2>1. queue' \in [lanes -> Seq(items)] BY <1>1, <1>2, <1>5
    <2>2. handling' \in [DOMAIN lane -> Seq(items)] BY <1>1, <1>2, <1>6
    <2>3. worker' \in [DOMAIN lane -> Places] BY <1>1, <1>2 DEF Places
    <2> QED BY <1>1, <1>2, <2>1, <2>2, <2>3 DEF PoolTypes
  <1>9. \A v \in DOMAIN lane : /\ Len(handling'[v]) <= 1
                               /\ worker'[v] # "busy" => handling'[v] = <<>>
    <2> TAKE v \in DOMAIN lane
    <2>1. CASE v = w BY <1>1, <1>2, <1>6, <2>1
    <2>2. CASE v # w
      <3>1. handling'[v] = handling[v] /\ worker'[v] = worker[v] BY <1>1, <1>2, <2>2
      <3> QED BY <3>1 DEF PoolInv
    <2> QED BY <2>1, <2>2
  <1>10. PoolInv(lane, clients, items)' BY <1>2, <1>8, <1>9 DEF PoolInv
  <1> QED BY <1>2, <1>3, <1>4, <1>5, <1>7, <1>10

\* ... and empties its hand when it has finished.
LEMMA PoolFinishes ==
  ASSUME NEW lane, NEW clients, NEW items, PoolInv(lane, clients, items),
         NEW w \in DOMAIN lane, Pool(lane, clients)!Finish(w)
  PROVE  /\ PoolInv(lane, clients, items)'
         /\ queue' = queue /\ handling' = [handling EXCEPT ![w] = <<>>]
         /\ worker' = [worker EXCEPT ![w] = "loop"] /\ worker[w] = "busy"
         /\ UNCHANGED <<calls, now, running, stopper>>
  <1> DEFINE lanes == Pool(lane, clients)!Lanes
  <1>1. /\ running \in BOOLEAN /\ missed \in BOOLEAN /\ stolen \in BOOLEAN
        /\ worker \in [DOMAIN lane -> Places]
        /\ queue \in [lanes -> Seq(items)] /\ handling \in [DOMAIN lane -> Seq(items)]
        /\ stopper \in clients \cup {"NONE"}
        /\ waiting \in [clients -> lanes \cup {"none"}] /\ woken \subseteq clients
    BY DEF PoolInv, PoolTypes
  <1>2. /\ worker[w] = "busy" /\ worker' = [worker EXCEPT ![w] = "loop"]
        /\ handling' = [handling EXCEPT ![w] = <<>>]
        /\ UNCHANGED <<calls, now, running, queue, stopper, waiting, woken, stolen, missed>>
    BY DEF Pool!Finish, Pool!Moves, Pool!waiters
  <1>3. <<>> \in Seq(items) /\ Len(<<>>) = 0 OBVIOUS
  <1>4. PoolTypes(lane, clients, items)'
    <2>1. handling' \in [DOMAIN lane -> Seq(items)] BY <1>1, <1>2, <1>3
    <2>2. worker' \in [DOMAIN lane -> Places] BY <1>1, <1>2 DEF Places
    <2> QED BY <1>1, <1>2, <2>1, <2>2 DEF PoolTypes
  <1>5. \A v \in DOMAIN lane : /\ Len(handling'[v]) <= 1
                               /\ worker'[v] # "busy" => handling'[v] = <<>>
    <2> TAKE v \in DOMAIN lane
    <2>1. CASE v = w BY <1>1, <1>2, <1>3, <2>1
    <2>2. CASE v # w
      <3>1. handling'[v] = handling[v] /\ worker'[v] = worker[v] BY <1>1, <1>2, <2>2
      <3> QED BY <3>1 DEF PoolInv
    <2> QED BY <2>1, <2>2
  <1>6. ~(~running /\ stopper = "NONE") BY <1>2 DEF PoolInv
  <1>7. PoolInv(lane, clients, items)' BY <1>2, <1>4, <1>5, <1>6 DEF PoolInv
  <1> QED BY <1>2, <1>7

-----------------------------------------------------------------------------
(* The channel.                                                            *)

\* The channel's threads are such a pool: its actions are those of QueueWorkers.
LEMMA ChannelPool ==
  /\ Pool(ChannelLane, FewClients)!Lanes = Channel!Lanes /\ DOMAIN ChannelLane = {First}
  /\ Channel!Workers = {First} /\ Channel!Lanes = {"queue"}
  /\ Channel!PoolInit => Pool(ChannelLane, FewClients)!PoolInit
  /\ Channel!PoolStart => PoolMoves(ChannelLane, FewClients)
  /\ \A c \in FewClients : Channel!PoolStop(c) => PoolMoves(ChannelLane, FewClients)
  /\ \A c \in FewClients : Channel!PoolStopped(c) => PoolMoves(ChannelLane, FewClients)
  /\ \A c \in FewClients, l \in Channel!Lanes : Channel!PoolWait(c, l)
       => PoolMoves(ChannelLane, FewClients)
  /\ \A c \in FewClients : Channel!PoolWaitTests(c) => PoolMoves(ChannelLane, FewClients)
  /\ \A w \in {First} : Channel!Idles(w) => PoolMoves(ChannelLane, FewClients)
  /\ UNCHANGED Channel!poolVars => PoolMoves(ChannelLane, FewClients)
  /\ \A l, item : Channel!Push(l, item) => Pool(ChannelLane, FewClients)!Push(l, item)
  /\ \A w \in {First} : Channel!Take(w) => Pool(ChannelLane, FewClients)!Take(w)
  /\ \A w \in {First} : Channel!Finish(w) => Pool(ChannelLane, FewClients)!Finish(w)
  <1> USE DEF Channel!Workers, Pool!Workers, Channel!NoClient, Pool!NoClient,
              Channel!waiters, Pool!waiters,
              Channel!Moves, Pool!Moves, Channel!MutexFree, Pool!MutexFree
  <1>1. DOMAIN ChannelLane = {First} /\ Channel!Workers = {First}
    BY DEF ChannelLane
  <1>2. Channel!Lanes = {"queue"}
    BY DEF ChannelLane, Channel!Workers, Channel!Lanes
  <1>3. Pool(ChannelLane, FewClients)!Lanes = Channel!Lanes BY DEF Pool!Lanes, Channel!Lanes
  <1>4. Channel!PoolInit => Pool(ChannelLane, FewClients)!PoolInit
    BY <1>3 DEF Channel!PoolInit, Pool!PoolInit
  <1>5. Channel!PoolStart => PoolMoves(ChannelLane, FewClients)
    BY DEF Channel!PoolStart, Pool!PoolStart, PoolMoves
  <1>6. ASSUME NEW c \in FewClients, Channel!PoolStop(c) PROVE PoolMoves(ChannelLane, FewClients)
    <2>1. Pool(ChannelLane, FewClients)!PoolStop(c) BY <1>6 DEF Channel!PoolStop, Pool!PoolStop
    <2> QED BY <2>1 DEF PoolMoves
  <1>7. ASSUME NEW c \in FewClients, Channel!PoolStopped(c) PROVE PoolMoves(ChannelLane, FewClients)
    <2>1. Pool(ChannelLane, FewClients)!PoolStopped(c)
      BY <1>7 DEF Channel!PoolStopped, Pool!PoolStopped
    <2> QED BY <2>1 DEF PoolMoves
  <1>8. ASSUME NEW c \in FewClients, NEW l \in Channel!Lanes, Channel!PoolWait(c, l)
        PROVE PoolMoves(ChannelLane, FewClients)
    <2>1. Pool(ChannelLane, FewClients)!PoolWait(c, l) BY <1>8 DEF Channel!PoolWait, Pool!PoolWait
    <2> QED BY <1>3, <2>1 DEF PoolMoves
  <1>9. ASSUME NEW c \in FewClients, Channel!PoolWaitTests(c)
        PROVE PoolMoves(ChannelLane, FewClients)
    <2>1. Pool(ChannelLane, FewClients)!PoolWaitTests(c)
      BY <1>9 DEF Channel!PoolWaitTests, Pool!PoolWaitTests
    <2> QED BY <2>1 DEF PoolMoves
  <1>10. ASSUME NEW w \in {First}, Channel!Idles(w) PROVE PoolMoves(ChannelLane, FewClients)
    <2>1. Pool(ChannelLane, FewClients)!Idles(w)
      BY <1>10
      DEF Channel!Idles, Pool!Idles, Channel!LoopTest, Pool!LoopTest, Channel!FallAsleep,
          Pool!FallAsleep, Channel!Sleep, Pool!Sleep, Channel!BreakOff, Pool!BreakOff
    <2> QED BY <1>1, <2>1 DEF PoolMoves
  <1>11. UNCHANGED Channel!poolVars => PoolMoves(ChannelLane, FewClients)
    BY DEF Channel!poolVars, PoolMoves, pool
  <1>12. ASSUME NEW l, NEW item, Channel!Push(l, item)
         PROVE Pool(ChannelLane, FewClients)!Push(l, item)
    BY <1>12
    DEF Channel!Push, Pool!Push, Channel!Asleep, Pool!Asleep, Channel!Waiting, Pool!Waiting
  <1>13. ASSUME NEW w \in {First}, Channel!Take(w) PROVE Pool(ChannelLane, FewClients)!Take(w)
    BY <1>13 DEF Channel!Take, Pool!Take
  <1>14. ASSUME NEW w \in {First}, Channel!Finish(w) PROVE Pool(ChannelLane, FewClients)!Finish(w)
    BY <1>14 DEF Channel!Finish, Pool!Finish
  <1> QED
    BY <1>1, <1>2, <1>3, <1>4, <1>5, <1>6, <1>7, <1>8, <1>9, <1>10, <1>11, <1>12, <1>13, <1>14

-----------------------------------------------------------------------------
(* The channel: its packets.                                               *)

\* The numbers of the packets that wait and of the one that is dispatched, ...
Outgoing(list, hand, next) ==
  /\ \A i, k \in 1 .. Len(list) : i < k => list[i].number < list[k].number
  /\ \A i \in 1 .. Len(list) : list[i].number < next
  /\ hand # <<>> => /\ hand[1].number < next
                    /\ \A i \in 1 .. Len(list) : hand[1].number < list[i].number

\* ... and of those that a subscription got: it is among those still to be called, or not.
Incoming(list, hand, next, called, id, got) ==
  /\ \A i, k \in 1 .. Len(got) : i < k => got[i] < got[k]
  /\ \A m \in 1 .. Len(got) :
       /\ got[m] < next
       /\ \A i \in 1 .. Len(list) : got[m] < list[i].number
       /\ hand # <<>> => got[m] <= hand[1].number
       /\ id \in called => got[m] < hand[1].number

\* A packet is sent: its number is above all others.
LEMMA PacketSent ==
  ASSUME NEW S, \A s \in S : s.number \in Nat, NEW list \in Seq(S), NEW hand \in Seq(S),
         NEW next \in Nat, Outgoing(list, hand, next), NEW item \in S, item.number = next
  PROVE  /\ Outgoing(Append(list, item), hand, next + 1)
         /\ \A called, id : \A got \in Seq(Nat) :
              Incoming(list, hand, next, called, id, got)
                => Incoming(Append(list, item), hand, next + 1, called, id, got)
  <1> DEFINE n == Len(list)
             more == Append(list, item)
  <1>1. /\ n \in Nat /\ Len(more) = n + 1 /\ more[n + 1] = item
        /\ \A i \in 1 .. n : more[i] = list[i] /\ list[i] \in S
    OBVIOUS
  <1>2. \A i \in 1 .. n : list[i].number \in Nat BY <1>1
  <1>3. /\ \A i, k \in 1 .. n : i < k => list[i].number < list[k].number
        /\ \A i \in 1 .. n : list[i].number < next
        /\ hand # <<>> => /\ hand[1].number < next
                          /\ \A i \in 1 .. n : hand[1].number < list[i].number
    BY DEF Outgoing
  <1>4. hand # <<>> => hand[1].number \in Nat
    <2> SUFFICES ASSUME hand # <<>> PROVE hand[1].number \in Nat
      OBVIOUS
    <2>1. hand[1] \in S OBVIOUS
    <2> QED BY <2>1
  <1> HIDE DEF n, more
  <1>5. \A i \in 1 .. n + 1 : (i \in 1 .. n /\ i < n + 1) \/ i = n + 1 BY <1>1
  <1>6. \A i \in 1 .. n + 1 : more[i].number \in Nat /\ more[i].number < next + 1
    <2> TAKE i \in 1 .. n + 1
    <2>1. CASE i = n + 1
      <3>1. more[i].number = next BY <1>1, <2>1
      <3> QED BY <3>1
    <2>2. CASE i \in 1 .. n
      <3>1. more[i].number \in Nat /\ more[i].number < next BY <1>1, <1>2, <1>3, <2>2
      <3> QED BY <3>1
    <2> QED BY <1>5, <2>1, <2>2
  <1>7. \A i, k \in 1 .. n + 1 : i < k => more[i].number < more[k].number
    <2> TAKE i \in 1 .. n + 1
    <2> TAKE k \in 1 .. n + 1
    <2> HAVE i < k
    <2>0. i \in Nat /\ k \in Nat BY <1>1
    <2>1. i \in 1 .. n BY <1>1, <1>5, <2>0
    <2>2. CASE k \in 1 .. n BY <1>1, <1>3, <2>1, <2>2
    <2>3. CASE k = n + 1
      <3>1. more[i].number < next BY <1>1, <1>3, <2>1
      <3> QED BY <1>1, <2>3, <3>1
    <2> QED BY <1>5, <2>2, <2>3
  <1>8. Outgoing(more, hand, next + 1)
    <2>1. hand # <<>> => hand[1].number < next + 1 BY <1>3, <1>4
    <2>2. hand # <<>> => \A i \in 1 .. n + 1 : hand[1].number < more[i].number
      BY <1>1, <1>3, <1>5
    <2>3. Len(more) = n + 1 BY <1>1
    <2> QED BY ONLY <1>6, <1>7, <2>1, <2>2, <2>3 DEF Outgoing
  <1>9. ASSUME NEW called, NEW id, NEW got \in Seq(Nat), Incoming(list, hand, next, called, id, got)
        PROVE  Incoming(more, hand, next + 1, called, id, got)
    <2>1. /\ \A i, k \in 1 .. Len(got) : i < k => got[i] < got[k]
          /\ \A m \in 1 .. Len(got) :
               /\ got[m] < next
               /\ \A i \in 1 .. n : got[m] < list[i].number
               /\ hand # <<>> => got[m] <= hand[1].number
               /\ id \in called => got[m] < hand[1].number
      BY <1>9 DEF Incoming, n
    <2>2. \A m \in 1 .. Len(got) : got[m] < next + 1
      <3> TAKE m \in 1 .. Len(got)
      <3>1. got[m] \in Nat /\ got[m] < next BY <2>1
      <3> QED BY <3>1
    <2>3. \A m \in 1 .. Len(got) : \A i \in 1 .. n + 1 : got[m] < more[i].number
      BY <1>1, <1>5, <2>1
    <2>4. Len(more) = n + 1 BY <1>1
    <2> QED BY ONLY <2>1, <2>2, <2>3, <2>4 DEF Incoming
  <1> QED BY <1>8, <1>9 DEF more

\* The dispatcher takes the first packet and a new list of those to call.
LEMMA PacketTaken ==
  ASSUME NEW S, \A s \in S : s.number \in Nat, NEW list \in Seq(S), list # <<>>,
         NEW next \in Nat, Outgoing(list, <<>>, next)
  PROVE  /\ Outgoing(Tail(list), <<Head(list)>>, next)
         /\ \A called, new, id : \A got \in Seq(Nat) :
              Incoming(list, <<>>, next, called, id, got)
                => Incoming(Tail(list), <<Head(list)>>, next, new, id, got)
  <1> DEFINE n == Len(list)
             less == Tail(list)
             hand == <<Head(list)>>
  <1>1. /\ n \in Nat \ {0} /\ Len(less) = n - 1 /\ hand[1] = list[1] /\ hand # <<>>
        /\ \A i \in 1 .. n - 1 : less[i] = list[i + 1]
        /\ \A i \in 1 .. n : list[i] \in S
    OBVIOUS
  <1>2. \A i \in 1 .. n : list[i].number \in Nat BY <1>1
  <1>3. /\ \A i, k \in 1 .. n : i < k => list[i].number < list[k].number
        /\ \A i \in 1 .. n : list[i].number < next
    BY DEF Outgoing
  <1> HIDE DEF n, less, hand
  <1>4. \A i \in 1 .. n - 1 : i + 1 \in 1 .. n /\ i \in Nat /\ 1 < i + 1 BY <1>1
  <1>5. 1 \in 1 .. n BY <1>1
  <1>6. \A i, k \in 1 .. n - 1 : i < k => less[i].number < less[k].number
    <2> TAKE i \in 1 .. n - 1
    <2> TAKE k \in 1 .. n - 1
    <2> HAVE i < k
    <2>1. /\ i + 1 \in 1 .. n /\ k + 1 \in 1 .. n /\ i + 1 < k + 1
      BY <1>4
    <2> QED BY <1>1, <1>3, <2>1
  <1>7. \A i \in 1 .. n - 1 : less[i].number < next /\ hand[1].number < less[i].number
    BY <1>1, <1>3, <1>4, <1>5
  <1>8. Outgoing(less, hand, next)
    <2>1. hand[1].number < next /\ Len(less) = n - 1 BY <1>1, <1>3, <1>5
    <2> QED BY ONLY <1>6, <1>7, <2>1 DEF Outgoing
  <1>9. ASSUME NEW called, NEW new, NEW id, NEW got \in Seq(Nat),
               Incoming(list, <<>>, next, called, id, got)
        PROVE  Incoming(less, hand, next, new, id, got)
    <2>1. /\ \A i, k \in 1 .. Len(got) : i < k => got[i] < got[k]
          /\ \A m \in 1 .. Len(got) : /\ got[m] < next
                                      /\ \A i \in 1 .. n : got[m] < list[i].number
      BY <1>9 DEF Incoming, n
    <2>2. \A m \in 1 .. Len(got) : \A i \in 1 .. n - 1 : got[m] < less[i].number
      BY <1>1, <1>4, <2>1
    <2>3. \A m \in 1 .. Len(got) : got[m] < hand[1].number /\ got[m] <= hand[1].number
      <3> TAKE m \in 1 .. Len(got)
      <3>1. got[m] \in Nat /\ got[m] < list[1].number /\ list[1].number \in Nat
        BY <1>2, <1>5, <2>1
      <3> QED BY <1>1, <3>1
    <2>4. Len(less) = n - 1 BY <1>1
    <2> QED BY ONLY <2>1, <2>2, <2>3, <2>4 DEF Incoming
  <1> QED BY <1>8, <1>9 DEF less, hand

\* The packet is received by one of them, which is then off the list.
LEMMA PacketReceived ==
  ASSUME NEW S, \A s \in S : s.number \in Nat, NEW list, NEW hand \in Seq(S), hand # <<>>,
         NEW next, Outgoing(list, hand, next),
         NEW called, NEW id \in called, NEW got \in Seq(Nat),
         Incoming(list, hand, next, called, id, got)
  PROVE  Incoming(list, hand, next, called \ {id}, id, Append(got, hand[1].number))
  <1> DEFINE n == Len(got)
             h == hand[1].number
             more == Append(got, h)
  <1>1. h \in Nat
    <2>1. hand[1] \in S OBVIOUS
    <2> QED BY <2>1
  <1>2. /\ n \in Nat /\ Len(more) = n + 1 /\ more[n + 1] = h
        /\ \A i \in 1 .. n : more[i] = got[i]
    BY <1>1
  <1>3. /\ \A i, k \in 1 .. n : i < k => got[i] < got[k]
        /\ \A m \in 1 .. n : /\ got[m] < next
                             /\ \A i \in 1 .. Len(list) : got[m] < list[i].number
                             /\ got[m] <= h /\ got[m] < h
    BY DEF Incoming
  <1>4. h < next /\ \A i \in 1 .. Len(list) : h < list[i].number BY DEF Outgoing
  <1> HIDE DEF n, more, h
  <1>5. \A i \in 1 .. n + 1 : (i \in 1 .. n /\ i < n + 1) \/ i = n + 1 BY <1>2
  <1>6. \A i, k \in 1 .. n + 1 : i < k => more[i] < more[k]
    <2> TAKE i \in 1 .. n + 1
    <2> TAKE k \in 1 .. n + 1
    <2> HAVE i < k
    <2>0. i \in Nat /\ k \in Nat BY <1>2
    <2>1. i \in 1 .. n BY <1>2, <1>5, <2>0
    <2>2. CASE k \in 1 .. n BY <1>2, <1>3, <2>1, <2>2
    <2>3. CASE k = n + 1 BY <1>2, <1>3, <2>1, <2>3
    <2> QED BY <1>5, <2>2, <2>3
  <1>7. h <= h BY <1>1
  <1>8. \A m \in 1 .. n + 1 : /\ more[m] < next
                              /\ \A i \in 1 .. Len(list) : more[m] < list[i].number
                              /\ more[m] <= h
    BY <1>2, <1>3, <1>4, <1>5, <1>7
  <1>9. id \notin called \ {id} /\ Len(more) = n + 1 BY <1>2
  <1> QED BY ONLY <1>6, <1>8, <1>9 DEF Incoming, more, h

ChannelItems == [name : Channel!Names, target : Channel!Targets, number : 1 .. MaxCalls]

Identified(list) == {list[i].id : i \in 1 .. Len(list)}

\* A table determines its identifiers.
LEMMA TableIdentified ==
  ASSUME NEW list, NEW ids, Table(list, ids)
  PROVE  Identified(list) = ids /\ Table(list, Identified(list))
  <1>1. \A x \in Identified(list) : x \in ids BY DEF Table, Identified
  <1>2. \A x \in ids : x \in Identified(list) BY DEF Table, Identified
  <1>3. Identified(list) = ids BY <1>1, <1>2
  <1> QED BY <1>3

\* A table without its first subscription.
LEMMA TableRest ==
  ASSUME NEW S, NEW list \in Seq(S), list # <<>>, Table(list, Identified(list))
  PROVE  /\ Head(list).id \in Identified(list) /\ Head(list) \in S /\ Tail(list) \in Seq(S)
         /\ Identified(Tail(list)) = Identified(list) \ {Head(list).id}
         /\ Table(Tail(list), Identified(Tail(list)))
  <1> DEFINE n == Len(list)
             less == Tail(list)
             ids == Identified(list)
             id == Head(list).id
  <1>1. /\ n \in Nat \ {0} /\ Len(less) = n - 1 /\ Head(list) = list[1]
        /\ \A i \in 1 .. n - 1 : less[i] = list[i + 1]
        /\ less \in Seq(S) /\ Head(list) \in S
    OBVIOUS
  <1>2. /\ \A i \in 1 .. n : list[i].id \in ids
        /\ \A x \in ids : \E i \in 1 .. n : list[i].id = x
        /\ \A i, k \in 1 .. n : list[i].id = list[k].id => i = k
        /\ \A i, k \in 1 .. n : i < k => list[i].priority >= list[k].priority
    BY DEF Table
  <1>3. id = list[1].id BY <1>1
  <1> HIDE DEF n, less, ids, id
  <1>4. \A i \in 1 .. n - 1 : i + 1 \in 1 .. n /\ i + 1 # 1 /\ i \in Nat BY <1>1
  <1>5. 1 \in 1 .. n BY <1>1
  <1>6. \A i \in 1 .. n - 1 : less[i].id \in ids \ {id} BY <1>1, <1>2, <1>3, <1>4, <1>5
  <1>7. \A x \in ids \ {id} : \E i \in 1 .. n - 1 : less[i].id = x
    <2> TAKE x \in ids \ {id}
    <2>1. PICK i \in 1 .. n : list[i].id = x BY <1>2
    <2>2. i # 1 BY <1>3, <2>1
    <2>3. i - 1 \in 1 .. n - 1 /\ i - 1 + 1 = i BY <1>1, <2>2
    <2> QED BY <1>1, <2>1, <2>3
  <1>8. \A i, k \in 1 .. n - 1 : less[i].id = less[k].id => i = k
    <2> TAKE i \in 1 .. n - 1
    <2> TAKE k \in 1 .. n - 1
    <2> HAVE less[i].id = less[k].id
    <2>1. less[i] = list[i + 1] /\ less[k] = list[k + 1] BY <1>1
    <2>2. i + 1 \in 1 .. n /\ k + 1 \in 1 .. n /\ i \in Nat /\ k \in Nat BY <1>4
    <2>3. i + 1 = k + 1 BY <1>2, <2>1, <2>2
    <2> QED BY <2>2, <2>3
  <1>9. \A i, k \in 1 .. n - 1 : i < k => less[i].priority >= less[k].priority
    <2> TAKE i \in 1 .. n - 1
    <2> TAKE k \in 1 .. n - 1
    <2> HAVE i < k
    <2>1. less[i] = list[i + 1] /\ less[k] = list[k + 1] BY <1>1
    <2>2. i + 1 \in 1 .. n /\ k + 1 \in 1 .. n /\ i + 1 < k + 1 BY <1>4
    <2> QED BY <1>2, <2>1, <2>2
  <1>10. Table(less, ids \ {id})
    <2>1. Len(less) = n - 1 BY <1>1
    <2> QED BY ONLY <1>6, <1>7, <1>8, <1>9, <2>1 DEF Table
  <1>11. Identified(less) = ids \ {id} /\ Table(less, Identified(less))
    BY <1>10, TableIdentified
  <1>12. id \in ids BY <1>2, <1>3, <1>5
  <1> QED BY <1>1, <1>11, <1>12 DEF less, ids, id

ChannelHands ==
  /\ PoolInv(ChannelLane, FewClients, ChannelItems)
  /\ worker[First] = "busy" => handling[First] # <<>>

ChannelLists ==
  /\ subscriptions \in Seq(Channel!Subscriptions)
  /\ Table(subscriptions, Identified(subscriptions))
  /\ \A id \in Identified(subscriptions) : id < nextId
  /\ nextId \in Nat \ {0} /\ nextId <= calls + 1

ChannelDispatch ==
  /\ pending \in [{First} -> Seq(Channel!Subscriptions)]
  /\ Table(pending[First], Identified(pending[First]))
  /\ pending[First] # <<>> => worker[First] = "busy"
  /\ received \in [1 .. MaxCalls -> Seq(1 .. MaxCalls)]

ChannelOrder ==
  /\ nextSequenceId \in Nat \ {0} /\ nextSequenceId <= calls + 1
  /\ Outgoing(queue["queue"], handling[First], nextSequenceId)
  /\ \A id \in 1 .. MaxCalls :
       Incoming(queue["queue"], handling[First], nextSequenceId, Identified(pending[First]),
                id, received[id])

ChannelPromises == [id : Nat, end : Nat, future : {"open", "answered", "empty"}]

ChannelInv ==
  /\ Channel!CallersTypeOK
  /\ ChannelHands /\ ChannelLists /\ ChannelDispatch /\ ChannelOrder
  /\ promises \subseteq ChannelPromises

\* What the channel's calls and ticks do to the bounds.
LEMMA ChannelClock ==
  ASSUME Channel!CallersTypeOK
  PROVE  /\ Channel!Called => /\ Channel!CallersTypeOK' /\ calls' \in 1 .. MaxCalls
                              /\ calls' = calls + 1
         /\ Channel!Elapse => Channel!CallersTypeOK' /\ calls' = calls
         /\ UNCHANGED <<calls, now>> => Channel!CallersTypeOK'
         /\ calls \in Nat /\ now \in Nat /\ calls <= MaxCalls /\ MaxCalls \in Nat
  BY CallersAssumption, PluginsAssumption
  DEF Channel!Called, Channel!CallersTypeOK, Channel!Elapse

\* The clients of the channel are clients, and its records have their fields.
LEMMA ChannelTyped ==
  /\ FewClients \subseteq Clients /\ "NONE" \notin FewClients
  /\ \A s \in ChannelItems : s.number \in Nat
  /\ \A s \in Channel!Subscriptions : s.priority \in Int /\ s.id \in 1 .. MaxCalls
  BY PluginsAssumption, CallersAssumption DEF ChannelItems, Channel!Subscriptions

\* Settling a promise changes none that has its value.
LEMMA ChannelSettled ==
  ASSUME promises \subseteq ChannelPromises, NEW id, NEW value \in {"answered", "empty"}
  PROVE  /\ Channel!Settled(id, value) \subseteq ChannelPromises
         /\ \A p \in promises : p.future # "open" => p \in Channel!Settled(id, value)
  <1>1. \A p \in ChannelPromises : [p EXCEPT !.future = value] \in ChannelPromises
    BY DEF ChannelPromises
  <1>2. ASSUME NEW q \in Channel!Settled(id, value) PROVE q \in ChannelPromises
    <2>1. PICK p \in promises :
            q = IF p.id = id /\ p.future = "open" THEN [p EXCEPT !.future = value] ELSE p
      BY DEF Channel!Settled
    <2> QED BY <1>1, <2>1
  <1>3. \A p \in promises : p.future # "open" => p \in Channel!Settled(id, value)
    BY DEF Channel!Settled
  <1> QED BY <1>2, <1>3

\* The invariant holds of a new channel.
LEMMA ChannelInit == CallersInit /\ Channel!PoolInit /\ Channel!OwnInit => ChannelInv
  <1> SUFFICES ASSUME CallersInit, Channel!PoolInit, Channel!OwnInit PROVE ChannelInv
    OBVIOUS
  <1>1. Channel!CallersTypeOK /\ calls = 0
    BY CallersAssumption, PluginsAssumption DEF CallersInit, Channel!CallersTypeOK
  <1>2. PoolInv(ChannelLane, FewClients, ChannelItems) BY ChannelPool, PoolInits
  <1>3. /\ worker[First] = "none" /\ handling[First] = <<>> /\ queue["queue"] = <<>>
    BY ChannelPool DEF Channel!PoolInit
  <1>4. /\ subscriptions = <<>> /\ nextId = 1 /\ nextSequenceId = 1
        /\ pending = [w \in {First} |-> <<>>] /\ received = [id \in 1 .. MaxCalls |-> <<>>]
        /\ promises = {}
    BY ChannelPool DEF Channel!OwnInit
  <1>5. Len(<<>>) = 0 /\ \A S : <<>> \in Seq(S) OBVIOUS
  <1>6. Identified(<<>>) = {} /\ Table(<<>>, Identified(<<>>))
    BY <1>5 DEF Identified, Table
  <1>7. ChannelHands BY <1>2, <1>3 DEF ChannelHands
  <1>8. ChannelLists BY <1>1, <1>4, <1>5, <1>6 DEF ChannelLists
  <1>9. ChannelDispatch BY <1>4, <1>5, <1>6 DEF ChannelDispatch
  <1>10. ChannelOrder
    <2>1. Outgoing(<<>>, <<>>, 1) BY <1>5 DEF Outgoing
    <2>2. \A called, id : Incoming(<<>>, <<>>, 1, called, id, <<>>) BY <1>5 DEF Incoming
    <2>3. \A id \in 1 .. MaxCalls : received[id] = <<>> BY <1>4
    <2> QED BY <1>1, <1>3, <1>4, <2>1, <2>2, <2>3 DEF ChannelOrder
  <1> QED BY <1>1, <1>4, <1>7, <1>8, <1>9, <1>10 DEF ChannelInv

-----------------------------------------------------------------------------
\* What happens to the list of subscriptions: nothing, ...
LEMMA ChannelLeft ==
  ASSUME ChannelLists, calls \in Nat, calls' \in Nat, calls <= calls',
         UNCHANGED <<subscriptions, nextId>>
  PROVE  ChannelLists'
  <1>1. nextId \in Nat /\ nextId <= calls + 1 BY DEF ChannelLists
  <1>2. \A a, b, n \in Nat : a <= b /\ n <= a + 1 => n <= b + 1 OBVIOUS
  <1>3. nextId <= calls' + 1 BY <1>1, <1>2
  <1>4. Identified(subscriptions') = Identified(subscriptions) OBVIOUS
  <1> QED BY <1>3, <1>4 DEF ChannelLists

\* ... one is added, with an identifier of its own, ...
LEMMA ChannelSubscribed ==
  ASSUME ChannelLists, calls \in Nat, calls' = calls + 1,
         NEW sub \in Channel!Subscriptions, sub.id = nextId,
         Channel!Subscribed(sub), nextId' = nextId + 1
  PROVE  ChannelLists'
  <1>1. PICK i \in 1 .. Len(subscriptions) + 1 :
          /\ \A j \in 1 .. i - 1 : subscriptions[j].priority >= sub.priority
          /\ \A j \in i .. Len(subscriptions) : subscriptions[j].priority <= sub.priority
          /\ subscriptions' = SubSeq(subscriptions, 1, i - 1) \o <<sub>>
                              \o SubSeq(subscriptions, i, Len(subscriptions))
    BY DEF Channel!Subscribed
  <1>3. /\ subscriptions \in Seq(Channel!Subscriptions)
        /\ Table(subscriptions, Identified(subscriptions))
        /\ \A id \in Identified(subscriptions) : id < nextId
        /\ nextId \in Nat \ {0} /\ nextId <= calls + 1
    BY DEF ChannelLists
  <1>4. PICK k \in 0 .. Len(subscriptions) :
          /\ \A j \in 1 .. k : subscriptions[j].priority >= sub.priority
          /\ \A j \in k + 1 .. Len(subscriptions) : subscriptions[j].priority <= sub.priority
          /\ subscriptions' = Insertion(subscriptions, k, sub)
    <2>1. i - 1 \in 0 .. Len(subscriptions) /\ i - 1 + 1 = i BY <1>3
    <2> QED BY <1>1, <2>1 DEF Insertion
  <1> DEFINE ids == Identified(subscriptions)
  <1>5. sub.id \notin ids
    <2>1. ~(nextId < nextId) BY <1>3
    <2> QED BY <1>3, <2>1
  <1>6. \A s \in Channel!Subscriptions : s.priority \in Int BY ChannelTyped
  <1>7. /\ subscriptions' \in Seq(Channel!Subscriptions)
        /\ Table(subscriptions', ids \cup {sub.id})
    <2>1. /\ sub \in Channel!Subscriptions /\ k \in 0 .. Len(subscriptions)
          /\ subscriptions \in Seq(Channel!Subscriptions) /\ Table(subscriptions, ids)
      BY <1>3
    <2> HIDE DEF ids
    <2>2. /\ Insertion(subscriptions, k, sub) \in Seq(Channel!Subscriptions)
          /\ Table(Insertion(subscriptions, k, sub), ids \cup {sub.id})
      BY ONLY <1>4, <1>5, <1>6, <2>1, TableInserted
    <2> QED BY <1>4, <2>2
  <1>8. /\ Identified(subscriptions') = ids \cup {sub.id}
        /\ Table(subscriptions', Identified(subscriptions'))
    BY <1>7, TableIdentified
  <1>9. \A id \in ids \cup {sub.id} : id < nextId'
    <2>1. \A s \in Channel!Subscriptions : s.id \in Nat BY ChannelTyped
    <2>2. \A id \in ids : id \in Nat
      <3> TAKE id \in ids
      <3>1. PICK j \in 1 .. Len(subscriptions) : subscriptions[j].id = id BY DEF Identified
      <3>2. subscriptions[j] \in Channel!Subscriptions BY <1>3
      <3> QED BY <2>1, <3>1, <3>2
    <2>3. \A id \in ids : id < nextId + 1
      <3> TAKE id \in ids
      <3>1. id \in Nat /\ id < nextId /\ nextId \in Nat BY <1>3, <2>2
      <3> QED BY <3>1
    <2>4. nextId < nextId + 1 BY <1>3
    <2> QED BY <2>3, <2>4
  <1>10. nextId' \in Nat \ {0} /\ nextId' <= calls' + 1 BY <1>3
  <1> QED BY <1>7, <1>8, <1>9, <1>10 DEF ChannelLists

\* ... or one goes.
LEMMA ChannelWithout ==
  ASSUME ChannelLists, calls \in Nat, calls' \in Nat, calls <= calls',
         NEW id, subscriptions' = Channel!Without(id), UNCHANGED nextId
  PROVE  ChannelLists'
  <1> DEFINE ids == Identified(subscriptions)
             kept == {i \in DOMAIN subscriptions : subscriptions[i].id \notin {id}}
  <1>1. Channel!Without(id) = Sublist(subscriptions, kept)
    <2>1. Channel!Sublist(subscriptions, kept) = Sublist(subscriptions, kept)
      BY DEF Channel!Sublist, Sublist, Channel!Cardinality, Cardinality
    <2>2. kept = {i \in DOMAIN subscriptions : subscriptions[i].id # id} OBVIOUS
    <2> HIDE DEF kept
    <2>3. Channel!Without(id) = Channel!Sublist(subscriptions, kept)
      BY <2>2 DEF Channel!Without
    <2> QED BY <2>1, <2>3
  <1>2. /\ subscriptions \in Seq(Channel!Subscriptions)
        /\ Table(subscriptions, Identified(subscriptions))
        /\ \A x \in Identified(subscriptions) : x < nextId
        /\ nextId \in Nat \ {0} /\ nextId <= calls + 1
    BY DEF ChannelLists
  <1>3. /\ subscriptions' \in Seq(Channel!Subscriptions)
        /\ Table(subscriptions', ids \ {id})
    <2>1. subscriptions \in Seq(Channel!Subscriptions) /\ Table(subscriptions, ids) BY <1>2
    <2> HIDE DEF ids
    <2>2. /\ Sublist(subscriptions, kept) \in Seq(Channel!Subscriptions)
          /\ Table(Sublist(subscriptions, kept), ids \ {id})
      BY ONLY <2>1, TableWithout
    <2> QED BY <1>1, <2>2
  <1>4. /\ Identified(subscriptions') = ids \ {id}
        /\ Table(subscriptions', Identified(subscriptions'))
    BY <1>3, TableIdentified
  <1>5. \A x \in ids \ {id} : x < nextId BY <1>2
  <1>6. nextId <= calls' + 1
    <2>1. nextId \in Nat /\ nextId <= calls + 1 BY <1>2
    <2>2. \A a, b, n \in Nat : a <= b /\ n <= a + 1 => n <= b + 1 OBVIOUS
    <2> QED BY <2>1, <2>2
  <1> HIDE DEF ids
  <1> QED BY <1>2, <1>3, <1>4, <1>5, <1>6 DEF ChannelLists

-----------------------------------------------------------------------------
\* What happens to the packets: nothing, ...
LEMMA ChannelQuiet ==
  ASSUME ChannelHands, ChannelDispatch, ChannelOrder,
         PoolMoves(ChannelLane, FewClients),
         calls \in Nat, calls' \in Nat, calls <= calls',
         UNCHANGED <<pending, received, nextSequenceId>>
  PROVE  ChannelHands' /\ ChannelDispatch' /\ ChannelOrder'
  <1>1. /\ PoolInv(ChannelLane, FewClients, ChannelItems)'
        /\ queue' = queue /\ handling' = handling
        /\ worker'[First] = "busy" <=> worker[First] = "busy"
    BY ChannelPool, PoolMoved, ChannelTyped DEF ChannelHands
  <1>2. ChannelHands' BY <1>1 DEF ChannelHands
  <1>3. ChannelDispatch' BY <1>1 DEF ChannelDispatch, Identified
  <1>4. ChannelOrder'
    <2>1. nextSequenceId' <= calls' + 1 BY DEF ChannelOrder
    <2> QED BY <1>1, <2>1 DEF ChannelOrder, Identified
  <1> QED BY <1>2, <1>3, <1>4

\* ... or one is sent, with the next number.
LEMMA ChannelSent ==
  ASSUME ChannelHands, ChannelDispatch, ChannelOrder, MaxCalls \in Nat,
         NEW item \in ChannelItems, item.number = nextSequenceId, Channel!Push("queue", item),
         nextSequenceId' = nextSequenceId + 1, calls \in Nat, calls' = calls + 1,
         UNCHANGED <<pending, received>>
  PROVE  ChannelHands' /\ ChannelDispatch' /\ ChannelOrder'
  <1>1. /\ PoolInv(ChannelLane, FewClients, ChannelItems)
        /\ "queue" \in Pool(ChannelLane, FewClients)!Lanes
        /\ Pool(ChannelLane, FewClients)!Push("queue", item)
    BY ChannelPool DEF ChannelHands
  <1>2. /\ PoolInv(ChannelLane, FewClients, ChannelItems)'
        /\ queue' = [queue EXCEPT !["queue"] = Append(@, item)] /\ handling' = handling
        /\ \A w \in DOMAIN ChannelLane : worker'[w] = "busy" <=> worker[w] = "busy"
    BY ONLY <1>1, item \in ChannelItems, PoolPushed
  <1>3. /\ queue["queue"] \in Seq(ChannelItems)
        /\ queue'["queue"] = Append(queue["queue"], item)
        /\ handling[First] \in Seq(ChannelItems)
    BY <1>1, <1>2, ChannelPool DEF PoolInv, PoolTypes
  <1>4. worker'[First] = "busy" <=> worker[First] = "busy" BY <1>2, ChannelPool
  <1>5. ChannelHands' BY <1>2, <1>4 DEF ChannelHands
  <1>6. ChannelDispatch' BY <1>2, <1>4 DEF ChannelDispatch, Identified
  <1> DEFINE list == queue["queue"]
             hand == handling[First]
             called == Identified(pending[First])
  <1>7. nextSequenceId \in Nat /\ nextSequenceId <= calls + 1 /\ Outgoing(list, hand, nextSequenceId)
    BY DEF ChannelOrder
  <1>8. /\ Outgoing(Append(list, item), hand, nextSequenceId + 1)
        /\ \A some, id : \A got \in Seq(Nat) :
             Incoming(list, hand, nextSequenceId, some, id, got)
               => Incoming(Append(list, item), hand, nextSequenceId + 1, some, id, got)
    <2>1. /\ \A s \in ChannelItems : s.number \in Nat
          /\ list \in Seq(ChannelItems) /\ hand \in Seq(ChannelItems) /\ item \in ChannelItems
          /\ item.number = nextSequenceId
      BY <1>3, ChannelTyped
    <2> HIDE DEF list, hand
    <2> QED BY ONLY <1>7, <2>1, PacketSent
  <1>9. ASSUME NEW id \in 1 .. MaxCalls
        PROVE  Incoming(Append(list, item), hand, nextSequenceId + 1, called, id, received[id])
    <2>1. Incoming(list, hand, nextSequenceId, called, id, received[id]) BY DEF ChannelOrder
    <2>2. received[id] \in Seq(Nat)
      <3>1. received[id] \in Seq(1 .. MaxCalls) BY DEF ChannelDispatch
      <3> QED BY <3>1
    <2> HIDE DEF list, hand, called
    <2> QED BY <1>8, <2>1, <2>2
  <1>10. nextSequenceId' \in Nat \ {0} /\ nextSequenceId' <= calls' + 1 BY <1>7
  <1> HIDE DEF called
  <1>11. Identified(pending'[First]) = called BY DEF called, Identified
  <1>12. ChannelOrder' BY <1>2, <1>3, <1>8, <1>9, <1>10, <1>11 DEF ChannelOrder
  <1> QED BY <1>5, <1>6, <1>12

-----------------------------------------------------------------------------
\* The worker takes a packet with a copy of the list, ...
LEMMA ChannelTakes ==
  ASSUME ChannelInv, Channel!WorkerTakes(First)
  PROVE  ChannelInv'
  <1>1. /\ PoolInv(ChannelLane, FewClients, ChannelItems) /\ First \in DOMAIN ChannelLane
        /\ Pool(ChannelLane, FewClients)!Take(First)
    BY ChannelPool DEF ChannelInv, ChannelHands, Channel!WorkerTakes
  <1>2. ChannelLane[First] = "queue" BY DEF ChannelLane
  <1>3. /\ PoolInv(ChannelLane, FewClients, ChannelItems)'
        /\ queue[ChannelLane[First]] \in Seq(ChannelItems) /\ queue[ChannelLane[First]] # <<>>
        /\ queue' = [queue EXCEPT ![ChannelLane[First]] = Tail(@)]
        /\ handling' = [handling EXCEPT ![First] = <<Head(queue[ChannelLane[First]])>>]
        /\ worker' = [worker EXCEPT ![First] = "busy"]
        /\ handling[First] = <<>>
        /\ UNCHANGED <<calls, now>>
    BY ONLY <1>1, PoolTakes
  <1>4. /\ pending' = [pending EXCEPT ![First] = subscriptions]
        /\ UNCHANGED <<subscriptions, nextId, nextSequenceId, received, promises>>
    BY DEF Channel!WorkerTakes
  <1> DEFINE list == queue["queue"]
             called == Identified(pending[First])
  <1>5. /\ DOMAIN queue = {"queue"} /\ DOMAIN handling = {First} /\ DOMAIN worker = {First}
        /\ pending \in [{First} -> Seq(Channel!Subscriptions)]
    BY <1>1, ChannelPool DEF PoolInv, PoolTypes, ChannelInv, ChannelDispatch
  <1>6. /\ list \in Seq(ChannelItems) /\ list # <<>>
        /\ queue'["queue"] = Tail(list) /\ handling'[First] = <<Head(list)>>
        /\ worker'[First] = "busy" /\ pending'[First] = subscriptions
    BY <1>2, <1>3, <1>4, <1>5
  <1>7. <<Head(list)>> # <<>> OBVIOUS
  <1>8. ChannelHands' BY <1>3, <1>6, <1>7 DEF ChannelHands
  <1>9. Channel!CallersTypeOK' /\ calls \in Nat BY <1>3, ChannelClock DEF ChannelInv
  <1>10. ChannelLists' BY <1>3, <1>4, <1>9 DEF ChannelInv, ChannelLists, Identified
  <1>11. ChannelDispatch'
    <2>1. pending' \in [{First} -> Seq(Channel!Subscriptions)]
      BY <1>4, <1>5 DEF ChannelInv, ChannelLists
    <2>2. Table(pending'[First], Identified(pending'[First]))
      BY <1>6 DEF ChannelInv, ChannelLists
    <2> QED BY <1>4, <1>6, <2>1, <2>2 DEF ChannelInv, ChannelDispatch
  <1>12. ChannelOrder'
    <2>1. /\ Outgoing(list, <<>>, nextSequenceId) /\ nextSequenceId \in Nat
          /\ \A s \in ChannelItems : s.number \in Nat
          /\ list \in Seq(ChannelItems) /\ list # <<>>
      BY <1>3, <1>6, ChannelTyped DEF ChannelInv, ChannelOrder
    <2>2. /\ Outgoing(Tail(list), <<Head(list)>>, nextSequenceId)
          /\ \A some, new, id : \A got \in Seq(Nat) :
               Incoming(list, <<>>, nextSequenceId, some, id, got)
                 => Incoming(Tail(list), <<Head(list)>>, nextSequenceId, new, id, got)
      <3> HIDE DEF list
      <3> QED BY ONLY <2>1, PacketTaken
    <2>3. ASSUME NEW id \in 1 .. MaxCalls, NEW new
          PROVE  Incoming(Tail(list), <<Head(list)>>, nextSequenceId, new, id, received[id])
      <3>1. Incoming(list, <<>>, nextSequenceId, called, id, received[id])
        BY <1>3 DEF ChannelInv, ChannelOrder
      <3>2. received[id] \in Seq(Nat)
        <4>1. received[id] \in Seq(1 .. MaxCalls) /\ MaxCalls \in Nat
          BY CallersAssumption DEF ChannelInv, ChannelDispatch
        <4> QED BY <4>1
      <3> HIDE DEF list, called
      <3> QED BY <2>2, <3>1, <3>2
    <2>4. nextSequenceId \in Nat \ {0} /\ nextSequenceId <= calls + 1
      BY DEF ChannelInv, ChannelOrder
    <2> HIDE DEF list
    <2> QED BY <1>3, <1>4, <1>6, <2>2, <2>3, <2>4 DEF ChannelOrder
  <1> QED BY <1>4, <1>8, <1>9, <1>10, <1>11, <1>12 DEF ChannelInv

\* ... calls the first subscription of the copy, ...
LEMMA ChannelCalls ==
  ASSUME ChannelInv, Channel!WorkerCalls(First)
  PROVE  ChannelInv'
  <1> DEFINE sub == Head(pending[First])
             packet == handling[First][1]
             called == Identified(pending[First])
             list == queue["queue"]
  <1>1. /\ worker[First] = "busy" /\ pending[First] # <<>>
        /\ pending' = [pending EXCEPT ![First] = Tail(@)]
        /\ UNCHANGED <<calls, now, subscriptions, nextId, nextSequenceId>>
        /\ UNCHANGED Channel!poolVars
    BY DEF Channel!WorkerCalls
  <1>2. \/ /\ received' = [received EXCEPT ![sub.id] = Append(@, packet.number)]
           /\ promises' = IF sub.promised THEN Channel!Settled(sub.id, "answered")
                          ELSE promises
        \/ UNCHANGED <<received, promises>>
    BY DEF Channel!WorkerCalls
  <1>3. UNCHANGED <<running, worker, queue, handling, stopper, waiting, woken, missed, stolen>>
    BY <1>1 DEF Channel!poolVars
  <1>4. /\ pending \in [{First} -> Seq(Channel!Subscriptions)]
        /\ Table(pending[First], called)
        /\ received \in [1 .. MaxCalls -> Seq(1 .. MaxCalls)]
    BY DEF ChannelInv, ChannelDispatch
  <1>5. /\ sub.id \in called /\ sub \in Channel!Subscriptions
        /\ Tail(pending[First]) \in Seq(Channel!Subscriptions)
        /\ Identified(Tail(pending[First])) = called \ {sub.id}
        /\ Table(Tail(pending[First]), Identified(Tail(pending[First])))
    <2>1. pending[First] \in Seq(Channel!Subscriptions) BY <1>4
    <2> QED BY <1>1, <1>4, <2>1, TableRest
  <1>6. pending'[First] = Tail(pending[First]) BY <1>1, <1>4
  <1>7. sub.id \in 1 .. MaxCalls BY <1>5, ChannelTyped
  <1>8. /\ handling[First] \in Seq(ChannelItems) /\ handling[First] # <<>>
        /\ packet \in ChannelItems /\ packet.number \in 1 .. MaxCalls
    <2>1. handling[First] \in Seq(ChannelItems) /\ handling[First] # <<>>
      BY <1>1, ChannelPool DEF ChannelInv, ChannelHands, PoolInv, PoolTypes
    <2>2. packet \in ChannelItems BY <2>1
    <2> QED BY <2>1, <2>2 DEF ChannelItems
  <1> HIDE DEF sub, packet, called, list
  <1>9. ChannelHands'
    BY <1>3, ChannelPool, PoolMoved, ChannelTyped DEF ChannelInv, ChannelHands, PoolMoves, pool
  <1>10. Channel!CallersTypeOK' /\ calls \in Nat BY <1>1, ChannelClock DEF ChannelInv
  <1>11. ChannelLists' BY <1>1, <1>10 DEF ChannelInv, ChannelLists, Identified
  <1>12. received' \in [1 .. MaxCalls -> Seq(1 .. MaxCalls)]
    <2>1. Append(received[sub.id], packet.number) \in Seq(1 .. MaxCalls)
      <3>1. received[sub.id] \in Seq(1 .. MaxCalls) BY <1>4, <1>7
      <3> QED BY <1>8, <3>1
    <2> QED BY <1>2, <1>4, <1>7, <2>1
  <1>13. ChannelDispatch'
    <2>1. pending' \in [{First} -> Seq(Channel!Subscriptions)] BY <1>1, <1>4, <1>5
    <2> QED BY <1>1, <1>3, <1>5, <1>6, <1>12, <2>1 DEF ChannelInv, ChannelDispatch
  <1>14. /\ Outgoing(list, handling[First], nextSequenceId)
         /\ nextSequenceId \in Nat \ {0} /\ nextSequenceId <= calls + 1
         /\ \A id \in 1 .. MaxCalls :
              Incoming(list, handling[First], nextSequenceId, called, id, received[id])
    BY DEF ChannelInv, ChannelOrder, list, called
  <1>15. ASSUME NEW id \in 1 .. MaxCalls
        
           PROVE  Incoming(list, handling[First], nextSequenceId, called \ {sub.id}, id, received'[id])
    <2>1. CASE received'[id] = received[id]
      <3>1. Incoming(list, handling[First], nextSequenceId, called, id, received[id]) BY <1>14
      <3> QED BY <2>1, <3>1 DEF Incoming
    <2>2. CASE id = sub.id /\ received'[id] = Append(received[id], packet.number)
      <3>1. /\ \A s \in ChannelItems : s.number \in Nat
            /\ handling[First] \in Seq(ChannelItems) /\ handling[First] # <<>>
            /\ Outgoing(list, handling[First], nextSequenceId)
            /\ id \in called
            /\ Incoming(list, handling[First], nextSequenceId, called, id, received[id])
        BY <1>5, <1>8, <1>14, <2>2, ChannelTyped
      <3>2. received[id] \in Seq(Nat)
        <4>1. received[id] \in Seq(1 .. MaxCalls) /\ MaxCalls \in Nat BY <1>4, CallersAssumption
        <4> QED BY <4>1
      <3>3. Incoming(list, handling[First], nextSequenceId, called \ {id}, id,
                     Append(received[id], handling[First][1].number))
        BY ONLY <3>1, <3>2, PacketReceived
      <3> QED BY <2>2, <3>3 DEF packet
    <2> QED BY <1>2, <1>4, <1>7, <2>1, <2>2
  <1>16. ChannelOrder'
    <2>1. queue'["queue"] = list BY <1>3 DEF list
    <2> QED BY <1>1, <1>3, <1>5, <1>6, <1>14, <1>15, <2>1 DEF ChannelOrder
  <1>17. promises' \subseteq ChannelPromises
    <2>1. promises \subseteq ChannelPromises BY DEF ChannelInv
    <2> QED BY <1>2, <2>1, ChannelSettled
  <1> QED BY <1>9, <1>10, <1>11, <1>13, <1>16, <1>17 DEF ChannelInv

\* ... and is done with the packet when all of them were called.
LEMMA ChannelFinishes ==
  ASSUME ChannelInv, Channel!WorkerFinishes(First)
  PROVE  ChannelInv'
  <1>1. /\ PoolInv(ChannelLane, FewClients, ChannelItems) /\ First \in DOMAIN ChannelLane
        /\ Pool(ChannelLane, FewClients)!Finish(First)
    BY ChannelPool DEF ChannelInv, ChannelHands, Channel!WorkerFinishes
  <1>2. /\ PoolInv(ChannelLane, FewClients, ChannelItems)'
        /\ queue' = queue /\ handling' = [handling EXCEPT ![First] = <<>>]
        /\ worker' = [worker EXCEPT ![First] = "loop"]
        /\ UNCHANGED <<calls, now>>
    BY ONLY <1>1, PoolFinishes
  <1>3. /\ pending[First] = <<>>
        /\ UNCHANGED <<subscriptions, nextId, nextSequenceId, pending, received, promises>>
    BY DEF Channel!WorkerFinishes, Channel!own
  <1>4. handling'[First] = <<>> /\ worker'[First] = "loop"
    <2>1. DOMAIN handling = {First} /\ DOMAIN worker = {First}
      BY <1>1, ChannelPool DEF PoolInv, PoolTypes
    <2> QED BY <1>2, <2>1
  <1>5. ChannelHands' BY <1>2, <1>4 DEF ChannelHands
  <1>6. Channel!CallersTypeOK' /\ calls \in Nat BY <1>2, ChannelClock DEF ChannelInv
  <1>7. ChannelLists' BY <1>2, <1>3 DEF ChannelInv, ChannelLists, Identified
  <1>8. ChannelDispatch' BY <1>3 DEF ChannelInv, ChannelDispatch
  <1>9. ChannelOrder'
    <2>1. Identified(pending[First]) = {}
      <3>1. Len(<<>>) = 0 OBVIOUS
      <3> QED BY <1>3, <3>1 DEF Identified
    <2>2. /\ Outgoing(queue["queue"], <<>>, nextSequenceId)
          /\ nextSequenceId \in Nat \ {0} /\ nextSequenceId <= calls + 1
      BY DEF ChannelInv, ChannelOrder, Outgoing
    <2>3. \A id \in 1 .. MaxCalls :
            Incoming(queue["queue"], <<>>, nextSequenceId, {}, id, received[id])
      BY <2>1 DEF ChannelInv, ChannelOrder, Incoming
    <2>4. Identified(pending'[First]) = {} BY <1>3, <2>1
    <2> QED BY <1>2, <1>3, <1>4, <2>2, <2>3, <2>4 DEF ChannelOrder
  <1> QED BY <1>3, <1>5, <1>6, <1>7, <1>8, <1>9 DEF ChannelInv

-----------------------------------------------------------------------------
\* What leaves the list of subscriptions and the promises alone.
LEMMA ChannelPooled ==
  ASSUME ChannelInv, PoolMoves(ChannelLane, FewClients),
         Channel!Called \/ Channel!Elapse \/ UNCHANGED <<calls, now>>, UNCHANGED Channel!own
  PROVE  ChannelInv'
  <1>1. UNCHANGED <<subscriptions, nextId, nextSequenceId, pending, received, promises>>
    BY DEF Channel!own
  <1>2. /\ Channel!CallersTypeOK' /\ calls \in Nat /\ calls' \in Nat /\ calls <= calls'
    BY ChannelClock DEF ChannelInv
  <1>3. ChannelHands /\ ChannelLists /\ ChannelDispatch /\ ChannelOrder BY DEF ChannelInv
  <1>4. ChannelHands' /\ ChannelDispatch' /\ ChannelOrder' BY <1>1, <1>2, <1>3, ChannelQuiet
  <1>5. ChannelLists' BY <1>1, <1>2, <1>3, ChannelLeft
  <1> QED BY <1>1, <1>2, <1>4, <1>5 DEF ChannelInv

\* subscribe(), unsubscribe() and the end of a wait leave the traffic alone.
LEMMA ChannelSubscribes ==
  ASSUME ChannelInv,
         \/ \E plugin \in FewIds, priority \in {0, 1} : Channel!Subscribe(plugin, priority)
         \/ \E id \in 1 .. MaxCalls : Channel!Unsubscribe(id)
         \/ \E p \in promises : Channel!WaitEnds(p)
  PROVE  ChannelInv'
  <1>1. /\ UNCHANGED <<nextSequenceId, pending, received>> /\ UNCHANGED Channel!poolVars
        /\ Channel!Called \/ UNCHANGED <<calls, now>>
    BY DEF Channel!Subscribe, Channel!Unsubscribe, Channel!WaitEnds
  <1>2. /\ Channel!CallersTypeOK' /\ calls \in Nat /\ calls' \in Nat /\ calls <= calls'
        /\ Channel!Called => calls' \in 1 .. MaxCalls /\ calls' = calls + 1
    BY <1>1, ChannelClock DEF ChannelInv
  <1>3. ChannelHands /\ ChannelLists /\ ChannelDispatch /\ ChannelOrder BY DEF ChannelInv
  <1>4. ChannelHands' /\ ChannelDispatch' /\ ChannelOrder'
    <2>1. PoolMoves(ChannelLane, FewClients) BY <1>1, ChannelPool
    <2> QED BY <1>1, <1>2, <1>3, <2>1, ChannelQuiet
  <1>5. ASSUME NEW plugin \in FewIds, NEW priority \in {0, 1}, Channel!Subscribe(plugin, priority)
        PROVE  ChannelLists' /\ promises' = promises
    <2> DEFINE sub == [id |-> nextId, plugin |-> plugin, name |-> "data",
                       priority |-> priority, promised |-> FALSE]
    <2>1. /\ Channel!Called /\ Channel!Subscribed(sub) /\ nextId' = nextId + 1
          /\ promises' = promises
      BY <1>5 DEF Channel!Subscribe
    <2>2. sub \in Channel!Subscriptions /\ sub.id = nextId
      <3>1. nextId \in 1 .. MaxCalls
        <4>1. nextId \in Nat \ {0} /\ nextId <= calls + 1 BY <1>3 DEF ChannelLists
        <4>2. nextId <= calls' BY <1>2, <2>1, <4>1
        <4>3. \A a, b \in Nat : nextId <= a /\ a <= b => nextId <= b BY <4>1
        <4>4. nextId <= MaxCalls BY <1>2, <2>1, <4>2, <4>3, CallersAssumption
        <4> QED BY <4>1, <4>4, CallersAssumption
      <3> QED BY <3>1 DEF Channel!Subscriptions, Channel!Names
    <2> HIDE DEF sub
    <2>3. calls' = calls + 1 BY <1>2, <2>1
    <2>4. ChannelLists' BY <1>2, <1>3, <2>1, <2>2, <2>3, ChannelSubscribed
    <2> QED BY <2>1, <2>4
  <1>6. ASSUME NEW id, Channel!Unsubscribe(id) PROVE ChannelLists' /\ promises' = promises
    <2>1. subscriptions' = Channel!Without(id) /\ UNCHANGED <<nextId, promises>>
      BY <1>6 DEF Channel!Unsubscribe
    <2>2. ChannelLists' BY <1>2, <1>3, <2>1, ChannelWithout
    <2> QED BY <2>1, <2>2
  <1>7. ASSUME NEW p \in promises, Channel!WaitEnds(p)
        PROVE  ChannelLists' /\ promises' = Channel!Settled(p.id, "empty")
    <2>1. /\ subscriptions' = Channel!Without(p.id) /\ UNCHANGED nextId
          /\ promises' = Channel!Settled(p.id, "empty")
      BY <1>7 DEF Channel!WaitEnds
    <2>2. ChannelLists' BY <1>2, <1>3, <2>1, ChannelWithout
    <2> QED BY <2>1, <2>2
  <1>8. promises' \subseteq ChannelPromises
    <2>1. promises \subseteq ChannelPromises BY DEF ChannelInv
    <2>2. \A id : Channel!Settled(id, "empty") \subseteq ChannelPromises BY <2>1, ChannelSettled
    <2>3. \/ promises' = promises \/ \E id : promises' = Channel!Settled(id, "empty")
      BY <1>5, <1>6, <1>7
    <2> QED BY <2>1, <2>2, <2>3
  <1>9. ChannelLists' BY <1>5, <1>6, <1>7
  <1> QED BY <1>2, <1>4, <1>8, <1>9 DEF ChannelInv

-----------------------------------------------------------------------------
\* A packet is published, unless the channel is stopped, ...
LEMMA ChannelSends ==
  ASSUME ChannelInv, Channel!Called, NEW name \in Channel!Names, NEW target \in Channel!Targets,
         IF running THEN /\ Channel!Push("queue", Channel!Packet(name, target))
                         /\ nextSequenceId' = nextSequenceId + 1
         ELSE UNCHANGED <<Channel!poolVars, nextSequenceId>>,
         UNCHANGED <<pending, received>>
  PROVE  ChannelHands' /\ ChannelDispatch' /\ ChannelOrder'
  <1>1. /\ Channel!CallersTypeOK' /\ calls \in Nat /\ calls' \in 1 .. MaxCalls
        /\ calls' = calls + 1 /\ MaxCalls \in Nat
    BY ChannelClock DEF ChannelInv
  <1>2. ChannelHands /\ ChannelDispatch /\ ChannelOrder BY DEF ChannelInv
  <1>3. CASE running
    <2> DEFINE item == Channel!Packet(name, target)
    <2>1. item.number = nextSequenceId BY DEF Channel!Packet
    <2>2. nextSequenceId \in 1 .. MaxCalls
      <3>1. nextSequenceId \in Nat \ {0} /\ nextSequenceId <= calls + 1 BY <1>2 DEF ChannelOrder
      <3>2. nextSequenceId <= calls' BY <1>1, <3>1
      <3>3. \A a, b, n \in Nat : n <= a /\ a <= b => n <= b OBVIOUS
      <3>4. nextSequenceId <= MaxCalls BY <1>1, <3>1, <3>2, <3>3
      <3> QED BY <1>1, <3>1, <3>4
    <2>3. item \in ChannelItems BY <2>2 DEF ChannelItems, Channel!Packet
    <2>4. Channel!Push("queue", item) /\ nextSequenceId' = nextSequenceId + 1 BY <1>3
    <2>5. UNCHANGED <<pending, received>> OBVIOUS
    <2> HIDE DEF item
    <2> QED BY ONLY <1>1, <1>2, <2>1, <2>3, <2>4, <2>5, ChannelSent
  <1>4. CASE ~running
    <2>1. /\ UNCHANGED <<pending, received, nextSequenceId>>
          /\ PoolMoves(ChannelLane, FewClients)
      BY <1>4, ChannelPool
    <2>2. calls' \in Nat /\ calls <= calls' BY <1>1
    <2> QED BY ONLY <1>1, <1>2, <2>1, <2>2, ChannelQuiet
  <1> QED BY <1>3, <1>4

\* A packet that a client publishes.
LEMMA ChannelPublishes ==
  ASSUME ChannelInv, NEW name \in Channel!Names, NEW target \in Channel!Targets,
         Channel!Publish(name, target)
  PROVE  ChannelInv'
  <1>1. /\ Channel!Called /\ UNCHANGED <<subscriptions, nextId, pending, received, promises>>
        /\ IF running THEN /\ Channel!Push("queue", Channel!Packet(name, target))
                           /\ nextSequenceId' = nextSequenceId + 1
           ELSE UNCHANGED <<Channel!poolVars, nextSequenceId>>
    BY DEF Channel!Publish
  <1>2. ChannelHands' /\ ChannelDispatch' /\ ChannelOrder' BY <1>1, ChannelSends
  <1>3. /\ Channel!CallersTypeOK' /\ calls \in Nat /\ calls' \in Nat /\ calls <= calls'
    BY <1>1, ChannelClock DEF ChannelInv
  <1>4. ChannelLists' BY <1>1, <1>3, ChannelLeft DEF ChannelInv
  <1> QED BY <1>1, <1>2, <1>3, <1>4 DEF ChannelInv

\* ... with a subscription and a promise, ...
LEMMA ChannelAsks ==
  ASSUME ChannelInv, NEW plugin \in FewIds, NEW target \in Channel!Targets,
         Channel!SendAndWait(plugin, target)
  PROVE  ChannelInv'
  <1> DEFINE sub == [id |-> nextId, plugin |-> plugin, name |-> Channel!Response,
                     priority |-> 100, promised |-> TRUE]
             promise == [id |-> nextId, end |-> now + 1, future |-> "open"]
  <1>1. /\ Channel!Called /\ Channel!Subscribed(sub) /\ nextId' = nextId + 1
        /\ promises' = promises \cup {promise} /\ UNCHANGED <<pending, received>>
        /\ IF running THEN /\ Channel!Push("queue", Channel!Packet("data", target))
                           /\ nextSequenceId' = nextSequenceId + 1
           ELSE UNCHANGED <<Channel!poolVars, nextSequenceId>>
    BY DEF Channel!SendAndWait
  <1>2. "data" \in Channel!Names BY DEF Channel!Names
  <1>3. ChannelHands' /\ ChannelDispatch' /\ ChannelOrder' BY <1>1, <1>2, ChannelSends
  <1>4. /\ Channel!CallersTypeOK' /\ calls \in Nat /\ calls' \in 1 .. MaxCalls
        /\ calls' = calls + 1 /\ MaxCalls \in Nat /\ now \in Nat
    BY <1>1, ChannelClock DEF ChannelInv
  <1>5. nextId \in Nat \ {0} /\ nextId <= calls + 1 BY DEF ChannelInv, ChannelLists
  <1>6. nextId \in 1 .. MaxCalls
    <2>1. nextId <= calls' BY <1>4, <1>5
    <2>2. \A a, b, n \in Nat : n <= a /\ a <= b => n <= b OBVIOUS
    <2>3. nextId <= MaxCalls BY <1>4, <1>5, <2>1, <2>2
    <2> QED BY <1>4, <1>5, <2>3
  <1>7. sub \in Channel!Subscriptions /\ sub.id = nextId
    BY <1>6 DEF Channel!Subscriptions, Channel!Names
  <1>8. promise \in ChannelPromises BY <1>4, <1>5 DEF ChannelPromises
  <1> HIDE DEF sub, promise
  <1>9. ChannelLists' BY <1>1, <1>4, <1>7, ChannelSubscribed DEF ChannelInv
  <1>10. promises' \subseteq ChannelPromises BY <1>1, <1>8 DEF ChannelInv
  <1> QED BY <1>3, <1>4, <1>9, <1>10 DEF ChannelInv

\* Every step.
LEMMA ChannelStep == ChannelInv /\ Channel!Next => ChannelInv'
  <1> SUFFICES ASSUME ChannelInv, Channel!Next PROVE ChannelInv'
    OBVIOUS
  <1> USE ChannelPool
  <1>1. CASE Channel!Start BY <1>1, ChannelPooled DEF Channel!Start
  <1>2. CASE \E c \in FewClients : Channel!Stop(c) BY <1>2, ChannelPooled DEF Channel!Stop
  <1>3. CASE \E c \in FewClients : Channel!Joined(c)
    BY <1>3, ChannelPooled DEF Channel!Joined, Channel!PoolStopped
  <1>4. CASE \/ \E plugin \in FewIds, priority \in {0, 1} : Channel!Subscribe(plugin, priority)
             \/ \E id \in 1 .. MaxCalls : Channel!Unsubscribe(id)
             \/ \E p \in promises : Channel!WaitEnds(p)
    BY <1>4, ChannelSubscribes
  <1>5. CASE \E plugin \in FewIds, target \in Channel!Targets : Channel!SendAndWait(plugin, target)
    BY <1>5, ChannelAsks
  <1>6. CASE \E name \in Channel!Names, target \in Channel!Targets : Channel!Publish(name, target)
    BY <1>6, ChannelPublishes
  <1>7. CASE Channel!WorkerIdles(First)
    <2>1. UNCHANGED <<calls, now>> /\ UNCHANGED Channel!own /\ Channel!Idles(First)
      BY <1>7 DEF Channel!WorkerIdles, Channel!Idles, Channel!LoopTest, Channel!FallAsleep,
                  Channel!Sleep, Channel!BreakOff
    <2> QED BY <2>1, ChannelPooled
  <1>8. CASE Channel!WorkerTakes(First) BY <1>8, ChannelTakes
  <1>9. CASE Channel!WorkerCalls(First) BY <1>9, ChannelCalls
  <1>10. CASE Channel!WorkerFinishes(First) BY <1>10, ChannelFinishes
  <1>11. CASE Channel!Tick BY <1>11, ChannelPooled DEF Channel!Tick
  <1> QED
    BY <1>1, <1>2, <1>3, <1>4, <1>5, <1>6, <1>7, <1>8, <1>9, <1>10, <1>11 DEF Channel!Next

\* What the invariant is for.
LEMMA ChannelHolds == ChannelInv => Channel!TypeOK /\ Channel!ChannelInOrder
  <1> SUFFICES ASSUME ChannelInv PROVE Channel!TypeOK /\ Channel!ChannelInOrder
    OBVIOUS
  <1>1. /\ PoolInv(ChannelLane, FewClients, ChannelItems) /\ Channel!CallersTypeOK
        /\ promises \subseteq ChannelPromises
        /\ ChannelLists /\ ChannelDispatch /\ ChannelOrder
    BY DEF ChannelInv, ChannelHands
  <1>2. Channel!PoolTypeOK(ChannelItems)
    BY <1>1, ChannelPool DEF PoolInv, PoolTypes, Channel!PoolTypeOK, Channel!NoClient, Places
  <1>3. /\ nextId \in 1 .. MaxCalls + 1 /\ nextSequenceId \in 1 .. MaxCalls + 1
    <2>1. /\ nextId \in Nat \ {0} /\ nextId <= calls + 1
          /\ nextSequenceId \in Nat \ {0} /\ nextSequenceId <= calls + 1
          /\ calls \in Nat /\ calls <= MaxCalls /\ MaxCalls \in Nat
      BY <1>1, ChannelClock DEF ChannelLists, ChannelOrder
    <2>2. \A a, b, n \in Nat : a <= b /\ n <= a + 1 => n <= b + 1 OBVIOUS
    <2>3. nextId <= MaxCalls + 1 /\ nextSequenceId <= MaxCalls + 1 BY <2>1, <2>2
    <2> QED BY <2>1, <2>3
  <1>4. Channel!TypeOK
    BY <1>1, <1>2, <1>3, ChannelPool
    DEF Channel!TypeOK, ChannelLists, ChannelDispatch, ChannelItems, ChannelPromises
  <1>5. Channel!ChannelInOrder
    <2>1. \A id \in 1 .. MaxCalls : \A j, k \in 1 .. Len(received[id]) :
            j < k => received[id][j] < received[id][k]
      BY <1>1 DEF ChannelOrder, Incoming
    <2>2. \A j, k \in 1 .. Len(pending[First]) :
            j < k => pending[First][j].priority >= pending[First][k].priority
      BY <1>1 DEF ChannelDispatch, Table
    <2> QED BY <2>1, <2>2, ChannelPool DEF Channel!ChannelInOrder
  <1> QED BY <1>4, <1>5

\* The value of a promise is kept by every step.
LEMMA ChannelFinal ==
  ChannelInv /\ Channel!Next => \A p \in promises : p.future # "open" => p \in promises'
  <1> SUFFICES ASSUME ChannelInv, Channel!Next
               PROVE  \A p \in promises : p.future # "open" => p \in promises'
    OBVIOUS
  <1>1. promises \subseteq ChannelPromises BY DEF ChannelInv
  <1>2. \A id : \A p \in promises :
          p.future # "open" => /\ p \in Channel!Settled(id, "answered")
                               /\ p \in Channel!Settled(id, "empty")
    BY <1>1, ChannelSettled
  <1>3. \/ promises \subseteq promises'
        \/ \E id : promises' \in {Channel!Settled(id, "answered"), Channel!Settled(id, "empty")}
    <2>1. CASE Channel!Start \/ Channel!Tick \/ \E c \in FewClients : Channel!Stop(c) \/ Channel!Joined(c)
      BY <2>1 DEF Channel!Start, Channel!Tick, Channel!Stop, Channel!Joined, Channel!own
    <2>2. CASE \/ \E plugin \in FewIds, priority \in {0, 1} : Channel!Subscribe(plugin, priority)
               \/ \E id \in 1 .. MaxCalls : Channel!Unsubscribe(id)
      BY <2>2 DEF Channel!Subscribe, Channel!Unsubscribe
    <2>3. CASE \E plugin \in FewIds, target \in Channel!Targets : Channel!SendAndWait(plugin, target)
      BY <2>3 DEF Channel!SendAndWait
    <2>4. CASE \E name \in Channel!Names, target \in Channel!Targets : Channel!Publish(name, target)
      BY <2>4 DEF Channel!Publish
    <2>5. CASE \E p \in promises : Channel!WaitEnds(p) BY <2>5 DEF Channel!WaitEnds
    <2>6. CASE \E w \in Channel!Workers : Channel!WorkerIdles(w)
      BY <2>6 DEF Channel!WorkerIdles, Channel!own
    <2>7. CASE \E w \in Channel!Workers : Channel!WorkerTakes(w) BY <2>7 DEF Channel!WorkerTakes
    <2>8. CASE \E w \in Channel!Workers : Channel!WorkerCalls(w) BY <2>8 DEF Channel!WorkerCalls
    <2>9. CASE \E w \in Channel!Workers : Channel!WorkerFinishes(w)
      BY <2>9 DEF Channel!WorkerFinishes, Channel!own
    <2> QED BY <2>1, <2>2, <2>3, <2>4, <2>5, <2>6, <2>7, <2>8, <2>9 DEF Channel!Next
  <1> QED BY <1>2, <1>3

-----------------------------------------------------------------------------
(* The message bus: its messages.                                          *)

\* The threads that have a message, among those of the messages.
Holders(hands) == {w \in Threads \ {First} : hands[w] # <<>>}

\* Every open promise has one message, in the list or in one thread's hands, and no other
\* message is there.
Traffic(list, hands, open) ==
  /\ \A i, k \in 1 .. Len(list) : list[i].number = list[k].number => i = k
  /\ \A v, w \in Holders(hands) : hands[v][1].number = hands[w][1].number => v = w
  /\ \A i \in 1 .. Len(list) : \A w \in Holders(hands) :
       list[i].number # hands[w][1].number
  /\ \A i \in 1 .. Len(list) : list[i].number \in open
  /\ \A w \in Holders(hands) : hands[w][1].number \in open
  /\ \A n \in open : \/ \E i \in 1 .. Len(list) : list[i].number = n
                     \/ \E w \in Holders(hands) : hands[w][1].number = n

\* A message is sent with a promise of its own, ...
LEMMA TrafficSent ==
  ASSUME NEW S, NEW list \in Seq(S), NEW hands, NEW open, Traffic(list, hands, open),
         NEW item \in S, item.number \notin open
  PROVE  Traffic(Append(list, item), hands, open \cup {item.number})
  <1> DEFINE n == Len(list)
             more == Append(list, item)
  <1>1. /\ n \in Nat /\ Len(more) = n + 1 /\ more[n + 1] = item
        /\ \A i \in 1 .. n : more[i] = list[i]
    OBVIOUS
  <1>2. /\ \A i, k \in 1 .. n : list[i].number = list[k].number => i = k
        /\ \A i \in 1 .. n : \A w \in Holders(hands) : list[i].number # hands[w][1].number
        /\ \A i \in 1 .. n : list[i].number \in open
        /\ \A w \in Holders(hands) : hands[w][1].number \in open
        /\ \A x \in open : \/ \E i \in 1 .. n : list[i].number = x
                           \/ \E w \in Holders(hands) : hands[w][1].number = x
    BY DEF Traffic
  <1> HIDE DEF n, more
  <1>3. \A i \in 1 .. n + 1 : i \in 1 .. n \/ i = n + 1 BY <1>1
  <1>4. \A i \in 1 .. n : i \in 1 .. n + 1 BY <1>1
  <1>5. n + 1 \in 1 .. n + 1 BY <1>1
  <1>6. \A i, k \in 1 .. n + 1 : more[i].number = more[k].number => i = k
    BY <1>1, <1>2, <1>3
  <1>7. \A i \in 1 .. n + 1 : \A w \in Holders(hands) : more[i].number # hands[w][1].number
    BY <1>1, <1>2, <1>3
  <1>8. \A i \in 1 .. n + 1 : more[i].number \in open \cup {item.number}
    BY <1>1, <1>2, <1>3
  <1>9. \A x \in open \cup {item.number} :
          \/ \E i \in 1 .. n + 1 : more[i].number = x
          \/ \E w \in Holders(hands) : hands[w][1].number = x
    BY <1>1, <1>2, <1>4, <1>5
  <1> QED BY <1>1, <1>2, <1>6, <1>7, <1>8, <1>9 DEF Traffic, more

\* ... a thread takes it, ...
LEMMA TrafficTaken ==
  ASSUME NEW S, NEW list \in Seq(S), NEW hands, DOMAIN hands = Threads, NEW open,
         Traffic(list, hands, open),
         list # <<>>, NEW w \in Threads \ {First}, hands[w] = <<>>
  PROVE  Traffic(Tail(list), [hands EXCEPT ![w] = <<Head(list)>>], open)
  <1> DEFINE n == Len(list)
             less == Tail(list)
             full == [hands EXCEPT ![w] = <<Head(list)>>]
  <1>1. /\ n \in Nat \ {0} /\ Len(less) = n - 1 /\ Head(list) = list[1]
        /\ \A i \in 1 .. n - 1 : less[i] = list[i + 1]
    OBVIOUS
  <1>2. /\ full[w] # <<>> /\ full[w][1] = list[1]
        /\ \A v \in Threads \ {First} : v # w => full[v] = hands[v]
    BY <1>1
  <1>3. /\ \A i, k \in 1 .. n : list[i].number = list[k].number => i = k
        /\ \A u, v \in Holders(hands) : hands[u][1].number = hands[v][1].number => u = v
        /\ \A i \in 1 .. n : \A v \in Holders(hands) : list[i].number # hands[v][1].number
        /\ \A i \in 1 .. n : list[i].number \in open
        /\ \A v \in Holders(hands) : hands[v][1].number \in open
        /\ \A x \in open : \/ \E i \in 1 .. n : list[i].number = x
                           \/ \E v \in Holders(hands) : hands[v][1].number = x
    BY DEF Traffic
  <1> HIDE DEF n, less, full
  <1>4. /\ w \in Holders(full)
        /\ \A v \in Holders(full) : v = w \/ (v \in Holders(hands) /\ v # w)
        /\ \A v \in Holders(hands) : v \in Holders(full) /\ v # w
    BY <1>2 DEF Holders
  <1>5. /\ \A v \in Holders(full) : v # w => full[v][1] = hands[v][1]
        /\ \A v \in Holders(hands) : full[v][1] = hands[v][1]
    BY <1>2, <1>4 DEF Holders
  <1>6. \A i \in 1 .. n - 1 : i + 1 \in 1 .. n /\ i + 1 # 1 /\ i \in Nat BY <1>1
  <1>7. 1 \in 1 .. n BY <1>1
  <1>8. \A i, k \in 1 .. n - 1 : less[i].number = less[k].number => i = k
    <2> TAKE i, k \in 1 .. n - 1
    <2> HAVE less[i].number = less[k].number
    <2>1. less[i] = list[i + 1] /\ less[k] = list[k + 1] BY <1>1
    <2>2. i + 1 \in 1 .. n /\ k + 1 \in 1 .. n /\ i \in Nat /\ k \in Nat BY <1>6
    <2>3. i + 1 = k + 1 BY <1>3, <2>1, <2>2
    <2> QED BY <2>2, <2>3
  <1>9. \A i \in 1 .. n - 1 : \A v \in Holders(full) : less[i].number # full[v][1].number
    BY <1>1, <1>2, <1>3, <1>4, <1>5, <1>6, <1>7
  <1>10. \A u, v \in Holders(full) : full[u][1].number = full[v][1].number => u = v
    BY <1>2, <1>3, <1>4, <1>5, <1>7
  <1>11. \A i \in 1 .. n - 1 : less[i].number \in open BY <1>1, <1>3, <1>6
  <1>12. \A v \in Holders(full) : full[v][1].number \in open
    BY <1>2, <1>3, <1>4, <1>5, <1>7
  <1>13. \A x \in open : \/ \E i \in 1 .. n - 1 : less[i].number = x
                         \/ \E v \in Holders(full) : full[v][1].number = x
    <2> TAKE x \in open
    <2>1. CASE \E i \in 1 .. n : list[i].number = x
      <3>1. PICK i \in 1 .. n : list[i].number = x BY <2>1
      <3>2. CASE i = 1 BY <1>2, <1>4, <3>1, <3>2
      <3>3. CASE i # 1
        <4>1. i - 1 \in 1 .. n - 1 /\ i - 1 + 1 = i BY <1>1, <3>3
        <4> QED BY <1>1, <3>1, <4>1
      <3> QED BY <3>2, <3>3
    <2>2. CASE \E v \in Holders(hands) : hands[v][1].number = x BY <1>4, <1>5, <2>2
    <2> QED BY <1>3, <2>1, <2>2
  <1> QED BY <1>1, <1>8, <1>9, <1>10, <1>11, <1>12, <1>13 DEF Traffic, less, full

\* ... and its hand is empty when it has settled the promise.
LEMMA TrafficKept ==
  ASSUME NEW list, NEW hands, DOMAIN hands = Threads, NEW open, Traffic(list, hands, open),
         NEW w \in Threads \ {First}, hands[w] # <<>>
  PROVE  Traffic(list, [hands EXCEPT ![w] = <<>>], open \ {hands[w][1].number})
  <1> DEFINE less == [hands EXCEPT ![w] = <<>>]
  <1>1. Holders(less) = Holders(hands) \ {w} /\ w \in Holders(hands) BY DEF Holders
  <1>2. \A v \in Holders(less) : less[v] = hands[v] BY <1>1 DEF Holders
  <1> HIDE DEF less
  <1>3. /\ \A i, k \in 1 .. Len(list) : list[i].number = list[k].number => i = k
        /\ \A u, v \in Holders(hands) : hands[u][1].number = hands[v][1].number => u = v
        /\ \A i \in 1 .. Len(list) : \A v \in Holders(hands) :
             list[i].number # hands[v][1].number
        /\ \A i \in 1 .. Len(list) : list[i].number \in open
        /\ \A v \in Holders(hands) : hands[v][1].number \in open
        /\ \A x \in open : \/ \E i \in 1 .. Len(list) : list[i].number = x
                           \/ \E v \in Holders(hands) : hands[v][1].number = x
    BY DEF Traffic
  <1> DEFINE left == open \ {hands[w][1].number}
  <1>4. \A x \in left :
           \/ \E i \in 1 .. Len(list) : list[i].number = x
           \/ \E v \in Holders(less) : less[v][1].number = x
    BY <1>1, <1>2, <1>3
  <1>5. /\ \A i \in 1 .. Len(list) : list[i].number \in left
        /\ \A v \in Holders(less) : less[v][1].number \in left
    BY <1>1, <1>2, <1>3
  <1> HIDE DEF left
  <1>6. \A u, v \in Holders(less) : less[u][1].number = less[v][1].number => u = v
    BY <1>1, <1>2, <1>3
  <1>7. \A i \in 1 .. Len(list) : \A v \in Holders(less) : list[i].number # less[v][1].number
    BY <1>1, <1>2, <1>3
  <1>8. Traffic(list, less, left) BY <1>3, <1>4, <1>5, <1>6, <1>7 DEF Traffic
  <1> QED BY <1>8 DEF less, left

\* Messages past their deadline go, and their promises with them.
LEMMA TrafficExpired ==
  ASSUME NEW S, NEW list \in Seq(S), NEW hands, NEW open, Traffic(list, hands, open),
         NEW kept \in SUBSET (1 .. Len(list))
  PROVE  /\ Sublist(list, kept) \in Seq(S)
         /\ Traffic(Sublist(list, kept), hands,
                    open \ {list[i].number : i \in (1 .. Len(list)) \ kept})
  <1> DEFINE n == Cardinality(kept)
             less == Sublist(list, kept)
             gone == {list[i].number : i \in (1 .. Len(list)) \ kept}
  <1>1. /\ less \in Seq(S) /\ Len(less) = n /\ n \in Nat
        /\ \E pick \in [1 .. n -> kept] :
             /\ \A k \in 1 .. n : less[k] = list[pick[k]]
             /\ \A k, l \in 1 .. n : k < l => pick[k] < pick[l]
        /\ \A i \in kept : \E k \in 1 .. n : less[k] = list[i]
    BY SublistOf
  <1>2. PICK pick \in [1 .. n -> kept] :
             /\ \A k \in 1 .. n : less[k] = list[pick[k]]
             /\ \A k, l \in 1 .. n : k < l => pick[k] < pick[l]
    BY <1>1
  <1>3. /\ \A i, k \in 1 .. Len(list) : list[i].number = list[k].number => i = k
        /\ \A u, v \in Holders(hands) : hands[u][1].number = hands[v][1].number => u = v
        /\ \A i \in 1 .. Len(list) : \A v \in Holders(hands) :
             list[i].number # hands[v][1].number
        /\ \A i \in 1 .. Len(list) : list[i].number \in open
        /\ \A v \in Holders(hands) : hands[v][1].number \in open
        /\ \A x \in open : \/ \E i \in 1 .. Len(list) : list[i].number = x
                           \/ \E v \in Holders(hands) : hands[v][1].number = x
    BY DEF Traffic
  <1>4. \A k \in 1 .. n : pick[k] \in kept /\ pick[k] \in 1 .. Len(list) OBVIOUS
  <1>5. \A i \in kept : list[i].number \notin gone BY <1>3
  <1>6. \A v \in Holders(hands) : hands[v][1].number \notin gone BY <1>3
  <1> HIDE DEF n, less
  <1>7. \A k, l \in 1 .. n : less[k].number = less[l].number => k = l
    <2> TAKE k, l \in 1 .. n
    <2> HAVE less[k].number = less[l].number
    <2>1. pick[k] = pick[l] BY <1>2, <1>3, <1>4
    <2>2. k \in Nat /\ l \in Nat /\ pick[k] \in Nat BY <1>1, <1>4
    <2>3. ~(k < l) /\ ~(l < k) BY <1>2, <2>1, <2>2
    <2> QED BY <2>2, <2>3
  <1>8. \A k \in 1 .. n : /\ less[k].number \in open \ gone
                          /\ \A v \in Holders(hands) : less[k].number # hands[v][1].number
    BY <1>2, <1>3, <1>4, <1>5
  <1>9. \A x \in open \ gone : \/ \E k \in 1 .. n : less[k].number = x
                               \/ \E v \in Holders(hands) : hands[v][1].number = x
    <2> TAKE x \in open \ gone
    <2>1. \A i \in 1 .. Len(list) : list[i].number = x => i \in kept OBVIOUS
    <2> QED BY <1>1, <1>3, <2>1
  <1>10. Traffic(less, hands, open \ gone)
    <2>1. \A v \in Holders(hands) : hands[v][1].number \in open \ gone BY <1>3, <1>6
    <2> HIDE DEF gone
    <2> QED BY <1>1, <1>3, <1>7, <1>8, <1>9, <2>1 DEF Traffic
  <1> QED BY <1>1, <1>10 DEF less

-----------------------------------------------------------------------------
(* The message bus: its threads.                                           *)

\* The bus's threads are a pool: its actions are those of QueueWorkers.
LEMMA BusPool ==
  /\ Pool(BusLane, Clients)!Lanes = Bus!Lanes /\ DOMAIN BusLane = Threads
  /\ Bus!Workers = Threads /\ Bus!Lanes = {"notices", "messages"}
  /\ Bus!PoolInit => Pool(BusLane, Clients)!PoolInit
  /\ Bus!PoolStart => PoolMoves(BusLane, Clients)
  /\ \A c \in Clients : Bus!PoolStop(c) => PoolMoves(BusLane, Clients)
  /\ \A c \in Clients : Bus!PoolStopped(c) => PoolMoves(BusLane, Clients)
  /\ \A c \in Clients, l \in Bus!Lanes : Bus!PoolWait(c, l) => PoolMoves(BusLane, Clients)
  /\ \A c \in Clients : Bus!PoolWaitTests(c) => PoolMoves(BusLane, Clients)
  /\ \A w \in Threads : Bus!Idles(w) => PoolMoves(BusLane, Clients)
  /\ UNCHANGED Bus!poolVars => PoolMoves(BusLane, Clients)
  /\ \A l, item : Bus!Push(l, item) => Pool(BusLane, Clients)!Push(l, item)
  /\ \A w \in Threads : Bus!Take(w) => Pool(BusLane, Clients)!Take(w)
  /\ \A w \in Threads : Bus!Finish(w) => Pool(BusLane, Clients)!Finish(w)
  <1> USE DEF Bus!Workers, Pool!Workers, Bus!NoClient, Pool!NoClient,
              Bus!waiters, Pool!waiters,
              Bus!Moves, Pool!Moves, Bus!MutexFree, Pool!MutexFree
  <1>1. DOMAIN BusLane = Threads /\ Bus!Workers = Threads
    BY DEF BusLane
  <1>2. Bus!Lanes = {"notices", "messages"}
    <2>1. Bus!Lanes = {BusLane[w] : w \in Threads} BY <1>1 DEF Bus!Lanes
    <2>2. \A w \in Threads : BusLane[w] = IF w = First THEN "notices" ELSE "messages"
      BY DEF BusLane
    <2>3. First \in Threads /\ \E w \in Threads : w # First BY PluginsAssumption
    <2> QED BY <2>1, <2>2, <2>3
  <1>3. Pool(BusLane, Clients)!Lanes = Bus!Lanes BY DEF Pool!Lanes, Bus!Lanes
  <1>4. Bus!PoolInit => Pool(BusLane, Clients)!PoolInit BY <1>3 DEF Bus!PoolInit, Pool!PoolInit
  <1>5. Bus!PoolStart => PoolMoves(BusLane, Clients)
    BY DEF Bus!PoolStart, Pool!PoolStart, PoolMoves
  <1>6. ASSUME NEW c \in Clients, Bus!PoolStop(c) PROVE PoolMoves(BusLane, Clients)
    <2>1. Pool(BusLane, Clients)!PoolStop(c) BY <1>6 DEF Bus!PoolStop, Pool!PoolStop
    <2> QED BY <2>1 DEF PoolMoves
  <1>7. ASSUME NEW c \in Clients, Bus!PoolStopped(c) PROVE PoolMoves(BusLane, Clients)
    <2>1. Pool(BusLane, Clients)!PoolStopped(c) BY <1>7 DEF Bus!PoolStopped, Pool!PoolStopped
    <2> QED BY <2>1 DEF PoolMoves
  <1>8. ASSUME NEW c \in Clients, NEW l \in Bus!Lanes, Bus!PoolWait(c, l)
        PROVE PoolMoves(BusLane, Clients)
    <2>1. Pool(BusLane, Clients)!PoolWait(c, l) BY <1>8 DEF Bus!PoolWait, Pool!PoolWait
    <2> QED BY <1>3, <2>1 DEF PoolMoves
  <1>9. ASSUME NEW c \in Clients, Bus!PoolWaitTests(c) PROVE PoolMoves(BusLane, Clients)
    <2>1. Pool(BusLane, Clients)!PoolWaitTests(c) BY <1>9 DEF Bus!PoolWaitTests, Pool!PoolWaitTests
    <2> QED BY <2>1 DEF PoolMoves
  <1>10. ASSUME NEW w \in Threads, Bus!Idles(w) PROVE PoolMoves(BusLane, Clients)
    <2>1. Pool(BusLane, Clients)!Idles(w)
      BY <1>10
      DEF Bus!Idles, Pool!Idles, Bus!LoopTest, Pool!LoopTest, Bus!FallAsleep,
          Pool!FallAsleep, Bus!Sleep, Pool!Sleep, Bus!BreakOff, Pool!BreakOff
    <2> QED BY <1>1, <2>1 DEF PoolMoves
  <1>11. UNCHANGED Bus!poolVars => PoolMoves(BusLane, Clients) BY DEF Bus!poolVars, PoolMoves, pool
  <1>12. ASSUME NEW l, NEW item, Bus!Push(l, item) PROVE Pool(BusLane, Clients)!Push(l, item)
    BY <1>12
    DEF Bus!Push, Pool!Push, Bus!Asleep, Pool!Asleep, Bus!Waiting, Pool!Waiting
  <1>13. ASSUME NEW w \in Threads, Bus!Take(w) PROVE Pool(BusLane, Clients)!Take(w)
    BY <1>13 DEF Bus!Take, Pool!Take
  <1>14. ASSUME NEW w \in Threads, Bus!Finish(w) PROVE Pool(BusLane, Clients)!Finish(w)
    BY <1>14 DEF Bus!Finish, Pool!Finish
  <1> QED
    BY <1>1, <1>2, <1>3, <1>4, <1>5, <1>6, <1>7, <1>8, <1>9, <1>10, <1>11, <1>12, <1>13, <1>14

\* Counters that wrap below 0 and at SizeLimit, with few calls to move them.
LEMMA Counting ==
  ASSUME NEW n \in Nat, n < SizeLimit, NEW d \in Int, -n <= d, d <= n
  PROVE  /\ Bus!Wrapped(d) \in Nat /\ Events!Wrapped(d) \in Nat
         /\ d < n => /\ Bus!Raised(Bus!Wrapped(d)) = Bus!Wrapped(d + 1)
                     /\ Events!Raised(Events!Wrapped(d)) = Events!Wrapped(d + 1)
         /\ \A k \in Nat : -n <= d - k =>
              /\ Bus!Lowered(Bus!Wrapped(d), k) = Bus!Wrapped(d - k)
              /\ Events!Lowered(Events!Wrapped(d), k) = Events!Wrapped(d - k)
  <1>1. SizeLimit \in Nat BY PluginsAssumption
  <1> QED
    BY <1>1
    DEF Bus!Wrapped, Events!Wrapped, Bus!Raised, Events!Raised, Bus!Lowered, Events!Lowered

BusItems == [number : 1 .. MaxCalls, to : FewIds, deadline : Nat]

BusTypes ==
  /\ Bus!CallersTypeOK
  /\ PoolInv(BusLane, Clients, BusItems)
  /\ \A w \in Threads : worker[w] = "busy" => handling[w] # <<>>
  /\ handlers \subseteq FewIds
  /\ casting \in [Clients -> SUBSET FewIds]
  /\ checker \in {"none", "sleeping", "ended"}
  /\ answers \in [1 .. MaxCalls -> Bus!Outcomes \cup {"none", "open"}]

\* What totalHandlers would be if it did not wrap.
BusDue == Cardinality(handlers) - miscounted

\* Every call moves the count by one at most, so that it wraps at one end only.
BusCounted ==
  /\ totalHandlers \in Nat /\ miscounted \in Int
  /\ -calls <= BusDue /\ BusDue <= calls
  /\ totalHandlers = Bus!Wrapped(BusDue)

\* A broadcast is a call; promises are those of calls made.
BusCounts ==
  /\ \A c \in Clients : casting[c] # {} => calls >= 1
  /\ Bus!Open \subseteq 1 .. calls
  /\ BusCounted

BusInv == BusTypes /\ BusCounts /\ Traffic(queue["messages"], handling, Bus!Open)

\* What the bus's calls and ticks do to the bounds.
LEMMA BusClock ==
  ASSUME Bus!CallersTypeOK
  PROVE  /\ Bus!Called => /\ Bus!CallersTypeOK' /\ calls' \in 1 .. MaxCalls
                          /\ calls' = calls + 1
         /\ Bus!Elapse => Bus!CallersTypeOK' /\ calls' = calls
         /\ UNCHANGED <<calls, now>> => Bus!CallersTypeOK'
         /\ calls \in Nat /\ now \in Nat /\ calls <= MaxCalls /\ MaxCalls \in Nat
         /\ calls + 1 \notin 1 .. calls
  BY CallersAssumption, PluginsAssumption DEF Bus!Called, Bus!CallersTypeOK, Bus!Elapse

\* Counting handlers.
LEMMA BusHandlers ==
  ASSUME NEW some, some \subseteq FewIds
  PROVE  /\ IsFiniteSet(some) /\ Cardinality(some) \in Nat
         /\ \A p : Cardinality(some \cup {p})
                    = Cardinality(some) + (IF p \in some THEN 0 ELSE 1)
         /\ \A p \in some : Cardinality(some \ {p}) = Cardinality(some) - 1
         /\ \A p : p \notin some => some \ {p} = some
  <1>1. IsFiniteSet(some)
    <2>1. some \subseteq Ids /\ IsFiniteSet(Ids) BY PluginsAssumption, CallersAssumption
    <2> QED BY <2>1, FS_Subset
  <1>2. Cardinality(some) \in Nat BY <1>1, FS_CardinalityType
  <1>3. \A p : Cardinality(some \cup {p}) = Cardinality(some) + (IF p \in some THEN 0 ELSE 1)
    <2> TAKE p
    <2>1. CASE p \in some
      <3>1. some \cup {p} = some BY <2>1
      <3> QED BY <1>2, <2>1, <3>1
    <2>2. CASE p \notin some BY <1>1, <1>2, <2>2, FS_AddElement
    <2> QED BY <2>1, <2>2
  <1>4. \A p \in some : Cardinality(some \ {p}) = Cardinality(some) - 1
    BY <1>1, FS_RemoveElement
  <1> QED BY <1>1, <1>2, <1>3, <1>4

\* What a plugin adds to the handlers that have to be counted off.
LEMMA BusMeets ==
  ASSUME NEW p, NEW some
  PROVE  Cardinality({p} \cap some) = IF p \in some THEN 1 ELSE 0
  <1>1. CASE p \in some
    <2>1. {p} \cap some = {p} /\ Cardinality({p}) = 1 BY <1>1, FS_Singleton
    <2> QED BY <1>1, <2>1
  <1>2. CASE p \notin some
    <2>1. {p} \cap some = {} /\ Cardinality({}) = 0 BY <1>2, FS_EmptySet
    <2> QED BY <1>2, <2>1
  <1> QED BY <1>1, <1>2

LEMMA Widen ==
  ASSUME NEW n \in Int, NEW low \in Nat, NEW high \in Nat, low <= high, -low <= n, n <= low
  PROVE  -high <= n /\ n <= high
  OBVIOUS

\* A step that leaves the handlers and their count alone.
LEMMA BusCountKept ==
  ASSUME BusInv, UNCHANGED <<handlers, totalHandlers, miscounted>>,
         Bus!Called \/ Bus!Elapse \/ UNCHANGED <<calls, now>>
  PROVE  BusCounted'
  <1>1. calls \in Nat /\ calls' \in Nat /\ calls <= calls'
    BY BusClock DEF BusInv, BusTypes
  <1>2. Cardinality(handlers) \in Nat BY BusHandlers DEF BusInv, BusTypes
  <1>3. BusDue \in Int /\ BusDue' = BusDue /\ BusCounted
    BY <1>2 DEF BusInv, BusCounts, BusCounted, BusDue
  <1> HIDE DEF BusDue
  <1>4. -calls' <= BusDue' /\ BusDue' <= calls'
    <2>1. -calls <= BusDue /\ BusDue <= calls BY <1>3 DEF BusCounted
    <2>2. -calls' <= BusDue /\ BusDue <= calls'
      <3>1. BusDue \in Int BY <1>3
      <3> QED BY ONLY <1>1, <2>1, <3>1, Widen
    <2> QED BY <1>3, <2>2
  <1>5. Bus!Wrapped(BusDue') = Bus!Wrapped(BusDue) BY <1>3
  <1> QED BY <1>3, <1>4, <1>5 DEF BusCounted

\* A call that raises the count, or lowers it by one at most.
LEMMA BusCountMoves ==
  ASSUME BusInv, Bus!Called, miscounted' \in Int,
         \/ totalHandlers' = Bus!Raised(totalHandlers) /\ BusDue' = BusDue + 1
         \/ totalHandlers' = Bus!Lowered(totalHandlers, 1) /\ BusDue' = BusDue - 1
         \/ totalHandlers' = Bus!Lowered(totalHandlers, 0) /\ BusDue' = BusDue
         \/ totalHandlers' = 0 /\ BusDue' = 0
  PROVE  BusCounted'
  <1>1. /\ calls \in Nat /\ calls' \in Nat /\ calls' = calls + 1
        /\ calls' < SizeLimit
    BY BusClock, PluginsAssumption DEF BusInv, BusTypes
  <1>2. Cardinality(handlers) \in Nat BY BusHandlers DEF BusInv, BusTypes
  <1>3. BusDue \in Int /\ BusCounted BY <1>2 DEF BusInv, BusCounts, BusCounted, BusDue
  <1> HIDE DEF BusDue
  <1>4. -calls <= BusDue /\ BusDue <= calls /\ totalHandlers = Bus!Wrapped(BusDue)
    BY <1>3 DEF BusCounted
  <1>5. /\ BusDue' \in Int /\ -calls' <= BusDue' /\ BusDue' <= calls'
    BY <1>1, <1>3, <1>4
  <1>6. Bus!Wrapped(BusDue') \in Nat BY <1>1, <1>5, Counting
  <1>7. totalHandlers' = Bus!Wrapped(BusDue')
    <2>1. CASE totalHandlers' = Bus!Raised(totalHandlers) /\ BusDue' = BusDue + 1
      <3>1. -calls' <= BusDue /\ BusDue < calls' BY <1>1, <1>3, <1>4
      <3> QED BY <1>1, <1>3, <1>4, <2>1, <3>1, Counting
    <2>2. CASE totalHandlers' = Bus!Lowered(totalHandlers, 1) /\ BusDue' = BusDue - 1
      <3>1. -calls' <= BusDue - 1 /\ BusDue <= calls' /\ -calls' <= BusDue /\ 1 \in Nat
        BY <1>1, <1>3, <1>4
      <3> QED BY <1>1, <1>3, <1>4, <2>2, <3>1, Counting
    <2>3. CASE totalHandlers' = Bus!Lowered(totalHandlers, 0) /\ BusDue' = BusDue
      <3>1. -calls' <= BusDue - 0 /\ BusDue - 0 = BusDue /\ 0 \in Nat
        BY <1>1, <1>3, <1>5, <2>3
      <3> QED BY <1>1, <1>3, <1>4, <1>5, <2>3, <3>1, Counting
    <2>4. CASE totalHandlers' = 0 /\ BusDue' = 0
      BY <2>4, Bus!Wrapped(0) = 0 DEF Bus!Wrapped
    <2> QED BY <2>1, <2>2, <2>3, <2>4
  <1> QED BY <1>5, <1>6, <1>7 DEF BusCounted

\* The invariant holds of a new bus.
LEMMA BusInit == CallersInit /\ Bus!PoolInit /\ Bus!OwnInit => BusInv
  <1> SUFFICES ASSUME CallersInit, Bus!PoolInit, Bus!OwnInit PROVE BusInv
    OBVIOUS
  <1>1. Bus!CallersTypeOK
    BY CallersAssumption, PluginsAssumption DEF CallersInit, Bus!CallersTypeOK
  <1>2. PoolInv(BusLane, Clients, BusItems) BY BusPool, PoolInits
  <1>3. /\ worker = [w \in Threads |-> "none"] /\ handling = [w \in Threads |-> <<>>]
        /\ queue["messages"] = <<>>
    BY BusPool DEF Bus!PoolInit
  <1>4. /\ handlers = {} /\ totalHandlers = 0 /\ miscounted = 0
        /\ casting = [c \in Clients |-> {}]
        /\ checker = "none" /\ answers = [n \in 1 .. MaxCalls |-> "none"]
    BY DEF Bus!OwnInit
  <1>5. BusTypes BY <1>1, <1>2, <1>3, <1>4 DEF BusTypes
  <1>6. Bus!Open = {} BY <1>4 DEF Bus!Open
  <1>7. BusCounted
    <2>1. Cardinality({}) = 0 BY FS_EmptySet
    <2>2. BusDue = 0 BY <1>4, <2>1 DEF BusDue
    <2>3. calls = 0 BY DEF CallersInit
    <2>4. Bus!Wrapped(0) = 0 BY DEF Bus!Wrapped
    <2> QED BY <1>4, <2>2, <2>3, <2>4 DEF BusCounted
  <1>8. BusCounts BY <1>4, <1>6, <1>7 DEF BusCounts
  <1>9. Traffic(<<>>, handling, {})
    <2>1. Holders(handling) = {} BY <1>3 DEF Holders
    <2>2. Len(<<>>) = 0 OBVIOUS
    <2> QED BY <2>1, <2>2 DEF Traffic
  <1> QED BY <1>3, <1>5, <1>6, <1>8, <1>9 DEF BusInv

\* The steps that leave the messages and the promises alone.
LEMMA BusStill ==
  ASSUME BusInv,
         PoolMoves(BusLane, Clients)
           \/ /\ PoolInv(BusLane, Clients, BusItems)' /\ UNCHANGED handling
              /\ UNCHANGED <<queue["messages"]>>
              /\ \A w \in Threads : worker'[w] = "busy" <=> worker[w] = "busy",
         Bus!Called \/ Bus!Elapse \/ UNCHANGED <<calls, now>>,
         handlers' \subseteq FewIds, BusCounted',
         casting' \in [Clients -> SUBSET FewIds],
         \A c \in Clients : casting'[c] # {} => casting[c] # {} \/ calls' >= 1,
         checker' \in {"none", "sleeping", "ended"},
         UNCHANGED answers
  PROVE  BusInv'
  <1>1. /\ PoolInv(BusLane, Clients, BusItems)' /\ handling' = handling
        /\ queue'["messages"] = queue["messages"]
        /\ \A w \in Threads : worker'[w] = "busy" <=> worker[w] = "busy"
    BY BusPool, PoolMoved, PluginsAssumption DEF BusInv, BusTypes
  <1>2. /\ Bus!CallersTypeOK' /\ calls \in Nat /\ calls' \in Nat /\ calls <= calls'
    BY BusClock DEF BusInv, BusTypes
  <1>3. Bus!Open' = Bus!Open BY DEF Bus!Open
  <1>4. BusTypes' BY <1>1, <1>2 DEF BusInv, BusTypes
  <1>5. BusCounts'
    <2>1. 1 .. calls \subseteq 1 .. calls' BY <1>2
    <2>2. Bus!Open' \subseteq 1 .. calls' BY <1>3, <2>1 DEF BusInv, BusCounts
    <2>3. \A c \in Clients : casting'[c] # {} => calls' >= 1 BY <1>2 DEF BusInv, BusCounts
    <2> QED BY <2>2, <2>3 DEF BusInv, BusCounts
  <1>6. Traffic(queue'["messages"], handling', Bus!Open') BY <1>1, <1>3 DEF BusInv
  <1> QED BY <1>4, <1>5, <1>6 DEF BusInv

\* registerHandler() and the two ways to unregister keep the count.
LEMMA BusRegisters ==
  ASSUME BusInv, NEW p \in FewIds,
         \/ Bus!RegisterHandler(p) \/ Bus!UnregisterHandler(p) \/ Bus!UnregisterAllHandlers(p)
  PROVE  BusInv'
  <1>1. /\ Bus!Called /\ UNCHANGED Bus!poolVars /\ UNCHANGED <<casting, checker, answers>>
    BY DEF Bus!RegisterHandler, Bus!UnregisterHandler, Bus!UnregisterAllHandlers
  <1>2. handlers \subseteq FewIds /\ miscounted \in Int
    BY DEF BusInv, BusTypes, BusCounts, BusCounted
  <1>3. Cardinality(handlers) \in Nat BY <1>2, BusHandlers
  <1>4. handlers' \subseteq FewIds /\ BusCounted'
    <2>1. CASE Bus!RegisterHandler(p)
      <3>1. /\ handlers' = handlers \cup {p} /\ totalHandlers' = Bus!Raised(totalHandlers)
            /\ miscounted' = miscounted - Cardinality({p} \cap handlers)
        <4>1. Bus!Cardinality({p} \cap handlers) = Cardinality({p} \cap handlers)
          BY DEF Bus!Cardinality, Cardinality
        <4> QED BY <2>1, <4>1 DEF Bus!RegisterHandler
      <3>2. Cardinality(handlers') = Cardinality(handlers) + (IF p \in handlers THEN 0 ELSE 1)
        BY <1>2, <3>1, BusHandlers
      <3>3. Cardinality({p} \cap handlers) = IF p \in handlers THEN 1 ELSE 0
        BY BusMeets
      <3>4. miscounted' \in Int /\ BusDue' = BusDue + 1
        BY <1>2, <1>3, <3>1, <3>2, <3>3 DEF BusDue
      <3> QED BY <1>1, <1>2, <3>1, <3>4, BusCountMoves
    <2>2. CASE Bus!UnregisterHandler(p)
      <3>1. /\ p \in handlers /\ handlers' = handlers \ {p} /\ miscounted' = miscounted
            /\ totalHandlers' = Bus!Lowered(totalHandlers, 1)
        BY <2>2 DEF Bus!UnregisterHandler
      <3>2. Cardinality(handlers') = Cardinality(handlers) - 1 BY <1>2, <3>1, BusHandlers
      <3>3. BusDue' = BusDue - 1 BY <1>2, <1>3, <3>1, <3>2 DEF BusDue
      <3> QED BY <1>1, <1>2, <3>1, <3>3, BusCountMoves
    <2>3. CASE Bus!UnregisterAllHandlers(p)
      <3>1. /\ handlers' = handlers \ {p} /\ miscounted' = miscounted
            /\ totalHandlers' = Bus!Lowered(totalHandlers, Cardinality({p} \cap handlers))
        <4>1. Bus!Cardinality({p} \cap handlers) = Cardinality({p} \cap handlers)
          BY DEF Bus!Cardinality, Cardinality
        <4> QED BY <2>3, <4>1 DEF Bus!UnregisterAllHandlers
      <3>2. Cardinality({p} \cap handlers) = IF p \in handlers THEN 1 ELSE 0
        BY BusMeets
      <3>3. CASE p \in handlers
        <4>1. Cardinality(handlers') = Cardinality(handlers) - 1 BY <1>2, <3>1, <3>3, BusHandlers
        <4>2. BusDue' = BusDue - 1 BY <1>2, <1>3, <3>1, <4>1 DEF BusDue
        <4>3. totalHandlers' = Bus!Lowered(totalHandlers, 1) BY <3>1, <3>2, <3>3
        <4> QED BY <1>1, <1>2, <3>1, <4>2, <4>3, BusCountMoves
      <3>4. CASE p \notin handlers
        <4>1. handlers' = handlers BY <3>1, <3>4
        <4>2. BusDue' = BusDue BY <3>1, <4>1 DEF BusDue
        <4>3. totalHandlers' = Bus!Lowered(totalHandlers, 0) BY <3>1, <3>2, <3>4
        <4> QED BY <1>1, <1>2, <3>1, <4>1, <4>2, <4>3, BusCountMoves
      <3> QED BY <3>3, <3>4
    <2> QED BY <2>1, <2>2, <2>3
  <1>5. /\ casting' \in [Clients -> SUBSET FewIds]
        /\ checker' \in {"none", "sleeping", "ended"}
        /\ \A c \in Clients : casting'[c] # {} => casting[c] # {} \/ calls' >= 1
    BY <1>1 DEF BusInv, BusTypes
  <1>6. PoolMoves(BusLane, Clients) BY <1>1, BusPool
  <1> QED BY <1>1, <1>4, <1>5, <1>6, BusStill

\* A notification is queued in its own lane.
LEMMA BusNotifies ==
  ASSUME BusInv, NEW item \in BusItems, Bus!Push("notices", item),
         Bus!Called \/ UNCHANGED <<calls, now>>,
         casting' \in [Clients -> SUBSET FewIds],
         \A c \in Clients : casting'[c] # {} => casting[c] # {},
         UNCHANGED <<handlers, totalHandlers, miscounted, checker, answers>>
  PROVE  BusInv'
  <1>1. PoolInv(BusLane, Clients, BusItems) /\ DOMAIN BusLane = Threads
    BY BusPool DEF BusInv, BusTypes
  <1>2. /\ "notices" \in Pool(BusLane, Clients)!Lanes
        /\ Pool(BusLane, Clients)!Push("notices", item)
    BY BusPool
  <1>3. /\ PoolInv(BusLane, Clients, BusItems)'
        /\ queue' = [queue EXCEPT !["notices"] = Append(@, item)] /\ handling' = handling
        /\ \A w \in Threads : worker'[w] = "busy" <=> worker[w] = "busy"
    BY ONLY <1>1, <1>2, item \in BusItems, PoolPushed
  <1>4. queue'["messages"] = queue["messages"]
    BY <1>1, <1>3, BusPool DEF PoolInv, PoolTypes
  <1>5. handlers' \subseteq FewIds /\ checker' \in {"none", "sleeping", "ended"}
    BY DEF BusInv, BusTypes
  <1>6. BusCounted' BY BusCountKept
  <1> QED BY <1>3, <1>4, <1>5, <1>6, BusStill

\* A message opens its promise.
LEMMA BusSends ==
  ASSUME BusInv, NEW c \in Clients, NEW to \in FewIds, NEW timeout \in Timeouts,
         Bus!SendMessageAsync(c, to, timeout)
  PROVE  BusInv'
  <1> DEFINE item == [number |-> calls', to |-> to, deadline |-> now + timeout]
  <1>1. /\ Bus!Called /\ Bus!Push("messages", item)
        /\ answers' = [answers EXCEPT ![calls'] = "open"]
        /\ UNCHANGED <<handlers, totalHandlers, miscounted, casting, checker>>
    BY DEF Bus!SendMessageAsync, Bus!Message
  <1>2. /\ Bus!CallersTypeOK' /\ calls' \in 1 .. MaxCalls /\ calls' = calls + 1
        /\ calls \in Nat /\ now \in Nat /\ calls + 1 \notin 1 .. calls
    BY <1>1, BusClock DEF BusInv, BusTypes
  <1>3. item \in BusItems /\ item.number = calls'
    <2>1. timeout \in Nat BY PluginsAssumption
    <2>2. now + timeout \in Nat BY <1>2, <2>1
    <2> QED BY <1>2, <2>2 DEF BusItems
  <1> HIDE DEF item
  <1>4. PoolInv(BusLane, Clients, BusItems) /\ DOMAIN BusLane = Threads
    BY BusPool DEF BusInv, BusTypes
  <1>5. /\ "messages" \in Pool(BusLane, Clients)!Lanes
        /\ Pool(BusLane, Clients)!Push("messages", item)
    BY <1>1, BusPool
  <1>6. /\ PoolInv(BusLane, Clients, BusItems)'
        /\ queue' = [queue EXCEPT !["messages"] = Append(@, item)] /\ handling' = handling
        /\ \A w \in Threads : worker'[w] = "busy" <=> worker[w] = "busy"
    <2>1. item \in BusItems BY <1>3
    <2> QED BY ONLY <1>4, <1>5, <2>1, PoolPushed
  <1>7. /\ queue["messages"] \in Seq(BusItems)
        /\ queue'["messages"] = Append(queue["messages"], item)
    BY <1>4, <1>6, BusPool DEF PoolInv, PoolTypes
  <1>8. /\ answers \in [1 .. MaxCalls -> Bus!Outcomes \cup {"none", "open"}]
        /\ answers' \in [1 .. MaxCalls -> Bus!Outcomes \cup {"none", "open"}]
    BY <1>1, <1>2 DEF BusInv, BusTypes
  <1>9. Bus!Open' = Bus!Open \cup {item.number} /\ item.number \notin Bus!Open
    <2>1. Bus!Open' = Bus!Open \cup {calls'} BY <1>1, <1>2, <1>8 DEF Bus!Open
    <2>2. calls' \notin Bus!Open BY <1>2 DEF BusInv, BusCounts
    <2> QED BY <1>3, <2>1, <2>2
  <1>10. Traffic(Append(queue["messages"], item), handling, Bus!Open \cup {item.number})
    <2>1. Traffic(queue["messages"], handling, Bus!Open) BY DEF BusInv
    <2>2. item \in BusItems BY <1>3
    <2> QED BY <1>7, <1>9, <2>1, <2>2, TrafficSent
  <1>11. BusTypes' BY <1>1, <1>2, <1>6, <1>8 DEF BusInv, BusTypes
  <1>12. BusCounts'
    <2>1. 1 .. calls \subseteq 1 .. calls' /\ calls' \in 1 .. calls' BY <1>2
    <2>2. Bus!Open' \subseteq 1 .. calls'
      BY <1>3, <1>9, <2>1 DEF BusInv, BusCounts
    <2>3. BusCounted' BY <1>1, BusCountKept
    <2>4. \A d \in Clients : casting'[d] # {} => calls' >= 1 BY <1>2
    <2> QED BY <2>2, <2>3, <2>4 DEF BusCounts
  <1> QED BY <1>6, <1>7, <1>9, <1>10, <1>11, <1>12 DEF BusInv

\* The types and the counts when a step only keeps promises.
LEMMA BusKeeps ==
  ASSUME BusInv, PoolInv(BusLane, Clients, BusItems)', UNCHANGED <<calls, now>>,
         \A w \in Threads : worker'[w] = "busy" => handling'[w] # <<>>,
         UNCHANGED <<handlers, totalHandlers, miscounted, casting>>,
         checker' \in {"none", "sleeping", "ended"},
         answers' \in [1 .. MaxCalls -> Bus!Outcomes \cup {"none", "open"}],
         Bus!Open' \subseteq Bus!Open
  PROVE  BusTypes' /\ BusCounts'
  <1>1. Bus!CallersTypeOK' BY BusClock DEF BusInv, BusTypes
  <1>2. BusTypes' BY <1>1 DEF BusInv, BusTypes
  <1>3. BusCounted' BY BusCountKept
  <1>4. BusCounts' BY <1>3 DEF BusInv, BusCounts
  <1> QED BY <1>2, <1>4

\* A thread takes a notification or a message.
LEMMA BusTakes ==
  ASSUME BusInv, NEW w \in Threads, Bus!WorkerTakes(w)
  PROVE  BusInv'
  <1>1. PoolInv(BusLane, Clients, BusItems) /\ w \in DOMAIN BusLane
    BY BusPool DEF BusInv, BusTypes
  <1>2. Pool(BusLane, Clients)!Take(w) BY BusPool DEF Bus!WorkerTakes
  <1>3. /\ PoolInv(BusLane, Clients, BusItems)'
        /\ queue[BusLane[w]] \in Seq(BusItems) /\ queue[BusLane[w]] # <<>>
        /\ queue' = [queue EXCEPT ![BusLane[w]] = Tail(@)]
        /\ handling' = [handling EXCEPT ![w] = <<Head(queue[BusLane[w]])>>]
        /\ worker' = [worker EXCEPT ![w] = "busy"]
        /\ handling[w] = <<>>
        /\ UNCHANGED <<calls, now>>
    BY ONLY <1>1, <1>2, PoolTakes
  <1>4. UNCHANGED <<handlers, totalHandlers, miscounted, casting, checker, answers>>
    BY DEF Bus!WorkerTakes, Bus!own
  <1>5. /\ DOMAIN handling = Threads /\ DOMAIN worker = Threads
        /\ DOMAIN queue = {"notices", "messages"}
    BY <1>1, BusPool DEF PoolInv, PoolTypes
  <1>6. \A v \in Threads : worker'[v] = "busy" => handling'[v] # <<>>
    <2> TAKE v \in Threads
    <2>1. CASE v = w
      <3>1. handling'[w] = <<Head(queue[BusLane[w]])>> BY <1>3, <1>5
      <3> QED BY <2>1, <3>1
    <2>2. CASE v # w
      <3>1. handling'[v] = handling[v] /\ worker'[v] = worker[v] BY <1>3, <1>5, <2>2
      <3> QED BY <3>1 DEF BusInv, BusTypes
    <2> QED BY <2>1, <2>2
  <1>7. Bus!Open' = Bus!Open BY <1>4 DEF Bus!Open
  <1>8. BusTypes' /\ BusCounts'
    <2>1. /\ checker' \in {"none", "sleeping", "ended"}
          /\ answers' \in [1 .. MaxCalls -> Bus!Outcomes \cup {"none", "open"}]
      BY <1>4 DEF BusInv, BusTypes
    <2> QED BY <1>3, <1>4, <1>6, <1>7, <2>1, BusKeeps
  <1>9. Traffic(queue'["messages"], handling', Bus!Open)
    <2>0. Traffic(queue["messages"], handling, Bus!Open) BY DEF BusInv
    <2>1. CASE w = First
      <3>1. queue'["messages"] = queue["messages"] BY <1>3, <1>5, <2>1 DEF BusLane
      <3>2. /\ Holders(handling') = Holders(handling)
            /\ \A v \in Holders(handling) : handling'[v] = handling[v]
        BY <1>3, <1>5, <2>1 DEF Holders
      <3> QED BY <2>0, <3>1, <3>2 DEF Traffic
    <2>2. CASE w # First
      <3>1. BusLane[w] = "messages" BY <2>2 DEF BusLane
      <3>2. queue'["messages"] = Tail(queue["messages"]) BY <1>3, <1>5, <3>1
      <3>3. /\ queue["messages"] \in Seq(BusItems) /\ queue["messages"] # <<>>
            /\ handling' = [handling EXCEPT ![w] = <<Head(queue["messages"])>>]
            /\ w \in Threads \ {First}
        BY <1>3, <2>2, <3>1
      <3>4. Traffic(Tail(queue["messages"]), [handling EXCEPT ![w] = <<Head(queue["messages"])>>],
                    Bus!Open)
        BY <1>3, <1>5, <2>0, <3>3, TrafficTaken
      <3> QED BY <3>2, <3>3, <3>4
    <2> QED BY <2>1, <2>2
  <1> QED BY <1>7, <1>8, <1>9 DEF BusInv

\* A message leaves the hands of its worker with its promise kept.
LEMMA BusProcesses ==
  ASSUME BusInv, NEW w \in Threads, Bus!WorkerProcesses(w)
  PROVE  BusInv'
  <1>1. PoolInv(BusLane, Clients, BusItems) /\ w \in DOMAIN BusLane
    BY BusPool DEF BusInv, BusTypes
  <1>2. Pool(BusLane, Clients)!Finish(w) BY BusPool DEF Bus!WorkerProcesses
  <1>3. /\ PoolInv(BusLane, Clients, BusItems)'
        /\ queue' = queue /\ handling' = [handling EXCEPT ![w] = <<>>]
        /\ worker' = [worker EXCEPT ![w] = "loop"] /\ worker[w] = "busy"
        /\ UNCHANGED <<calls, now>>
    BY ONLY <1>1, <1>2, PoolFinishes
  <1>4. UNCHANGED <<handlers, totalHandlers, miscounted, casting, checker>>
    BY DEF Bus!WorkerProcesses
  <1>5. /\ DOMAIN handling = Threads /\ DOMAIN worker = Threads
        /\ handling[w] \in Seq(BusItems) /\ handling[w] # <<>>
    BY <1>1, <1>3, BusPool DEF PoolInv, PoolTypes, BusInv, BusTypes
  <1>6. \A v \in Threads : worker'[v] = "busy" => handling'[v] # <<>>
    <2> TAKE v \in Threads
    <2>1. CASE v = w BY <1>3, <1>5, <2>1
    <2>2. CASE v # w
      <3>1. handling'[v] = handling[v] /\ worker'[v] = worker[v] BY <1>3, <1>5, <2>2
      <3> QED BY <3>1 DEF BusInv, BusTypes
    <2> QED BY <2>1, <2>2
  <1>7. handling[w][1] \in BusItems /\ handling[w][1].number \in 1 .. MaxCalls
    <2>1. handling[w][1] \in BusItems BY <1>5
    <2> QED BY <2>1 DEF BusItems
  <1>8. /\ answers \in [1 .. MaxCalls -> Bus!Outcomes \cup {"none", "open"}]
        /\ checker' \in {"none", "sleeping", "ended"}
    BY <1>4 DEF BusInv, BusTypes
  <1>9. Traffic(queue["messages"], handling, Bus!Open) BY DEF BusInv
  <1>10. CASE w = First
    <2>1. answers' = answers BY <1>10 DEF Bus!WorkerProcesses, BusLane
    <2>2. Bus!Open' = Bus!Open BY <2>1 DEF Bus!Open
    <2>3. BusTypes' /\ BusCounts' BY <1>3, <1>4, <1>6, <1>8, <2>1, <2>2, BusKeeps
    <2>4. /\ Holders(handling') = Holders(handling)
          /\ \A v \in Holders(handling) : handling'[v] = handling[v]
      BY <1>3, <1>5, <1>10 DEF Holders
    <2>5. Traffic(queue["messages"], handling', Bus!Open) BY <1>9, <2>4 DEF Traffic
    <2> QED BY <1>3, <2>2, <2>3, <2>5 DEF BusInv
  <1>11. CASE w # First
    <2>1. BusLane[w] # "notices" BY <1>11 DEF BusLane
    <2>2. PICK o \in Bus!Outcomes : answers' = [answers EXCEPT ![handling[w][1].number] = o]
      BY <2>1 DEF Bus!WorkerProcesses, Bus!ProcessMessage, Bus!Outcomes
    <2>3. o # "open" BY DEF Bus!Outcomes
    <2>4. answers' \in [1 .. MaxCalls -> Bus!Outcomes \cup {"none", "open"}]
      BY <1>7, <1>8, <2>2
    <2>5. Bus!Open' = Bus!Open \ {handling[w][1].number}
      BY <1>7, <1>8, <2>2, <2>3 DEF Bus!Open
    <2>6. BusTypes' /\ BusCounts' BY <1>3, <1>4, <1>6, <1>8, <2>4, <2>5, BusKeeps
    <2>7. Traffic(queue["messages"], [handling EXCEPT ![w] = <<>>],
                  Bus!Open \ {handling[w][1].number})
      <3>1. w \in Threads \ {First} BY <1>11
      <3> QED BY <1>5, <1>9, <3>1, TrafficKept
    <2> QED BY <1>3, <2>5, <2>6, <2>7 DEF BusInv
  <1> QED BY <1>10, <1>11

\* checkTimeouts() keeps the promises of the messages that it takes from the queue.
LEMMA BusChecks ==
  ASSUME BusInv, Bus!CheckTimeouts
  PROVE  BusInv'
  <1> DEFINE list == queue["messages"]
             kept == {i \in 1 .. Len(list) : now <= list[i].deadline}
             gone == {list[i].number : i \in (1 .. Len(list)) \ kept}
  <1>1. /\ queue' = [queue EXCEPT !["messages"] = Bus!InTime]
        /\ answers' = [n \in 1 .. MaxCalls |->
                         IF n \in {m.number : m \in Bus!Expired} THEN "timeout" ELSE answers[n]]
        /\ checker' = IF running THEN "sleeping" ELSE "ended"
        /\ UNCHANGED <<calls, now, running, worker, handling, stopper, waiting, woken, stolen,
                       missed, handlers, totalHandlers, miscounted, casting>>
    BY DEF Bus!CheckTimeouts, Bus!waiters
  <1>2. /\ PoolInv(BusLane, Clients, BusItems) /\ DOMAIN BusLane = Threads
        /\ Pool(BusLane, Clients)!Lanes = {"notices", "messages"}
    BY BusPool DEF BusInv, BusTypes
  <1>3. /\ queue \in [{"notices", "messages"} -> Seq(BusItems)] /\ list \in Seq(BusItems)
        /\ DOMAIN list = 1 .. Len(list)
    BY <1>2 DEF PoolInv, PoolTypes
  <1>4. Bus!InTime = Sublist(list, kept)
    <2>1. Bus!Sublist(list, kept) = Sublist(list, kept)
      BY DEF Bus!Sublist, Sublist, Bus!Cardinality, Cardinality
    <2>2. Bus!InTime = Bus!Sublist(list, kept) BY <1>3 DEF Bus!InTime
    <2> QED BY <2>1, <2>2
  <1>5. {m.number : m \in Bus!Expired} = gone
    <2>1. Bus!Expired = {m \in {list[i] : i \in 1 .. Len(list)} : now > m.deadline}
      BY <1>3 DEF Bus!Expired, Bus!Range
    <2>2. \A i \in 1 .. Len(list) : i \notin kept <=> now > list[i].deadline
      <3> TAKE i \in 1 .. Len(list)
      <3>1. list[i] \in BusItems BY <1>3
      <3>2. list[i].deadline \in Nat /\ now \in Nat
        BY <3>1, BusClock DEF BusItems, BusInv, BusTypes
      <3> QED BY <3>2
    <2> HIDE DEF list, kept
    <2>3. \A m \in Bus!Expired : m.number \in gone BY <2>1, <2>2
    <2>4. \A n \in gone : \E m \in Bus!Expired : m.number = n BY <2>1, <2>2
    <2> HIDE DEF gone
    <2> QED BY <2>3, <2>4
  <1>6. kept \in SUBSET (1 .. Len(list)) OBVIOUS
  <1>7. Traffic(list, handling, Bus!Open) BY DEF BusInv
  <1> HIDE DEF list, kept
  <1>8. /\ Sublist(list, kept) \in Seq(BusItems)
        /\ Traffic(Sublist(list, kept), handling,
                   Bus!Open \ {list[i].number : i \in (1 .. Len(list)) \ kept})
    <2>1. list \in Seq(BusItems) BY <1>3
    <2> QED BY ONLY <1>6, <1>7, <2>1, TrafficExpired
  <1> HIDE DEF gone
  <1>9. answers \in [1 .. MaxCalls -> Bus!Outcomes \cup {"none", "open"}]
    BY DEF BusInv, BusTypes
  <1>10. /\ answers' \in [1 .. MaxCalls -> Bus!Outcomes \cup {"none", "open"}]
         /\ Bus!Open' = Bus!Open \ gone
    <2>1. "timeout" \in Bus!Outcomes BY DEF Bus!Outcomes
    <2>2. answers' = [n \in 1 .. MaxCalls |-> IF n \in gone THEN "timeout" ELSE answers[n]]
      BY <1>1, <1>5
    <2>3. answers' \in [1 .. MaxCalls -> Bus!Outcomes \cup {"none", "open"}]
      BY <1>9, <2>1, <2>2
    <2>4. Bus!Open' = Bus!Open \ gone BY <1>9, <2>2 DEF Bus!Open
    <2> QED BY <2>3, <2>4
  <1>11. queue' \in [{"notices", "messages"} -> Seq(BusItems)]
    BY <1>1, <1>3, <1>4, <1>8
  <1>12. PoolInv(BusLane, Clients, BusItems)'
    <2>1. PoolTypes(BusLane, Clients, BusItems)'
      BY <1>1, <1>2, <1>11 DEF PoolInv, PoolTypes
    <2> QED BY <1>1, <1>2, <2>1 DEF PoolInv
  <1>13. BusTypes' /\ BusCounts'
    <2>1. checker' \in {"none", "sleeping", "ended"} BY <1>1
    <2>2. \A w \in Threads : worker'[w] = "busy" => handling'[w] # <<>>
      BY <1>1 DEF BusInv, BusTypes
    <2> QED BY <1>1, <1>10, <1>12, <2>1, <2>2, BusKeeps
  <1>14. queue'["messages"] = Sublist(list, kept) BY <1>1, <1>3, <1>4
  <1>15. Traffic(queue'["messages"], handling', Bus!Open')
    BY <1>1, <1>8, <1>10, <1>14 DEF gone
  <1> QED BY <1>13, <1>15 DEF BusInv

\* waitForCompletion() ends, or goes on to wait for the notifications.
LEMMA BusWaits ==
  ASSUME BusInv, NEW c \in Clients, Bus!WaitTests(c)
  PROVE  BusInv'
  <1>1. PoolInv(BusLane, Clients, BusItems) BY DEF BusInv, BusTypes
  <1>2. /\ UNCHANGED <<handlers, totalHandlers, miscounted, casting, checker, answers>>
        /\ UNCHANGED <<calls, now>>
    BY DEF Bus!WaitTests, Bus!PoolWaitTests, Bus!own
  <1>3. CASE Bus!PoolWaitTests(c)
    <2>1. PoolMoves(BusLane, Clients) BY <1>3, BusPool
    <2>2. BusCounted' BY <1>2, BusCountKept
    <2> QED BY <1>2, <2>1, <2>2, BusStill DEF BusInv, BusTypes
  <1>4. CASE /\ waiting' = [waiting EXCEPT ![c] = "notices"] /\ woken' = woken \ {c}
             /\ UNCHANGED <<calls, now, running, worker, queue, handling, stopper, missed,
                            stolen>>
    <2>1. /\ woken' \subseteq Clients
          /\ waiting' \in [Clients -> Pool(BusLane, Clients)!Lanes \cup {"none"}]
      BY <1>1, <1>4, BusPool DEF PoolInv, PoolTypes
    <2>2. PoolTypes(BusLane, Clients, BusItems)' BY <1>1, <1>4, <2>1 DEF PoolInv, PoolTypes
    <2>3. PoolInv(BusLane, Clients, BusItems)' BY <1>1, <1>4, <2>2 DEF PoolInv
    <2>4. BusCounted' BY <1>2, BusCountKept
    <2> QED BY <1>2, <1>4, <2>3, <2>4, BusStill DEF BusInv, BusTypes
  <1> QED BY <1>3, <1>4 DEF Bus!WaitTests

\* The steps of the pool alone, and the clock.
LEMMA BusPooled ==
  ASSUME BusInv, PoolMoves(BusLane, Clients),
         Bus!Called \/ Bus!Elapse \/ UNCHANGED <<calls, now>>,
         UNCHANGED <<handlers, totalHandlers, miscounted, casting, answers>>,
         checker' \in {"none", "sleeping", "ended"}
  PROVE  BusInv'
  <1>1. BusCounted' BY BusCountKept
  <1> QED BY <1>1, BusStill DEF BusInv, BusTypes

\* Every step.
LEMMA BusStep == BusInv /\ [Bus!Next]_(Bus!vars) => BusInv'
  <1> SUFFICES ASSUME BusInv, [Bus!Next]_(Bus!vars) PROVE BusInv'
    OBVIOUS
  <1>1. checker \in {"none", "sleeping", "ended"} BY DEF BusInv, BusTypes
  <1>2. CASE UNCHANGED Bus!vars
    <2>1. UNCHANGED <<calls, now>> /\ UNCHANGED Bus!poolVars /\ UNCHANGED Bus!own
      BY <1>2 DEF Bus!vars
    <2> QED BY <1>1, <2>1, BusPool, BusPooled DEF Bus!own
  <1>3. ASSUME NEW c \in Clients, Bus!Broadcast(c) PROVE BusInv'
    <2>1. /\ Bus!Called /\ UNCHANGED Bus!poolVars
          /\ casting' = [casting EXCEPT ![c] = handlers]
          /\ UNCHANGED <<handlers, totalHandlers, miscounted, checker, answers>>
      BY <1>3 DEF Bus!Broadcast
    <2>2. casting \in [Clients -> SUBSET FewIds] /\ handlers \subseteq FewIds
      BY DEF BusInv, BusTypes
    <2>3. casting' \in [Clients -> SUBSET FewIds] BY <2>1, <2>2
    <2>4. calls' >= 1 BY <2>1, BusClock DEF BusInv, BusTypes
    <2>5. BusCounted' BY <2>1, BusCountKept
    <2>6. PoolMoves(BusLane, Clients) BY <2>1, BusPool
    <2> QED BY <1>1, <2>1, <2>2, <2>3, <2>4, <2>5, <2>6, BusStill
  <1>4. ASSUME NEW c \in Clients, NEW to \in FewIds, Bus!SendNotification(c, to) PROVE BusInv'
    <2> DEFINE item == [number |-> calls', to |-> to, deadline |-> 0]
    <2>1. /\ Bus!Called /\ Bus!Push("notices", item) /\ UNCHANGED Bus!own
      BY <1>4 DEF Bus!SendNotification, Bus!Message
    <2>2. item \in BusItems
      <3>1. calls' \in 1 .. MaxCalls BY <2>1, BusClock DEF BusInv, BusTypes
      <3> QED BY <3>1 DEF BusItems
    <2> HIDE DEF item
    <2> QED BY <2>1, <2>2, BusNotifies DEF Bus!own, BusInv, BusTypes
  <1>5. ASSUME NEW c \in Clients, NEW to \in FewIds, Bus!BroadcastNext(c, to) PROVE BusInv'
    <2> DEFINE item == [number |-> calls, to |-> to, deadline |-> 0]
    <2>1. /\ to \in casting[c] /\ Bus!Push("notices", item)
          /\ casting' = [casting EXCEPT ![c] = @ \ {to}]
          /\ UNCHANGED <<calls, now, handlers, totalHandlers, miscounted, checker, answers>>
      BY <1>5 DEF Bus!BroadcastNext
    <2>2. item \in BusItems
      <3>1. casting[c] # {} BY <2>1
      <3>2. calls >= 1 BY <3>1 DEF BusInv, BusCounts
      <3>3. calls \in 1 .. MaxCalls BY <3>2, BusClock DEF BusInv, BusTypes
      <3> QED BY <3>3 DEF BusItems
    <2>3. casting \in [Clients -> SUBSET FewIds] BY DEF BusInv, BusTypes
    <2>4. /\ casting' \in [Clients -> SUBSET FewIds]
          /\ \A d \in Clients : casting'[d] # {} => casting[d] # {}
      <3>1. casting' \in [Clients -> SUBSET FewIds] BY <2>1, <2>3
      <3>2. \A d \in Clients : casting'[d] \subseteq casting[d]
        <4> TAKE d \in Clients
        <4>1. CASE d = c BY <2>1, <2>3, <4>1
        <4>2. CASE d # c BY <2>1, <2>3, <4>2
        <4> QED BY <4>1, <4>2
      <3> QED BY <3>1, <3>2
    <2> HIDE DEF item
    <2> QED BY <2>1, <2>2, <2>4, BusNotifies
  <1>6. ASSUME NEW c \in Clients, Bus!WaitForCompletion(c) PROVE BusInv'
    <2>1. /\ Bus!Called /\ UNCHANGED Bus!own /\ \E l \in Bus!Lanes : Bus!PoolWait(c, l)
      BY <1>6 DEF Bus!WaitForCompletion
    <2>2. PoolMoves(BusLane, Clients) BY <2>1, BusPool
    <2> QED BY <1>1, <2>1, <2>2, BusPooled DEF Bus!own
  <1>7. ASSUME NEW c \in Clients, Bus!Stop(c) PROVE BusInv'
    BY <1>1, <1>7, BusPool, BusPooled DEF Bus!Stop, Bus!own
  <1>8. ASSUME NEW c \in Clients, Bus!Joined(c) PROVE BusInv'
    <2>1. /\ UNCHANGED <<calls, now>> /\ checker' = "none" /\ Bus!PoolStopped(c)
          /\ UNCHANGED <<handlers, totalHandlers, miscounted, casting, answers>>
      BY <1>8 DEF Bus!Joined, Bus!PoolStopped
    <2> QED BY <2>1, BusPool, BusPooled
  <1>9. CASE Bus!Start
    <2>1. checker' = "sleeping" BY <1>9 DEF Bus!Start
    <2> QED BY <1>9, <2>1, BusPool, BusPooled DEF Bus!Start
  <1>10. ASSUME NEW w \in Threads, Bus!WorkerIdles(w) PROVE BusInv'
    <2>1. UNCHANGED <<calls, now>>
      BY <1>10 DEF Bus!WorkerIdles, Bus!Idles, Bus!LoopTest, Bus!FallAsleep, Bus!Sleep,
                   Bus!BreakOff
    <2> QED BY <1>1, <1>10, <2>1, BusPool, BusPooled DEF Bus!WorkerIdles, Bus!own
  <1>11. CASE Bus!Tick
    BY <1>1, <1>11, BusPool, BusPooled DEF Bus!Tick, Bus!own
  <1>12. CASE Bus!ResetStatistics
    <2>1. /\ Bus!Called /\ UNCHANGED Bus!poolVars /\ totalHandlers' = 0
          /\ UNCHANGED <<handlers, casting, checker, answers>>
          /\ miscounted' = Cardinality(handlers)
      <3>1. Bus!Cardinality(handlers) = Cardinality(handlers) BY DEF Bus!Cardinality, Cardinality
      <3> QED BY <1>12, <3>1 DEF Bus!ResetStatistics
    <2>2. Cardinality(handlers) \in Nat BY BusHandlers DEF BusInv, BusTypes
    <2>3. miscounted' \in Int /\ BusDue' = 0 BY <2>1, <2>2 DEF BusDue
    <2>4. BusCounted' BY <2>1, <2>3, BusCountMoves
    <2>5. PoolMoves(BusLane, Clients) BY <2>1, BusPool
    <2> QED BY <1>1, <2>1, <2>4, <2>5, BusStill DEF BusInv, BusTypes
  <1> QED
    BY <1>2, <1>3, <1>4, <1>5, <1>6, <1>7, <1>8, <1>9, <1>10, <1>11, <1>12,
       BusRegisters, BusWaits, BusSends, BusTakes, BusProcesses, BusChecks, BusPool
    DEF Bus!Next

\* What the invariant is for.
LEMMA BusHolds == BusInv => Bus!TypeOK /\ Bus!HandlersCounted /\ Bus!PromisesAccounted
  <1> SUFFICES ASSUME BusInv PROVE Bus!TypeOK /\ Bus!HandlersCounted /\ Bus!PromisesAccounted
    OBVIOUS
  <1>1. Bus!PoolTypeOK(BusItems)
    BY BusPool DEF BusInv, BusTypes, PoolInv, PoolTypes, Bus!PoolTypeOK, Bus!NoClient, Places
  <1>2. Bus!TypeOK
    BY <1>1 DEF BusInv, BusTypes, BusCounts, BusCounted, Bus!TypeOK, BusItems
  <1>3. Bus!HandlersCounted
    <2>1. Bus!Cardinality(handlers) = Cardinality(handlers) BY DEF Bus!Cardinality, Cardinality
    <2> QED
      BY <2>1
      DEF BusInv, BusCounts, BusCounted, BusDue, Bus!HandlersCounted, Bus!GetHandlerCount
  <1>4. Bus!PromisesAccounted
    <2> DEFINE list == queue["messages"]
    <2>1. PoolInv(BusLane, Clients, BusItems) /\ DOMAIN BusLane = Threads
      BY BusPool DEF BusInv, BusTypes
    <2>2. /\ list \in Seq(BusItems) /\ handling \in [Threads -> Seq(BusItems)]
          /\ \A w \in Threads : Len(handling[w]) <= 1
      BY <2>1, BusPool DEF PoolInv, PoolTypes
    <2>3. Bus!Range(list) = {list[i] : i \in 1 .. Len(list)}
      <3>1. DOMAIN list = 1 .. Len(list) BY <2>2
      <3> QED BY <3>1 DEF Bus!Range
    <2>4. \A w \in Threads : Bus!Range(handling[w]) = IF handling[w] # <<>> THEN {handling[w][1]}
                                                      ELSE {}
      <3> TAKE w \in Threads
      <3>1. handling[w] \in Seq(BusItems) /\ Len(handling[w]) <= 1 BY <2>2
      <3>2. Bus!Range(handling[w]) = {handling[w][i] : i \in 1 .. Len(handling[w])}
        <4>1. DOMAIN handling[w] = 1 .. Len(handling[w]) BY <3>1
        <4> QED BY <4>1 DEF Bus!Range
      <3>3. CASE handling[w] = <<>>
        <4>1. Len(handling[w]) = 0 BY <3>3
        <4> QED BY <3>2, <3>3, <4>1
      <3>4. CASE handling[w] # <<>>
        <4>0. Len(handling[w]) \in Nat /\ Len(handling[w]) # 0 BY <3>1, <3>4, EmptySeq
        <4>1. \A k \in Nat : k # 0 /\ k <= 1 => k = 1 OBVIOUS
        <4>2. Len(handling[w]) <= 1 BY <3>1
        <4>3. Len(handling[w]) = 1 BY ONLY <4>0, <4>1, <4>2
        <4> QED BY <3>2, <3>4, <4>3
      <3> QED BY <3>3, <3>4
    <2>5. {v \in Bus!Workers : BusLane[v] = "messages"} = Threads \ {First}
      BY BusPool, PluginsAssumption DEF BusLane
    <2>6. Bus!InHand = {handling[w][1] : w \in Holders(handling)}
      <3>1. Bus!InHand = UNION {Bus!Range(handling[w]) : w \in Threads \ {First}}
        BY <2>5 DEF Bus!InHand
      <3>2. \A m \in Bus!InHand : \E w \in Holders(handling) : m = handling[w][1]
        BY <2>4, <3>1 DEF Holders
      <3>3. \A w \in Holders(handling) : handling[w][1] \in Bus!InHand
        <4> TAKE w \in Holders(handling)
        <4>1. w \in Threads \ {First} /\ handling[w][1] \in Bus!Range(handling[w])
          BY <2>4 DEF Holders
        <4> QED BY <3>1, <4>1
      <3> QED BY <3>2, <3>3
    <2> SUFFICES ASSUME NEW n \in 1 .. MaxCalls
                 PROVE  answers[n] = "open"
                          <=> \E m \in Bus!Range(list) \cup Bus!InHand : m.number = n
      BY DEF Bus!PromisesAccounted
    <2>7. answers[n] = "open" <=> n \in Bus!Open BY DEF Bus!Open
    <2>8. Traffic(list, handling, Bus!Open) BY DEF BusInv
    <2> HIDE DEF list
    <2>9. n \in Bus!Open => \E m \in Bus!Range(list) \cup Bus!InHand : m.number = n
      BY <2>3, <2>6, <2>8 DEF Traffic
    <2>10. ASSUME NEW m \in Bus!Range(list) \cup Bus!InHand PROVE m.number \in Bus!Open
      BY <2>3, <2>6, <2>8 DEF Traffic
    <2> QED BY <2>7, <2>9, <2>10
  <1> QED BY <1>2, <1>3, <1>4

-----------------------------------------------------------------------------
(* The event bus.                                                          *)

\* The bus's threads are a pool: its actions are those of QueueWorkers.
LEMMA EventsPool ==
  /\ Pool(EventsLane, Clients)!Lanes = Events!Lanes /\ DOMAIN EventsLane = Threads
  /\ Events!Workers = Threads /\ Events!Lanes = {"events"}
  /\ Events!PoolInit => Pool(EventsLane, Clients)!PoolInit
  /\ Events!PoolStart => PoolMoves(EventsLane, Clients)
  /\ \A c \in Clients : Events!PoolStop(c) => PoolMoves(EventsLane, Clients)
  /\ \A c \in Clients : Events!PoolStopped(c) => PoolMoves(EventsLane, Clients)
  /\ \A c \in Clients, l \in Events!Lanes : Events!PoolWait(c, l) => PoolMoves(EventsLane, Clients)
  /\ \A c \in Clients : Events!PoolWaitTests(c) => PoolMoves(EventsLane, Clients)
  /\ \A w \in Threads : Events!Idles(w) => PoolMoves(EventsLane, Clients)
  /\ UNCHANGED Events!poolVars => PoolMoves(EventsLane, Clients)
  /\ \A l, item : Events!Push(l, item) => Pool(EventsLane, Clients)!Push(l, item)
  /\ \A w \in Threads : Events!Take(w) => Pool(EventsLane, Clients)!Take(w)
  /\ \A w \in Threads : Events!Finish(w) => Pool(EventsLane, Clients)!Finish(w)
  <1> USE DEF Events!Workers, Pool!Workers, Events!NoClient, Pool!NoClient,
              Events!waiters, Pool!waiters,
              Events!Moves, Pool!Moves, Events!MutexFree, Pool!MutexFree
  <1>1. DOMAIN EventsLane = Threads /\ Events!Workers = Threads
    BY DEF EventsLane
  <1>2. Events!Lanes = {"events"}
    BY PluginsAssumption DEF EventsLane, Events!Workers, Events!Lanes
  <1>3. Pool(EventsLane, Clients)!Lanes = Events!Lanes BY DEF Pool!Lanes, Events!Lanes
  <1>4. Events!PoolInit => Pool(EventsLane, Clients)!PoolInit
    BY <1>3 DEF Events!PoolInit, Pool!PoolInit
  <1>5. Events!PoolStart => PoolMoves(EventsLane, Clients)
    BY DEF Events!PoolStart, Pool!PoolStart, PoolMoves
  <1>6. ASSUME NEW c \in Clients, Events!PoolStop(c) PROVE PoolMoves(EventsLane, Clients)
    <2>1. Pool(EventsLane, Clients)!PoolStop(c) BY <1>6 DEF Events!PoolStop, Pool!PoolStop
    <2> QED BY <2>1 DEF PoolMoves
  <1>7. ASSUME NEW c \in Clients, Events!PoolStopped(c) PROVE PoolMoves(EventsLane, Clients)
    <2>1. Pool(EventsLane, Clients)!PoolStopped(c) BY <1>7 DEF Events!PoolStopped, Pool!PoolStopped
    <2> QED BY <2>1 DEF PoolMoves
  <1>8. ASSUME NEW c \in Clients, NEW l \in Events!Lanes, Events!PoolWait(c, l)
        PROVE PoolMoves(EventsLane, Clients)
    <2>1. Pool(EventsLane, Clients)!PoolWait(c, l) BY <1>8 DEF Events!PoolWait, Pool!PoolWait
    <2> QED BY <1>3, <2>1 DEF PoolMoves
  <1>9. ASSUME NEW c \in Clients, Events!PoolWaitTests(c) PROVE PoolMoves(EventsLane, Clients)
    <2>1. Pool(EventsLane, Clients)!PoolWaitTests(c)
      BY <1>9 DEF Events!PoolWaitTests, Pool!PoolWaitTests
    <2> QED BY <2>1 DEF PoolMoves
  <1>10. ASSUME NEW w \in Threads, Events!Idles(w) PROVE PoolMoves(EventsLane, Clients)
    <2>1. Pool(EventsLane, Clients)!Idles(w)
      BY <1>10
      DEF Events!Idles, Pool!Idles, Events!LoopTest, Pool!LoopTest, Events!FallAsleep,
          Pool!FallAsleep, Events!Sleep, Pool!Sleep, Events!BreakOff, Pool!BreakOff
    <2> QED BY <1>1, <2>1 DEF PoolMoves
  <1>11. UNCHANGED Events!poolVars => PoolMoves(EventsLane, Clients)
    BY DEF Events!poolVars, PoolMoves, pool
  <1>12. ASSUME NEW l, NEW item, Events!Push(l, item) PROVE Pool(EventsLane, Clients)!Push(l, item)
    BY <1>12
    DEF Events!Push, Pool!Push, Events!Asleep, Pool!Asleep, Events!Waiting, Pool!Waiting
  <1>13. ASSUME NEW w \in Threads, Events!Take(w) PROVE Pool(EventsLane, Clients)!Take(w)
    BY <1>13 DEF Events!Take, Pool!Take
  <1>14. ASSUME NEW w \in Threads, Events!Finish(w) PROVE Pool(EventsLane, Clients)!Finish(w)
    BY <1>14 DEF Events!Finish, Pool!Finish
  <1> QED
    BY <1>1, <1>2, <1>3, <1>4, <1>5, <1>6, <1>7, <1>8, <1>9, <1>10, <1>11, <1>12, <1>13, <1>14

EventItems == [number : 1 .. FewCalls]

EventsTypes ==
  /\ Events!CallersTypeOK
  /\ PoolInv(EventsLane, Clients, EventItems)
  /\ listeners \in Seq(Events!Subscription)
  /\ inactive \subseteq Events!SubIds
  /\ marking \in [Clients -> {0} \cup Events!SubIds]
  /\ rest \in [Events!Publishers -> Seq(Events!Subscription)]
  /\ toRemove \in [Events!Publishers -> SUBSET Events!SubIds]
  /\ publishing \subseteq Events!Publishers

\* What there is to count: no more than there were calls, so that the count wraps at one
\* end only.
EventsCounted ==
  /\ Cardinality(index) <= calls /\ uncounted \in 0 .. calls
  /\ totalSubscriptions = Events!Wrapped(Cardinality(index) - uncounted)

\* The list, the index and the count; the identifiers to come are in none of the sets.
EventsTables ==
  /\ Table(listeners, index)
  /\ EventsCounted
  /\ index \subseteq 1 .. calls /\ once \subseteq 1 .. calls /\ spent \subseteq 1 .. calls

EventsInv == EventsTypes /\ EventsTables /\ Events!OnceIsOver

\* What the bus's calls and ticks do to the bounds.
LEMMA EventsClock ==
  ASSUME Events!CallersTypeOK
  PROVE  /\ Events!Called => /\ Events!CallersTypeOK' /\ calls' \in Events!SubIds
                             /\ calls' = calls + 1
         /\ UNCHANGED <<calls, now>> => Events!CallersTypeOK'
         /\ calls \in Nat /\ 1 .. calls \subseteq Events!SubIds /\ calls + 1 \notin 1 .. calls
  BY CallersAssumption, PluginsAssumption
  DEF Events!Called, Events!CallersTypeOK, Events!SubIds

\* The invariant holds of a new bus.
LEMMA EventsInit == CallersInit /\ Events!PoolInit /\ Events!OwnInit => EventsInv
  <1> SUFFICES ASSUME CallersInit, Events!PoolInit, Events!OwnInit PROVE EventsInv
    OBVIOUS
  <1>1. Events!CallersTypeOK
    BY CallersAssumption, PluginsAssumption DEF CallersInit, Events!CallersTypeOK
  <1>2. PoolInv(EventsLane, Clients, EventItems) BY EventsPool, PoolInits
  <1>3. <<>> \in Seq(Events!Subscription) /\ Len(<<>>) = 0 OBVIOUS
  <1>4. /\ listeners = <<>> /\ index = {} /\ totalSubscriptions = 0 /\ uncounted = 0
        /\ once = {} /\ inactive = {} /\ spent = {} /\ publishing = {}
        /\ marking = [c \in Clients |-> 0]
        /\ rest = [p \in Events!Publishers |-> <<>>]
        /\ toRemove = [p \in Events!Publishers |-> {}]
    BY DEF Events!OwnInit
  <1>5. EventsTypes BY <1>1, <1>2, <1>3, <1>4 DEF EventsTypes
  <1>6. EventsTables
    <2>1. Table(<<>>, {}) BY <1>3 DEF Table
    <2>2. Cardinality({}) = 0 BY FS_EmptySet
    <2>3. calls = 0 BY DEF CallersInit
    <2>4. EventsCounted BY <1>4, <2>2, <2>3 DEF EventsCounted, Events!Wrapped
    <2> QED BY <1>4, <2>1, <2>4 DEF EventsTables
  <1> QED BY <1>4, <1>5, <1>6 DEF EventsInv, Events!OnceIsOver

\* The operators of the component on lists are those of the lemmas.
LEMMA EventsLists ==
  /\ \A gone : Events!Listed(gone)
                 = Sublist(listeners, {i \in DOMAIN listeners : listeners[i].id \notin gone})
  /\ \A S : Events!Cardinality(S) = Cardinality(S)
  /\ \A list : Events!Range(list) = {list[i] : i \in DOMAIN list}
  <1>1. \A list, kept : Events!Sublist(list, kept) = Sublist(list, kept)
    BY DEF Events!Sublist, Sublist, Events!Cardinality, Cardinality
  <1>2. \A gone : Events!Listed(gone)
          = Sublist(listeners, {i \in DOMAIN listeners : listeners[i].id \notin gone})
    BY <1>1 DEF Events!Listed
  <1>3. \A S : Events!Cardinality(S) = Cardinality(S) BY DEF Events!Cardinality, Cardinality
  <1>5. \A list : Events!Range(list) = {list[i] : i \in DOMAIN list} BY DEF Events!Range
  <1> QED BY <1>2, <1>3, <1>5

\* What Removed() makes of the tables.
LEMMA EventsRemoved ==
  ASSUME EventsInv, NEW ids, Events!Removed(ids), calls \in Nat, calls' \in Nat, calls <= calls'
  PROVE  /\ listeners' \in Seq(Events!Subscription)
         /\ Table(listeners', index') /\ EventsCounted'
         /\ index' = index \ ids /\ index' \subseteq 1 .. calls'
  <1>1. /\ listeners' = Events!Listed(ids) /\ index' = index \ ids /\ uncounted' = uncounted
        /\ totalSubscriptions'
             = Events!Lowered(totalSubscriptions, Cardinality(index \cap ids))
    BY EventsLists DEF Events!Removed
  <1>2. /\ listeners \in Seq(Events!Subscription) /\ Table(listeners, index)
        /\ EventsCounted /\ index \subseteq 1 .. calls
    BY DEF EventsInv, EventsTypes, EventsTables
  <1>3. listeners' \in Seq(Events!Subscription) /\ Table(listeners', index \ ids)
    BY <1>1, <1>2, EventsLists, TableWithout
  <1>4. IsFiniteSet(index) BY <1>2, TableCounted
  <1>5. Cardinality(index \ ids) = Cardinality(index) - Cardinality(index \cap ids)
    BY <1>4, FS_Difference
  <1>6. index' \subseteq 1 .. calls'
    <2>1. 1 .. calls \subseteq 1 .. calls' OBVIOUS
    <2> QED BY <1>1, <1>2, <2>1
  <1>7. EventsCounted'
    <2>1. /\ calls <= FewCalls /\ FewCalls \in Nat /\ FewCalls < SizeLimit
          /\ SizeLimit \in Nat
      BY PluginsAssumption, EventsClock DEF EventsInv, EventsTypes, Events!CallersTypeOK
    <2>2. PICK all \in Int : all = Cardinality(index) /\ all \in Nat
      BY <1>4, FS_CardinalityType
    <2>3. PICK few \in Int : few = Cardinality(index \cap ids) /\ few \in Nat /\ few <= all
      <3>1. IsFiniteSet(index \cap ids) /\ Cardinality(index \cap ids) <= Cardinality(index)
        BY <1>4, FS_Subset
      <3> QED BY <2>2, <3>1, FS_CardinalityType
    <2>4. /\ all <= calls /\ uncounted \in 0 .. calls
          /\ totalSubscriptions = Events!Wrapped(all - uncounted)
      BY <1>2, <2>2 DEF EventsCounted
    <2>5. /\ all - uncounted \in Int /\ -calls <= all - uncounted /\ all - uncounted <= calls
          /\ -calls <= all - uncounted - few /\ calls < SizeLimit
      BY <2>1, <2>2, <2>3, <2>4
    <2>6. totalSubscriptions' = Events!Wrapped(all - uncounted - few)
      BY <1>1, <2>3, <2>4, <2>5, Counting
    <2>7. Cardinality(index') = all - few BY <1>1, <1>5, <2>2, <2>3
    <2>8. all - uncounted - few = all - few - uncounted BY <2>2, <2>3, <2>4
    <2>9. all - few <= calls' /\ uncounted \in 0 .. calls' BY <2>2, <2>3, <2>4
    <2> QED BY <1>1, <2>6, <2>7, <2>8, <2>9 DEF EventsCounted
  <1> QED BY <1>1, <1>3, <1>6, <1>7

\* subscribe() puts the subscription in its place and in the index.
LEMMA EventsSubscribe ==
  ASSUME EventsInv, NEW c \in Clients, NEW subscriber \in FewIds, NEW priority \in {0, 1},
         NEW oneTime \in BOOLEAN, Events!Subscribe(c, subscriber, priority, oneTime)
  PROVE  EventsInv'
  <1> DEFINE sub == [id |-> calls', subscriber |-> subscriber, priority |-> priority]
  <1>1. /\ Events!Called /\ Events!Inserted(sub) /\ index' = index \cup {calls'}
        /\ totalSubscriptions' = Events!Raised(totalSubscriptions) /\ uncounted' = uncounted
        /\ marking' = IF oneTime THEN [marking EXCEPT ![c] = calls'] ELSE marking
        /\ UNCHANGED Events!poolVars
        /\ UNCHANGED <<once, inactive, spent, rest, toRemove, publishing>>
    BY DEF Events!Subscribe, Events!notes
  <1>2. /\ Events!CallersTypeOK' /\ calls' \in Events!SubIds /\ calls' = calls + 1
        /\ calls \in Nat /\ calls + 1 \notin 1 .. calls
    BY <1>1, EventsClock DEF EventsInv, EventsTypes
  <1>3. /\ listeners \in Seq(Events!Subscription) /\ Table(listeners, index)
        /\ EventsCounted /\ index \subseteq 1 .. calls
    BY DEF EventsInv, EventsTypes, EventsTables
  <1>4. sub \in Events!Subscription /\ sub.id = calls' /\ sub.priority = priority
    BY <1>2 DEF Events!Subscription, Events!Priorities
  <1> HIDE DEF sub
  <1>5. PICK i \in 1 .. Len(listeners) + 1 :
          /\ \A j \in 1 .. i - 1 : listeners[j].priority >= sub.priority
          /\ \A j \in i .. Len(listeners) : listeners[j].priority <= sub.priority
          /\ listeners' = SubSeq(listeners, 1, i - 1) \o <<sub>>
                          \o SubSeq(listeners, i, Len(listeners))
    BY <1>1 DEF Events!Inserted
  <1>6. PICK k \in 0 .. Len(listeners) :
          /\ \A j \in 1 .. k : listeners[j].priority >= sub.priority
          /\ \A j \in k + 1 .. Len(listeners) : listeners[j].priority <= sub.priority
          /\ listeners' = Insertion(listeners, k, sub)
    <2>1. i - 1 \in 0 .. Len(listeners) /\ i - 1 + 1 = i BY <1>3
    <2> QED BY <1>5, <2>1 DEF Insertion
  <1>7. /\ listeners' \in Seq(Events!Subscription) /\ Table(listeners', index')
    <2>1. \A s \in Events!Subscription : s.priority \in Int
      BY DEF Events!Subscription, Events!Priorities
    <2>2. sub.id \notin index BY <1>2, <1>3, <1>4
    <2>3. /\ Insertion(listeners, k, sub) \in Seq(Events!Subscription)
          /\ Table(Insertion(listeners, k, sub), index \cup {sub.id})
      <3>1. sub \in Events!Subscription BY <1>4
      <3>2. k \in 0 .. Len(listeners) OBVIOUS
      <3> QED BY ONLY <1>3, <1>6, <2>1, <2>2, <3>1, <3>2, TableInserted
    <2> QED BY <1>1, <1>4, <1>6, <2>3
  <1>8. EventsCounted'
    <2>1. IsFiniteSet(index) /\ calls' \notin index BY <1>2, <1>3, TableCounted
    <2>2. /\ Cardinality(index') = Cardinality(index) + 1 /\ Cardinality(index) \in Nat
      BY <1>1, <2>1, FS_AddElement, FS_CardinalityType
    <2>3. PICK all \in Int : all = Cardinality(index) /\ all \in Nat BY <2>2
    <2>4. /\ all <= calls /\ uncounted \in 0 .. calls
          /\ totalSubscriptions = Events!Wrapped(all - uncounted)
      BY <1>3, <2>3 DEF EventsCounted
    <2>5. calls' <= FewCalls /\ FewCalls \in Nat /\ FewCalls < SizeLimit /\ SizeLimit \in Nat
      BY <1>2, PluginsAssumption DEF Events!CallersTypeOK
    <2>6. /\ all - uncounted \in Int /\ -calls' <= all - uncounted
          /\ all - uncounted < calls' /\ all - uncounted <= calls'
          /\ calls' \in Nat /\ calls' < SizeLimit
      BY <1>2, <2>3, <2>4, <2>5
    <2>7. totalSubscriptions' = Events!Wrapped(all - uncounted + 1)
      BY <1>1, <2>4, <2>6, Counting
    <2>8. /\ all - uncounted + 1 = all + 1 - uncounted
          /\ all + 1 <= calls' /\ uncounted \in 0 .. calls'
      BY <1>2, <2>3, <2>4
    <2> QED BY <1>1, <2>2, <2>3, <2>7, <2>8 DEF EventsCounted
  <1>9. EventsTables'
    <2>1. /\ index \subseteq 1 .. calls /\ once \subseteq 1 .. calls /\ spent \subseteq 1 .. calls
      BY DEF EventsInv, EventsTables
    <2>2. 1 .. calls \subseteq 1 .. calls' /\ calls' \in 1 .. calls' BY <1>2
    <2> QED BY <1>1, <1>7, <1>8, <2>1, <2>2 DEF EventsTables
  <1>10. PoolInv(EventsLane, Clients, EventItems)'
    BY <1>1, EventsPool, PoolMoved, PluginsAssumption DEF EventsInv, EventsTypes
  <1>11. marking' \in [Clients -> {0} \cup Events!SubIds]
    BY <1>1, <1>2 DEF EventsInv, EventsTypes
  <1>12. EventsTypes'
    BY <1>1, <1>2, <1>7, <1>10, <1>11 DEF EventsInv, EventsTypes, Events!Publishers
  <1>13. Events!OnceIsOver'
    <2>1. calls' \notin spent BY <1>2 DEF EventsInv, EventsTables
    <2> QED BY <1>1, <2>1 DEF EventsInv, Events!OnceIsOver
  <1> QED BY <1>9, <1>12, <1>13 DEF EventsInv

\* The steps that leave the tables, or take from them, and what is marked and published.
EventsKeeps ==
  /\ PoolInv(EventsLane, Clients, EventItems)'
  /\ calls' \in Nat /\ calls <= calls' /\ Events!CallersTypeOK'
  /\ UNCHANGED <<listeners, index, totalSubscriptions, uncounted>>
     \/ \E ids : Events!Removed(ids)
  /\ inactive' \subseteq Events!SubIds
  /\ marking' \in [Clients -> {0} \cup Events!SubIds]
  /\ rest' \in [Events!Publishers -> Seq(Events!Subscription)]
  /\ toRemove' \in [Events!Publishers -> SUBSET Events!SubIds]
  /\ publishing' \subseteq Events!Publishers
  /\ once' \subseteq once \cup index
  /\ spent' \subseteq spent \cup once
  /\ Events!OnceIsOver'

\* The steps that EventsKeeps describes keep the invariant, ...
LEMMA EventsKept ==
  ASSUME EventsInv, EventsKeeps
  PROVE  EventsInv'
  <1>1. calls \in Nat /\ calls' \in Nat /\ calls <= calls'
    BY EventsClock DEF EventsKeeps, EventsInv, EventsTypes
  <1>2. /\ listeners' \in Seq(Events!Subscription) /\ Table(listeners', index')
        /\ EventsCounted' /\ index' \subseteq 1 .. calls'
    <2>1. CASE UNCHANGED <<listeners, index, totalSubscriptions, uncounted>>
      <3>1. 1 .. calls \subseteq 1 .. calls' BY <1>1
      <3>2. IsFiniteSet(index) BY TableCounted DEF EventsInv, EventsTypes, EventsTables
      <3>3. PICK all \in Int : all = Cardinality(index) BY <3>2, FS_CardinalityType
      <3>4. EventsCounted'
        <4>1. EventsCounted BY DEF EventsInv, EventsTables
        <4> QED BY <1>1, <2>1, <3>3, <4>1 DEF EventsCounted
      <3> QED BY <2>1, <3>1, <3>4 DEF EventsInv, EventsTypes, EventsTables
    <2>2. ASSUME NEW ids, Events!Removed(ids)
          PROVE  /\ listeners' \in Seq(Events!Subscription) /\ Table(listeners', index')
                 /\ EventsCounted' /\ index' \subseteq 1 .. calls'
      BY <1>1, <2>2, EventsRemoved
    <2> QED BY <2>1, <2>2 DEF EventsKeeps
  <1>3. EventsTables'
    <2>1. /\ index \subseteq 1 .. calls /\ once \subseteq 1 .. calls /\ spent \subseteq 1 .. calls
      BY DEF EventsInv, EventsTables
    <2>2. 1 .. calls \subseteq 1 .. calls' BY <1>1
    <2>3. once' \subseteq 1 .. calls' /\ spent' \subseteq 1 .. calls'
      BY <2>1, <2>2 DEF EventsKeeps
    <2> QED BY <1>2, <2>3 DEF EventsTables
  <1>4. EventsTypes' BY <1>2 DEF EventsKeeps, EventsTypes, Events!Publishers
  <1> QED BY <1>3, <1>4 DEF EventsKeeps, EventsInv

\* The steps that only move threads, or the items between the queue and the threads.
LEMMA EventsQuiet ==
  ASSUME EventsInv, PoolInv(EventsLane, Clients, EventItems)',
         Events!Called \/ UNCHANGED <<calls, now>>,
         UNCHANGED <<inactive, marking, once, spent>>
  PROVE  /\ calls' \in Nat /\ calls <= calls' /\ Events!CallersTypeOK'
         /\ inactive' \subseteq Events!SubIds
         /\ marking' \in [Clients -> {0} \cup Events!SubIds]
         /\ once' \subseteq once \cup index /\ spent' \subseteq spent \cup once
  <1>1. calls' \in Nat /\ calls <= calls' /\ Events!CallersTypeOK'
    BY EventsClock DEF EventsInv, EventsTypes
  <1> QED BY <1>1 DEF EventsInv, EventsTypes

\* ... those that leave the bus's own variables alone, ...
LEMMA EventsStill ==
  ASSUME EventsInv, PoolInv(EventsLane, Clients, EventItems)',
         Events!Called \/ UNCHANGED <<calls, now>>,
         UNCHANGED <<listeners, index, totalSubscriptions, uncounted, once, inactive, marking, rest,
                     toRemove, publishing, spent>>
  PROVE  EventsInv'
  <1>1. Events!OnceIsOver' BY DEF EventsInv, Events!OnceIsOver
  <1>2. EventsKeeps BY <1>1, EventsQuiet DEF EventsKeeps, EventsInv, EventsTypes, Events!Publishers
  <1> QED BY <1>2, EventsKept

\* ... and those in which a publication begins with a copy of the list.
LEMMA EventsCopied ==
  ASSUME EventsInv, PoolInv(EventsLane, Clients, EventItems)',
         Events!Called \/ UNCHANGED <<calls, now>>,
         NEW p \in Events!Publishers, p \notin publishing, Events!Copied(p),
         UNCHANGED <<listeners, index, totalSubscriptions, uncounted, once, inactive, marking,
                     spent>>
  PROVE  EventsInv'
  <1>1. /\ rest' = [rest EXCEPT ![p] = listeners] /\ toRemove' = [toRemove EXCEPT ![p] = {}]
        /\ publishing' = publishing \cup {p}
    BY DEF Events!Copied
  <1>2. /\ rest \in [Events!Publishers -> Seq(Events!Subscription)]
        /\ toRemove \in [Events!Publishers -> SUBSET Events!SubIds]
        /\ publishing \subseteq Events!Publishers /\ listeners \in Seq(Events!Subscription)
    BY DEF EventsInv, EventsTypes
  <1>3. /\ rest' \in [Events!Publishers -> Seq(Events!Subscription)]
        /\ toRemove' \in [Events!Publishers -> SUBSET Events!SubIds]
        /\ publishing' \subseteq Events!Publishers
    BY <1>1, <1>2
  <1>4. Events!OnceIsOver'
    <2> SUFFICES ASSUME NEW id \in spent \cap index
                 PROVE  \E q \in publishing' : id \in toRemove'[q]
      BY DEF Events!OnceIsOver
    <2>1. PICK q \in publishing : id \in toRemove[q] BY DEF EventsInv, Events!OnceIsOver
    <2>2. toRemove'[q] = toRemove[q] BY <1>1, <1>2, <2>1
    <2> QED BY <1>1, <2>1, <2>2
  <1>5. EventsKeeps BY <1>3, <1>4, EventsQuiet DEF EventsKeeps, Events!Publishers
  <1> QED BY <1>5, EventsKept

\* One subscription of the copy, or the end of it.
LEMMA EventsNotify ==
  ASSUME EventsInv, NEW p \in Events!Publishers,
         \/ Events!NotifySkips(p) \/ Events!NotifyThrows(p)
         \/ \E propagate \in BOOLEAN : Events!NotifyCalls(p, propagate)
  PROVE  EventsInv'
  <1>1. /\ p \in publishing /\ rest[p] # <<>>
        /\ UNCHANGED <<calls, now, listeners, index, totalSubscriptions, uncounted, once, marking,
                       publishing>>
        /\ UNCHANGED Events!poolVars
    BY DEF Events!NotifySkips, Events!NotifyThrows, Events!NotifyCalls, Events!lists,
           Events!flags
  <1>2. /\ rest \in [Events!Publishers -> Seq(Events!Subscription)]
        /\ toRemove \in [Events!Publishers -> SUBSET Events!SubIds]
        /\ inactive \subseteq Events!SubIds
    BY DEF EventsInv, EventsTypes
  <1>3. /\ rest[p] \in Seq(Events!Subscription) /\ Tail(rest[p]) \in Seq(Events!Subscription)
        /\ Head(rest[p]) \in Events!Subscription /\ <<>> \in Seq(Events!Subscription)
    <2>1. rest[p] \in Seq(Events!Subscription) BY <1>2
    <2> QED BY <1>1, <2>1
  <1>4. Head(rest[p]).id \in Events!SubIds
    BY <1>3 DEF Events!Subscription
  <1>5. PoolInv(EventsLane, Clients, EventItems)'
    BY <1>1, EventsPool, PoolMoved, PluginsAssumption DEF EventsInv, EventsTypes
  <1>6. /\ calls' \in Nat /\ calls <= calls' /\ Events!CallersTypeOK'
    BY <1>1, EventsClock DEF EventsInv, EventsTypes
  <1>7. /\ publishing' \subseteq Events!Publishers
        /\ marking' \in [Clients -> {0} \cup Events!SubIds]
    BY <1>1 DEF EventsInv, EventsTypes
  <1>8. CASE Events!NotifySkips(p)
    <2>1. rest' = [rest EXCEPT ![p] = Tail(@)] /\ UNCHANGED <<inactive, spent, toRemove>>
      BY <1>8 DEF Events!NotifySkips, Events!flags
    <2>2. rest' \in [Events!Publishers -> Seq(Events!Subscription)] BY <1>2, <1>3, <2>1
    <2>3. Events!OnceIsOver' BY <1>1, <2>1 DEF EventsInv, Events!OnceIsOver
    <2>4. EventsKeeps
      BY <1>1, <1>2, <1>5, <1>6, <1>7, <2>1, <2>2, <2>3 DEF EventsKeeps, Events!Publishers
    <2> QED BY <2>4, EventsKept
  <1>9. CASE Events!NotifyThrows(p)
    <2>1. /\ rest' = [rest EXCEPT ![p] = Tail(@)] /\ UNCHANGED <<spent, toRemove>>
          /\ inactive' = inactive \cup {Head(rest[p]).id}
      BY <1>9 DEF Events!NotifyThrows
    <2>2. rest' \in [Events!Publishers -> Seq(Events!Subscription)] BY <1>2, <1>3, <2>1
    <2>3. Events!OnceIsOver' BY <1>1, <2>1 DEF EventsInv, Events!OnceIsOver
    <2>4. inactive' \subseteq Events!SubIds BY <1>2, <1>4, <2>1
    <2>5. EventsKeeps
      BY <1>1, <1>2, <1>5, <1>6, <1>7, <2>1, <2>2, <2>3, <2>4 DEF EventsKeeps, Events!Publishers
    <2> QED BY <2>5, EventsKept
  <1>10. ASSUME NEW propagate \in BOOLEAN, Events!NotifyCalls(p, propagate) PROVE EventsInv'
    <2> DEFINE id == Head(rest[p]).id
    <2>1. /\ rest' = [rest EXCEPT ![p] = IF propagate THEN Tail(@) ELSE <<>>]
          /\ toRemove' = [toRemove EXCEPT ![p] = @ \cup ({id} \cap once)]
          /\ spent' = spent \cup ({id} \cap once)
          /\ UNCHANGED inactive
      BY <1>10 DEF Events!NotifyCalls
    <2>2. rest' \in [Events!Publishers -> Seq(Events!Subscription)]
      <3>1. CASE propagate BY <1>2, <1>3, <2>1, <3>1
      <3>2. CASE ~propagate BY <1>2, <1>3, <2>1, <3>2
      <3> QED BY <3>1, <3>2
    <2>3. id \in Events!SubIds BY <1>4
    <2> HIDE DEF id
    <2>4. toRemove' \in [Events!Publishers -> SUBSET Events!SubIds] BY <1>2, <2>1, <2>3
    <2>5. spent' \subseteq spent \cup once BY <2>1
    <2>6. \A q \in Events!Publishers : toRemove[q] \subseteq toRemove'[q]
      <3> TAKE q \in Events!Publishers
      <3>1. CASE q = p BY <1>2, <2>1, <3>1
      <3>2. CASE q # p BY <1>2, <2>1, <3>2
      <3> QED BY <3>1, <3>2
    <2>7. {id} \cap once \subseteq toRemove'[p] BY <1>2, <2>1
    <2>8. Events!OnceIsOver'
      <3> SUFFICES ASSUME NEW x \in spent' \cap index
                   PROVE  \E q \in publishing : x \in toRemove'[q]
        BY <1>1 DEF Events!OnceIsOver
      <3>1. CASE x \in spent
        <4>1. PICK q \in publishing : x \in toRemove[q]
          BY <3>1 DEF EventsInv, Events!OnceIsOver
        <4>2. q \in Events!Publishers BY <4>1 DEF EventsInv, EventsTypes
        <4> QED BY <2>6, <4>1, <4>2
      <3>2. CASE x \in {id} \cap once BY <1>1, <2>7, <3>2
      <3> QED BY <2>1, <3>1, <3>2
    <2>9. EventsKeeps
      BY <1>1, <1>2, <1>5, <1>6, <1>7, <2>1, <2>2, <2>4, <2>5, <2>8
      DEF EventsKeeps, Events!Publishers
    <2> QED BY <2>9, EventsKept
  <1> QED BY <1>8, <1>9, <1>10

\* The one-time subscriptions are removed one by one, ...
LEMMA EventsRemoves ==
  ASSUME EventsInv, NEW p \in Events!Publishers, NEW id \in Events!SubIds,
         Events!NotifyRemoves(p, id)
  PROVE  EventsInv'
  <1>1. /\ p \in publishing /\ Events!Removed({id})
        /\ toRemove' = [toRemove EXCEPT ![p] = @ \ {id}]
        /\ UNCHANGED <<calls, now, once, inactive, marking, spent, rest, publishing>>
        /\ UNCHANGED Events!poolVars
    BY DEF Events!NotifyRemoves, Events!flags
  <1>2. toRemove \in [Events!Publishers -> SUBSET Events!SubIds]
    BY DEF EventsInv, EventsTypes
  <1>3. toRemove' \in [Events!Publishers -> SUBSET Events!SubIds] BY <1>1, <1>2
  <1>4. PoolInv(EventsLane, Clients, EventItems)'
    BY <1>1, EventsPool, PoolMoved, PluginsAssumption DEF EventsInv, EventsTypes
  <1>5. Events!OnceIsOver'
    <2> SUFFICES ASSUME NEW x \in spent \cap index'
                 PROVE  \E q \in publishing : x \in toRemove'[q]
      BY <1>1 DEF Events!OnceIsOver
    <2>1. x \in index /\ x # id BY <1>1 DEF Events!Removed
    <2>2. PICK q \in publishing : x \in toRemove[q]
      BY <2>1 DEF EventsInv, Events!OnceIsOver
    <2>3. q \in Events!Publishers BY DEF EventsInv, EventsTypes
    <2>4. x \in toRemove'[q]
      <3>1. CASE q = p BY <1>1, <1>2, <2>1, <2>2, <2>3, <3>1
      <3>2. CASE q # p BY <1>1, <1>2, <2>2, <2>3, <3>2
      <3> QED BY <3>1, <3>2
    <2> QED BY <2>4
  <1>6. /\ rest' \in [Events!Publishers -> Seq(Events!Subscription)]
        /\ publishing' \subseteq Events!Publishers
    BY <1>1 DEF EventsInv, EventsTypes
  <1>7. EventsKeeps
    BY <1>1, <1>3, <1>4, <1>5, <1>6, EventsQuiet DEF EventsKeeps, Events!Publishers
  <1> QED BY <1>7, EventsKept

\* ... and then the publication ends, for a worker with its item.
LEMMA EventsEnds ==
  ASSUME EventsInv, NEW p \in Events!Publishers, Events!NotifyEnds(p)
  PROVE  EventsInv'
  <1>1. /\ toRemove[p] = {} /\ publishing' = publishing \ {p}
        /\ UNCHANGED <<listeners, index, totalSubscriptions, uncounted, once, inactive, marking,
                       spent, rest, toRemove>>
    BY DEF Events!NotifyEnds, Events!flags, Events!lists
  <1>2. PoolInv(EventsLane, Clients, EventItems)' /\ UNCHANGED <<calls, now>>
    <2>1. CASE p \in Threads /\ Events!Finish(p)
      BY <2>1, EventsPool, PoolFinishes DEF EventsInv, EventsTypes
    <2>2. CASE UNCHANGED <<calls, now>> /\ UNCHANGED Events!poolVars
      BY <2>2, EventsPool, PoolMoved, PluginsAssumption DEF EventsInv, EventsTypes
    <2> QED BY <2>1, <2>2, EventsPool DEF Events!NotifyEnds
  <1>3. Events!OnceIsOver' BY <1>1 DEF EventsInv, Events!OnceIsOver
  <1>4. /\ rest' \in [Events!Publishers -> Seq(Events!Subscription)]
        /\ toRemove' \in [Events!Publishers -> SUBSET Events!SubIds]
        /\ publishing' \subseteq Events!Publishers
    BY <1>1 DEF EventsInv, EventsTypes
  <1>5. EventsKeeps
    BY <1>1, <1>2, <1>3, <1>4, EventsQuiet DEF EventsKeeps, Events!Publishers
  <1> QED BY <1>5, EventsKept

\* Every step of a publication.
LEMMA EventsPublishes ==
  ASSUME EventsInv, NEW p \in Events!Publishers, Events!PublisherSteps(p)
  PROVE  EventsInv'
  BY EventsNotify, EventsRemoves, EventsEnds DEF Events!PublisherSteps

\* A subscription is marked as a one-time one after it was listed.
LEMMA EventsMarks ==
  ASSUME EventsInv, NEW c \in Clients, Events!MarkOnce(c)
  PROVE  EventsInv'
  <1>1. /\ marking[c] # 0 /\ once' = once \cup ({marking[c]} \cap index)
        /\ marking' = [marking EXCEPT ![c] = 0]
        /\ UNCHANGED <<calls, now, listeners, index, totalSubscriptions, uncounted, inactive,
                       spent, rest, toRemove, publishing>>
        /\ UNCHANGED Events!poolVars
    BY DEF Events!MarkOnce, Events!lists, Events!notes
  <1>2. PoolInv(EventsLane, Clients, EventItems)'
    BY <1>1, EventsPool, PoolMoved, PluginsAssumption DEF EventsInv, EventsTypes
  <1>3. marking' \in [Clients -> {0} \cup Events!SubIds]
    BY <1>1 DEF EventsInv, EventsTypes
  <1>4. once' \subseteq once \cup index /\ spent' \subseteq spent \cup once BY <1>1
  <1>5. calls' \in Nat /\ calls <= calls' /\ Events!CallersTypeOK'
    BY <1>1, EventsClock DEF EventsInv, EventsTypes
  <1>6. Events!OnceIsOver' BY <1>1 DEF EventsInv, Events!OnceIsOver
  <1>7. /\ rest' \in [Events!Publishers -> Seq(Events!Subscription)]
        /\ toRemove' \in [Events!Publishers -> SUBSET Events!SubIds]
        /\ publishing' \subseteq Events!Publishers /\ inactive' \subseteq Events!SubIds
    BY <1>1 DEF EventsInv, EventsTypes
  <1>8. EventsKeeps
    BY <1>1, <1>2, <1>3, <1>4, <1>5, <1>6, <1>7 DEF EventsKeeps, Events!Publishers
  <1> QED BY <1>8, EventsKept

\* Subscriptions are taken out of the list and of the index.
LEMMA EventsUnsubscribes ==
  ASSUME EventsInv, NEW ids, Events!Called, Events!Removed(ids),
         UNCHANGED Events!poolVars, UNCHANGED Events!flags, UNCHANGED Events!notes
  PROVE  EventsInv'
  <1>1. UNCHANGED <<once, inactive, marking, spent, rest, toRemove, publishing>>
    BY DEF Events!flags, Events!notes
  <1>2. PoolInv(EventsLane, Clients, EventItems)'
    BY EventsPool, PoolMoved, PluginsAssumption DEF EventsInv, EventsTypes
  <1>3. Events!OnceIsOver'
    BY <1>1 DEF EventsInv, Events!OnceIsOver, Events!Removed
  <1>4. /\ rest' \in [Events!Publishers -> Seq(Events!Subscription)]
        /\ toRemove' \in [Events!Publishers -> SUBSET Events!SubIds]
        /\ publishing' \subseteq Events!Publishers
    BY <1>1 DEF EventsInv, EventsTypes
  <1>5. EventsKeeps
    BY <1>1, <1>2, <1>3, <1>4, EventsQuiet DEF EventsKeeps, Events!Publishers
  <1> QED BY <1>5, EventsKept

\* An event goes to the queue, or to the subscriptions at once.
LEMMA EventsPosts ==
  ASSUME EventsInv, NEW c \in Clients, Events!PublishAsync(c)
  PROVE  EventsInv'
  <1>1. /\ Events!Called /\ c \notin publishing /\ c \in Events!Publishers
        /\ UNCHANGED <<listeners, index, totalSubscriptions, uncounted, once, inactive, marking,
                       spent>>
    BY DEF Events!PublishAsync, Events!Free, Events!lists, Events!flags, Events!Publishers
  <1>2. CASE Events!Push("events", [number |-> calls']) /\ UNCHANGED Events!notes
    <2>1. [number |-> calls'] \in EventItems
      BY <1>1, EventsClock DEF EventItems, EventsInv, EventsTypes, Events!SubIds
    <2>2. /\ "events" \in Pool(EventsLane, Clients)!Lanes
          /\ Pool(EventsLane, Clients)!Push("events", [number |-> calls'])
      BY <1>2, EventsPool
    <2>3. PoolInv(EventsLane, Clients, EventItems) BY DEF EventsInv, EventsTypes
    <2> DEFINE item == [number |-> calls']
    <2> HIDE DEF item
    <2>4. /\ item \in EventItems /\ Pool(EventsLane, Clients)!Push("events", item)
          /\ "events" \in Pool(EventsLane, Clients)!Lanes
      BY <2>1, <2>2 DEF item
    <2>5. PoolInv(EventsLane, Clients, EventItems)' BY ONLY <2>3, <2>4, PoolPushed
    <2> QED BY <1>1, <1>2, <2>5, EventsStill DEF Events!notes
  <1>3. CASE Events!Copied(c) /\ UNCHANGED Events!poolVars
    <2>1. PoolInv(EventsLane, Clients, EventItems)'
      BY <1>3, EventsPool, PoolMoved, PluginsAssumption DEF EventsInv, EventsTypes
    <2> QED BY <1>1, <1>3, <2>1, EventsCopied
  <1> QED BY <1>2, <1>3 DEF Events!PublishAsync

\* The statistics start again, with what there is by then not counted.
LEMMA EventsResets ==
  ASSUME EventsInv, Events!ResetStatistics
  PROVE  EventsInv'
  <1>1. /\ Events!Called /\ UNCHANGED Events!poolVars
        /\ totalSubscriptions' = 0 /\ uncounted' = Cardinality(index)
        /\ UNCHANGED <<listeners, index, once, inactive, marking, spent, rest, toRemove,
                       publishing>>
    BY EventsLists DEF Events!ResetStatistics, Events!flags, Events!notes
  <1>2. /\ Events!CallersTypeOK' /\ calls' = calls + 1 /\ calls \in Nat
    BY <1>1, EventsClock DEF EventsInv, EventsTypes
  <1>3. /\ listeners \in Seq(Events!Subscription) /\ Table(listeners, index)
        /\ index \subseteq 1 .. calls /\ once \subseteq 1 .. calls /\ spent \subseteq 1 .. calls
    BY DEF EventsInv, EventsTypes, EventsTables
  <1>4. PICK all \in Int : all = Cardinality(index) /\ all \in Nat /\ all <= calls
    <2>1. IsFiniteSet(index) BY <1>3, TableCounted
    <2> QED BY <2>1, FS_CardinalityType DEF EventsInv, EventsTables, EventsCounted
  <1>5. EventsCounted'
    <2>1. all - all = 0 /\ all <= calls' /\ all \in 0 .. calls' BY <1>2, <1>4
    <2>2. Events!Wrapped(0) = 0 BY DEF Events!Wrapped
    <2> QED BY <1>1, <1>4, <2>1, <2>2 DEF EventsCounted
  <1>6. EventsTables'
    <2>1. 1 .. calls \subseteq 1 .. calls' BY <1>2
    <2> QED BY <1>1, <1>3, <1>5, <2>1 DEF EventsTables
  <1>7. PoolInv(EventsLane, Clients, EventItems)'
    BY <1>1, EventsPool, PoolMoved, PluginsAssumption DEF EventsInv, EventsTypes
  <1>8. EventsTypes' BY <1>1, <1>2, <1>7 DEF EventsInv, EventsTypes, Events!Publishers
  <1>9. Events!OnceIsOver' BY <1>1 DEF EventsInv, Events!OnceIsOver
  <1> QED BY <1>6, <1>8, <1>9 DEF EventsInv

\* What the clients and the workers do with the pool alone.
LEMMA EventsPooled ==
  ASSUME EventsInv, PoolInv(EventsLane, Clients, EventItems)' \/ PoolMoves(EventsLane, Clients),
         Events!Called \/ UNCHANGED <<calls, now>>,
         UNCHANGED Events!lists, UNCHANGED Events!flags, UNCHANGED Events!notes
  PROVE  EventsInv'
  <1>1. PoolInv(EventsLane, Clients, EventItems)'
    BY PoolMoved, PluginsAssumption DEF EventsInv, EventsTypes
  <1> QED BY <1>1, EventsStill DEF Events!lists, Events!flags, Events!notes

\* Every step.
LEMMA EventsStep == EventsInv /\ [Events!Next]_(Events!vars) => EventsInv'
  <1> SUFFICES ASSUME EventsInv, [Events!Next]_(Events!vars) PROVE EventsInv'
    OBVIOUS
  <1>1. CASE UNCHANGED Events!vars
    <2>1. /\ UNCHANGED <<calls, now>> /\ UNCHANGED Events!poolVars
          /\ UNCHANGED Events!lists /\ UNCHANGED Events!flags /\ UNCHANGED Events!notes
      BY <1>1 DEF Events!vars, Events!own
    <2> QED BY <2>1, EventsPool, EventsPooled
  <1>2. ASSUME NEW c \in Clients, NEW subscriber \in FewIds, NEW priority \in Events!Priorities,
               NEW oneTime \in BOOLEAN, Events!Subscribe(c, subscriber, priority, oneTime)
        PROVE  EventsInv'
    BY <1>2, EventsSubscribe DEF Events!Priorities
  <1>3. ASSUME NEW c \in Clients, NEW subscriber, Events!UnsubscribeAll(c, subscriber)
        PROVE  EventsInv'
    BY <1>3, EventsUnsubscribes DEF Events!UnsubscribeAll
  <1>4. ASSUME NEW c \in Clients, NEW id, Events!Unsubscribe(c, id) PROVE EventsInv'
    BY <1>4, EventsUnsubscribes DEF Events!Unsubscribe
  <1>5. ASSUME NEW c \in Clients, Events!Publish(c) PROVE EventsInv'
    <2>1. /\ Events!Called /\ c \notin publishing /\ c \in Events!Publishers
          /\ Events!Copied(c) /\ UNCHANGED Events!poolVars
          /\ UNCHANGED <<listeners, index, totalSubscriptions, uncounted, once, inactive, marking,
                         spent>>
      BY <1>5 DEF Events!Publish, Events!Free, Events!lists, Events!flags, Events!Publishers
    <2>2. PoolInv(EventsLane, Clients, EventItems)'
      BY <2>1, EventsPool, PoolMoved, PluginsAssumption DEF EventsInv, EventsTypes
    <2> QED BY <2>1, <2>2, EventsCopied
  <1>6. ASSUME NEW c \in Clients, Events!Stop(c) PROVE EventsInv'
    BY <1>6, EventsPool, EventsPooled DEF Events!Stop
  <1>7. ASSUME NEW c \in Clients, Events!Joined(c) PROVE EventsInv'
    <2>1. UNCHANGED <<calls, now>> BY <1>7 DEF Events!Joined, Events!PoolStopped
    <2> QED BY <1>7, <2>1, EventsPool, EventsPooled DEF Events!Joined
  <1>8. ASSUME NEW c \in Clients, Events!WaitForAsyncEvents(c) PROVE EventsInv'
    <2>1. PoolMoves(EventsLane, Clients) BY <1>8, EventsPool DEF Events!WaitForAsyncEvents
    <2> QED BY <1>8, <2>1, EventsPooled DEF Events!WaitForAsyncEvents
  <1>9. ASSUME NEW c \in Clients, Events!WaitTests(c) PROVE EventsInv'
    <2>1. UNCHANGED <<calls, now>> BY <1>9 DEF Events!WaitTests, Events!PoolWaitTests
    <2> QED BY <1>9, <2>1, EventsPool, EventsPooled DEF Events!WaitTests
  <1>10. CASE Events!Start
    BY <1>10, EventsPool, EventsPooled DEF Events!Start
  <1>11. ASSUME NEW w \in Threads, Events!WorkerIdles(w) PROVE EventsInv'
    <2>1. UNCHANGED <<calls, now>>
      BY <1>11 DEF Events!WorkerIdles, Events!Idles, Events!LoopTest, Events!FallAsleep,
                   Events!Sleep, Events!BreakOff
    <2> QED BY <1>11, <2>1, EventsPool, EventsPooled DEF Events!WorkerIdles
  <1>12. ASSUME NEW w \in Threads, Events!WorkerTakes(w) PROVE EventsInv'
    <2>1. Pool(EventsLane, Clients)!Take(w) BY <1>12, EventsPool DEF Events!WorkerTakes
    <2>2. PoolInv(EventsLane, Clients, EventItems)' /\ UNCHANGED <<calls, now>>
      BY <2>1, EventsPool, PoolTakes DEF EventsInv, EventsTypes
    <2> QED BY <1>12, <2>2, EventsPooled DEF Events!WorkerTakes
  <1>13. ASSUME NEW w \in Threads, Events!WorkerPublishes(w) PROVE EventsInv'
    <2>1. /\ w \notin publishing /\ w \in Events!Publishers
          /\ UNCHANGED Events!lists /\ UNCHANGED Events!flags
      BY <1>13, EventsPool DEF Events!WorkerPublishes, Events!Publishers
    <2>2. CASE Events!Copied(w) /\ UNCHANGED <<calls, now>> /\ UNCHANGED Events!poolVars
      <3>1. PoolInv(EventsLane, Clients, EventItems)'
        BY <2>2, EventsPool, PoolMoved, PluginsAssumption DEF EventsInv, EventsTypes
      <3> QED BY <2>1, <2>2, <3>1, EventsCopied DEF Events!lists, Events!flags
    <2>3. CASE Events!Finish(w) /\ UNCHANGED Events!notes
      <3>1. PoolInv(EventsLane, Clients, EventItems)' /\ UNCHANGED <<calls, now>>
        BY <2>3, EventsPool, PoolFinishes DEF EventsInv, EventsTypes
      <3> QED BY <2>1, <2>3, <3>1, EventsPooled
    <2>4. \/ Events!Copied(w) /\ UNCHANGED <<calls, now>> /\ UNCHANGED Events!poolVars
          \/ Events!Finish(w) /\ UNCHANGED Events!notes
      BY <1>13 DEF Events!WorkerPublishes
    <2> QED BY <2>2, <2>3, <2>4
  <1>14. CASE Events!ResetStatistics
    BY <1>14, EventsResets
  <1> QED
    BY <1>1, <1>2, <1>3, <1>4, <1>5, <1>6, <1>7, <1>8, <1>9, <1>10, <1>11, <1>12, <1>13, <1>14,
       EventsMarks, EventsPosts, EventsPublishes, EventsPool DEF Events!Next

\* What the invariant is for.
LEMMA EventsHolds == EventsInv => Events!TypeOK /\ Events!SubscriptionsAgree
  <1> SUFFICES ASSUME EventsInv PROVE Events!TypeOK /\ Events!SubscriptionsAgree
    OBVIOUS
  <1>1. /\ listeners \in Seq(Events!Subscription) /\ Table(listeners, index)
        /\ EventsCounted
    BY DEF EventsInv, EventsTypes, EventsTables
  <1>2. Cardinality(index) = Len(listeners) /\ Len(listeners) \in Nat
    BY <1>1, TableCounted
  <1>9. totalSubscriptions \in Nat /\ uncounted \in Nat
    <2>1. PICK all \in Int : all = Cardinality(index) /\ all \in Nat BY <1>2
    <2>2. /\ all <= calls /\ uncounted \in 0 .. calls
          /\ totalSubscriptions = Events!Wrapped(all - uncounted)
      BY <1>1, <2>1 DEF EventsCounted
    <2>3. calls \in Nat /\ calls < SizeLimit /\ SizeLimit \in Nat
      BY EventsClock, PluginsAssumption DEF EventsInv, EventsTypes, Events!CallersTypeOK
    <2>4. /\ all - uncounted \in Int /\ -calls <= all - uncounted /\ all - uncounted <= calls
      BY <2>1, <2>2, <2>3
    <2>5. totalSubscriptions \in Nat BY <2>2, <2>3, <2>4, Counting
    <2> QED BY <2>2, <2>3, <2>5
  <1>3. /\ Events!PoolTypeOK(EventItems)
    BY EventsPool
    DEF EventsInv, EventsTypes, PoolInv, PoolTypes, Events!PoolTypeOK, Events!NoClient, Places
  <1>4. index \subseteq Events!SubIds /\ once \subseteq Events!SubIds /\ spent \subseteq Events!SubIds
    BY EventsClock DEF EventsInv, EventsTypes, EventsTables
  <1>5. Events!TypeOK
    BY <1>1, <1>2, <1>3, <1>4, <1>9 DEF EventsInv, EventsTypes, Events!TypeOK, EventItems
  <1>6. {s.id : s \in Events!Range(listeners)} = index
    <2>1. Events!Range(listeners) = {listeners[i] : i \in 1 .. Len(listeners)}
      BY <1>1, EventsLists
    <2>2. \A s \in Events!Range(listeners) : s.id \in index BY <1>1, <2>1 DEF Table
    <2>3. \A id \in index : \E s \in Events!Range(listeners) : s.id = id
      BY <1>1, <2>1 DEF Table
    <2> QED BY <2>2, <2>3
  <1>7. \A j, k \in 1 .. Len(listeners) :
          j < k => listeners[j].priority >= listeners[k].priority
    BY <1>1 DEF Table
  <1>8. Events!Cardinality(index) = Cardinality(index) BY EventsLists
  <1> QED BY <1>1, <1>2, <1>5, <1>6, <1>7, <1>8 DEF EventsCounted, Events!SubscriptionsAgree

-----------------------------------------------------------------------------
(* The thread pool.                                                        *)

\* The pool's actions are those of QueueWorkers.
LEMMA TasksPool ==
  /\ Pool(TasksLane, Clients)!Lanes = Tasks!Lanes /\ DOMAIN TasksLane = Threads
  /\ Tasks!Workers = Threads /\ Tasks!Lanes = {"tasks"}
  /\ Tasks!PoolInit => Pool(TasksLane, Clients)!PoolInit
  /\ Tasks!PoolStart => PoolMoves(TasksLane, Clients)
  /\ \A c \in Clients : Tasks!PoolStop(c) => PoolMoves(TasksLane, Clients)
  /\ \A c \in Clients : Tasks!PoolStopped(c) => PoolMoves(TasksLane, Clients)
  /\ \A c \in Clients, l \in Tasks!Lanes : Tasks!PoolWait(c, l) => PoolMoves(TasksLane, Clients)
  /\ \A c \in Clients : Tasks!PoolWaitTests(c) => PoolMoves(TasksLane, Clients)
  /\ \A w \in Threads : Tasks!Idles(w) => PoolMoves(TasksLane, Clients)
  /\ UNCHANGED Tasks!poolVars => PoolMoves(TasksLane, Clients)
  /\ \A l, item : Tasks!Push(l, item) => Pool(TasksLane, Clients)!Push(l, item)
  /\ \A w \in Threads : Tasks!Take(w) => Pool(TasksLane, Clients)!Take(w)
  /\ \A w \in Threads : Tasks!Finish(w) => Pool(TasksLane, Clients)!Finish(w)
  <1> USE DEF Tasks!Workers, Pool!Workers, Tasks!NoClient, Pool!NoClient,
              Tasks!waiters, Pool!waiters,
              Tasks!Moves, Pool!Moves, Tasks!MutexFree, Pool!MutexFree
  <1>1. DOMAIN TasksLane = Threads /\ Tasks!Workers = Threads
    BY DEF TasksLane
  <1>2. Tasks!Lanes = {"tasks"}
    BY PluginsAssumption DEF TasksLane, Tasks!Workers, Tasks!Lanes
  <1>3. Pool(TasksLane, Clients)!Lanes = Tasks!Lanes BY DEF Pool!Lanes, Tasks!Lanes
  <1>4. Tasks!PoolInit => Pool(TasksLane, Clients)!PoolInit
    BY <1>3 DEF Tasks!PoolInit, Pool!PoolInit
  <1>5. Tasks!PoolStart => PoolMoves(TasksLane, Clients)
    BY DEF Tasks!PoolStart, Pool!PoolStart, PoolMoves
  <1>6. ASSUME NEW c \in Clients, Tasks!PoolStop(c) PROVE PoolMoves(TasksLane, Clients)
    <2>1. Pool(TasksLane, Clients)!PoolStop(c) BY <1>6 DEF Tasks!PoolStop, Pool!PoolStop
    <2> QED BY <2>1 DEF PoolMoves
  <1>7. ASSUME NEW c \in Clients, Tasks!PoolStopped(c) PROVE PoolMoves(TasksLane, Clients)
    <2>1. Pool(TasksLane, Clients)!PoolStopped(c) BY <1>7 DEF Tasks!PoolStopped, Pool!PoolStopped
    <2> QED BY <2>1 DEF PoolMoves
  <1>8. ASSUME NEW c \in Clients, NEW l \in Tasks!Lanes, Tasks!PoolWait(c, l)
        PROVE PoolMoves(TasksLane, Clients)
    <2>1. Pool(TasksLane, Clients)!PoolWait(c, l) BY <1>8 DEF Tasks!PoolWait, Pool!PoolWait
    <2> QED BY <1>3, <2>1 DEF PoolMoves
  <1>9. ASSUME NEW c \in Clients, Tasks!PoolWaitTests(c) PROVE PoolMoves(TasksLane, Clients)
    <2>1. Pool(TasksLane, Clients)!PoolWaitTests(c)
      BY <1>9 DEF Tasks!PoolWaitTests, Pool!PoolWaitTests
    <2> QED BY <2>1 DEF PoolMoves
  <1>10. ASSUME NEW w \in Threads, Tasks!Idles(w) PROVE PoolMoves(TasksLane, Clients)
    <2>1. Pool(TasksLane, Clients)!Idles(w)
      BY <1>10
      DEF Tasks!Idles, Pool!Idles, Tasks!LoopTest, Pool!LoopTest, Tasks!FallAsleep,
          Pool!FallAsleep, Tasks!Sleep, Pool!Sleep, Tasks!BreakOff, Pool!BreakOff
    <2> QED BY <1>1, <2>1 DEF PoolMoves
  <1>11. UNCHANGED Tasks!poolVars => PoolMoves(TasksLane, Clients)
    BY DEF Tasks!poolVars, PoolMoves, pool
  <1>12. ASSUME NEW l, NEW item, Tasks!Push(l, item) PROVE Pool(TasksLane, Clients)!Push(l, item)
    BY <1>12
    DEF Tasks!Push, Pool!Push, Tasks!Asleep, Pool!Asleep, Tasks!Waiting, Pool!Waiting
  <1>13. ASSUME NEW w \in Threads, Tasks!Take(w) PROVE Pool(TasksLane, Clients)!Take(w)
    BY <1>13 DEF Tasks!Take, Pool!Take
  <1>14. ASSUME NEW w \in Threads, Tasks!Finish(w) PROVE Pool(TasksLane, Clients)!Finish(w)
    BY <1>14 DEF Tasks!Finish, Pool!Finish
  <1> QED
    BY <1>1, <1>2, <1>3, <1>4, <1>5, <1>6, <1>7, <1>8, <1>9, <1>10, <1>11, <1>12, <1>13, <1>14

\* The threads that have a task.
AtWork == {w \in Threads : handling[w] # <<>>}

TasksInv ==
  /\ Tasks!CallersTypeOK
  /\ PoolInv(TasksLane, Clients, 1 .. TaskCalls)
  /\ activeThreads = Cardinality(AtWork)
  /\ watching \in [Clients -> {"idle", "lock", "dozing", "asleep"}]
  /\ unheard \in BOOLEAN

\* What the pool's calls and ticks do to the bounds.
LEMMA TasksClock ==
  ASSUME Tasks!CallersTypeOK
  PROVE  /\ Tasks!Called => Tasks!CallersTypeOK' /\ calls' \in 1 .. TaskCalls
         /\ UNCHANGED <<calls, now>> => Tasks!CallersTypeOK'
  BY CallersAssumption, PluginsAssumption DEF Tasks!Called, Tasks!CallersTypeOK

\* The counter is that of a finite set.
LEMMA TasksCounted ==
  /\ IsFiniteSet(AtWork) /\ Cardinality(AtWork) \in Nat
  /\ Cardinality(AtWork) <= Cardinality(Threads) /\ Cardinality(Threads) \in Nat
  /\ Cardinality(AtWork) = 0 => AtWork = {}
  <1>1. IsFiniteSet(Threads) /\ AtWork \subseteq Threads BY PluginsAssumption DEF AtWork
  <1>2. IsFiniteSet(AtWork) BY <1>1, FS_Subset
  <1>3. Cardinality(AtWork) \in Nat /\ Cardinality(Threads) \in Nat
    BY <1>1, <1>2, FS_CardinalityType
  <1>4. Cardinality(AtWork) <= Cardinality(Threads) BY <1>1, FS_Subset
  <1>5. Cardinality(AtWork) = 0 => AtWork = {} BY <1>2, FS_EmptySet
  <1> QED BY <1>2, <1>3, <1>4, <1>5

\* The invariant holds of a new pool.
LEMMA TasksInit == CallersInit /\ Tasks!PoolInit /\ Tasks!OwnInit => TasksInv
  <1> SUFFICES ASSUME CallersInit, Tasks!PoolInit, Tasks!OwnInit PROVE TasksInv
    OBVIOUS
  <1>1. Tasks!CallersTypeOK
    BY CallersAssumption, PluginsAssumption DEF CallersInit, Tasks!CallersTypeOK
  <1>2. PoolInv(TasksLane, Clients, 1 .. TaskCalls) BY TasksPool, PoolInits
  <1>3. AtWork = {} BY TasksPool DEF AtWork, Tasks!PoolInit
  <1>4. Cardinality(AtWork) = 0 BY <1>3, FS_EmptySet
  <1> QED BY <1>1, <1>2, <1>4 DEF TasksInv, Tasks!OwnInit

\* Every step.
LEMMA TasksStep == TasksInv /\ [Tasks!Next]_(Tasks!vars) => TasksInv'
  <1> SUFFICES ASSUME TasksInv, [Tasks!Next]_(Tasks!vars) PROVE TasksInv'
    OBVIOUS
  <1> DEFINE items == 1 .. TaskCalls
             watches == {"idle", "lock", "dozing", "asleep"}
             Inv == PoolInv(TasksLane, Clients, items)
  <1>1. /\ Tasks!CallersTypeOK /\ Inv /\ watching \in [Clients -> watches]
        /\ unheard \in BOOLEAN /\ activeThreads = Cardinality(AtWork)
        /\ DOMAIN TasksLane = Threads /\ "NONE" \notin Clients
    BY TasksPool, PluginsAssumption DEF TasksInv
  \* The steps of nobody's tasks.
  <1>2. ASSUME PoolMoves(TasksLane, Clients) \/ (Inv' /\ handling' = handling),
               Tasks!Called \/ UNCHANGED <<calls, now>>,
               UNCHANGED activeThreads, watching' \in [Clients -> watches],
               unheard' \in BOOLEAN
        PROVE  TasksInv'
    <2>1. Inv' /\ handling' = handling BY <1>1, <1>2, PoolMoved
    <2>2. AtWork' = AtWork BY <2>1 DEF AtWork
    <2>3. Tasks!CallersTypeOK' BY <1>1, <1>2, TasksClock
    <2> QED BY <1>1, <1>2, <2>1, <2>2, <2>3 DEF TasksInv
  <1> HIDE DEF Inv, watches
  <1>3. UNCHANGED Tasks!poolVars => PoolMoves(TasksLane, Clients)
    BY DEF Tasks!poolVars, PoolMoves, pool
  <1>4. ASSUME UNCHANGED Tasks!own
        PROVE  /\ UNCHANGED <<activeThreads, watching, unheard>>
               /\ watching' \in [Clients -> watches] /\ unheard' \in BOOLEAN
    BY <1>1, <1>4 DEF Tasks!own
  <1>5. CASE UNCHANGED Tasks!vars
    <2>1. UNCHANGED <<calls, now>> /\ UNCHANGED Tasks!poolVars /\ UNCHANGED Tasks!own
      BY <1>5 DEF Tasks!vars
    <2> QED BY <1>1, <1>2, <1>3, <1>4, <2>1
  <1>6. CASE Tasks!Start
    BY <1>1, <1>2, <1>4, <1>6, TasksPool DEF Tasks!Start
  <1>7. ASSUME NEW c \in Clients, Tasks!Execute(c) PROVE TasksInv'
    <2>1. Tasks!Called /\ UNCHANGED Tasks!own BY <1>7 DEF Tasks!Execute
    <2>2. CASE Tasks!Push("tasks", calls')
      <3>1. calls' \in items BY <1>1, <2>1, TasksClock
      <3>2. Pool(TasksLane, Clients)!Push("tasks", calls') BY <2>2, TasksPool
      <3>3. "tasks" \in Pool(TasksLane, Clients)!Lanes BY TasksPool
      <3>4. Inv' /\ handling' = handling
        <4> HIDE DEF items
        <4> QED BY <1>1, <3>1, <3>2, <3>3, PoolPushed DEF Inv
      <3> QED BY <1>1, <1>2, <1>4, <2>1, <3>4
    <2>3. CASE UNCHANGED Tasks!poolVars BY <1>1, <1>2, <1>3, <1>4, <2>1, <2>3
    <2> QED BY <1>7, <2>2, <2>3 DEF Tasks!Execute
  <1>8. ASSUME NEW c \in Clients, Tasks!Stop(c) PROVE TasksInv'
    BY <1>1, <1>2, <1>4, <1>8, TasksPool DEF Tasks!Stop
  <1>9. ASSUME NEW c \in Clients, Tasks!Joined(c) PROVE TasksInv'
    <2>1. /\ stopper = c /\ stopper' = "NONE"
          /\ \A w \in Threads : worker[w] \in {"none", "ended"}
          /\ worker' = [w \in Threads |-> "none"]
          /\ queue' = [queue EXCEPT !["tasks"] = <<>>]
          /\ unheard' = (unheard \/ queue["tasks"] # <<>>)
          /\ UNCHANGED <<calls, now, running, handling, waiting, woken, stolen, missed,
                         activeThreads, watching>>
      BY <1>9, TasksPool DEF Tasks!Joined, Tasks!NoClient, Tasks!waiters
    <2>2. queue' \in [Pool(TasksLane, Clients)!Lanes -> Seq(items)]
      <3>1. <<>> \in Seq(items) OBVIOUS
      <3> QED BY <1>1, <2>1, <3>1 DEF Inv, PoolInv, PoolTypes
    <2>3. worker' \in [Threads -> Places] BY <2>1 DEF Places
    <2>4. PoolTypes(TasksLane, Clients, items)'
      BY <1>1, <2>1, <2>2, <2>3 DEF Inv, PoolInv, PoolTypes
    <2>5. Inv' BY <1>1, <2>1, <2>4 DEF Inv, PoolInv
    <2>6. unheard' \in BOOLEAN BY <2>1
    <2> QED BY <1>1, <1>2, <2>1, <2>5, <2>6
  <1>10. ASSUME NEW c \in Clients, NEW to \in watches, Tasks!Watch(c, to),
                UNCHANGED Tasks!poolVars, UNCHANGED <<activeThreads, unheard>>,
                Tasks!Called \/ UNCHANGED <<calls, now>>
         PROVE  TasksInv'
    <2>1. watching' \in [Clients -> watches] BY <1>1, <1>10 DEF Tasks!Watch
    <2> QED BY <1>1, <1>2, <1>3, <1>10, <2>1
  <1>11. ASSUME NEW c \in Clients,
                \/ Tasks!WaitAll(c) \/ Tasks!WaitAllReturns(c) \/ Tasks!WaitAllDozes(c)
                \/ Tasks!WaitAllSleeps(c)
         PROVE  TasksInv'
    BY <1>10, <1>11
    DEF watches, Tasks!WaitAll, Tasks!WaitAllReturns, Tasks!WaitAllDozes, Tasks!WaitAllSleeps
  <1>12. ASSUME NEW w \in Threads, Tasks!WorkerIdles(w) PROVE TasksInv'
    <2>1. UNCHANGED <<calls, now>>
      BY <1>12 DEF Tasks!WorkerIdles, Tasks!Idles, Tasks!LoopTest, Tasks!FallAsleep,
                   Tasks!Sleep, Tasks!BreakOff
    <2> QED BY <1>1, <1>2, <1>4, <1>12, <2>1, TasksPool DEF Tasks!WorkerIdles
  <1>13. ASSUME NEW w \in Threads, Tasks!WorkerTakes(w) PROVE TasksInv'
    <2>1. /\ Pool(TasksLane, Clients)!Take(w)
          /\ activeThreads' = activeThreads + 1 /\ UNCHANGED <<watching, unheard>>
      BY <1>13, TasksPool DEF Tasks!WorkerTakes
    <2>2. /\ Inv' /\ handling' = [handling EXCEPT ![w] = <<Head(queue[TasksLane[w]])>>]
          /\ handling[w] = <<>> /\ UNCHANGED <<calls, now>>
      BY <1>1, <2>1, PoolTakes DEF Inv
    <2>3. DOMAIN handling = Threads BY <1>1 DEF Inv, PoolInv, PoolTypes
    <2>4. AtWork' = AtWork \cup {w} /\ w \notin AtWork BY <2>2, <2>3 DEF AtWork
    <2>5. Cardinality(AtWork') = Cardinality(AtWork) + 1
      BY <2>4, TasksCounted, FS_AddElement
    <2>6. Tasks!CallersTypeOK' BY <1>1, <2>2, TasksClock
    <2> QED BY <1>1, <2>1, <2>2, <2>5, <2>6 DEF TasksInv, Inv, watches
  <1>14. ASSUME NEW w \in Threads, Tasks!WorkerRuns(w) PROVE TasksInv'
    <2>1. /\ handling[w] # <<>> /\ handling' = [handling EXCEPT ![w] = <<>>]
          /\ activeThreads' = activeThreads - 1
          /\ UNCHANGED <<calls, now, running, worker, queue, stopper, waiting, woken, stolen,
                         missed, watching, unheard>>
      BY <1>14 DEF Tasks!WorkerRuns, Tasks!waiters
    <2>2. handling \in [Threads -> Seq(items)] BY <1>1 DEF Inv, PoolInv, PoolTypes
    <2>3. handling' \in [Threads -> Seq(items)] /\ Len(<<>>) = 0
      <3>1. <<>> \in Seq(items) OBVIOUS
      <3> QED BY <2>1, <2>2, <3>1
    <2>4. PoolTypes(TasksLane, Clients, items)'
      BY <1>1, <2>1, <2>3 DEF Inv, PoolInv, PoolTypes
    <2>5. \A v \in Threads : handling'[v] = handling[v] \/ handling'[v] = <<>>
      BY <2>1, <2>2
    <2>6. \A v \in Threads : /\ Len(handling'[v]) <= 1
                             /\ worker'[v] # "busy" => handling'[v] = <<>>
      BY <1>1, <2>1, <2>3, <2>5 DEF Inv, PoolInv
    <2>7. Inv' BY <1>1, <2>1, <2>4, <2>6 DEF Inv, PoolInv
    <2>8. AtWork' = AtWork \ {w} /\ w \in AtWork BY <2>1, <2>2 DEF AtWork
    <2>9. Cardinality(AtWork') = Cardinality(AtWork) - 1
      BY <2>8, TasksCounted, FS_RemoveElement
    <2>10. Tasks!CallersTypeOK' BY <1>1, <2>1, TasksClock
    <2> QED BY <1>1, <2>1, <2>7, <2>9, <2>10 DEF TasksInv, Inv, watches
  <1>15. ASSUME NEW w \in Threads, Tasks!WorkerNotifies(w) PROVE TasksInv'
    <2>1. /\ handling[w] = <<>> /\ Pool(TasksLane, Clients)!Finish(w)
          /\ watching' = [c \in Clients |->
                            IF watching[c] = "asleep" THEN "lock" ELSE watching[c]]
          /\ unheard' = (unheard \/ \E c \in Clients : watching[c] = "dozing")
          /\ UNCHANGED activeThreads
      BY <1>15, TasksPool DEF Tasks!WorkerNotifies
    <2>2. /\ Inv' /\ handling' = [handling EXCEPT ![w] = <<>>] /\ UNCHANGED <<calls, now>>
      BY <1>1, <2>1, PoolFinishes DEF Inv
    <2>3. handling \in [Threads -> Seq(items)] BY <1>1 DEF Inv, PoolInv, PoolTypes
    <2>4. handling' = handling BY <2>1, <2>2, <2>3
    <2>5. watching' \in [Clients -> watches] BY <1>1, <2>1 DEF watches
    <2>6. unheard' \in BOOLEAN BY <2>1
    <2> QED BY <1>1, <1>2, <2>1, <2>2, <2>4, <2>5, <2>6
  <1> QED
    BY <1>5, <1>6, <1>7, <1>8, <1>9, <1>11, <1>12, <1>13, <1>14, <1>15, TasksPool
    DEF Tasks!Next

\* The invariant's types are those of the pool.
LEMMA TasksHolds == TasksInv => Tasks!TypeOK
  <1> SUFFICES ASSUME TasksInv PROVE Tasks!TypeOK
    OBVIOUS
  <1>1. activeThreads \in 0 .. Tasks!Cardinality(Tasks!Workers)
    <2>1. Tasks!Cardinality(Threads) = Cardinality(Threads)
      BY DEF Tasks!Cardinality, Cardinality
    <2> QED BY <2>1, TasksPool, TasksCounted DEF TasksInv
  <1>2. Tasks!PoolTypeOK(1 .. TaskCalls)
    BY TasksPool DEF TasksInv, PoolInv, PoolTypes, Tasks!PoolTypeOK, Tasks!NoClient, Places
  <1> QED BY <1>1, <1>2 DEF TasksInv, Tasks!TypeOK

\* waitAll() goes on only when both the queue and the counter are empty, and the counter counts
\* every thread with a task.
LEMMA TasksDone ==
  ASSUME TasksInv, [Tasks!Next]_(Tasks!vars), NEW c \in Clients,
         watching[c] = "lock", watching'[c] = "idle"
  PROVE  queue["tasks"] = <<>> /\ \A w \in Tasks!Workers : handling[w] = <<>>
  <1>1. ASSUME Tasks!AllDone
        PROVE  queue["tasks"] = <<>> /\ \A w \in Tasks!Workers : handling[w] = <<>>
    <2>1. AtWork = {} BY <1>1, TasksCounted DEF TasksInv, Tasks!AllDone
    <2> QED BY <1>1, <2>1, TasksPool DEF AtWork, Tasks!AllDone
  <1>2. ASSUME NEW d \in Clients, NEW to \in {"lock", "dozing", "asleep"}, Tasks!Watch(d, to)
        PROVE  FALSE
    BY <1>2 DEF Tasks!Watch, TasksInv
  <1>3. ASSUME NEW d \in Clients, Tasks!WaitAllReturns(d) PROVE Tasks!AllDone
    BY <1>3 DEF Tasks!WaitAllReturns
  <1>4. ASSUME NEW w \in Threads, Tasks!WorkerNotifies(w) PROVE FALSE
    BY <1>4 DEF Tasks!WorkerNotifies
  <1>5. UNCHANGED watching => FALSE OBVIOUS
  <1>6. ~UNCHANGED Tasks!vars BY <1>5 DEF Tasks!vars, Tasks!own
  <1>7. ~Tasks!Start BY <1>5 DEF Tasks!Start, Tasks!own
  <1>8. \A d \in Clients : ~Tasks!Execute(d) /\ ~Tasks!Stop(d) /\ ~Tasks!Joined(d)
    BY <1>5 DEF Tasks!Execute, Tasks!Stop, Tasks!Joined, Tasks!own
  <1>9. \A d \in Clients : ~Tasks!WaitAll(d) /\ ~Tasks!WaitAllDozes(d) /\ ~Tasks!WaitAllSleeps(d)
    BY <1>2 DEF Tasks!WaitAll, Tasks!WaitAllDozes, Tasks!WaitAllSleeps
  <1>10. \A w \in Threads : ~Tasks!WorkerIdles(w) /\ ~Tasks!WorkerTakes(w) /\ ~Tasks!WorkerRuns(w)
    BY <1>5 DEF Tasks!WorkerIdles, Tasks!WorkerTakes, Tasks!WorkerRuns, Tasks!own
  <1> QED
    BY <1>1, <1>3, <1>4, <1>6, <1>7, <1>8, <1>9, <1>10, TasksPool DEF Tasks!Next

-----------------------------------------------------------------------------
(* The data channels.                                                      *)

Message == [number : Nat, size : Limits]

\* The sums of the sizes of the first messages of a sequence.
SumsOf(seq, f) ==
  /\ f \in [0 .. Len(seq) -> Int] /\ f[0] = 0
  /\ \A i \in 1 .. Len(seq) : f[i] = f[i - 1] + seq[i].size

\* The messages of a list have a number and a size.
LEMMA MessageFields ==
  ASSUME NEW seq \in Seq(Message), NEW i \in 1 .. Len(seq)
  PROVE  seq[i] \in Message /\ seq[i].number \in Nat /\ seq[i].size \in Limits
         /\ seq[i].size \in Nat
  <1>1. seq[i] \in Message OBVIOUS
  <1>2. Limits \subseteq Nat BY CallersAssumption
  <1> QED BY <1>1, <1>2 DEF Message

\* The sums of the sizes of the first messages exist, ...
LEMMA SumsExist ==
  ASSUME NEW seq \in Seq(Message)
  PROVE  \E f : SumsOf(seq, f) /\ \A i \in 0 .. Len(seq) : f[i] \in Nat
  <1> DEFINE Upto(n, f) == /\ f \in [0 .. n -> Nat] /\ f[0] = 0
                           /\ \A i \in 1 .. n : f[i] = f[i - 1] + seq[i].size
             none == {n \in 0 .. Len(seq) : ~\E f : Upto(n, f)}
  <1>0. Len(seq) \in Nat OBVIOUS
  <1>1. none = {}
    <2> SUFFICES ASSUME none # {} PROVE FALSE
      OBVIOUS
    <2>1. none \in SUBSET Nat BY <1>0
    <2> HIDE DEF none
    <2>2. PICK n \in none : \A m \in none : n <= m BY <2>1, LeastNumber
    <2>3. n \in 0 .. Len(seq) /\ ~\E f : Upto(n, f) BY <2>2 DEF none
    <2>4. CASE n = 0
      <3>1. Upto(0, [i \in 0 .. 0 |-> 0]) OBVIOUS
      <3> QED BY <2>3, <2>4, <3>1
    <2>5. CASE n # 0
      <3>1. n - 1 \in 0 .. Len(seq) /\ n \in 1 .. Len(seq) BY <1>0, <2>3, <2>5
      <3>2. n - 1 \notin none BY <2>2, <2>3, <3>1
      <3>3. PICK f : Upto(n - 1, f) BY <3>1, <3>2 DEF none
      <3> DEFINE g == [i \in 0 .. n |-> IF i = n THEN f[n - 1] + seq[n].size ELSE f[i]]
      <3>4. seq[n].size \in Nat BY <3>1, MessageFields
      <3>5. \A i \in 0 .. n - 1 : f[i] \in Nat /\ g[i] = f[i] BY <3>1, <3>3
      <3>6. g[n] = f[n - 1] + seq[n].size BY <3>1
      <3>7. g \in [0 .. n -> Nat]
        <4>1. \A i \in 0 .. n : g[i] \in Nat
          <5> TAKE i \in 0 .. n
          <5>1. CASE i = n
            <6>1. n - 1 \in 0 .. n - 1 BY <3>1
            <6>2. f[n - 1] \in Nat BY <3>5, <6>1
            <6>3. f[n - 1] + seq[n].size \in Nat BY <3>4, <6>2
            <6> QED BY <3>6, <5>1, <6>3
          <5>2. CASE i # n
            <6>1. i \in 0 .. n - 1 BY <3>1, <5>2
            <6> QED BY <3>5, <6>1
          <5> QED BY <5>1, <5>2
        <4> QED BY <4>1
      <3>8. g[0] = 0 BY <3>1, <3>3
      <3>9. \A i \in 1 .. n : g[i] = g[i - 1] + seq[i].size
        <4> TAKE i \in 1 .. n
        <4>1. CASE i = n
          <5>1. n - 1 \in 0 .. n - 1 BY <3>1
          <5> QED BY <3>5, <3>6, <4>1, <5>1
        <4>2. CASE i # n
          <5>1. i \in 1 .. n - 1 /\ i - 1 \in 0 .. n - 1 /\ i \in 0 .. n - 1 BY <3>1, <4>2
          <5>2. f[i] = f[i - 1] + seq[i].size BY <3>3, <5>1
          <5> QED BY <3>5, <5>1, <5>2
        <4> QED BY <4>1, <4>2
      <3>10. Upto(n, g) BY <3>7, <3>8, <3>9
      <3> QED BY <2>3, <3>10
    <2> QED BY <2>4, <2>5
  <1>2. Len(seq) \in 0 .. Len(seq) BY <1>0
  <1>3. PICK f : Upto(Len(seq), f) BY <1>1, <1>2
  <1>4. f \in [0 .. Len(seq) -> Int] /\ \A i \in 0 .. Len(seq) : f[i] \in Nat BY <1>3
  <1> QED BY <1>3, <1>4 DEF SumsOf

\* ... and are determined.
LEMMA SumsAgree ==
  ASSUME NEW seq \in Seq(Message), NEW f, NEW g, SumsOf(seq, f), SumsOf(seq, g)
  PROVE  f = g
  <1> DEFINE odd == {n \in 0 .. Len(seq) : f[n] # g[n]}
  <1>0. Len(seq) \in Nat OBVIOUS
  <1>1. odd = {}
    <2> SUFFICES ASSUME odd # {} PROVE FALSE
      OBVIOUS
    <2>1. odd \in SUBSET Nat BY <1>0
    <2> HIDE DEF odd
    <2>2. PICK n \in odd : \A m \in odd : n <= m BY <2>1, LeastNumber
    <2>3. n \in 0 .. Len(seq) /\ f[n] # g[n] BY <2>2 DEF odd
    <2>4. n # 0 BY <2>3 DEF SumsOf
    <2>5. n - 1 \in 0 .. Len(seq) /\ n \in 1 .. Len(seq) BY <1>0, <2>3, <2>4
    <2>6. n - 1 \notin odd BY <2>2, <2>3, <2>5
    <2>7. f[n - 1] = g[n - 1] BY <2>5, <2>6 DEF odd
    <2> QED BY <2>3, <2>5, <2>7 DEF SumsOf
  <1> QED BY <1>1 DEF SumsOf

\* The sum of a channel's messages, as the code keeps it.
LEMMA SumIs ==
  ASSUME NEW seq \in Seq(Message), NEW f, SumsOf(seq, f)
  PROVE  Data!Sum(seq) = f[Len(seq)]
  <1> DEFINE Total(g) == [i \in 0 .. Len(seq) |-> IF i = 0 THEN 0 ELSE g[i - 1] + seq[i].size]
             total == CHOOSE g : g = Total(g)
  <1>0. Len(seq) \in Nat OBVIOUS
  <1>1. f = Total(f)
    <2>1. \A i \in 0 .. Len(seq) : f[i] = Total(f)[i]
      <3> TAKE i \in 0 .. Len(seq)
      <3>1. CASE i = 0 BY <3>1 DEF SumsOf
      <3>2. CASE i # 0
        <4>1. i \in 1 .. Len(seq) BY <1>0, <3>2
        <4> QED BY <3>2, <4>1 DEF SumsOf
      <3> QED BY <3>1, <3>2
    <2> HIDE DEF Total
    <2>2. DOMAIN Total(f) = 0 .. Len(seq) /\ Total(f) = [i \in 0 .. Len(seq) |-> Total(f)[i]]
      BY DEF Total
    <2> QED BY <2>1, <2>2 DEF SumsOf
  <1>2. total = Total(total) BY <1>1
  <1>3. ASSUME NEW n \in 0 .. Len(seq), \A m \in 0 .. n - 1 : total[m] = f[m]
        PROVE  total[n] = f[n]
    <2>1. CASE n = 0 BY <1>2, <2>1 DEF SumsOf
    <2>2. CASE n # 0
      <3>1. n \in 1 .. Len(seq) /\ n - 1 \in 0 .. n - 1 BY <1>0, <2>2
      <3>2. total[n] = total[n - 1] + seq[n].size BY <1>2, <2>2
      <3> QED BY <1>3, <3>1, <3>2 DEF SumsOf
    <2> QED BY <2>1, <2>2
  <1> HIDE DEF total
  <1> DEFINE odd == {n \in 0 .. Len(seq) : total[n] # f[n]}
  <1>4. odd = {}
    <2> SUFFICES ASSUME odd # {} PROVE FALSE
      OBVIOUS
    <2>1. odd \in SUBSET Nat BY <1>0
    <2> HIDE DEF odd
    <2>2. PICK n \in odd : \A m \in odd : n <= m BY <2>1, LeastNumber
    <2>3. n \in 0 .. Len(seq) /\ total[n] # f[n] BY <2>2 DEF odd
    <2>4. \A m \in 0 .. n - 1 : total[m] = f[m]
      <3> TAKE m \in 0 .. n - 1
      <3>1. m \in 0 .. Len(seq) /\ ~(n <= m) BY <1>0, <2>3
      <3>2. m \notin odd BY <2>2, <3>1
      <3> QED BY <3>1, <3>2 DEF odd
    <2> QED BY <1>3, <2>3, <2>4
  <1>5. total[Len(seq)] = f[Len(seq)] BY <1>0, <1>4
  <1>6. Data!Sum(seq) = total[Len(seq)] BY DEF Data!Sum, total
  <1> QED BY <1>5, <1>6

\* Nothing, one more, and what is left when the first ones are gone.
LEMMA SumsOfParts ==
  ASSUME NEW seq \in Seq(Message), NEW f, SumsOf(seq, f), NEW j \in 0 .. Len(seq),
         NEW message \in Message
  PROVE  /\ SubSeq(seq, j + 1, Len(seq)) \in Seq(Message)
         /\ SubSeq(seq, 1, j) \in Seq(Message)
         /\ Append(seq, message) \in Seq(Message)
         /\ Data!Sum(SubSeq(seq, 1, j)) = f[j]
         /\ Data!Sum(SubSeq(seq, j + 1, Len(seq))) = f[Len(seq)] - f[j]
         /\ Data!Sum(Append(seq, message)) = f[Len(seq)] + message.size
  <1>0. Len(seq) \in Nat /\ \A i \in 0 .. Len(seq) : f[i] \in Int
    <2>1. Len(seq) \in Nat OBVIOUS
    <2>2. f \in [0 .. Len(seq) -> Int] BY DEF SumsOf
    <2> QED BY <2>1, <2>2
  <1>1. /\ SubSeq(seq, 1, j) \in Seq(Message) /\ Len(SubSeq(seq, 1, j)) = j
        /\ \A i \in 1 .. j : SubSeq(seq, 1, j)[i] = seq[i]
    BY <1>0
  <1>2. Data!Sum(SubSeq(seq, 1, j)) = f[j]
    <2> DEFINE g == [i \in 0 .. j |-> f[i]]
               part1 == SubSeq(seq, 1, j)
    <2>1. \A i \in 0 .. j : i \in 0 .. Len(seq) /\ g[i] = f[i] BY <1>0
    <2>2. \A i \in 1 .. j : /\ i \in 1 .. Len(seq) /\ i - 1 \in 0 .. j
                            /\ part1[i] = seq[i]
      BY <1>0, <1>1
    <2>3. g \in [0 .. j -> Int] BY <1>0, <2>1
    <2>4. \A i \in 1 .. j : g[i] = g[i - 1] + part1[i].size
      <3> TAKE i \in 1 .. j
      <3>1. f[i] = f[i - 1] + seq[i].size BY <2>2 DEF SumsOf
      <3>2. i \in 0 .. j BY <1>0
      <3> QED BY <2>1, <2>2, <3>1, <3>2
    <2>5. g[0] = 0 BY <1>0, <2>1 DEF SumsOf
    <2>6. SumsOf(part1, g) BY <1>1, <2>3, <2>4, <2>5 DEF SumsOf
    <2>7. g[j] = f[j] BY <2>1
    <2> HIDE DEF g, part1
    <2>8. part1 \in Seq(Message) /\ Len(part1) = j BY <1>1 DEF part1
    <2> QED BY <2>6, <2>7, <2>8, SumIs DEF part1
  <1>3. /\ SubSeq(seq, j + 1, Len(seq)) \in Seq(Message)
        /\ Len(SubSeq(seq, j + 1, Len(seq))) = Len(seq) - j
        /\ \A i \in 1 .. Len(seq) - j : SubSeq(seq, j + 1, Len(seq))[i] = seq[i + j]
    <2>1. \A i \in j + 1 .. Len(seq) : seq[i] \in Message BY <1>0
    <2>2. Len(SubSeq(seq, j + 1, Len(seq))) = Len(seq) - j
      BY <1>0, SubSeqProperties
    <2>3. \A i \in 1 .. Len(seq) - j : SubSeq(seq, j + 1, Len(seq))[i] = seq[i + j]
      BY <1>0
    <2> QED BY <1>0, <2>1, <2>2, <2>3, SubSeqProperties
  <1>4. Data!Sum(SubSeq(seq, j + 1, Len(seq))) = f[Len(seq)] - f[j]
    <2> DEFINE k == Len(seq) - j
               rest2 == SubSeq(seq, j + 1, Len(seq))
               g == [i \in 0 .. k |-> f[i + j] - f[j]]
    <2>1. k \in Nat /\ \A i \in 0 .. k : i + j \in 0 .. Len(seq) BY <1>0
    <2>2. g \in [0 .. k -> Int] BY <1>0, <2>1
    <2>3. \A i \in 1 .. k : g[i] = g[i - 1] + rest2[i].size
      <3> TAKE i \in 1 .. k
      <3>1. /\ i + j \in 1 .. Len(seq) /\ i \in 0 .. k /\ i - 1 \in 0 .. k
            /\ i - 1 + j = i + j - 1
        BY <1>0, <2>1
      <3>2. f[i + j] = f[i + j - 1] + seq[i + j].size BY <3>1 DEF SumsOf
      <3>3. /\ f[i + j] \in Int /\ f[i + j - 1] \in Int /\ f[j] \in Int
            /\ seq[i + j].size \in Nat
        BY <1>0, <2>1, <3>1, MessageFields
      <3>4. g[i] = f[i + j] - f[j] /\ g[i - 1] = f[i + j - 1] - f[j] BY <3>1
      <3>5. rest2[i] = seq[i + j] BY <1>3
      <3> QED BY <3>2, <3>3, <3>4, <3>5
    <2>4. g[0] = 0 BY <1>0, <2>1
    <2>5. Len(rest2) = k /\ rest2 \in Seq(Message) BY <1>3
    <2>6. SumsOf(rest2, g) BY <2>2, <2>3, <2>4, <2>5 DEF SumsOf
    <2>7. g[k] = f[Len(seq)] - f[j]
      <3>1. k \in 0 .. k /\ k + j = Len(seq) BY <1>0, <2>1
      <3> QED BY <3>1
    <2> HIDE DEF g, rest2, k
    <2> QED BY <2>5, <2>6, <2>7, SumIs DEF rest2
  <1>5. /\ Append(seq, message) \in Seq(Message) /\ Len(Append(seq, message)) = Len(seq) + 1
        /\ \A i \in 1 .. Len(seq) : Append(seq, message)[i] = seq[i]
        /\ Append(seq, message)[Len(seq) + 1] = message
    BY <1>0, AppendProperties
  <1>6. Data!Sum(Append(seq, message)) = f[Len(seq)] + message.size
    <2> DEFINE more == Append(seq, message)
               n == Len(seq) + 1
               g == [i \in 0 .. n |-> IF i = n THEN f[Len(seq)] + message.size ELSE f[i]]
    <2>1. message.size \in Nat /\ n \in Nat
      <3>1. Limits \subseteq Nat BY CallersAssumption
      <3>2. message.size \in Limits BY DEF Message
      <3>3. n \in Nat BY <1>0
      <3>4. message.size \in Nat BY <3>1, <3>2
      <3> HIDE DEF n
      <3> QED BY <3>3, <3>4
    <2>2. \A i \in 0 .. Len(seq) : i \in 0 .. n /\ i # n /\ g[i] = f[i] BY <1>0
    <2>3. g[n] = f[Len(seq)] + message.size BY <1>0
    <2>4. g \in [0 .. n -> Int]
      <3>1. \A i \in 0 .. n : (IF i = n THEN f[Len(seq)] + message.size ELSE f[i]) \in Int
        <4> TAKE i \in 0 .. n
        <4>1. i # n => i \in 0 .. Len(seq) BY <1>0
        <4>2. Len(seq) \in 0 .. Len(seq) BY <1>0
        <4> QED BY <1>0, <2>1, <4>1, <4>2
      <3> QED BY <3>1
    <2>5. \A i \in 1 .. n : g[i] = g[i - 1] + more[i].size
      <3> TAKE i \in 1 .. n
      <3>1. CASE i = n
        <4>1. i - 1 = Len(seq) /\ i - 1 \in 0 .. Len(seq) BY <1>0, <3>1
        <4>2. more[i] = message BY <1>5, <3>1
        <4> QED BY <2>2, <2>3, <3>1, <4>1, <4>2
      <3>2. CASE i # n
        <4>1. i \in 1 .. Len(seq) /\ i \in 0 .. Len(seq) /\ i - 1 \in 0 .. Len(seq)
          BY <1>0, <3>2
        <4>2. f[i] = f[i - 1] + seq[i].size BY <4>1 DEF SumsOf
        <4>3. more[i] = seq[i] BY <1>5, <4>1
        <4> QED BY <2>2, <4>1, <4>2, <4>3
      <3> QED BY <3>1, <3>2
    <2>6. g[0] = 0 BY <1>0, <2>2 DEF SumsOf
    <2>7. Len(more) = n /\ more \in Seq(Message) BY <1>5
    <2> HIDE DEF g, more, n
    <2>8. SumsOf(more, g) BY <2>4, <2>5, <2>6, <2>7 DEF SumsOf
    <2> QED BY <2>3, <2>7, <2>8, SumIs DEF more
  <1> QED BY <1>1, <1>2, <1>3, <1>4, <1>5, <1>6

\* The sum of no messages.
LEMMA SumOfNone == Data!Sum(<<>>) = 0
  <1>1. <<>> \in Seq(Message) /\ Len(<<>>) = 0 OBVIOUS
  <1>2. PICK f : SumsOf(<<>>, f) BY <1>1, SumsExist
  <1> QED BY <1>1, <1>2, SumIs DEF SumsOf

DataTypes ==
  /\ Data!CallersTypeOK
  /\ life \in {"absent", "present", "deleted"} /\ closed \in BOOLEAN
  /\ maxSize \in Limits
  /\ messages \in Seq(Message) /\ currentSize \in Nat
  /\ receivers \in [Clients -> {"idle", "send", "lock", "batch", "dozing", "asleep"}]
  /\ sent \in Nat /\ taken \in Seq(Nat) /\ unnoticed \in BOOLEAN /\ dangling \in BOOLEAN

\* A channel that is not made yet is empty.
DataSizes ==
  /\ Data!SizesAgree
  /\ life = "absent" => messages = <<>>

\* What is queued was sent in this order, after what was taken.
DataOrder ==
  /\ \A i, k \in 1 .. Len(messages) : i < k => messages[i].number < messages[k].number
  /\ \A i \in 1 .. Len(messages) : messages[i].number <= sent
  /\ \A k \in 1 .. Len(taken) : taken[k] <= sent
  /\ Data!TakenInOrder

DataInv == DataTypes /\ DataSizes /\ DataOrder

\* What the channel's calls do to the bounds.
LEMMA DataClock ==
  ASSUME Data!CallersTypeOK
  PROVE  /\ Data!Called => Data!CallersTypeOK'
         /\ UNCHANGED <<calls, now>> => Data!CallersTypeOK'
  BY CallersAssumption, PluginsAssumption DEF Data!Called, Data!CallersTypeOK

\* The invariant holds of a new channel.
LEMMA DataInit == Data!Init => DataInv
  <1> SUFFICES ASSUME Data!Init PROVE DataInv
    OBVIOUS
  <1>1. Data!CallersTypeOK
    BY CallersAssumption, PluginsAssumption
    DEF Data!Init, Data!CallersInit, Data!CallersTypeOK
  <1>2. maxSize \in Limits /\ messages = <<>> /\ currentSize = 0 /\ closed = FALSE
    BY DEF Data!Init, Data!Absent
  <1>3. maxSize \in Nat BY <1>2, CallersAssumption
  <1>4. DataTypes
    <2>1. messages \in Seq(Message) /\ taken \in Seq(Nat) BY <1>2 DEF Data!Init
    <2> QED BY <1>1, <1>2, <2>1 DEF DataTypes, Data!Init
  <1>5. DataSizes BY <1>2, <1>3, SumOfNone DEF DataSizes, Data!SizesAgree
  <1>6. DataOrder
    <2>1. Len(messages) = 0 /\ Len(taken) = 0 BY <1>2 DEF Data!Init
    <2> QED BY <2>1 DEF DataOrder, Data!TakenInOrder
  <1> QED BY <1>4, <1>5, <1>6 DEF DataInv

\* A message is taken from the front.
LEMMA DataTaken ==
  ASSUME DataInv, NEW c \in Clients, Data!ReceiveTakes(c)
  PROVE  DataInv'
  <1> DEFINE n == Len(messages)
  <1>1. /\ messages # <<>> /\ messages' = Tail(messages)
        /\ currentSize' = currentSize - Head(messages).size
        /\ taken' = Append(taken, Head(messages).number)
        /\ UNCHANGED <<calls, now, life, maxSize, closed, sent, unnoticed, dangling>>
    BY DEF Data!ReceiveTakes
  <1>2. /\ messages \in Seq(Message) /\ n \in Nat /\ n >= 1 /\ 1 \in 1 .. n
        /\ Head(messages) = messages[1] /\ maxSize \in Nat /\ currentSize \in Nat
    BY <1>1, CallersAssumption DEF DataInv, DataTypes
  <1>3. Tail(messages) = SubSeq(messages, 2, n) BY <1>2
  <1>4. /\ Len(messages') = n - 1
        /\ \A i \in 1 .. n - 1 : messages'[i] = messages[i + 1]
    BY <1>1, <1>2
  <1>5. PICK f : SumsOf(messages, f) /\ \A i \in 0 .. n : f[i] \in Nat
    BY <1>2, SumsExist
  <1>6. /\ messages' \in Seq(Message) /\ Data!Sum(messages') = f[n] - f[1]
        /\ f[1] = Head(messages).size /\ f[n] = currentSize /\ f[1] \in Nat
    <2>1. messages[1] \in Message BY <1>2, MessageFields
    <2>2. 1 + 1 = 2 /\ 1 \in 0 .. n BY <1>2
    <2>3. /\ SubSeq(messages, 1 + 1, n) \in Seq(Message)
          /\ Data!Sum(SubSeq(messages, 1 + 1, n)) = f[n] - f[1]
      <3> HIDE DEF n
      <3> QED BY <1>2, <1>5, <2>1, <2>2, SumsOfParts DEF n
    <2>4. f[1] = messages[1].size
      <3>1. f[1] = f[0] + messages[1].size /\ f[0] = 0 BY <1>2, <1>5 DEF SumsOf
      <3>2. messages[1].size \in Nat BY <1>2, MessageFields
      <3> QED BY <3>1, <3>2
    <2>5. f[n] = currentSize BY <1>2, <1>5, SumIs DEF DataInv, DataSizes, Data!SizesAgree
    <2> QED BY <1>1, <1>2, <1>3, <1>5, <2>2, <2>3, <2>4, <2>5
  <1>7. currentSize' = Data!Sum(messages') BY <1>1, <1>6
  <1>8. currentSize' \in Nat
    <2>1. PICK g : SumsOf(messages', g) /\ \A i \in 0 .. Len(messages') : g[i] \in Nat
      BY <1>6, SumsExist
    <2>2. Len(messages') \in 0 .. Len(messages') BY <1>2, <1>4
    <2> QED BY <1>6, <1>7, <2>1, <2>2, SumIs
  <1>9. currentSize' > maxSize' => Len(messages') = 1
    <2> SUFFICES ASSUME currentSize' > maxSize' PROVE FALSE
      OBVIOUS
    <2>1. currentSize > maxSize BY <1>1, <1>2, <1>6, <1>8
    <2>2. n = 1 BY <2>1 DEF DataInv, DataSizes, Data!SizesAgree
    <2>3. currentSize' = 0 BY <1>6, <1>7, <2>2
    <2> QED BY <1>1, <1>2, <2>3
  <1>10. DataSizes'
    <2>1. life # "absent" BY DEF Data!ReceiveTakes, Data!Receiving
    <2> QED BY <1>1, <1>7, <1>9, <2>1 DEF DataSizes, Data!SizesAgree
  <1>11. /\ taken \in Seq(Nat) /\ Head(messages).number \in Nat /\ Len(taken) \in Nat
         /\ taken' \in Seq(Nat) /\ Len(taken') = Len(taken) + 1
         /\ \A k \in 1 .. Len(taken) : taken'[k] = taken[k]
         /\ taken'[Len(taken) + 1] = messages[1].number
    <2>1. taken \in Seq(Nat) BY DEF DataInv, DataTypes
    <2>2. Head(messages).number \in Nat BY <1>2, MessageFields
    <2> QED BY <1>1, <1>2, <2>1, <2>2
  <1>12. DataTypes'
    <2>1. receivers' \in [Clients -> {"idle", "send", "lock", "batch", "dozing", "asleep"}]
      BY DEF Data!ReceiveTakes, Data!Goes, DataInv, DataTypes
    <2> QED BY <1>1, <1>6, <1>8, <1>11, <2>1, DataClock DEF DataInv, DataTypes
  <1>13. DataOrder'
    <2>1. \A i \in 1 .. n : messages[i].number \in Nat BY <1>2, MessageFields
    <2>2. \A k \in 1 .. Len(taken) : taken[k] \in Nat BY <1>11
    <2>3. sent \in Nat BY DEF DataInv, DataTypes
    <2>4. \A i \in 1 .. Len(messages') : /\ i + 1 \in 1 .. n /\ 1 < i + 1
                                         /\ messages'[i] = messages[i + 1]
      BY <1>2, <1>4
    <2>5. \A i, k \in 1 .. Len(messages') :
            i < k => messages'[i].number < messages'[k].number
      <3> TAKE i, k \in 1 .. Len(messages')
      <3>1. i < k => i + 1 < k + 1 BY <1>2, <1>4
      <3> QED BY <2>4, <3>1 DEF DataInv, DataOrder
    <2>6. \A i \in 1 .. Len(messages') : messages'[i].number <= sent
      BY <2>4 DEF DataInv, DataOrder
    <2>7. \A k \in 1 .. Len(taken') :
            /\ taken'[k] <= sent
            /\ \A i \in 1 .. Len(messages') : taken'[k] < messages'[i].number
      <3> TAKE k \in 1 .. Len(taken')
      <3>1. CASE k \in 1 .. Len(taken)
        BY <1>11, <2>4, <3>1 DEF DataInv, DataOrder, Data!TakenInOrder
      <3>2. CASE k = Len(taken) + 1
        BY <1>2, <1>11, <2>4, <3>2 DEF DataInv, DataOrder
      <3> QED BY <1>11, <3>1, <3>2
    <2>8. \A j, k \in 1 .. Len(taken') : j < k => taken'[j] < taken'[k]
      <3> SUFFICES ASSUME NEW j \in 1 .. Len(taken'), NEW k \in 1 .. Len(taken'), j < k
                   PROVE  taken'[j] < taken'[k]
        OBVIOUS
      <3>1. j \in 1 .. Len(taken) BY <1>11
      <3>2. CASE k \in 1 .. Len(taken)
        BY <1>11, <3>1, <3>2 DEF DataInv, DataOrder, Data!TakenInOrder
      <3>3. CASE k = Len(taken) + 1
        BY <1>2, <1>11, <3>1, <3>3 DEF DataInv, DataOrder, Data!TakenInOrder
      <3>4. k \in 1 .. Len(taken) \/ k = Len(taken) + 1
        <4>1. Len(taken') = Len(taken) + 1 /\ Len(taken) \in Nat BY <1>11
        <4> QED BY <4>1
      <3> QED BY <3>2, <3>3, <3>4
    <2> QED BY <1>1, <2>5, <2>6, <2>7, <2>8 DEF DataOrder, Data!TakenInOrder
  <1> QED BY <1>10, <1>12, <1>13 DEF DataInv

\* A message is sent, and those before it that have no room with it go.
LEMMA DataSent ==
  ASSUME DataInv, NEW c \in Clients, NEW size \in Limits, Data!Send(c, size)
  PROVE  DataInv'
  <1> DEFINE n == Len(messages)
             j == Data!Dropped(size)
             Left(i) == currentSize - Data!Sum(SubSeq(messages, 1, i))
             Fits(i) == i = n \/ Left(i) + size <= maxSize
             message == [number |-> sent + 1, size |-> size]
             kept == SubSeq(messages, j + 1, n)
  <1>1. /\ life = "present"
        /\ messages' = Append(kept, message)
        /\ currentSize' = Left(j) + size
        /\ sent' = sent + 1
        /\ UNCHANGED <<calls, now, life, maxSize, closed, taken, unnoticed, dangling>>
    BY DEF Data!Send, Data!Kept, Data!SizeOfKept
  <1>2. /\ messages \in Seq(Message) /\ n \in Nat /\ maxSize \in Nat /\ currentSize \in Nat
        /\ size \in Nat /\ sent \in Nat /\ message \in Message
    BY CallersAssumption DEF DataInv, DataTypes, Message
  <1> HIDE DEF message
  <1>3. /\ j \in 0 .. n /\ Fits(j)
    <2> DEFINE fit == {i \in 0 .. n : Fits(i)}
    <2>1. n \in fit BY <1>2
    <2>2. fit \in SUBSET Nat /\ fit # {} BY <1>2, <2>1
    <2>3. PICK least \in fit : \A i \in fit : least <= i
      <3> HIDE DEF fit
      <3> QED BY <2>2, LeastNumber
    <2>4. \A i \in 0 .. least - 1 : Left(i) + size > maxSize
      <3> TAKE i \in 0 .. least - 1
      <3>1. i \in 0 .. n /\ ~(least <= i) BY <1>2, <2>3
      <3>2. i \notin fit BY <2>3, <3>1
      <3>3. ~(Left(i) + size <= maxSize) BY <3>1, <3>2
      <3>4. Left(i) \in Int
        <4>1. PICK f : SumsOf(messages, f) BY <1>2, SumsExist
        <4>2. f[i] \in Int
          <5>1. f \in [0 .. n -> Int] BY <4>1 DEF SumsOf
          <5> QED BY <3>1, <5>1
        <4>3. Data!Sum(SubSeq(messages, 1, i)) = f[i]
          BY <1>2, <3>1, <4>1, SumsOfParts
        <4> QED BY <1>2, <4>2, <4>3
      <3> HIDE DEF Left
      <3> QED BY <1>2, <3>3, <3>4
    <2>5. \E i \in 0 .. n : Fits(i) /\ \A k \in 0 .. i - 1 : Left(k) + size > maxSize
      BY <2>3, <2>4
    <2>6. j = CHOOSE i \in 0 .. n : Fits(i) /\ \A k \in 0 .. i - 1 : Left(k) + size > maxSize
      BY DEF Data!Dropped
    <2> HIDE DEF j, n, Left
    <2> QED BY <2>5, <2>6
  <1> HIDE DEF j
  <1>4. PICK f : SumsOf(messages, f) /\ \A i \in 0 .. n : f[i] \in Nat
    BY <1>2, SumsExist
  <1>5. /\ kept \in Seq(Message) /\ Data!Sum(kept) = f[n] - f[j] /\ f[n] = currentSize
        /\ Left(j) = f[n] - f[j] /\ f[n] \in Nat /\ f[j] \in Nat
    <2>1. /\ kept \in Seq(Message) /\ Data!Sum(kept) = f[n] - f[j]
          /\ Data!Sum(SubSeq(messages, 1, j)) = f[j]
      BY <1>2, <1>3, <1>4, SumsOfParts
    <2>2. f[n] = currentSize BY <1>2, <1>4, SumIs DEF DataInv, DataSizes, Data!SizesAgree
    <2> QED BY <1>2, <1>3, <1>4, <2>1, <2>2
  <1>6. /\ Len(kept) = n - j
        /\ \A i \in 1 .. n - j : i + j \in 1 .. n /\ kept[i] = messages[i + j]
    BY <1>2, <1>3, SubSeqProperties
  <1> HIDE DEF kept, Left
  <1>7. PICK g : SumsOf(kept, g) /\ \A i \in 0 .. Len(kept) : g[i] \in Nat
    BY <1>5, SumsExist
  <1>8. /\ g[Len(kept)] = f[n] - f[j] /\ g[Len(kept)] \in Nat
    <2>1. Len(kept) \in 0 .. Len(kept) BY <1>3, <1>6
    <2> QED BY <1>5, <1>7, <2>1, SumIs
  <1>9. message.size = size /\ message.number = sent + 1 BY DEF message
  <1>10. /\ messages' \in Seq(Message) /\ Data!Sum(messages') = g[Len(kept)] + size
    <2>1. 0 \in 0 .. Len(kept) BY <1>3, <1>6
    <2> QED BY <1>1, <1>2, <1>5, <1>7, <1>9, <2>1, SumsOfParts
  <1>11. currentSize' = Data!Sum(messages') /\ currentSize' \in Nat
    BY <1>1, <1>2, <1>5, <1>8, <1>10
  <1>12. /\ Len(messages') = n - j + 1
         /\ \A i \in 1 .. n - j : messages'[i] = messages[i + j]
         /\ messages'[n - j + 1] = message
    <2>1. /\ Len(messages') = Len(kept) + 1 /\ Len(kept) \in Nat
          /\ \A i \in 1 .. Len(kept) : messages'[i] = kept[i]
          /\ messages'[Len(kept) + 1] = message
      BY <1>1, <1>2, <1>5, AppendProperties
    <2>2. Len(kept) = n - j BY <1>6
    <2> HIDE DEF n
    <2> QED BY <1>6, <2>1, <2>2
  <1>13. currentSize' > maxSize' => Len(messages') = 1
    <2> SUFFICES ASSUME currentSize' > maxSize PROVE Len(messages') = 1
      BY <1>1
    <2>1. ~(Left(j) + size <= maxSize) BY <1>1, <1>2, <1>5
    <2> QED BY <1>2, <1>3, <1>12, <2>1
  <1>14. DataSizes' BY <1>1, <1>11, <1>13 DEF DataSizes, Data!SizesAgree
  <1>15. DataTypes'
    <2>1. receivers' \in [Clients -> {"idle", "send", "lock", "batch", "dozing", "asleep"}]
      BY DEF Data!Send, Data!Goes, Data!Asleep, DataInv, DataTypes
    <2> QED BY <1>1, <1>2, <1>10, <1>11, <2>1, DataClock DEF DataInv, DataTypes
  <1>16. DataOrder'
    <2>1. \A i \in 1 .. n : messages[i].number \in Nat /\ messages[i].number <= sent
      BY <1>2, MessageFields DEF DataInv, DataOrder
    <2>2. \A k \in 1 .. Len(taken) : taken[k] \in Nat /\ taken[k] <= sent
      <3>1. taken \in Seq(Nat) BY DEF DataInv, DataTypes
      <3> QED BY <3>1 DEF DataInv, DataOrder
    <2>3. \A i \in 1 .. Len(messages') :
            \/ i \in 1 .. n - j /\ i + j \in 1 .. n /\ messages'[i] = messages[i + j]
            \/ i = n - j + 1 /\ messages'[i].number = sent + 1
      <3> TAKE i \in 1 .. Len(messages')
      <3>1. i \in 1 .. n - j \/ i = n - j + 1 BY <1>2, <1>3, <1>12
      <3> QED BY <1>6, <1>9, <1>12, <3>1
    <2>4. \A i, k \in 1 .. Len(messages') :
            i < k => messages'[i].number < messages'[k].number
      <3> SUFFICES ASSUME NEW i \in 1 .. Len(messages'), NEW k \in 1 .. Len(messages'), i < k
                   PROVE  messages'[i].number < messages'[k].number
        OBVIOUS
      <3>1. i \in 1 .. n - j /\ i + j \in 1 .. n /\ messages'[i] = messages[i + j]
        BY <1>2, <1>3, <1>12, <2>3
      <3>2. CASE k = n - j + 1
        <4>1. messages'[k].number = sent + 1 BY <1>9, <1>12, <3>2
        <4>2. /\ messages[i + j].number \in Nat /\ messages[i + j].number <= sent
              /\ messages'[i].number = messages[i + j].number
          BY <2>1, <3>1
        <4> QED BY <1>2, <4>1, <4>2
      <3>3. CASE k # n - j + 1
        <4>1. k + j \in 1 .. n /\ messages'[k] = messages[k + j] /\ i + j < k + j
          BY <1>2, <1>3, <1>12, <2>3, <3>3
        <4> QED BY <3>1, <4>1 DEF DataInv, DataOrder
      <3> QED BY <3>2, <3>3
    <2>5. \A i \in 1 .. Len(messages') : messages'[i].number <= sent'
      BY <1>1, <1>2, <2>1, <2>3
    <2>6. \A k \in 1 .. Len(taken) : taken[k] <= sent' BY <1>1, <1>2, <2>2
    <2>7. \A k \in 1 .. Len(taken) : \A i \in 1 .. Len(messages') :
            taken[k] < messages'[i].number
      <3> TAKE k \in 1 .. Len(taken)
      <3> TAKE i \in 1 .. Len(messages')
      <3>1. CASE i \in 1 .. n - j
        BY <1>6, <1>12, <3>1 DEF DataInv, DataOrder, Data!TakenInOrder
      <3>2. CASE i = n - j + 1 BY <1>2, <1>9, <1>12, <2>2, <3>2
      <3> QED BY <2>3, <3>1, <3>2
    <2> QED
      BY <1>1, <2>4, <2>5, <2>6, <2>7 DEF DataInv, DataOrder, Data!TakenInOrder
  <1> QED BY <1>14, <1>15, <1>16 DEF DataInv

\* Every step.
LEMMA DataStep == DataInv /\ [Data!Next]_(Data!vars) => DataInv'
  <1> SUFFICES ASSUME DataInv, [Data!Next]_(Data!vars) PROVE DataInv'
    OBVIOUS
  <1> DEFINE places == {"idle", "send", "lock", "batch", "dozing", "asleep"}
  \* The steps that leave the messages alone.
  <1>1. ASSUME UNCHANGED <<messages, currentSize, maxSize, sent, taken>>,
               life' = life \/ (life # "absent" /\ life' = "deleted"),
               Data!CallersTypeOK', closed' \in BOOLEAN, unnoticed' \in BOOLEAN,
               dangling' \in BOOLEAN, receivers' \in [Clients -> places]
        PROVE  DataInv'
    <2>1. DataTypes' BY <1>1 DEF DataInv, DataTypes
    <2>2. DataSizes' BY <1>1 DEF DataInv, DataSizes, Data!SizesAgree
    <2>3. DataOrder' BY <1>1 DEF DataInv, DataOrder, Data!TakenInOrder
    <2> QED BY <2>1, <2>2, <2>3 DEF DataInv
  <1>2. /\ receivers \in [Clients -> places] /\ Data!CallersTypeOK
        /\ closed \in BOOLEAN /\ unnoticed \in BOOLEAN /\ dangling \in BOOLEAN
    BY DEF DataInv, DataTypes
  <1>3. CASE UNCHANGED Data!vars
    BY <1>1, <1>2, <1>3, DataClock
    DEF Data!vars, Data!own, Data!channel, Data!past
  <1>4. ASSUME NEW size \in Limits, Data!CreateChannel(size) PROVE DataInv'
    <2>1. /\ life = "absent" /\ life' = "present" /\ maxSize' = size /\ Data!CallersTypeOK'
          /\ UNCHANGED <<closed, messages, currentSize, receivers, sent, taken, unnoticed,
                         dangling>>
      BY <1>2, <1>4, DataClock DEF Data!CreateChannel, Data!past
    <2>2. DataTypes' BY <1>4, <2>1 DEF DataInv, DataTypes
    <2>3. DataOrder' BY <2>1 DEF DataInv, DataOrder, Data!TakenInOrder
    <2>4. DataSizes'
      <3>1. messages = <<>> /\ currentSize = Data!Sum(messages)
        BY <2>1 DEF DataInv, DataSizes, Data!SizesAgree
      <3>2. currentSize = 0 /\ size \in Nat BY <3>1, SumOfNone, CallersAssumption
      <3> QED BY <2>1, <3>1, <3>2 DEF DataSizes, Data!SizesAgree
    <2> QED BY <2>2, <2>3, <2>4 DEF DataInv
  <1>5. CASE Data!DeleteChannel
    <2>1. /\ UNCHANGED <<messages, currentSize, maxSize, sent, taken, receivers, unnoticed>>
          /\ life = "present" /\ life' = "deleted" /\ closed' = TRUE
          /\ dangling' = (Data!Inside # {})
      BY <1>5 DEF Data!DeleteChannel
    <2>2. Data!CallersTypeOK' BY <1>2, <1>5, DataClock DEF Data!DeleteChannel
    <2>3. dangling' \in BOOLEAN BY <2>1
    <2>4. receivers' \in [Clients -> places] /\ closed' \in BOOLEAN /\ unnoticed' \in BOOLEAN
      BY <1>2, <2>1
    <2> HIDE DEF places
    <2> QED BY <1>1, <2>1, <2>2, <2>3, <2>4
  <1>6. CASE Data!Close
    <2>1. /\ UNCHANGED <<messages, currentSize, maxSize, sent, taken, life, dangling>>
          /\ closed' = TRUE /\ unnoticed' = (unnoticed \/ ~Data!MutexFree)
          /\ receivers' = [c \in Clients |-> IF c \in Data!Asleep THEN "lock"
                                             ELSE receivers[c]]
      BY <1>6 DEF Data!Close, Data!Woken
    <2>2. Data!CallersTypeOK' BY <1>2, <1>6, DataClock DEF Data!Close
    <2>3. receivers' \in [Clients -> places] BY <1>2, <2>1
    <2>4. unnoticed' \in BOOLEAN BY <2>1
    <2>5. closed' \in BOOLEAN /\ dangling' \in BOOLEAN BY <1>2, <2>1
    <2> HIDE DEF places
    <2> QED BY <1>1, <2>1, <2>2, <2>3, <2>4, <2>5
  <1>7. CASE Data!Clear
    <2>1. /\ life = "present" /\ messages' = <<>> /\ currentSize' = 0
          /\ UNCHANGED <<life, maxSize, closed, receivers, sent, taken, unnoticed, dangling>>
      BY <1>7 DEF Data!Clear, Data!past
    <2>2. Data!CallersTypeOK' BY <1>2, <1>7, DataClock DEF Data!Clear
    <2>3. messages' \in Seq(Message) /\ Len(messages') = 0 BY <2>1
    <2>4. DataTypes' BY <2>1, <2>2, <2>3 DEF DataInv, DataTypes
    <2>5. DataSizes'
      <3>1. maxSize \in Nat BY CallersAssumption DEF DataInv, DataTypes
      <3> QED BY <2>1, <3>1, SumOfNone DEF DataSizes, Data!SizesAgree
    <2>6. DataOrder' BY <2>1, <2>3 DEF DataInv, DataOrder, Data!TakenInOrder
    <2> QED BY <2>4, <2>5, <2>6 DEF DataInv
  <1>8. ASSUME NEW c \in Clients, NEW size \in Limits, Data!Send(c, size) PROVE DataInv'
    BY <1>8, DataSent
  <1>9. ASSUME NEW c \in Clients, Data!ReceiveTakes(c) PROVE DataInv'
    BY <1>9, DataTaken
  <1>10. ASSUME NEW c \in Clients, NEW to \in places, Data!Goes(c, to),
                UNCHANGED <<life, maxSize, closed, messages, currentSize, sent, taken,
                            unnoticed, dangling>>,
                Data!Called \/ UNCHANGED <<calls, now>>
         PROVE  DataInv'
    <2>1. receivers' \in [Clients -> places] BY <1>2, <1>10 DEF Data!Goes
    <2>2. Data!CallersTypeOK' BY <1>2, <1>10, DataClock
    <2> HIDE DEF places
    <2> QED BY <1>1, <1>2, <1>10, <2>1, <2>2
  <1>11. ASSUME NEW c \in Clients, Data!SendTests(c) PROVE DataInv'
    BY <1>10, <1>11 DEF Data!SendTests, Data!Enters, Data!channel, Data!past
  <1>12. ASSUME NEW c \in Clients, NEW how \in {"lock", "batch"}, Data!Receive(c, how)
         PROVE  DataInv'
    BY <1>10, <1>12 DEF Data!Receive, Data!Enters, Data!channel, Data!past
  <1>13. ASSUME NEW c \in Clients,
                Data!ReceiveWaits(c) \/ Data!ReceiveSleeps(c) \/ Data!ReceiveNothing(c)
         PROVE  DataInv'
    BY <1>10, <1>13
    DEF Data!ReceiveWaits, Data!ReceiveSleeps, Data!ReceiveNothing, Data!channel, Data!past
  <1> QED
    BY <1>3, <1>4, <1>5, <1>6, <1>7, <1>8, <1>9, <1>11, <1>12, <1>13 DEF Data!Next

\* What the invariant is for.
LEMMA DataHolds ==
  DataInv => Data!TypeOK /\ Data!SizesAgree /\ Data!TakenInOrder
  BY DEF DataInv, DataTypes, DataSizes, DataOrder, Data!TypeOK, Message

-----------------------------------------------------------------------------
(* The timer service.                                                      *)

TimersTypes ==
  /\ timing \in BOOLEAN /\ stopping \in BOOLEAN /\ slept \in BOOLEAN
  /\ timers \in [Timers!TimerIds -> [next : Nat, interval : Limits \cup {0}]]
  /\ cancelled \subseteq Timers!TimerIds /\ ready \subseteq Timers!TimerIds
  /\ timer \in {"none", "loop", "scan", "awake", "fire", "ended", "terminated"}
               \cup Timers!Dozing \cup Timers!Asleep
  /\ wakeAt \in Nat
  /\ due \in [Timers!TimerIds -> Nat] /\ shots \in [Timers!TimerIds -> Nat]

\* What was collected or called was due; a single shot in the table was neither; and the
\* identifiers to come are unused.
TimersUsed ==
  /\ \A id \in ready : due[id] \in 1 .. now
  /\ \A id \in Timers!TimerIds : shots[id] > 0 => due[id] \in 1 .. now
  /\ \A id \in Timers!Active : /\ timers[id].next >= 1
                               /\ timers[id].interval = 0 => shots[id] = 0 /\ id \notin ready
  /\ \A id \in Timers!TimerIds : id > calls =>
       timers[id] = Timers!NoTimer /\ shots[id] = 0 /\ id \notin ready

TimersInv == Timers!CallersTypeOK /\ TimersTypes /\ TimersUsed

\* What the service's calls and ticks do to the bounds.
LEMMA TimersClock ==
  ASSUME Timers!CallersTypeOK
  PROVE  /\ Timers!Called => /\ Timers!CallersTypeOK' /\ calls' \in Timers!TimerIds
                             /\ calls' = calls + 1 /\ now' = now
         /\ Timers!Elapse => Timers!CallersTypeOK' /\ calls' = calls /\ now' = now + 1
         /\ UNCHANGED <<calls, now>> => Timers!CallersTypeOK'
         /\ calls \in Nat /\ now \in Nat /\ now >= 1
  BY CallersAssumption, PluginsAssumption
  DEF Timers!Called, Timers!Elapse, Timers!CallersTypeOK, Timers!TimerIds

\* The invariant holds of a new service.
LEMMA TimersInit == Timers!Init => TimersInv
  <1> SUFFICES ASSUME Timers!Init PROVE TimersInv
    OBVIOUS
  <1>1. Timers!CallersTypeOK
    BY CallersAssumption, PluginsAssumption
    DEF Timers!Init, Timers!CallersInit, Timers!CallersTypeOK
  <1>2. Timers!Active = {} BY DEF Timers!Init, Timers!Active
  <1>3. TimersTypes BY DEF TimersTypes, Timers!Init, Timers!NoTimer
  <1> QED BY <1>1, <1>2, <1>3 DEF TimersInv, TimersUsed, Timers!Init

\* The worker collects what is due and gives the others their next time.
LEMMA TimersScan ==
  ASSUME TimersInv, Timers!WorkerScans
  PROVE  TimersInv'
  <1>1. /\ Timers!CallersTypeOK' /\ calls' = calls /\ now' = now
        /\ calls \in Nat /\ now \in Nat /\ now >= 1
    BY TimersClock DEF TimersInv, Timers!WorkerScans
  <1> DEFINE Due == Timers!Ready
  <1>2. /\ timers' = Timers!Collected /\ ready' = Due
        /\ due' = [id \in Timers!TimerIds |-> IF id \in Due THEN timers[id].next ELSE due[id]]
        /\ UNCHANGED <<timing, cancelled, stopping, shots, slept>>
    BY DEF Timers!WorkerScans
  <1>3. /\ Due \subseteq Timers!Active /\ Timers!Active \subseteq Timers!TimerIds
        /\ \A id \in Due : timers[id].next <= now
    BY DEF Timers!Ready, Timers!Active
  <1>4. timers \in [Timers!TimerIds -> [next : Nat, interval : Limits \cup {0}]]
    BY DEF TimersInv, TimersTypes
  <1>5. ASSUME NEW id \in Timers!TimerIds
        PROVE  /\ timers'[id] \in [next : Nat, interval : Limits \cup {0}]
               /\ id \notin Due => timers'[id] = timers[id]
               /\ id \in Due /\ timers[id].interval = 0 => timers'[id] = Timers!NoTimer
               /\ id \in Due /\ timers[id].interval # 0 =>
                    /\ timers'[id].next = now + timers[id].interval
                    /\ timers'[id].interval = timers[id].interval
    <2>1. timers'[id] = IF id \notin Due THEN timers[id]
                        ELSE IF timers[id].interval = 0 THEN Timers!NoTimer
                        ELSE [timers[id] EXCEPT !.next = now + timers[id].interval]
      BY <1>2, <1>5 DEF Timers!Collected
    <2>2. timers[id] \in [next : Nat, interval : Limits \cup {0}] BY <1>4
    <2>3. timers[id].interval \in Nat BY <2>2, CallersAssumption
    <2>4. Timers!NoTimer \in [next : Nat, interval : Limits \cup {0}] BY DEF Timers!NoTimer
    <2>5. CASE id \notin Due BY <2>1, <2>2, <2>5
    <2>6. CASE id \in Due /\ timers[id].interval = 0 BY <2>1, <2>4, <2>6
    <2>7. CASE id \in Due /\ timers[id].interval # 0
      <3>1. timers'[id] = [timers[id] EXCEPT !.next = now + timers[id].interval]
        BY <2>1, <2>7
      <3>2. now + timers[id].interval \in Nat BY <1>1, <2>3
      <3> QED BY <2>2, <2>7, <3>1, <3>2
    <2> QED BY <2>5, <2>6, <2>7
  <1>6. timers' \in [Timers!TimerIds -> [next : Nat, interval : Limits \cup {0}]]
    <2>1. timers' = [id \in Timers!TimerIds |-> timers'[id]]
      BY <1>2 DEF Timers!Collected
    <2> QED BY <1>5, <2>1
  <1>7. due' \in [Timers!TimerIds -> Nat]
    <2>1. \A id \in Timers!TimerIds : timers[id].next \in Nat BY <1>4
    <2> QED BY <1>2, <2>1 DEF TimersInv, TimersTypes
  <1>8. timer' \in {"none", "loop", "scan", "awake", "fire", "ended", "terminated"}
                   \cup Timers!Dozing \cup Timers!Asleep
    BY DEF Timers!WorkerScans, Timers!Dozing
  <1>9. wakeAt' \in Nat
    <2>1. CASE timer' # "dozing timed" BY <2>1 DEF Timers!WorkerScans
    <2>2. CASE timer' = "dozing timed"
      <3> DEFINE moments == {timers[id].next : id \in Timers!Active}
      <3>1. wakeAt' = CHOOSE t \in moments : \A id \in Timers!Active : t <= timers[id].next
        BY <2>2 DEF Timers!WorkerScans
      <3>2. Due = {} /\ \E id \in Timers!TimerIds : timers'[id] # Timers!NoTimer
        BY <2>2 DEF Timers!WorkerScans
      <3>3. Timers!Active # {} BY <1>5, <3>2 DEF Timers!Active
      <3>4. moments \in SUBSET Nat /\ moments # {} BY <1>3, <1>4, <3>3
      <3>5. PICK least \in moments : \A number \in moments : least <= number
        <4> HIDE DEF moments
        <4> QED BY <3>4, LeastNumber
      <3>6. \E t \in moments : \A id \in Timers!Active : t <= timers[id].next
        BY <3>5
      <3>7. wakeAt' \in moments BY <3>1, <3>6
      <3> QED BY <3>4, <3>7
    <2> QED BY <2>1, <2>2
  <1>10. TimersTypes'
    BY <1>2, <1>3, <1>6, <1>7, <1>8, <1>9 DEF TimersInv, TimersTypes, Timers!TimerIds
  <1>11. \A id \in Due : due'[id] \in 1 .. now
    <2> TAKE id \in Due
    <2>1. id \in Timers!TimerIds /\ due'[id] = timers[id].next BY <1>2, <1>3
    <2>2. timers[id].next \in Nat /\ timers[id].next >= 1 BY <1>3, <1>4 DEF TimersInv, TimersUsed
    <2> QED BY <1>1, <1>3, <2>1, <2>2
  <1>12. \A id \in Timers!TimerIds : shots'[id] > 0 => due'[id] \in 1 .. now
    <2> TAKE id \in Timers!TimerIds
    <2>1. id \notin Due => due'[id] = due[id] BY <1>2
    <2> QED BY <1>2, <1>11, <2>1 DEF TimersInv, TimersUsed
  <1>13. ASSUME NEW id \in Timers!TimerIds, timers'[id] # Timers!NoTimer
         PROVE  /\ timers'[id].next >= 1
                /\ timers'[id].interval = 0 => shots'[id] = 0 /\ id \notin ready'
    <2>1. CASE id \notin Due
      <3>1. timers'[id] = timers[id] /\ id \in Timers!Active
        BY <1>5, <1>13, <2>1 DEF Timers!Active
      <3> QED BY <1>2, <2>1, <3>1 DEF TimersInv, TimersUsed
    <2>2. CASE id \in Due
      <3>1. timers[id].interval # 0 BY <1>5, <1>13, <2>2
      <3>2. timers[id].interval \in Limits \cup {0} BY <1>4
      <3>3. Limits \cup {0} \subseteq Nat BY CallersAssumption
      <3>4. timers[id].interval \in Nat BY <3>2, <3>3
      <3> QED BY <1>1, <1>5, <2>2, <3>1, <3>4
    <2> QED BY <2>1, <2>2
  <1>14. \A id \in Timers!TimerIds : id > calls =>
           timers'[id] = Timers!NoTimer /\ shots'[id] = 0 /\ id \notin ready'
    <2> TAKE id \in Timers!TimerIds
    <2>1. id > calls => id \notin Due BY <1>3 DEF Timers!Active, TimersInv, TimersUsed
    <2> QED BY <1>2, <1>5, <2>1 DEF TimersInv, TimersUsed
  <1>15. TimersUsed'
    <2>1. \A id \in ready' : due'[id] \in 1 .. now' BY <1>1, <1>2, <1>11
    <2>2. \A id \in Timers!TimerIds : shots'[id] > 0 => due'[id] \in 1 .. now'
      BY <1>1, <1>12
    <2>3. \A id \in Timers!TimerIds : timers'[id] # Timers!NoTimer =>
            /\ timers'[id].next >= 1
            /\ timers'[id].interval = 0 => shots'[id] = 0 /\ id \notin ready'
      BY <1>13
    <2>4. \A id \in Timers!TimerIds : id > calls' =>
            timers'[id] = Timers!NoTimer /\ shots'[id] = 0 /\ id \notin ready'
      BY <1>1, <1>14
    <2> HIDE DEF Due
    <2> QED BY <2>1, <2>2, <2>3, <2>4 DEF TimersUsed, Timers!Active
  <1> QED BY <1>1, <1>10, <1>15 DEF TimersInv

\* What the steps keep that leave the times alone and add nothing to what was collected.
LEMMA TimersUsedKept ==
  ASSUME TimersInv, calls' \in Nat, calls' >= calls, now' \in Nat, now' >= now,
         UNCHANGED due,
         \A id \in Timers!TimerIds : timers'[id] \in {timers[id], Timers!NoTimer},
         \A id \in Timers!TimerIds :
           shots'[id] = shots[id] \/ (id \in ready /\ shots'[id] \in Nat),
         ready' \subseteq ready
  PROVE  TimersUsed'
  <1>1. \A id \in Timers!TimerIds : timers'[id] # Timers!NoTimer =>
          id \in Timers!Active /\ timers'[id] = timers[id]
    BY DEF Timers!Active
  <1>2. calls \in Nat /\ now \in Nat BY TimersClock DEF TimersInv
  <1>3. /\ ready \subseteq Timers!TimerIds
        /\ due \in [Timers!TimerIds -> Nat] /\ shots \in [Timers!TimerIds -> Nat]
    BY DEF TimersInv, TimersTypes
  <1>4. \A id \in Timers!TimerIds : shots'[id] > 0 => due'[id] \in 1 .. now'
    <2> SUFFICES ASSUME NEW id \in Timers!TimerIds, shots'[id] > 0 PROVE due[id] \in 1 .. now'
      OBVIOUS
    <2>1. due[id] \in 1 .. now BY DEF TimersInv, TimersUsed
    <2> QED BY <1>2, <2>1
  <1>5. \A id \in ready' : due'[id] \in 1 .. now'
    <2> SUFFICES ASSUME NEW id \in ready' PROVE due[id] \in 1 .. now'
      OBVIOUS
    <2>1. due[id] \in 1 .. now BY DEF TimersInv, TimersUsed
    <2> QED BY <1>2, <2>1
  <1>6. \A id \in Timers!Active' :
          /\ timers'[id].next >= 1
          /\ timers'[id].interval = 0 => shots'[id] = 0 /\ id \notin ready'
    <2> SUFFICES ASSUME NEW id \in Timers!TimerIds, timers'[id] # Timers!NoTimer
                 PROVE  /\ timers'[id].next >= 1
                        /\ timers'[id].interval = 0 => shots'[id] = 0 /\ id \notin ready'
      BY DEF Timers!Active
    <2>1. id \in Timers!Active /\ timers'[id] = timers[id] BY <1>1
    <2> QED BY <2>1 DEF TimersInv, TimersUsed
  <1>7. \A id \in Timers!TimerIds : id > calls' =>
          timers'[id] = Timers!NoTimer /\ shots'[id] = 0 /\ id \notin ready'
    <2> SUFFICES ASSUME NEW id \in Timers!TimerIds, id > calls'
                 PROVE  timers'[id] = Timers!NoTimer /\ shots'[id] = 0 /\ id \notin ready'
      OBVIOUS
    <2>1. id > calls BY <1>2 DEF Timers!TimerIds
    <2> QED BY <2>1 DEF TimersInv, TimersUsed
  <1> QED BY <1>4, <1>5, <1>6, <1>7 DEF TimersUsed

\* The steps that change neither the table nor what was collected, and the clock.
TimersMoves ==
  \/ Timers!Start \/ Timers!StartTerminates \/ Timers!Stop
  \/ Timers!WorkerLoops \/ Timers!WorkerSleeps \/ Timers!WorkerWakes
  \/ Timers!WorkerFired \/ Timers!Tick \/ UNCHANGED Timers!vars

\* The steps that TimersMoves describes keep the invariant.
LEMMA TimersMove ==
  ASSUME TimersInv, TimersMoves
  PROVE  TimersInv'
  <1>1. /\ Timers!CallersTypeOK' /\ calls \in Nat /\ now \in Nat
        /\ calls' \in {calls, calls + 1} /\ now' \in {now, now + 1}
    <2>1. Timers!Called \/ Timers!Elapse \/ UNCHANGED <<calls, now>>
      BY DEF TimersMoves, Timers!Start, Timers!StartTerminates, Timers!Stop,
             Timers!WorkerLoops, Timers!WorkerSleeps,
             Timers!WorkerWakes, Timers!WorkerFired, Timers!Tick, Timers!vars
    <2> QED BY <2>1, TimersClock DEF TimersInv
  <1>2. UNCHANGED <<timers, cancelled, due, shots>> /\ ready' \in {ready, {}}
    BY DEF TimersMoves, Timers!Start, Timers!StartTerminates, Timers!Stop,
           Timers!WorkerLoops, Timers!WorkerSleeps,
           Timers!WorkerWakes, Timers!WorkerFired, Timers!Tick, Timers!vars, Timers!own,
           Timers!history
  <1>3. timing' \in BOOLEAN /\ stopping' \in BOOLEAN /\ slept' \in BOOLEAN
    BY DEF TimersMoves, Timers!Start, Timers!StartTerminates, Timers!Stop,
           Timers!WorkerLoops, Timers!WorkerSleeps,
           Timers!WorkerWakes, Timers!WorkerFired, Timers!Tick, Timers!vars, Timers!own,
           Timers!history, TimersInv, TimersTypes
  <1>4. wakeAt' \in Nat
    <2>1. wakeAt' \in {wakeAt, 0}
      BY DEF TimersMoves, Timers!Start, Timers!StartTerminates, Timers!Stop,
             Timers!WorkerLoops, Timers!WorkerSleeps,
             Timers!WorkerWakes, Timers!WorkerFired, Timers!Tick, Timers!vars, Timers!own,
             Timers!history
    <2> QED BY <2>1 DEF TimersInv, TimersTypes
  <1>5. timer' \in {"none", "loop", "scan", "awake", "fire", "ended", "terminated"}
                   \cup Timers!Dozing \cup Timers!Asleep
    <2>1. timer' \in {timer, "awake", "loop", "scan", "ended", "timed", "parked", "fire",
                      "terminated"}
      BY DEF TimersMoves, Timers!Start, Timers!StartTerminates, Timers!Stop,
             Timers!WorkerLoops, Timers!WorkerSleeps,
             Timers!WorkerWakes, Timers!WorkerFired, Timers!Tick, Timers!vars, Timers!own,
             Timers!Notified
    <2>2. {"timed", "parked"} = Timers!Asleep BY DEF Timers!Asleep
    <2> QED BY <2>1, <2>2 DEF TimersInv, TimersTypes
  <1>6. TimersTypes' BY <1>2, <1>3, <1>4, <1>5 DEF TimersInv, TimersTypes
  <1>7. TimersUsed'
    <2>1. calls' \in Nat /\ calls' >= calls /\ now' \in Nat /\ now' >= now BY <1>1
    <2>2. ready' \subseteq ready BY <1>2
    <2>3. timers' = timers /\ due' = due /\ shots' = shots BY <1>2
    <2> QED BY <2>1, <2>2, <2>3, TimersUsedKept
  <1> QED BY <1>1, <1>6, <1>7 DEF TimersInv

\* Every step.
LEMMA TimersStep == TimersInv /\ [Timers!Next]_(Timers!vars) => TimersInv'
  <1> SUFFICES ASSUME TimersInv, [Timers!Next]_(Timers!vars) PROVE TimersInv'
    OBVIOUS
  <1>0. /\ timers \in [Timers!TimerIds -> [next : Nat, interval : Limits \cup {0}]]
        /\ shots \in [Timers!TimerIds -> Nat]
        /\ timer \in {"none", "loop", "scan", "awake", "fire", "ended", "terminated"}
                     \cup Timers!Dozing \cup Timers!Asleep
        /\ calls \in Nat /\ now \in Nat /\ now >= 1
    BY TimersClock DEF TimersInv, TimersTypes
  <1>1. ASSUME NEW delay \in Limits, NEW interval \in Limits \cup {0},
               Timers!Schedule(delay, interval)
        PROVE  TimersInv'
    <2> DEFINE entry == [next |-> now + delay, interval |-> interval]
    <2>1. /\ Timers!CallersTypeOK' /\ calls' \in Timers!TimerIds /\ calls' = calls + 1
          /\ now' = now
      BY <1>1, TimersClock DEF TimersInv, Timers!Schedule
    <2>2. /\ timers' = [timers EXCEPT ![calls'] = entry] /\ timer' = Timers!Notified
          /\ UNCHANGED <<timing, cancelled, ready, wakeAt, stopping, due, shots, slept>>
      BY <1>1 DEF Timers!Schedule, Timers!history
    <2>3. entry \in [next : Nat, interval : Limits \cup {0}] /\ entry.next >= 1
      BY <1>0, CallersAssumption
    <2> HIDE DEF entry
    <2>4. TimersTypes'
      BY <1>0, <2>1, <2>2, <2>3 DEF TimersInv, TimersTypes, Timers!Notified
    <2>5. shots[calls'] = 0 /\ calls' \notin ready
      BY <1>0, <2>1 DEF TimersInv, TimersUsed
    <2>6. \A id \in Timers!TimerIds : id # calls' => timers'[id] = timers[id]
      BY <1>0, <2>2
    <2>7. timers'[calls'] = entry BY <1>0, <2>1, <2>2
    <2>8. \A id \in Timers!Active' :
            /\ timers'[id].next >= 1
            /\ timers'[id].interval = 0 => shots'[id] = 0 /\ id \notin ready'
      <3> SUFFICES ASSUME NEW id \in Timers!TimerIds, timers'[id] # Timers!NoTimer
                   PROVE  /\ timers'[id].next >= 1
                          /\ timers'[id].interval = 0 => shots'[id] = 0 /\ id \notin ready'
        BY DEF Timers!Active
      <3>1. CASE id = calls' BY <2>2, <2>3, <2>5, <2>7, <3>1
      <3>2. CASE id # calls'
        <4>1. id \in Timers!Active BY <2>6, <3>2 DEF Timers!Active
        <4> QED BY <2>2, <2>6, <3>2, <4>1 DEF TimersInv, TimersUsed
      <3> QED BY <3>1, <3>2
    <2>9. \A id \in Timers!TimerIds : id > calls' =>
            timers'[id] = Timers!NoTimer /\ shots'[id] = 0 /\ id \notin ready'
      <3> SUFFICES ASSUME NEW id \in Timers!TimerIds, id > calls'
                   PROVE  timers'[id] = Timers!NoTimer /\ shots'[id] = 0 /\ id \notin ready'
        OBVIOUS
      <3>1. id > calls /\ id # calls' BY <1>0, <2>1 DEF Timers!TimerIds
      <3> QED BY <2>2, <2>6, <3>1 DEF TimersInv, TimersUsed
    <2>10. TimersUsed'
      BY <2>1, <2>2, <2>8, <2>9 DEF TimersInv, TimersUsed
    <2> QED BY <2>1, <2>4, <2>10 DEF TimersInv
  <1>2. ASSUME NEW id \in Timers!TimerIds, Timers!Cancel(id) PROVE TimersInv'
    <2>1. Timers!CallersTypeOK' /\ calls' = calls + 1 /\ now' = now
      BY <1>2, TimersClock DEF TimersInv, Timers!Cancel
    <2>2. /\ timers' = [timers EXCEPT ![id] = Timers!NoTimer]
          /\ cancelled' = cancelled \cup {id}
          /\ UNCHANGED <<timing, timer, ready, wakeAt, stopping, due, shots, slept>>
      BY <1>2 DEF Timers!Cancel, Timers!history
    <2>3. Timers!NoTimer \in [next : Nat, interval : Limits \cup {0}] BY DEF Timers!NoTimer
    <2>4. TimersTypes' BY <2>2, <2>3 DEF TimersInv, TimersTypes
    <2>5. TimersUsed'
      BY <1>0, <2>1, <2>2, TimersUsedKept
    <2> QED BY <2>1, <2>4, <2>5 DEF TimersInv
  <1>3. ASSUME NEW id \in Timers!TimerIds, Timers!WorkerFires(id) PROVE TimersInv'
    <2>1. Timers!CallersTypeOK' /\ calls' = calls /\ now' = now
      BY <1>3, TimersClock DEF TimersInv, Timers!WorkerFires
    <2>2. /\ id \in ready /\ ready' = ready \ {id}
          /\ shots' = [shots EXCEPT ![id] = IF id \in cancelled THEN @ ELSE @ + 1]
          /\ UNCHANGED <<timing, timers, cancelled, timer, wakeAt, stopping, due, slept>>
      BY <1>3 DEF Timers!WorkerFires
    <2>3. TimersTypes' BY <2>2 DEF TimersInv, TimersTypes
    <2>4. TimersUsed' BY <1>0, <2>1, <2>2, TimersUsedKept
    <2> QED BY <2>1, <2>3, <2>4 DEF TimersInv
  <1>4. CASE Timers!Joined
    <2>1. Timers!CallersTypeOK' /\ calls' = calls /\ now' = now
      BY <1>4, TimersClock DEF TimersInv, Timers!Joined
    <2>2. /\ timers' = [id \in Timers!TimerIds |-> Timers!NoTimer]
          /\ stopping' = FALSE /\ timer' = "none"
          /\ UNCHANGED <<timing, cancelled, ready, wakeAt, due, shots, slept>>
      BY <1>4 DEF Timers!Joined, Timers!history
    <2>3. Timers!NoTimer \in [next : Nat, interval : Limits \cup {0}] BY DEF Timers!NoTimer
    <2>4. TimersTypes' BY <2>2, <2>3 DEF TimersInv, TimersTypes
    <2>5. TimersUsed' BY <1>0, <2>1, <2>2, TimersUsedKept
    <2> QED BY <2>1, <2>4, <2>5 DEF TimersInv
  <1>5. CASE Timers!WorkerScans BY <1>5, TimersScan
  <1>6. CASE TimersMoves BY <1>6, TimersMove
  <1> QED BY <1>1, <1>2, <1>3, <1>4, <1>5, <1>6 DEF Timers!Next, TimersMoves

\* What the invariant is for.
LEMMA TimersHolds == TimersInv => Timers!TypeOK /\ Timers!TimersSound
  BY DEF TimersInv, TimersTypes, TimersUsed, Timers!TypeOK, Timers!TimersSound

=============================================================================

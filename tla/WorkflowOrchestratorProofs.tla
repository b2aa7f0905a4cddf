--------------------- MODULE WorkflowOrchestratorProofs ---------------------
(***************************************************************************)
(* Proofs about WorkflowOrchestrator, for any clients, nodes and graphs.   *)
(* First those about its graph: the edits, and what the sort, the search   *)
(* for cycles and the validator say.  Then LayerInv and SequenceInv, which *)
(* say how far the two ways to execute have come.                          *)
(***************************************************************************)
EXTENDS WorkflowOrchestrator, FiniteSetTheorems, FunctionTheorems, SequenceTheorems,
        WellFoundedInduction, TLAPS

-----------------------------------------------------------------------------
(* The graph and its edits.                                                *)

\* An id outside the graph has no edges, and the lists of its neighbours do not name it.
Detached ==
  \A s, t \in NodeId :
    /\ {s, t} \subseteq nodes \/ edges[s][t] = 0
    /\ s \in nodes \ stale /\ t \notin nodes \cup stale => succs[s][t] = 0 /\ preds[s][t] = 0

GraphInv == GraphTypeOK /\ Detached /\ ListsAgree

\* Taking entries out of a list leaves a list.
LEMMA DropType ==
  ASSUME NEW a \in Nat, NEW b \in Nat
  PROVE  Drop(a, b) \in Nat /\ (a = b => Drop(a, b) = 0) /\ (a = 0 => Drop(a, b) = 0)
BY DEF Drop

LEMMA EntryType ==
  ASSUME NEW f \in Bag, NEW s \in NodeId, NEW t \in NodeId, NEW k \in Nat
  PROVE  [f EXCEPT ![s][t] = k] \in Bag
<1>1. f[s] \in [NodeId -> Nat]
  BY DEF Bag
<1>2. [f[s] EXCEPT ![t] = k] \in [NodeId -> Nat]
  BY <1>1
<1>q. QED  BY <1>2 DEF Bag

LEMMA GraphInitially == GraphInit => GraphInv
BY DEF GraphInit, GraphInv, GraphTypeOK, Detached, ListsAgree, Nothing, Bag

LEMMA AddNodeKeeps ==
  ASSUME GraphInv, NEW n \in NodeId, AddNode(n)
  PROVE  GraphInv'
<1>1. GraphTypeOK'
  BY DEF GraphInv, GraphTypeOK, AddNode, Stale, Nothing, Bag
<1>2. stale \subseteq stale' /\ (n \in nodes => n \in stale')
  BY DEF AddNode, Stale
<1>3. Detached'
  BY <1>2 DEF GraphInv, GraphTypeOK, Detached, AddNode, Nothing, Bag
<1>4. ListsAgree'
  BY <1>2 DEF GraphInv, GraphTypeOK, Detached, ListsAgree, AddNode, Nothing, Bag
<1>q. QED  BY <1>1, <1>3, <1>4 DEF GraphInv

LEMMA AddNodeAgainKeeps ==
  ASSUME GraphInv, NEW n \in NodeId, AddNodeAgain(n)
  PROVE  GraphInv'
BY DEF GraphInv, GraphTypeOK, Detached, ListsAgree, AddNodeAgain, Stale, Bag

LEMMA RemoveNodeKeeps ==
  ASSUME GraphInv, NEW n \in NodeId, RemoveNode(n)
  PROVE  GraphInv'
<1>1. GraphTypeOK
  BY DEF GraphInv
<1>2. edges' \in Bag
  BY <1>1 DEF GraphTypeOK, RemoveNode, Bag
<1>3. succs' \in Bag
  <2>1. \A p \in NodeId : succs[p] \in [NodeId -> Nat] /\ Drop(succs[p][n], preds[n][p]) \in Nat
    BY <1>1, DropType DEF GraphTypeOK, Bag
  <2>2. \A p \in NodeId : [succs[p] EXCEPT ![n] = Drop(succs[p][n], preds[n][p])] \in [NodeId -> Nat]
    BY <2>1
  <2>q. QED  BY <2>1, <2>2 DEF RemoveNode, Bag
<1>4. preds' \in Bag
  <2>1. \A q \in NodeId : preds[q] \in [NodeId -> Nat] /\ Drop(preds[q][n], succs'[n][q]) \in Nat
    BY <1>1, <1>3, DropType DEF GraphTypeOK, Bag
  <2>2. \A q \in NodeId : [preds[q] EXCEPT ![n] = Drop(preds[q][n], succs'[n][q])] \in [NodeId -> Nat]
    BY <2>1
  <2>q. QED  BY <2>1, <2>2 DEF RemoveNode, Bag
<1>5. GraphTypeOK'
  BY <1>1, <1>2, <1>3, <1>4 DEF GraphTypeOK, RemoveNode
<1>6. ASSUME NEW s \in nodes \ stale, s # n, n \notin stale
      PROVE  succs'[s][n] = 0 /\ preds'[s][n] = 0
  <2>1. succs[s][n] = edges[s][n] /\ preds[n][s] = edges[s][n]
    BY <1>1, <1>6 DEF GraphInv, GraphTypeOK, ListsAgree, RemoveNode
  <2>2. succs[n][s] = edges[n][s] /\ preds[s][n] = edges[n][s]
    BY <1>1, <1>6 DEF GraphInv, GraphTypeOK, ListsAgree, RemoveNode
  <2>3. succs[n][s] \in Nat /\ preds[s][n] \in Nat /\ succs[s][n] \in Nat /\ preds[n][s] \in Nat
    BY <1>1, <1>6 DEF GraphTypeOK, Bag
  <2>4. succs'[s][n] = Drop(succs[s][n], preds[n][s])
    BY <1>1, <1>6 DEF GraphTypeOK, Bag, RemoveNode
  <2>5. succs'[n][s] = succs[n][s]
    BY <1>1, <1>6 DEF GraphTypeOK, Bag, RemoveNode
  <2>6. preds'[s][n] = Drop(preds[s][n], succs'[n][s])
    BY <1>1, <1>6 DEF GraphTypeOK, Bag, RemoveNode
  <2>q. QED  BY <2>1, <2>2, <2>3, <2>4, <2>5, <2>6, DropType
<1>7. ASSUME NEW s \in NodeId, NEW t \in NodeId, t # n
      PROVE  succs'[s][t] = succs[s][t] /\ preds'[s][t] = preds[s][t]
  BY <1>1, <1>7 DEF GraphTypeOK, Bag, RemoveNode
<1>8. nodes' = nodes \ {n} /\ stale' = stale /\ nodes \subseteq NodeId
  BY <1>1 DEF GraphTypeOK, RemoveNode
<1>9. ASSUME NEW s \in NodeId, NEW t \in NodeId
      PROVE  edges'[s][t] = IF n \in {s, t} THEN 0 ELSE edges[s][t]
  BY DEF RemoveNode
<1>10. Detached'
  <2> SUFFICES ASSUME NEW s \in NodeId, NEW t \in NodeId
      PROVE /\ {s, t} \subseteq nodes' \/ edges'[s][t] = 0
            /\ s \in nodes' \ stale' /\ t \notin nodes' \cup stale' =>
                 succs'[s][t] = 0 /\ preds'[s][t] = 0
    BY DEF Detached
  <2>1. {s, t} \subseteq nodes' \/ edges'[s][t] = 0
    BY <1>8, <1>9 DEF GraphInv, Detached
  <2>2. ASSUME s \in nodes' \ stale', t \notin nodes' \cup stale', t = n
        PROVE  succs'[s][t] = 0 /\ preds'[s][t] = 0
    BY <2>2, <1>6, <1>8
  <2>3. ASSUME s \in nodes' \ stale', t \notin nodes' \cup stale', t # n
        PROVE  succs'[s][t] = 0 /\ preds'[s][t] = 0
    BY <2>3, <1>7, <1>8 DEF GraphInv, Detached
  <2>q. QED  BY <2>1, <2>2, <2>3
<1>11. ListsAgree'
  <2> SUFFICES ASSUME NEW s \in nodes' \ stale', NEW t \in nodes' \ stale'
      PROVE succs'[s][t] = edges'[s][t] /\ preds'[t][s] = edges'[s][t]
    BY DEF ListsAgree
  <2>1. s \in NodeId /\ t \in NodeId /\ s # n /\ t # n /\ {s, t} \subseteq nodes \ stale
    BY <1>8
  <2>2. succs[s][t] = edges[s][t] /\ preds[t][s] = edges[s][t]
    BY <2>1 DEF GraphInv, ListsAgree
  <2>q. QED  BY <2>1, <2>2, <1>7, <1>9
<1>q. QED  BY <1>5, <1>10, <1>11 DEF GraphInv

LEMMA AddEdgeKeeps ==
  ASSUME GraphInv, NEW s \in NodeId, NEW t \in NodeId, AddEdge(s, t)
  PROVE  GraphInv'
<1>1. GraphTypeOK'
  BY DEF GraphInv, GraphTypeOK, AddEdge, Bag
<1>2. Detached'
  BY DEF GraphInv, GraphTypeOK, Detached, AddEdge, Bag
<1>3. ListsAgree'
  BY DEF GraphInv, GraphTypeOK, ListsAgree, AddEdge, Bag
<1>q. QED  BY <1>1, <1>2, <1>3 DEF GraphInv

LEMMA RemoveEdgeKeeps ==
  ASSUME GraphInv, NEW s \in NodeId, NEW t \in NodeId, RemoveEdge(s, t)
  PROVE  GraphInv'
<1>1. edges \in Bag /\ succs \in Bag /\ preds \in Bag /\ edges[s][t] \in Nat
  BY DEF GraphInv, GraphTypeOK, Bag
<1>2. {s, t} \subseteq nodes
  BY <1>1 DEF GraphInv, Detached, RemoveEdge
<1>3. /\ edges' = [edges EXCEPT ![s][t] = @ - 1]
      /\ succs' = [succs EXCEPT ![s][t] = Drop(@, 1)]
      /\ preds' = [preds EXCEPT ![t][s] = Drop(@, 1)]
      /\ edges[s][t] > 0 /\ nodes' = nodes /\ stale' = stale
  BY <1>2 DEF RemoveEdge
<1>4. GraphTypeOK'
  <2>1. Drop(succs[s][t], 1) \in Nat /\ Drop(preds[t][s], 1) \in Nat /\ edges[s][t] - 1 \in Nat
    <3>1. succs[s][t] \in Nat /\ preds[t][s] \in Nat
      BY <1>1 DEF Bag
    <3>2. edges[s][t] - 1 \in Nat
      BY <1>1, <1>3
    <3>q. QED  BY <3>1, <3>2, DropType
  <2>2. edges' \in Bag /\ succs' \in Bag /\ preds' \in Bag
    BY <1>1, <1>3, <2>1, EntryType
  <2>q. QED  BY <1>3, <2>2 DEF GraphInv, GraphTypeOK
<1>5. Detached'
  BY <1>1, <1>2, <1>3 DEF GraphInv, GraphTypeOK, Detached, Bag
<1>6. ListsAgree'
  BY <1>1, <1>3 DEF GraphInv, GraphTypeOK, ListsAgree, Bag, Drop
<1>q. QED  BY <1>4, <1>5, <1>6 DEF GraphInv

LEMMA ClearKeeps ==
  ASSUME GraphInv, Clear
  PROVE  GraphInv'
BY DEF GraphInv, GraphTypeOK, Detached, ListsAgree, Clear, Nothing, Bag

LEMMA EditKeeps ==
  ASSUME GraphInv, EditGraph
  PROVE  GraphInv'
BY AddNodeKeeps, AddNodeAgainKeeps, RemoveNodeKeeps, AddEdgeKeeps, RemoveEdgeKeeps, ClearKeeps
   DEF EditGraph

-----------------------------------------------------------------------------
(* The sort.                                                               *)

\* Numbers have a least one: what induction comes down to here.
LEMMA LeastNumber ==
  ASSUME NEW numbers \in SUBSET Nat, numbers # {}
  PROVE  \E least \in numbers : \A number \in numbers : least <= number
<1> DEFINE less == OpToRel(<, Nat)
<1>1. PICK least \in numbers : \A number \in numbers : ~(<<number, least>> \in less)
  BY NatLessThanWellFounded, WFMin
<1>2. \A number \in numbers : ~(number < least)
  BY <1>1 DEF OpToRel
<1>q. QED  BY <1>2

LEMMA EntriesFinite ==
  ASSUME NEW bag \in Bag, NEW sources \in SUBSET NodeId, NEW n \in NodeId
  PROVE  IsFiniteSet(Entries(bag, sources, n))
<1> DEFINE columns == {{s} \X (1 .. bag[s][n]) : s \in sources}
           column  == [s \in sources |-> {s} \X (1 .. bag[s][n])]
<1>1. IsFiniteSet(sources)
  BY GraphAssumptions, FS_Subset
<1>2. column \in Surjection(sources, columns)
  BY DEF Surjection
<1>3. IsFiniteSet(columns)
  BY <1>1, <1>2, FS_Surjection
<1>4. \A s \in sources : IsFiniteSet({s} \X (1 .. bag[s][n]))
  <2> SUFFICES ASSUME NEW s \in sources PROVE IsFiniteSet({s} \X (1 .. bag[s][n]))
    OBVIOUS
  <2>1. bag[s][n] \in Int
    BY DEF Bag
  <2>2. IsFiniteSet({s})
    BY FS_Singleton
  <2>3. IsFiniteSet(1 .. bag[s][n])
    BY <2>1, FS_Interval
  <2>q. QED  BY <2>2, <2>3, FS_Product
<1>5. IsFiniteSet(UNION columns)
  BY <1>3, <1>4, FS_UNION
<1>q. QED  BY <1>5 DEF Entries

\* Fewer sources with fewer entries each have fewer in all.
LEMMA EntriesGrow ==
  ASSUME NEW few \in Bag, NEW many \in Bag, NEW n \in NodeId,
         NEW some \in SUBSET NodeId, NEW all \in SUBSET NodeId,
         some \subseteq all, \A s \in some : few[s][n] <= many[s][n]
  PROVE  /\ Cardinality(Entries(few, some, n)) \in Nat
         /\ Cardinality(Entries(many, all, n)) \in Nat
         /\ Cardinality(Entries(few, some, n)) <= Cardinality(Entries(many, all, n))
         /\ \A p \in all \ some : many[p][n] > 0 =>
              Cardinality(Entries(few, some, n)) < Cardinality(Entries(many, all, n))
<1> DEFINE A == Entries(few, some, n)
           B == Entries(many, all, n)
<1>1. IsFiniteSet(A) /\ IsFiniteSet(B)
  BY EntriesFinite
<1>2. A \subseteq B
  <2> SUFFICES ASSUME NEW entry \in A PROVE entry \in B
    OBVIOUS
  <2>1. PICK s \in some : entry \in {s} \X (1 .. few[s][n])
    BY DEF Entries
  <2>2. few[s][n] \in Nat /\ many[s][n] \in Nat /\ few[s][n] <= many[s][n] /\ s \in all
    BY DEF Bag
  <2>3. entry \in {s} \X (1 .. many[s][n])
    BY <2>1, <2>2
  <2>q. QED  BY <2>2, <2>3 DEF Entries
<1>3. Cardinality(A) \in Nat /\ Cardinality(B) \in Nat
  BY <1>1, FS_CardinalityType
<1>4. Cardinality(A) <= Cardinality(B) /\ (Cardinality(A) = Cardinality(B) => A = B)
  BY <1>1, <1>2, FS_Subset
<1>5. ASSUME NEW p \in all \ some, many[p][n] > 0
      PROVE  A # B
  <2>1. many[p][n] \in Nat
    BY DEF Bag
  <2>2. <<p, 1>> \in {p} \X (1 .. many[p][n])
    BY <1>5, <2>1
  <2>3. <<p, 1>> \in B
    BY <2>2 DEF Entries
  <2>4. <<p, 1>> \notin A
    BY DEF Entries
  <2>q. QED  BY <2>3, <2>4
<1> HIDE DEF A, B
<1>6. \A p \in all \ some : many[p][n] > 0 => Cardinality(A) < Cardinality(B)
  BY <1>3, <1>4, <1>5
<1>q. QED  BY <1>3, <1>4, <1>6 DEF A, B

LEMMA NoEntries ==
  ASSUME NEW bag \in Bag, NEW n \in NodeId
  PROVE  Cardinality(Entries(bag, {}, n)) = 0
<1>1. Entries(bag, {}, n) = {}
  BY DEF Entries
<1>q. QED  BY <1>1, FS_EmptySet

\* A node has an in-degree exactly when an edge leads to it.
LEMMA InDegreeMeaning ==
  ASSUME GraphInv, NEW n \in NodeId
  PROVE  /\ InDegree(n) \in Nat
         /\ InDegree(n) > 0 <=> \E p \in NodeId : edges[p][n] > 0
<1>1. edges \in Bag
  BY DEF GraphInv, GraphTypeOK
<1>2. InDegree(n) \in Nat
  BY <1>1, EntriesFinite, FS_CardinalityType DEF InDegree
<1>3. ASSUME NEW p \in NodeId, edges[p][n] > 0
      PROVE  InDegree(n) > 0
  <2>1. Cardinality(Entries(edges, {}, n)) < Cardinality(Entries(edges, NodeId, n))
    BY <1>1, <1>3, EntriesGrow
  <2>q. QED  BY <1>1, <1>2, <2>1, NoEntries DEF InDegree
<1>4. ASSUME \A p \in NodeId : ~(edges[p][n] > 0)
      PROVE  InDegree(n) = 0
  <2>1. \A p \in NodeId : edges[p][n] = 0
    BY <1>1, <1>4 DEF Bag
  <2>2. Entries(edges, NodeId, n) = {}
    BY <2>1 DEF Entries
  <2>q. QED  BY <2>2, FS_EmptySet DEF InDegree
<1>q. QED  BY <1>2, <1>3, <1>4

LEMMA ZeroDegreeInGraph ==
  ASSUME GraphInv, NEW done \in SUBSET NodeId
  PROVE  ZeroDegree(done) \subseteq nodes
<1> SUFFICES ASSUME NEW n \in ZeroDegree(done), n \notin nodes PROVE FALSE
  OBVIOUS
<1>1. n \in NodeId /\ InDegree(n) > 0
  BY DEF ZeroDegree
<1>2. PICK p \in NodeId : edges[p][n] > 0
  BY <1>1, InDegreeMeaning
<1>q. QED  BY <1>1, <1>2 DEF GraphInv, Detached

\* A node is popped only after the source of every edge to it.
LEMMA ZeroDegreeIsLate ==
  ASSUME GraphInv, NEW done \in SUBSET nodes, NEW n \in ZeroDegree(done), CountsEdges(n),
         NEW p \in NodeId, edges[p][n] > 0
  PROVE  p \in done
<1>1. n \in NodeId /\ nodes \subseteq NodeId /\ edges \in Bag /\ succs \in Bag
  BY DEF ZeroDegree, GraphInv, GraphTypeOK
<1>2. InDegree(n) > 0
  BY <1>1, InDegreeMeaning
<1>3. InDegree(n) <= CountedDown(done, n)
  BY <1>1, <1>2, InDegreeMeaning DEF ZeroDegree
<1>4. p \notin done => CountedDown(done, n) < InDegree(n)
  <2>1. done \in SUBSET NodeId /\ \A s \in done : succs[s][n] <= edges[s][n]
    BY <1>1 DEF CountsEdges
  <2>q. QED  BY <1>1, <2>1, EntriesGrow DEF InDegree, CountedDown
<1>5. CountedDown(done, n) \in Nat
  BY <1>1, EntriesFinite, FS_CardinalityType DEF CountedDown
<1>q. QED  BY <1>1, <1>3, <1>4, <1>5, InDegreeMeaning

\* What the loop collects: nodes of the graph, each once, each after the sources of its edges.
LEMMA CollectedInOrder ==
  ASSUME GraphInv, NEW list \in Collected
  PROVE  /\ list \in Seq(nodes)
         /\ \A i, j \in DOMAIN list : list[i] = list[j] => i = j
         /\ \A i \in DOMAIN list : CountsEdges(list[i]) =>
              \A p \in NodeId : edges[p][list[i]] > 0 => \E j \in 1 .. i - 1 : list[j] = p
<1>1. PICK length \in 0 .. Cardinality(NodeId) : list \in [1 .. length -> NodeId]
  BY DEF Collected, Lists
<1>2. length \in Nat
  BY <1>1, GraphAssumptions, FS_CardinalityType
<1>3. list \in Seq(NodeId) /\ Len(list) = length /\ DOMAIN list = 1 .. length
  BY <1>1, <1>2
<1>4. ASSUME NEW i \in 1 .. length
      PROVE  /\ Popped(list, i) \subseteq NodeId
             /\ list[i] \in ZeroDegree(Popped(list, i))
             /\ list[i] \in nodes \ Popped(list, i)
  <2>1. Popped(list, i) \subseteq NodeId
    BY <1>1, <1>2 DEF Popped
  <2>2. list[i] \in ZeroDegree(Popped(list, i))
    BY <1>3 DEF Collected
  <2>q. QED  BY <2>1, <2>2, ZeroDegreeInGraph DEF ZeroDegree
<1>5. list \in Seq(nodes)
  BY <1>2, <1>3, <1>4
<1>6. ASSUME NEW i \in 1 .. length, NEW j \in 1 .. length, i < j
      PROVE  list[i] # list[j]
  <2>1. list[i] \in Popped(list, j)
    BY <1>2, <1>6 DEF Popped
  <2>q. QED  BY <1>4, <2>1
<1>7. \A i, j \in DOMAIN list : list[i] = list[j] => i = j
  <2> SUFFICES ASSUME NEW i \in 1 .. length, NEW j \in 1 .. length, i # j
               PROVE  list[i] # list[j]
    BY <1>3
  <2>q. QED  BY <1>2, <1>6
<1>8. ASSUME NEW i \in 1 .. length, CountsEdges(list[i]), NEW p \in NodeId, edges[p][list[i]] > 0
      PROVE  \E j \in 1 .. i - 1 : list[j] = p
  <2>1. Popped(list, i) \subseteq nodes
    <3>1. \A j \in 1 .. i - 1 : j \in 1 .. length
      BY <1>2
    <3>q. QED  BY <1>4, <3>1 DEF Popped
  <2>2. p \in Popped(list, i)
    BY <1>4, <1>8, <2>1, ZeroDegreeIsLate
  <2>q. QED  BY <2>2 DEF Popped
<1>q. QED  BY <1>3, <1>5, <1>7, <1>8

LEMMA NodesFinite ==
  ASSUME GraphInv
  PROVE  IsFiniteSet(nodes) /\ Cardinality(nodes) \in Nat
BY GraphAssumptions, FS_Subset, FS_CardinalityType DEF GraphInv, GraphTypeOK

\* As many nodes as the graph has, each once, are all of them.
LEMMA CollectedAll ==
  ASSUME GraphInv, NEW list \in Collected
  PROVE  /\ Len(list) = Cardinality(nodes) => \A n \in nodes : \E i \in DOMAIN list : list[i] = n
         /\ (\A n \in nodes : \E i \in DOMAIN list : list[i] = n) => Len(list) = Cardinality(nodes)
<1>1. list \in Seq(nodes) /\ \A i, j \in DOMAIN list : list[i] = list[j] => i = j
  BY CollectedInOrder
<1>2. DOMAIN list = 1 .. Len(list) /\ Len(list) \in Nat /\ list \in [1 .. Len(list) -> nodes]
  BY <1>1
<1>3. list \in Injection(1 .. Len(list), nodes)
  BY <1>1, <1>2 DEF Injection, IsInjective
<1>4. Cardinality(1 .. Len(list)) = Len(list)
  BY <1>2, FS_Interval
<1>5. Len(list) = Cardinality(nodes) <=> list \in Surjection(1 .. Len(list), nodes)
  BY <1>3, <1>4, NodesFinite, FS_Injection
<1>6. list \in Surjection(1 .. Len(list), nodes) <=>
        \A n \in nodes : \E i \in 1 .. Len(list) : list[i] = n
  BY <1>2 DEF Surjection
<1>q. QED  BY <1>2, <1>5, <1>6

LEMMA SortInOrder ==
  ASSUME GraphInv, NEW sorted \in topologicalSort
  PROVE  /\ sorted \in Seq(nodes)
         /\ \A i, j \in DOMAIN sorted : sorted[i] = sorted[j] => i = j
         /\ \A i \in DOMAIN sorted : CountsEdges(sorted[i]) =>
              \A p \in NodeId : edges[p][sorted[i]] > 0 => \E j \in 1 .. i - 1 : sorted[j] = p
         /\ sorted # << >> => /\ Len(sorted) = Cardinality(nodes)
                             /\ \A n \in nodes : \E i \in DOMAIN sorted : sorted[i] = n
<1>1. PICK list \in Collected :
        sorted = IF Len(list) = Cardinality(nodes) THEN list ELSE << >>
  BY DEF topologicalSort
<1>2. CASE Len(list) = Cardinality(nodes)
  BY <1>1, <1>2, CollectedInOrder, CollectedAll
<1>3. CASE sorted = << >>
  BY <1>3
<1>q. QED  BY <1>1, <1>2, <1>3

\* A set of nodes closed under edges backwards has one that nothing in it leads to.
LEMMA RankedHasFirst ==
  ASSUME GraphInv, Acyclic, NEW rest \in SUBSET nodes, rest # {}
  PROVE  \E first \in rest : \A p \in rest : ~(edges[p][first] > 0)
<1>1. PICK rank \in [nodes -> 1 .. Cardinality(nodes)] :
        \A s, t \in nodes : edges[s][t] > 0 => rank[s] < rank[t]
  BY DEF Acyclic
<1> DEFINE ranks == {rank[n] : n \in rest}
<1>2. \A n \in nodes : rank[n] \in Nat
  BY <1>1, NodesFinite
<1>3. ranks \in SUBSET Nat /\ ranks # {}
  BY <1>2
<1>4. PICK least \in ranks : \A number \in ranks : least <= number
  BY <1>3, LeastNumber
<1>5. PICK first \in rest : rank[first] = least
  OBVIOUS
<1>6. ASSUME NEW p \in rest, edges[p][first] > 0
      PROVE  FALSE
  <2>1. rank[p] < rank[first] /\ rank[p] \in ranks
    BY <1>1, <1>6
  <2>q. QED  BY <1>2, <1>4, <1>5, <2>1
<1>q. QED  BY <1>6

\* Without a cycle, and with the objects the nodes were first, the sort gets through.
LEMMA SortIsComplete ==
  ASSUME GraphInv, stale = {}, Acyclic, NEW sorted \in topologicalSort, sorted = << >>
  PROVE  nodes = {}
<1>1. PICK list \in Collected :
        sorted = IF Len(list) = Cardinality(nodes) THEN list ELSE << >>
  BY DEF topologicalSort
<1> DEFINE done == Popped(list, Len(list) + 1)
           rest == nodes \ done
<1>2. list \in Seq(nodes) /\ Len(list) \in Nat /\ nodes \subseteq NodeId
  BY CollectedInOrder DEF GraphInv, GraphTypeOK
<1>3. done = {list[i] : i \in DOMAIN list} /\ done \subseteq nodes
  BY <1>2 DEF Popped
<1>4. rest = {}
  <2> SUFFICES ASSUME rest # {} PROVE FALSE
    OBVIOUS
  <2>1. PICK n \in rest : \A p \in rest : ~(edges[p][n] > 0)
    BY RankedHasFirst
  <2>2. n \in NodeId \ done
    BY <1>2
  <2>3. \A p \in NodeId : edges[p][n] > 0 => p \in done
    BY <1>2, <2>1, <2>2 DEF GraphInv, Detached
  <2>4. CountedDown(done, n) >= InDegree(n)
    <3>1. \A p \in done : edges[p][n] <= succs[p][n]
      BY <1>2, <1>3, <2>2 DEF GraphInv, GraphTypeOK, ListsAgree, Bag
    <3>2. Entries(edges, NodeId, n) = Entries(edges, done, n)
      <4>1. ASSUME NEW p \in NodeId, p \notin done PROVE edges[p][n] = 0
        <5>1. edges \in Bag /\ n \in NodeId
          BY <2>2 DEF GraphInv, GraphTypeOK
        <5>2. edges[p][n] \in Nat
          BY <4>1, <5>1 DEF Bag
        <5>q. QED  BY <2>3, <4>1, <5>2
      <4>q. QED  BY <1>2, <1>3, <4>1 DEF Entries
    <3>3. edges \in Bag /\ succs \in Bag /\ done \in SUBSET NodeId
      BY <1>2, <1>3 DEF GraphInv, GraphTypeOK
    <3>4. Cardinality(Entries(edges, done, n)) <= Cardinality(Entries(succs, done, n))
      BY <2>2, <3>1, <3>3, EntriesGrow
    <3>5. Cardinality(Entries(edges, done, n)) \in Nat /\ Cardinality(Entries(succs, done, n)) \in Nat
      BY <2>2, <3>3, EntriesFinite, FS_CardinalityType
    <3>q. QED  BY <3>2, <3>4, <3>5 DEF InDegree, CountedDown
  <2>5. n \in ZeroDegree(done)
    BY <2>2, <2>4, InDegreeMeaning DEF ZeroDegree
  <2>q. QED  BY <2>5 DEF Collected
<1>5. Len(list) = Cardinality(nodes)
  BY <1>3, <1>4, CollectedAll
<1>6. list = << >>
  BY <1>1, <1>5
<1>q. QED  BY <1>3, <1>4, <1>6

\* As long as nodes are left, one of them has all its predecessors done.
LEMMA LayersRunOut ==
  ASSUME GraphInv, stale = {}, Acyclic, NEW done \in SUBSET NodeId,
         \A n \in nodes \ done : ~(Predecessors(n) \subseteq done)
  PROVE  nodes \subseteq done
<1> DEFINE rest == nodes \ done
<1> SUFFICES ASSUME rest # {} PROVE FALSE
  OBVIOUS
<1>1. PICK n \in rest : \A p \in rest : ~(edges[p][n] > 0)
  BY RankedHasFirst
<1>2. PICK p \in Predecessors(n) : p \notin done
  OBVIOUS
<1>3. p \in NodeId /\ preds[n][p] > 0 /\ n \in nodes
  BY <1>2 DEF Predecessors
<1>4. p \in nodes
  BY <1>3 DEF GraphInv, Detached, GraphTypeOK
<1>5. edges[p][n] > 0
  BY <1>3, <1>4 DEF GraphInv, ListsAgree
<1>q. QED  BY <1>1, <1>2, <1>4, <1>5

\* Without an object that was put back the lists count what the edges count.
LEMMA NothingStale ==
  ASSUME GraphInv, stale = {}
  PROVE  \A s, t \in nodes : /\ succs[s][t] = edges[s][t] /\ preds[t][s] = edges[s][t]
                            /\ CountsEdges(t)
<1>1. nodes \subseteq NodeId /\ edges \in Bag /\ succs \in Bag
  BY DEF GraphInv, GraphTypeOK
<1>2. \A s, t \in nodes : succs[s][t] = edges[s][t] /\ preds[t][s] = edges[s][t]
  BY DEF GraphInv, ListsAgree
<1>3. \A s, t \in nodes : edges[s][t] \in Nat
  BY <1>1 DEF Bag
<1>q. QED  BY <1>2, <1>3 DEF CountsEdges

\* The places in a sort that lists all nodes are a ranking.
LEMMA SortIsRanking ==
  ASSUME GraphInv, stale = {}, NEW sorted \in topologicalSort, sorted # << >>
  PROVE  \E position \in [nodes -> DOMAIN sorted] :
           /\ \A n \in nodes : sorted[position[n]] = n
           /\ \A s, t \in nodes : edges[s][t] > 0 => position[s] < position[t]
           /\ DOMAIN sorted = 1 .. Cardinality(nodes)
<1>1. /\ sorted \in Seq(nodes) /\ nodes \subseteq NodeId
      /\ \A i, j \in DOMAIN sorted : sorted[i] = sorted[j] => i = j
      /\ \A i \in DOMAIN sorted : CountsEdges(sorted[i]) =>
           \A p \in NodeId : edges[p][sorted[i]] > 0 => \E j \in 1 .. i - 1 : sorted[j] = p
      /\ Len(sorted) = Cardinality(nodes)
      /\ \A n \in nodes : \E i \in DOMAIN sorted : sorted[i] = n
  BY SortInOrder DEF GraphInv, GraphTypeOK
<1>2. DOMAIN sorted = 1 .. Cardinality(nodes) /\ Len(sorted) \in Nat
  BY <1>1
<1> DEFINE position == [n \in nodes |-> CHOOSE i \in DOMAIN sorted : sorted[i] = n]
<1>3. position \in [nodes -> DOMAIN sorted] /\ \A n \in nodes : sorted[position[n]] = n
  BY <1>1
<1>4. ASSUME NEW s \in nodes, NEW t \in nodes, edges[s][t] > 0
      PROVE  position[s] < position[t]
  <2>1. PICK i : i = position[t]
    OBVIOUS
  <2>2. i \in DOMAIN sorted /\ sorted[i] = t /\ CountsEdges(t) /\ s \in NodeId
    BY <1>1, <1>3, <2>1, NothingStale
  <2>3. PICK j \in 1 .. i - 1 : sorted[j] = s
    BY <1>1, <1>4, <2>2
  <2>4. j \in DOMAIN sorted /\ j < i
    BY <1>1, <1>2, <2>2
  <2>5. position[s] = j
    BY <1>1, <1>3, <2>3, <2>4
  <2>q. QED  BY <2>1, <2>4, <2>5
<1> HIDE DEF position
<1>q. QED  BY <1>2, <1>3, <1>4

LEMMA SortRight == GraphInv => SortAgrees
<1> SUFFICES ASSUME GraphInv, stale = {}, NEW sorted \in topologicalSort
             PROVE  IF ~Acyclic \/ nodes = {} THEN sorted = << >>
                    ELSE \E position \in [nodes -> DOMAIN sorted] :
                           /\ \A n \in nodes : sorted[position[n]] = n
                           /\ \A s, t \in nodes : edges[s][t] > 0 => position[s] < position[t]
  BY DEF SortAgrees
<1>1. CASE sorted = << >>
  BY <1>1, SortIsComplete
<1>2. CASE sorted # << >>
  <2>1. PICK position \in [nodes -> DOMAIN sorted] :
          /\ \A n \in nodes : sorted[position[n]] = n
          /\ \A s, t \in nodes : edges[s][t] > 0 => position[s] < position[t]
          /\ DOMAIN sorted = 1 .. Cardinality(nodes)
    BY <1>2, SortIsRanking
  <2>2. Acyclic
    BY <2>1 DEF Acyclic
  <2>3. nodes # {}
    <3>1. sorted \in Seq(nodes)
      BY SortInOrder
    <3>q. QED  BY <1>2, <3>1
  <2>q. QED  BY <2>1, <2>2, <2>3
<1>q. QED  BY <1>1, <1>2

\* As RankedHasFirst, from the other end.
LEMMA RankedHasLast ==
  ASSUME GraphInv, Acyclic, nodes # {}
  PROVE  \E last \in nodes : \A t \in nodes : ~(edges[last][t] > 0)
<1>0. Cardinality(nodes) \in Nat
  BY NodesFinite
<1>1. PICK rank \in [nodes -> 1 .. Cardinality(nodes)] :
        \A s, t \in nodes : edges[s][t] > 0 => rank[s] < rank[t]
  BY DEF Acyclic
<1> DEFINE depths == {Cardinality(nodes) - rank[n] : n \in nodes}
<1>2. \A n \in nodes : rank[n] \in Nat /\ Cardinality(nodes) - rank[n] \in Nat
  BY <1>0, <1>1
<1>3. depths \in SUBSET Nat /\ depths # {}
  BY <1>2
<1>4. PICK least \in depths : \A number \in depths : least <= number
  BY <1>3, LeastNumber
<1>5. PICK last \in nodes : least = Cardinality(nodes) - rank[last]
  OBVIOUS
<1>6. \A t \in nodes : ~(rank[last] < rank[t])
  <2> SUFFICES ASSUME NEW t \in nodes, rank[last] < rank[t] PROVE FALSE
    OBVIOUS
  <2>1. least <= Cardinality(nodes) - rank[t]
    BY <1>4
  <2>q. QED  BY <1>0, <1>2, <1>5, <2>1
<1>q. QED  BY <1>1, <1>5, <1>6

-----------------------------------------------------------------------------
(* The search for cycles.  dfs is defined on every search since each call  *)
(* of it has fewer ids to enter, or as many and fewer to look at.          *)

Coloured(search, c) == {n \in NodeId : search.colour[n] = c}

\* What dfs says of a search, with f for dfs.
Turn(search, f) ==
  IF search.left = {} THEN search
  ELSE LET n == CHOOSE n \in search.left : TRUE
       IN  f[IF search.colour[n] = 0 THEN Ascend(search, f[Descend(search, n)], n)
             ELSE Skip(search, n)]

Effort(search) ==
  Cardinality(Coloured(search, 0)) * (Cardinality(NodeId) + 1) + Cardinality(search.left)

LEMMA SearchParts ==
  ASSUME NEW search \in Search
  PROVE  /\ search.left \subseteq NodeId
         /\ search.colour \in [NodeId -> 0 .. 2]
         /\ search.cyclic \in BOOLEAN
BY DEF Search

LEMMA IdsFinite ==
  ASSUME NEW S \in SUBSET NodeId
  PROVE  /\ IsFiniteSet(S) /\ Cardinality(S) \in Nat /\ Cardinality(S) <= Cardinality(NodeId)
         /\ Cardinality(NodeId) \in Nat
BY GraphAssumptions, FS_Subset, FS_CardinalityType

LEMMA FewerIds ==
  ASSUME NEW S \in SUBSET NodeId, NEW T \in SUBSET NodeId, S \subseteq T
  PROVE  /\ Cardinality(S) <= Cardinality(T)
         /\ S # T => Cardinality(S) < Cardinality(T)
<1>1. IsFiniteSet(T) /\ Cardinality(S) \in Nat /\ Cardinality(T) \in Nat
  BY IdsFinite
<1>q. QED  BY <1>1, FS_Subset

LEMMA EffortType ==
  ASSUME NEW search \in Search
  PROVE  Effort(search) \in Nat
<1>1. Coloured(search, 0) \in SUBSET NodeId /\ search.left \in SUBSET NodeId
  BY SearchParts DEF Coloured
<1> DEFINE a == Cardinality(Coloured(search, 0))
           b == Cardinality(NodeId) + 1
           c == Cardinality(search.left)
<1>2. a \in Nat /\ b \in Nat /\ c \in Nat
  BY <1>1, IdsFinite
<1>3. Effort(search) = a * b + c
  BY DEF Effort
<1> HIDE DEF a, b, c
<1>q. QED  BY <1>2, <1>3

LEMMA FewerRounds ==
  ASSUME NEW a \in Nat, NEW b \in Nat, NEW k \in Nat, NEW c \in 0 .. k, NEW d \in Nat, a < b
  PROVE  a * (k + 1) + c < b * (k + 1) + d
<1>1. b - a - 1 \in Nat
  OBVIOUS
<1>2. b * (k + 1) = a * (k + 1) + (k + 1) + (b - a - 1) * (k + 1)
  OBVIOUS
<1>3. (b - a - 1) * (k + 1) \in Nat /\ a * (k + 1) \in Nat
  BY <1>1
<1>q. QED  BY <1>2, <1>3

\* A search with fewer ids to enter, or with as many and fewer to look at, is less effort.
LEMMA LessEffort ==
  ASSUME NEW search \in Search, NEW other \in Search,
         Coloured(other, 0) \subseteq Coloured(search, 0),
         \/ Coloured(other, 0) # Coloured(search, 0)
         \/ other.left \subseteq search.left /\ other.left # search.left
  PROVE  Effort(other) < Effort(search)
<1> DEFINE a == Cardinality(Coloured(other, 0))
           b == Cardinality(Coloured(search, 0))
           k == Cardinality(NodeId)
           c == Cardinality(other.left)
           d == Cardinality(search.left)
<1>0. /\ Coloured(search, 0) \in SUBSET NodeId /\ search.left \in SUBSET NodeId
      /\ Coloured(other, 0) \in SUBSET NodeId /\ other.left \in SUBSET NodeId
  BY SearchParts DEF Coloured
<1>1. a \in Nat /\ b \in Nat /\ k \in Nat /\ c \in 0 .. k /\ d \in Nat /\ a <= b
  BY <1>0, IdsFinite, FewerIds
<1>2. a < b \/ (a = b /\ c < d)
  BY <1>0, <1>1, FewerIds
<1>3. Effort(other) = a * (k + 1) + c /\ Effort(search) = b * (k + 1) + d
  BY DEF Effort
<1> HIDE DEF a, b, c, d, k
<1>4. CASE a < b  BY <1>1, <1>3, <1>4, FewerRounds
<1>5. CASE a = b /\ c < d
  <2>1. a * (k + 1) \in Nat  BY <1>1
  <2>q. QED  BY <1>1, <1>3, <1>5, <2>1
<1>q. QED  BY <1>2, <1>4, <1>5

LEMMA DescendParts ==
  ASSUME NEW search \in Search, NEW n \in NodeId
  PROVE  /\ Descend(search, n) \in Search
         /\ Descend(search, n).left = Successors(n)
         /\ Descend(search, n).cyclic = search.cyclic
         /\ \A m \in NodeId :
              Descend(search, n).colour[m] = IF m = n THEN 1 ELSE search.colour[m]
<1> DEFINE colour == [search.colour EXCEPT ![n] = 1]
<1>1. colour \in [NodeId -> 0 .. 2] /\ Successors(n) \in SUBSET NodeId
  BY SearchParts DEF Successors
<1>2. Descend(search, n) = [left |-> Successors(n), colour |-> colour, cyclic |-> search.cyclic]
  BY DEF Descend
<1>3. \A m \in NodeId : colour[m] = IF m = n THEN 1 ELSE search.colour[m]
  BY SearchParts
<1> HIDE DEF colour
<1>q. QED  BY <1>1, <1>2, <1>3, SearchParts DEF Search

LEMMA AscendParts ==
  ASSUME NEW search \in Search, NEW below \in Search, NEW n \in NodeId
  PROVE  /\ Ascend(search, below, n) \in Search
         /\ Ascend(search, below, n).left = search.left \ {n}
         /\ Ascend(search, below, n).cyclic = below.cyclic
         /\ \A m \in NodeId :
              Ascend(search, below, n).colour[m] = IF m = n THEN 2 ELSE below.colour[m]
<1> DEFINE colour == [below.colour EXCEPT ![n] = 2]
<1>1. colour \in [NodeId -> 0 .. 2]
  BY SearchParts
<1>2. Ascend(search, below, n)
        = [left |-> search.left \ {n}, colour |-> colour, cyclic |-> below.cyclic]
  BY DEF Ascend
<1>3. \A m \in NodeId : colour[m] = IF m = n THEN 2 ELSE below.colour[m]
  BY SearchParts
<1> HIDE DEF colour
<1>q. QED  BY <1>1, <1>2, <1>3, SearchParts DEF Search

LEMMA SkipParts ==
  ASSUME NEW search \in Search, NEW n \in NodeId
  PROVE  /\ Skip(search, n) \in Search
         /\ Skip(search, n).left = search.left \ {n}
         /\ Skip(search, n).cyclic <=> search.cyclic \/ search.colour[n] = 1
         /\ Skip(search, n).colour = search.colour
BY SearchParts DEF Skip, Search

LEMMA ChosenIsLeft ==
  ASSUME NEW search \in Search, search.left # {}
  PROVE  (CHOOSE n \in search.left : TRUE) \in search.left /\ search.left \subseteq NodeId
BY SearchParts

\* Each of the searches that dfs calls itself for is less effort.
LEMMA DescendIsLess ==
  ASSUME NEW search \in Search, NEW n \in NodeId, search.colour[n] = 0
  PROVE  /\ Effort(Descend(search, n)) < Effort(search)
         /\ Coloured(Descend(search, n), 0) \subseteq Coloured(search, 0)
<1>1. /\ Descend(search, n) \in Search
      /\ \A m \in NodeId : Descend(search, n).colour[m] = IF m = n THEN 1 ELSE search.colour[m]
  BY DescendParts
<1>2. Coloured(Descend(search, n), 0) = Coloured(search, 0) \ {n}
  BY <1>1 DEF Coloured
<1>3. n \in Coloured(search, 0)
  BY DEF Coloured
<1>q. QED  BY <1>1, <1>2, <1>3, LessEffort

LEMMA AscendIsLess ==
  ASSUME NEW search \in Search, NEW n \in search.left, search.colour[n] = 0,
         NEW below \in Search,
         Coloured(below, 0) \subseteq Coloured(Descend(search, n), 0)
  PROVE  /\ Effort(Ascend(search, below, n)) < Effort(search)
         /\ Coloured(Ascend(search, below, n), 0) \subseteq Coloured(search, 0)
<1>0. n \in NodeId
  BY SearchParts
<1>1. /\ Ascend(search, below, n) \in Search
      /\ \A m \in NodeId :
           Ascend(search, below, n).colour[m] = IF m = n THEN 2 ELSE below.colour[m]
  BY <1>0, AscendParts
<1>2. \A m \in NodeId : Descend(search, n).colour[m] = IF m = n THEN 1 ELSE search.colour[m]
  BY <1>0, DescendParts
<1>3. /\ Coloured(Ascend(search, below, n), 0) \subseteq Coloured(search, 0)
      /\ n \in Coloured(search, 0) /\ n \notin Coloured(Ascend(search, below, n), 0)
  BY <1>0, <1>1, <1>2 DEF Coloured
<1>q. QED  BY <1>1, <1>3, LessEffort

LEMMA SkipIsLess ==
  ASSUME NEW search \in Search, NEW n \in search.left
  PROVE  /\ Effort(Skip(search, n)) < Effort(search)
         /\ Coloured(Skip(search, n), 0) = Coloured(search, 0)
<1>0. n \in NodeId
  BY SearchParts
<1>1. Skip(search, n) \in Search /\ Skip(search, n).left = search.left \ {n}
  BY <1>0, SkipParts
<1>2. Coloured(Skip(search, n), 0) = Coloured(search, 0)
  BY <1>0, SkipParts DEF Coloured
<1>q. QED  BY <1>1, <1>2, LessEffort

\* The searches up to some effort, and what dfs may be on them.
Upto(effort) == {search \in Search : Effort(search) <= effort}

Searching(effort) ==
  {f \in [Upto(effort) -> Search] :
     \A search \in Upto(effort) :
       /\ f[search] = Turn(search, f)
       /\ Coloured(f[search], 0) \subseteq Coloured(search, 0)}

\* One turn looks at searches of less effort only.
LEMMA TurnLooksBelow ==
  ASSUME NEW effort \in Nat, NEW f \in Searching(effort), NEW search \in Search,
         Effort(search) <= effort + 1
  PROVE  /\ Turn(search, f) \in Search
         /\ Coloured(Turn(search, f), 0) \subseteq Coloured(search, 0)
         /\ \A g : (\A other \in Upto(effort) : g[other] = f[other])
                     => Turn(search, g) = Turn(search, f)
<1> DEFINE n == CHOOSE n \in search.left : TRUE
<1>0. /\ f \in [Upto(effort) -> Search]
      /\ \A other \in Upto(effort) : Coloured(f[other], 0) \subseteq Coloured(other, 0)
      /\ \A other \in Search : Effort(other) \in Nat
  BY EffortType DEF Searching
<1>1. CASE search.left = {}
  BY <1>1 DEF Turn
<1>2. CASE search.left # {} /\ search.colour[n] = 0
  <2>1. n \in search.left /\ n \in NodeId
    BY <1>2, ChosenIsLeft
  <2> HIDE DEF n
  <2> DEFINE down == Descend(search, n)
             up == Ascend(search, f[down], n)
  <2>2. down \in Upto(effort)
    BY <1>0, <1>2, <2>1, DescendIsLess, DescendParts DEF Upto
  <2>3. f[down] \in Search /\ Coloured(f[down], 0) \subseteq Coloured(down, 0)
    BY <1>0, <2>2
  <2>4. up \in Upto(effort) /\ Coloured(up, 0) \subseteq Coloured(search, 0)
    <3>1. Effort(up) < Effort(search) /\ Coloured(up, 0) \subseteq Coloured(search, 0)
      BY <1>2, <2>1, <2>3, AscendIsLess
    <3>2. up \in Search
      BY <2>1, <2>3, AscendParts
    <3> HIDE DEF up
    <3>q. QED  BY <1>0, <3>1, <3>2 DEF Upto
  <2>5. \A g : Turn(search, g) = g[Ascend(search, g[down], n)]
    BY <1>2 DEF Turn, n
  <2> HIDE DEF down
  <2>q. QED  BY <1>0, <2>2, <2>4, <2>5
<1>3. CASE search.left # {} /\ search.colour[n] # 0
  <2>1. n \in search.left /\ n \in NodeId
    BY <1>3, ChosenIsLeft
  <2> HIDE DEF n
  <2>2. Skip(search, n) \in Upto(effort) /\ Coloured(Skip(search, n), 0) = Coloured(search, 0)
    BY <1>0, <2>1, SkipIsLess, SkipParts DEF Upto
  <2>3. \A g : Turn(search, g) = g[Skip(search, n)]
    BY <1>3 DEF Turn, n
  <2>q. QED  BY <1>0, <2>2, <2>3
<1>q. QED  BY <1>1, <1>2, <1>3

\* Induction up to n, about a set of numbers.
LEMMA Upwards ==
  ASSUME NEW n \in Nat, NEW good, 0 \in good, \A i \in 1 .. n : i - 1 \in good => i \in good
  PROVE  \A i \in 0 .. n : i \in good
<1> DEFINE bad == {i \in 0 .. n : i \notin good}
<1> SUFFICES ASSUME bad # {} PROVE FALSE
  OBVIOUS
<1>1. PICK least \in bad : \A i \in bad : least <= i
  <2>1. bad \in SUBSET Nat
    OBVIOUS
  <2>q. QED  BY <2>1, LeastNumber
<1>2. least \in 1 .. n
  BY <1>1
<1>3. least - 1 \in 0 .. n /\ ~(least <= least - 1)
  BY <1>2
<1>4. least - 1 \in good
  BY <1>1, <1>3
<1>q. QED  BY <1>1, <1>2, <1>4

LEMMA SearchingExists ==
  ASSUME NEW most \in Nat
  PROVE  Searching(most) # {}
<1> DEFINE good == {effort \in Nat : Searching(effort) # {}}
<1>1. 0 \in good
  <2> DEFINE f == [search \in Upto(0) |-> search]
  <2>1. \A search \in Upto(0) : search \in Search /\ search.left = {}
    <3> SUFFICES ASSUME NEW search \in Upto(0) PROVE search \in Search /\ search.left = {}
      OBVIOUS
    <3>1. search \in Search /\ Effort(search) <= 0
      BY DEF Upto
    <3> DEFINE none == [search EXCEPT !.left = {}]
    <3>2. SUFFICES ASSUME search.left # {} PROVE FALSE
      BY <3>1
    <3>3. none \in Search /\ none.left = {} /\ Coloured(none, 0) = Coloured(search, 0)
      BY <3>1 DEF Search, Coloured
    <3> HIDE DEF none
    <3>4. Effort(none) < Effort(search)
      BY <3>1, <3>2, <3>3, LessEffort
    <3>q. QED  BY <3>1, <3>3, <3>4, EffortType
  <2>2. f \in [Upto(0) -> Search]
    BY <2>1
  <2>3. \A search \in Upto(0) : f[search] = search /\ Turn(search, f) = search
    BY <2>1 DEF Turn
  <2> HIDE DEF f
  <2>4. f \in Searching(0)
    BY <2>2, <2>3 DEF Searching
  <2>q. QED  BY <2>4
<1>2. ASSUME NEW i \in 1 .. most, i - 1 \in good
      PROVE  i \in good
  <2>1. i - 1 \in Nat /\ i = (i - 1) + 1
    OBVIOUS
  <2>2. PICK f \in Searching(i - 1) : TRUE
    BY <1>2
  <2> DEFINE g == [search \in Upto(i) |->
                     IF search \in Upto(i - 1) THEN f[search] ELSE Turn(search, f)]
  <2>3. \A search \in Upto(i) :
          /\ Turn(search, f) \in Search
          /\ Coloured(Turn(search, f), 0) \subseteq Coloured(search, 0)
          /\ \A h : (\A other \in Upto(i - 1) : h[other] = f[other])
                      => Turn(search, h) = Turn(search, f)
    BY <2>1, TurnLooksBelow DEF Upto
  <2>4. \A search \in Upto(i - 1) : search \in Upto(i) /\ f[search] = Turn(search, f)
    BY EffortType DEF Searching, Upto
  <2>5. \A search \in Upto(i) : g[search] = Turn(search, f)
    BY <2>4
  <2>6. \A other \in Upto(i - 1) : g[other] = f[other]
    BY <2>4
  <2>7. g \in [Upto(i) -> Search]
    <3>1. DOMAIN g = Upto(i) /\ g = [search \in Upto(i) |-> g[search]]
      OBVIOUS
    <3> HIDE DEF g
    <3>q. QED  BY <2>3, <2>5, <3>1
  <2> HIDE DEF g
  <2>8. \A search \in Upto(i) : Turn(search, g) = Turn(search, f)
    BY <2>3, <2>6
  <2>9. g \in Searching(i)
    BY <2>3, <2>5, <2>7, <2>8 DEF Searching
  <2>q. QED  BY <2>9
<1> HIDE DEF good
<1>3. \A i \in 0 .. most : i \in good
  BY <1>1, <1>2, Upwards
<1>q. QED  BY <1>3 DEF good

LEMMA EffortIsBounded ==
  \E most \in Nat : Upto(most) = Search
<1> DEFINE k == Cardinality(NodeId)
           most == k * (k + 1) + k
<1>1. k \in Nat
  BY IdsFinite
<1>2. most \in Nat
  BY <1>1
<1>3. ASSUME NEW search \in Search
      PROVE  Effort(search) <= most
  <2> DEFINE a == Cardinality(Coloured(search, 0))
             c == Cardinality(search.left)
  <2>1. Coloured(search, 0) \in SUBSET NodeId /\ search.left \in SUBSET NodeId
    BY SearchParts DEF Coloured
  <2>2. a \in 0 .. k /\ c \in 0 .. k
    BY <2>1, IdsFinite
  <2>3. Effort(search) = a * (k + 1) + c
    BY DEF Effort
  <2> HIDE DEF a, c, k
  <2>4. k - a \in Nat /\ (k - a) * (k + 1) \in Nat /\ a * (k + 1) \in Nat
    BY <1>1, <2>2
  <2>5. k * (k + 1) = a * (k + 1) + (k - a) * (k + 1)
    BY <1>1, <2>2
  <2>6. most = a * (k + 1) + (k - a) * (k + 1) + k
    BY <2>5
  <2> HIDE DEF most
  <2>q. QED  BY <1>1, <2>2, <2>3, <2>4, <2>6
<1> HIDE DEF most
<1>q. QED  BY <1>2, <1>3 DEF Upto

\* dfs is what its definition says, on every search.
LEMMA SearchIsDefined ==
  \A search \in Search : dfs[search] = Turn(search, dfs)
<1> DEFINE body(f) == [search \in Search |-> Turn(search, f)]
<1>1. dfs = CHOOSE f : f = body(f)
  BY DEF dfs, Turn
<1>2. PICK most \in Nat : Upto(most) = Search
  BY EffortIsBounded
<1>3. PICK f \in Searching(most) : TRUE
  BY <1>2, SearchingExists
<1>4. f \in [Search -> Search] /\ \A search \in Search : f[search] = Turn(search, f)
  BY <1>2, <1>3 DEF Searching
<1>5. f = body(f)
  BY <1>4
<1> HIDE DEF body
<1>6. dfs = body(dfs)
  BY <1>1, <1>5
<1>q. QED  BY <1>6 DEF body

\* What holds of a search if it holds of every search of less effort holds of all.
LEMMA SearchInduction ==
  ASSUME NEW good,
         \A search \in Search :
           (\A other \in Search : Effort(other) < Effort(search) => other \in good)
             => search \in good
  PROVE  \A search \in Search : search \in good
<1> DEFINE bad == {search \in Search : search \notin good}
           efforts == {Effort(search) : search \in bad}
<1> SUFFICES ASSUME bad # {} PROVE FALSE
  OBVIOUS
<1>1. efforts \in SUBSET Nat /\ efforts # {}
  BY EffortType
<1>2. PICK least \in efforts : \A number \in efforts : least <= number
  BY <1>1, LeastNumber
<1>3. PICK search \in bad : least = Effort(search)
  OBVIOUS
<1>4. ASSUME NEW other \in Search, Effort(other) < Effort(search)
      PROVE  other \in good
  <2> SUFFICES ASSUME other \in bad PROVE FALSE
    OBVIOUS
  <2>1. least <= Effort(other)
    BY <1>2
  <2>q. QED  BY <1>3, <1>4, <2>1, EffortType
<1>q. QED  BY <1>3, <1>4

\* Where a loop is after n.
Onward(search, n) ==
  IF search.colour[n] = 0 THEN Ascend(search, dfs[Descend(search, n)], n) ELSE Skip(search, n)

\* A loop that has ids left is the loop after one of them.
LEMMA SearchGoesOn ==
  ASSUME NEW search \in Search, search.left # {}
  PROVE  \E n \in search.left :
           dfs[search] = dfs[Onward(search, n)]
<1>1. dfs[search] = Turn(search, dfs)
  BY SearchIsDefined
<1> DEFINE n == CHOOSE n \in search.left : TRUE
<1>2. n \in search.left
  OBVIOUS
<1>3. Turn(search, dfs) = dfs[Onward(search, n)]
  BY DEF Turn, Onward
<1> HIDE DEF n
<1>q. QED  BY <1>1, <1>2, <1>3

LEMMA SearchIsOver ==
  ASSUME NEW search \in Search, search.left = {}
  PROVE  dfs[search] = search
BY SearchIsDefined DEF Turn

\* A search leaves the path as it was and enters what it has left.
SearchKeeps(search, result) ==
  /\ result \in Search
  /\ Coloured(result, 0) \subseteq Coloured(search, 0)
  /\ Coloured(result, 1) = Coloured(search, 1)
  /\ Coloured(search, 2) \subseteq Coloured(result, 2)
  /\ ~result.cyclic => ~search.cyclic /\ search.left \subseteq Coloured(result, 2)

LEMMA ColoursOf ==
  ASSUME NEW search \in Search, NEW n \in NodeId
  PROVE  /\ search.colour[n] \in {0, 1, 2}
         /\ n \in Coloured(search, 0) <=> search.colour[n] = 0
         /\ n \in Coloured(search, 1) <=> search.colour[n] = 1
         /\ n \in Coloured(search, 2) <=> search.colour[n] = 2
BY SearchParts DEF Coloured

\* The colours around a call of dfs for n.
LEMMA AscendColours ==
  ASSUME NEW search \in Search, NEW n \in search.left, search.colour[n] = 0, NEW below,
         SearchKeeps(Descend(search, n), below)
  PROVE  /\ below \in Search /\ n \in NodeId
         /\ Ascend(search, below, n) \in Search
         /\ Effort(Ascend(search, below, n)) < Effort(search)
         /\ Coloured(Ascend(search, below, n), 0) \subseteq Coloured(search, 0)
         /\ Coloured(Ascend(search, below, n), 1) = Coloured(search, 1)
         /\ Coloured(Ascend(search, below, n), 2) = Coloured(below, 2) \cup {n}
         /\ Coloured(search, 2) \subseteq Coloured(below, 2)
         /\ n \notin Coloured(below, 2)
         /\ Coloured(Descend(search, n), 1) = Coloured(search, 1) \cup {n}
         /\ Coloured(Descend(search, n), 2) = Coloured(search, 2)
<1>0. n \in NodeId /\ below \in Search
  BY SearchParts DEF SearchKeeps
<1>1. /\ Ascend(search, below, n) \in Search
      /\ \A m \in NodeId :
           Ascend(search, below, n).colour[m] = IF m = n THEN 2 ELSE below.colour[m]
  BY <1>0, AscendParts
<1>2. \A m \in NodeId : Descend(search, n).colour[m] = IF m = n THEN 1 ELSE search.colour[m]
  BY <1>0, DescendParts
<1>3. /\ Coloured(Descend(search, n), 1) = Coloured(search, 1) \cup {n}
      /\ Coloured(Descend(search, n), 2) = Coloured(search, 2)
      /\ Coloured(Descend(search, n), 0) = Coloured(search, 0) \ {n}
  BY <1>0, <1>2 DEF Coloured
<1>4. /\ Coloured(below, 1) = Coloured(search, 1) \cup {n}
      /\ Coloured(below, 0) \subseteq Coloured(Descend(search, n), 0)
      /\ Coloured(search, 2) \subseteq Coloured(below, 2)
  BY <1>3 DEF SearchKeeps
<1>5. n \notin Coloured(below, 2) /\ n \notin Coloured(search, 1)
  BY <1>0, <1>4, ColoursOf
<1>6. /\ Coloured(Ascend(search, below, n), 2) = Coloured(below, 2) \cup {n}
      /\ Coloured(Ascend(search, below, n), 1) = Coloured(below, 1) \ {n}
  BY <1>0, <1>1 DEF Coloured
<1>7. Coloured(Ascend(search, below, n), 1) = Coloured(search, 1)
  BY <1>4, <1>5, <1>6
<1>8. /\ Effort(Ascend(search, below, n)) < Effort(search)
      /\ Coloured(Ascend(search, below, n), 0) \subseteq Coloured(search, 0)
  BY <1>0, <1>4, AscendIsLess
<1>q. QED  BY <1>0, <1>1, <1>3, <1>4, <1>5, <1>6, <1>7, <1>8

LEMMA DfsKeeps ==
  \A search \in Search : SearchKeeps(search, dfs[search])
<1> DEFINE good == {search \in Search : SearchKeeps(search, dfs[search])}
<1>1. ASSUME NEW search \in Search,
             \A other \in Search : Effort(other) < Effort(search) => other \in good
      PROVE  SearchKeeps(search, dfs[search])
  <2>1. CASE search.left = {}
    <3>1. dfs[search] = search
      BY <2>1, SearchIsOver
    <3>q. QED  BY <2>1, <3>1 DEF SearchKeeps
  <2>2. CASE search.left # {}
    <3>1. PICK n \in search.left :
            dfs[search] = dfs[Onward(search, n)]
      BY <2>2, SearchGoesOn
    <3>2. n \in NodeId
      BY SearchParts
    <3>3. CASE search.colour[n] = 0
      <4> DEFINE down == Descend(search, n)
                 below == dfs[down]
                 up == Ascend(search, below, n)
      <4>1. down \in Search /\ down.left = Successors(n) /\ down.cyclic = search.cyclic
        BY <3>2, DescendParts
      <4>2. SearchKeeps(down, below)
        BY <1>1, <3>2, <3>3, <4>1, DescendIsLess
      <4>3. up.left = search.left \ {n} /\ up.cyclic = below.cyclic
        BY DEF Ascend
      <4> HIDE DEF down, below
      <4>4. /\ up \in Search /\ Effort(up) < Effort(search)
            /\ Coloured(up, 0) \subseteq Coloured(search, 0)
            /\ Coloured(up, 1) = Coloured(search, 1)
            /\ Coloured(up, 2) = Coloured(below, 2) \cup {n}
            /\ Coloured(search, 2) \subseteq Coloured(below, 2)
        BY <3>3, <4>2, AscendColours DEF down
      <4>5. dfs[search] = dfs[up]
        BY <3>1, <3>3 DEF below, down, Onward
      <4> HIDE DEF up
      <4>6. SearchKeeps(up, dfs[up])
        BY <1>1, <4>3, <4>4
      <4>7. ~below.cyclic => ~search.cyclic
        BY <4>1, <4>2 DEF SearchKeeps
      <4>q. QED  BY <4>3, <4>4, <4>5, <4>6, <4>7 DEF SearchKeeps
    <3>4. CASE search.colour[n] # 0
      <4> DEFINE skip == Skip(search, n)
      <4>1. /\ skip \in Search /\ skip.left = search.left \ {n} /\ skip.colour = search.colour
            /\ skip.cyclic <=> search.cyclic \/ search.colour[n] = 1
        BY <3>2, SkipParts
      <4>2. Effort(skip) < Effort(search)
        BY SkipIsLess
      <4>3. dfs[search] = dfs[skip]
        BY <3>1, <3>4 DEF Onward
      <4> HIDE DEF skip
      <4>4. SearchKeeps(skip, dfs[skip])
        BY <1>1, <4>1, <4>2
      <4>5. \A c : Coloured(skip, c) = Coloured(search, c)
        BY <4>1 DEF Coloured
      <4>6. search.colour[n] # 1 => n \in Coloured(search, 2)
        BY <3>2, <3>4, ColoursOf
      <4>q. QED  BY <4>1, <4>3, <4>4, <4>5, <4>6 DEF SearchKeeps
    <3>q. QED  BY <3>3, <3>4
  <2>q. QED  BY <2>1, <2>2
<1>2. \A search \in Search :
        (\A other \in Search : Effort(other) < Effort(search) => other \in good)
          => search \in good
  BY <1>1
<1> HIDE DEF good
<1>3. \A search \in Search : search \in good
  BY <1>2, SearchInduction
<1>q. QED  BY <1>3 DEF good

\* What holds of dfs at the end of every loop, and of a loop if it holds of those that dfs
\* calls itself for.
LEMMA DfsInduction ==
  ASSUME NEW good,
         \A search \in Search : search.left = {} => search \in good,
         \A search \in Search : \A n \in search.left :
           /\ search.colour[n] = 0
           /\ Descend(search, n) \in good
           /\ Ascend(search, dfs[Descend(search, n)], n) \in good
           /\ dfs[search] = dfs[Ascend(search, dfs[Descend(search, n)], n)]
           => search \in good,
         \A search \in Search : \A n \in search.left :
           /\ search.colour[n] # 0
           /\ Skip(search, n) \in good
           /\ dfs[search] = dfs[Skip(search, n)]
           => search \in good
  PROVE  \A search \in Search : search \in good
<1>1. ASSUME NEW search \in Search,
             \A other \in Search : Effort(other) < Effort(search) => other \in good
      PROVE  search \in good
  <2> SUFFICES ASSUME search.left # {} PROVE search \in good
    OBVIOUS
  <2>1. PICK n \in search.left :
          dfs[search] = dfs[Onward(search, n)]
    BY SearchGoesOn
  <2>2. n \in NodeId
    BY SearchParts
  <2>3. CASE search.colour[n] = 0
    <3>1. Descend(search, n) \in Search /\ Descend(search, n) \in good
      BY <1>1, <2>2, <2>3, DescendIsLess, DescendParts
    <3>2. SearchKeeps(Descend(search, n), dfs[Descend(search, n)])
      BY <3>1, DfsKeeps
    <3>3. Ascend(search, dfs[Descend(search, n)], n) \in good
      BY <1>1, <2>3, <3>2, AscendColours
    <3>q. QED  BY <2>1, <2>3, <3>1, <3>3 DEF Onward
  <2>4. CASE search.colour[n] # 0
    <3>1. Skip(search, n) \in good
      BY <1>1, <2>2, SkipIsLess, SkipParts
    <3>q. QED  BY <2>1, <2>4, <3>1 DEF Onward
  <2>q. QED  BY <2>3, <2>4
<1>q. QED  BY <1>1, SearchInduction

\* The ids that were left can be ranked, as long as no cycle was found: an id is left after
\* all its successors.
Ranked(ids) ==
  \E rank \in [ids -> 1 .. Cardinality(ids)] :
    \A s \in ids : \A t \in Successors(s) : t \in ids /\ rank[s] < rank[t]

LEMMA RankedGrows ==
  ASSUME NEW ids \in SUBSET NodeId, Ranked(ids),
         NEW n \in NodeId \ ids, Successors(n) \subseteq ids
  PROVE  Ranked(ids \cup {n})
<1>1. PICK rank \in [ids -> 1 .. Cardinality(ids)] :
        \A s \in ids : \A t \in Successors(s) : t \in ids /\ rank[s] < rank[t]
  BY DEF Ranked
<1>2. /\ Cardinality(ids) \in Nat
      /\ Cardinality(ids \cup {n}) = Cardinality(ids) + 1
  BY IdsFinite, FS_AddElement
<1> DEFINE k == Cardinality(ids)
           lower == [s \in ids \cup {n} |-> IF s = n THEN 1 ELSE rank[s] + 1]
<1>3. \A s \in ids : rank[s] \in 1 .. k /\ lower[s] = rank[s] + 1
  BY <1>1
<1>4. lower[n] = 1 /\ DOMAIN lower = ids \cup {n}
  OBVIOUS
<1>5. lower \in [ids \cup {n} -> 1 .. k + 1]
  BY <1>2, <1>3
<1> HIDE DEF lower
<1>6. \A s \in ids : \A t \in Successors(s) : t \in ids /\ lower[s] < lower[t]
  BY <1>1, <1>2, <1>3
<1>7. \A t \in Successors(n) : t \in ids /\ lower[n] < lower[t]
  BY <1>2, <1>3, <1>4
<1>q. QED  BY <1>2, <1>5, <1>6, <1>7 DEF Ranked

LEMMA DfsRanks ==
  \A search \in Search :
    ~dfs[search].cyclic /\ Ranked(Coloured(search, 2)) => Ranked(Coloured(dfs[search], 2))
<1> DEFINE ranks(search) ==
             ~dfs[search].cyclic /\ Ranked(Coloured(search, 2))
               => Ranked(Coloured(dfs[search], 2))
           good == {search \in Search : ranks(search)}
<1>1. \A search \in Search : search.left = {} => search \in good
  BY SearchIsOver
<1>2. ASSUME NEW search \in Search, NEW n \in search.left, search.colour[n] = 0,
             Descend(search, n) \in good, Ascend(search, dfs[Descend(search, n)], n) \in good,
             dfs[search] = dfs[Ascend(search, dfs[Descend(search, n)], n)]
      PROVE  search \in good
  <2> DEFINE down == Descend(search, n)
             below == dfs[down]
             up == Ascend(search, below, n)
  <2>1. n \in NodeId
    BY SearchParts
  <2>2. down \in Search /\ down.left = Successors(n) /\ SearchKeeps(down, below)
    BY <2>1, DescendParts, DfsKeeps
  <2>3. SearchKeeps(up, dfs[up]) /\ up.cyclic = below.cyclic
    <3>1. up \in Search
      BY <1>2, <2>2, AscendColours
    <3>2. up.cyclic = below.cyclic
      BY DEF Ascend
    <3>q. QED  BY <3>1, <3>2, DfsKeeps
  <2>4. /\ Coloured(up, 2) = Coloured(below, 2) \cup {n} /\ n \notin Coloured(below, 2)
        /\ Coloured(down, 2) = Coloured(search, 2)
    BY <1>2, <2>2, AscendColours
  <2>5. ranks(down) /\ ranks(up) /\ dfs[search] = dfs[up]
    BY <1>2
  <2> HIDE DEF up, down
  <2>6. SUFFICES ASSUME ~dfs[search].cyclic, Ranked(Coloured(search, 2))
                 PROVE  Ranked(Coloured(dfs[search], 2))
    OBVIOUS
  <2>7. ~up.cyclic /\ ~below.cyclic
    BY <2>3, <2>5, <2>6 DEF SearchKeeps
  <2>8. Ranked(Coloured(below, 2)) /\ Successors(n) \subseteq Coloured(below, 2)
    BY <2>2, <2>4, <2>5, <2>6, <2>7 DEF SearchKeeps
  <2>9. Ranked(Coloured(up, 2))
    <3>1. Coloured(below, 2) \in SUBSET NodeId
      BY DEF Coloured
    <3>q. QED  BY <2>1, <2>4, <2>8, <3>1, RankedGrows
  <2>q. QED  BY <2>5, <2>6, <2>9
<1>3. ASSUME NEW search \in Search, NEW n \in search.left, Skip(search, n) \in good,
             dfs[search] = dfs[Skip(search, n)]
      PROVE  search \in good
  <2>1. n \in NodeId
    BY SearchParts
  <2>2. Coloured(Skip(search, n), 2) = Coloured(search, 2)
    BY <2>1, SkipParts DEF Coloured
  <2>q. QED  BY <1>3, <2>2
<1> HIDE DEF good
<1>4. \A search \in Search : search \in good
  BY <1>1, <1>2, <1>3, DfsInduction
<1>q. QED  BY <1>4 DEF good

\* If every edge leads to a higher rank, what is ahead of the path has a higher rank than
\* the path, and closes no cycle.
LEMMA DfsClears ==
  ASSUME NEW rank \in [NodeId -> Nat],
         \A s \in NodeId : \A t \in Successors(s) : rank[s] < rank[t]
  PROVE  \A search \in Search :
           /\ ~search.cyclic
           /\ \A s \in Coloured(search, 1) : \A t \in search.left : rank[s] < rank[t]
           => ~dfs[search].cyclic
<1> DEFINE ahead(search) ==
             \A s \in Coloured(search, 1) : \A t \in search.left : rank[s] < rank[t]
           clears(search) == ~search.cyclic /\ ahead(search) => ~dfs[search].cyclic
           good == {search \in Search : clears(search)}
<1>0. \A m \in NodeId : rank[m] \in Nat
  OBVIOUS
<1>1. \A search \in Search : search.left = {} => search \in good
  BY SearchIsOver
<1>2. ASSUME NEW search \in Search, NEW n \in search.left, search.colour[n] = 0,
             Descend(search, n) \in good, Ascend(search, dfs[Descend(search, n)], n) \in good,
             dfs[search] = dfs[Ascend(search, dfs[Descend(search, n)], n)]
      PROVE  search \in good
  <2> DEFINE down == Descend(search, n)
             below == dfs[down]
             up == Ascend(search, below, n)
  <2>1. n \in NodeId /\ search.left \subseteq NodeId
    BY SearchParts
  <2>2. /\ down \in Search /\ down.left = Successors(n) /\ down.cyclic = search.cyclic
        /\ SearchKeeps(down, below)
    BY <2>1, DescendParts, DfsKeeps
  <2>3. up.left = search.left \ {n} /\ up.cyclic = below.cyclic
    BY DEF Ascend
  <2>4. /\ Coloured(up, 1) = Coloured(search, 1)
        /\ Coloured(down, 1) = Coloured(search, 1) \cup {n}
    BY <1>2, <2>2, AscendColours
  <2>5. clears(down) /\ clears(up) /\ dfs[search] = dfs[up]
    BY <1>2
  <2> HIDE DEF up, down
  <2>6. SUFFICES ASSUME ~search.cyclic, ahead(search) PROVE ~dfs[search].cyclic
    OBVIOUS
  <2>7. ahead(down)
    <3> SUFFICES ASSUME NEW s \in Coloured(down, 1), NEW t \in down.left
                 PROVE  rank[s] < rank[t]
      OBVIOUS
    <3>1. t \in Successors(n) /\ t \in NodeId /\ rank[n] < rank[t]
      BY <2>1, <2>2 DEF Successors
    <3>2. s = n \/ (s \in NodeId /\ rank[s] < rank[n])
      BY <2>4, <2>6 DEF Coloured
    <3>q. QED  BY <1>0, <2>1, <3>1, <3>2
  <2>8. ~below.cyclic
    BY <2>2, <2>5, <2>6, <2>7
  <2>9. ahead(up)
    BY <2>3, <2>4, <2>6
  <2>q. QED  BY <2>3, <2>5, <2>8, <2>9
<1>3. ASSUME NEW search \in Search, NEW n \in search.left, Skip(search, n) \in good,
             dfs[search] = dfs[Skip(search, n)]
      PROVE  search \in good
  <2> DEFINE skip == Skip(search, n)
  <2>1. n \in NodeId
    BY SearchParts
  <2>2. /\ skip.left = search.left \ {n}
        /\ skip.cyclic <=> search.cyclic \/ search.colour[n] = 1
        /\ Coloured(skip, 1) = Coloured(search, 1)
    BY <2>1, SkipParts DEF Coloured
  <2>3. clears(skip) /\ dfs[search] = dfs[skip]
    BY <1>3
  <2> HIDE DEF skip
  <2>4. SUFFICES ASSUME ~search.cyclic, ahead(search) PROVE ~dfs[search].cyclic
    OBVIOUS
  <2>5. search.colour[n] # 1
    BY <1>0, <2>1, <2>4, ColoursOf
  <2>q. QED  BY <2>2, <2>3, <2>4, <2>5
<1> HIDE DEF good
<1>4. \A search \in Search : search \in good
  BY <1>1, <1>2, <1>3, DfsInduction
<1>q. QED  BY <1>4 DEF good

\* The search stays among the nodes, as long as no list of successors names anything else.
LEMMA DfsStaysInside ==
  ASSUME \A n \in NodeId : Successors(n) \subseteq nodes, nodes \subseteq NodeId
  PROVE  \A search \in Search :
           search.left \subseteq nodes /\ Coloured(search, 2) \subseteq nodes
             => Coloured(dfs[search], 2) \subseteq nodes
<1> DEFINE stays(search) ==
             search.left \subseteq nodes /\ Coloured(search, 2) \subseteq nodes
               => Coloured(dfs[search], 2) \subseteq nodes
           good == {search \in Search : stays(search)}
<1>1. \A search \in Search : search.left = {} => search \in good
  BY SearchIsOver
<1>2. ASSUME NEW search \in Search, NEW n \in search.left, search.colour[n] = 0,
             Descend(search, n) \in good, Ascend(search, dfs[Descend(search, n)], n) \in good,
             dfs[search] = dfs[Ascend(search, dfs[Descend(search, n)], n)]
      PROVE  search \in good
  <2> DEFINE down == Descend(search, n)
             below == dfs[down]
             up == Ascend(search, below, n)
  <2>1. n \in NodeId
    BY SearchParts
  <2>2. down \in Search /\ down.left = Successors(n) /\ SearchKeeps(down, below)
    BY <2>1, DescendParts, DfsKeeps
  <2>3. up.left = search.left \ {n}
    BY DEF Ascend
  <2>4. /\ Coloured(up, 2) = Coloured(below, 2) \cup {n}
        /\ Coloured(down, 2) = Coloured(search, 2)
    BY <1>2, <2>2, AscendColours
  <2>5. stays(down) /\ stays(up) /\ dfs[search] = dfs[up]
    BY <1>2
  <2> HIDE DEF up, down
  <2>q. QED  BY <2>1, <2>2, <2>3, <2>4, <2>5
<1>3. ASSUME NEW search \in Search, NEW n \in search.left, Skip(search, n) \in good,
             dfs[search] = dfs[Skip(search, n)]
      PROVE  search \in good
  <2>1. n \in NodeId
    BY SearchParts
  <2>2. /\ Coloured(Skip(search, n), 2) = Coloured(search, 2)
        /\ Skip(search, n).left = search.left \ {n}
    BY <2>1, SkipParts DEF Coloured
  <2>q. QED  BY <1>3, <2>2
<1> HIDE DEF good
<1>4. \A search \in Search : search \in good
  BY <1>1, <1>2, <1>3, DfsInduction
<1>q. QED  BY <1>4 DEF good

\* The search finds a cycle exactly if the nodes cannot be ranked.
LEMMA SearchRight == GraphInv => SearchAgrees
<1> SUFFICES ASSUME GraphInv, stale = {} PROVE isDAG <=> Acyclic
  BY DEF SearchAgrees, isDAG, detectsCycles, Acyclic
<1> DEFINE start == [left |-> nodes, colour |-> [n \in NodeId |-> 0], cyclic |-> FALSE]
           result == dfs[start]
<1>1. nodes \subseteq NodeId /\ succs \in Bag /\ edges \in Bag
  BY DEF GraphInv, GraphTypeOK
<1>2. /\ start \in Search /\ start.left = nodes /\ ~start.cyclic
      /\ Coloured(start, 1) = {} /\ Coloured(start, 2) = {}
  BY <1>1 DEF Search, Coloured
<1>3. isDAG <=> ~result.cyclic
  BY DEF isDAG, detectsCycles
<1> HIDE DEF start
<1>4. \A s \in nodes : \A t \in NodeId : t \in Successors(s) <=> t \in nodes /\ edges[s][t] > 0
  BY <1>1 DEF GraphInv, Detached, ListsAgree, Successors
<1>5. \A s \in NodeId : Successors(s) \subseteq nodes /\ (s \notin nodes => Successors(s) = {})
  BY <1>1, <1>4 DEF Successors
<1>6. ASSUME ~result.cyclic PROVE Acyclic
  <2>1. SearchKeeps(start, result)
    BY <1>2, DfsKeeps
  <2>2. Coloured(result, 2) = nodes
    <3>1. Coloured(result, 2) \subseteq nodes
      BY <1>1, <1>2, <1>5, DfsStaysInside
    <3>q. QED  BY <1>2, <1>6, <2>1, <3>1 DEF SearchKeeps
  <2>3. Ranked({})
    <3>1. [s \in {} |-> 0] \in [{} -> 1 .. Cardinality({})]
      BY Zenon
    <3>q. QED  BY <3>1 DEF Ranked
  <2>4. Ranked(nodes)
    BY <1>2, <1>6, <2>2, <2>3, DfsRanks
  <2>q. QED  BY <1>1, <1>4, <2>4 DEF Ranked, Acyclic
<1>7. ASSUME Acyclic PROVE ~result.cyclic
  <2>0. Cardinality(nodes) \in Nat
    BY NodesFinite
  <2>1. PICK rank \in [nodes -> 1 .. Cardinality(nodes)] :
          \A s, t \in nodes : edges[s][t] > 0 => rank[s] < rank[t]
    BY <1>7 DEF Acyclic
  <2> DEFINE all == [n \in NodeId |-> IF n \in nodes THEN rank[n] ELSE 0]
  <2>2. all \in [NodeId -> Nat] /\ \A n \in nodes : all[n] = rank[n]
    BY <1>1, <2>0, <2>1
  <2> HIDE DEF all
  <2>3. \A s \in NodeId : \A t \in Successors(s) : all[s] < all[t]
    BY <1>1, <1>4, <1>5, <2>1, <2>2
  <2>q. QED  BY <1>2, <2>2, <2>3, DfsClears
<1>q. QED  BY <1>3, <1>6, <1>7

\* Search and sort agree, and so does the validator.
LEMMA ValidatorRight == GraphInv => AlgorithmsAgree
<1> SUFFICES ASSUME GraphInv, stale = {} PROVE (validate = {}) <=> (Acyclic /\ nodes # {})
  BY SortRight, SearchRight DEF AlgorithmsAgree
<1>1. detectsCycles <=> ~Acyclic
  BY SearchRight DEF SearchAgrees, isDAG
<1>2. ASSUME Acyclic, nodes # {}
      PROVE  getStartNodes # {} /\ getEndNodes # {}
  <2>1. nodes \subseteq NodeId
    BY DEF GraphInv, GraphTypeOK
  <2>2. PICK first \in nodes : \A p \in nodes : ~(edges[p][first] > 0)
    BY <1>2, RankedHasFirst
  <2>3. PICK last \in nodes : \A t \in nodes : ~(edges[last][t] > 0)
    BY <1>2, RankedHasLast
  <2>4. Predecessors(first) \subseteq nodes /\ Successors(last) \subseteq nodes
    BY <2>1 DEF GraphInv, Detached, Predecessors, Successors
  <2>5. first \in getStartNodes
    BY <2>1, <2>2, <2>4, NothingStale DEF getStartNodes, Predecessors
  <2>6. last \in getEndNodes
    BY <2>1, <2>3, <2>4, NothingStale DEF getEndNodes, Successors
  <2>q. QED  BY <2>5, <2>6
<1>3. nodes = {} => getStartNodes = {}
  BY DEF getStartNodes
<1>4. validate = {} <=> getStartNodes # {} /\ getEndNodes # {} /\ ~detectsCycles
  BY DEF validate
<1>q. QED  BY <1>1, <1>2, <1>3, <1>4

-----------------------------------------------------------------------------
(* Theorems.                                                               *)

GraphSpec == GraphInit /\ [][EditGraph]_graph

\* However a client edits a graph, the three copies of every edge agree as long as the ends
\* are the node objects they were first.
THEOREM EditsKeepLists == GraphSpec => []ListsAgree
<1>1. GraphInv /\ UNCHANGED graph => GraphInv'
  BY DEF graph, GraphInv, GraphTypeOK, Detached, ListsAgree
<1>2. GraphInv => ListsAgree
  BY DEF GraphInv
<1>q. QED  BY <1>1, <1>2, GraphInitially, EditKeeps, PTL DEF GraphSpec

\* Whatever edits built a graph: the search finds a cycle exactly if there is one, the sort
\* never lists a cyclic graph and lists every other with all its edges in their direction,
\* and the validator complains of exactly the cyclic graphs and the empty one.
THEOREM AlgorithmsAreRight == GraphSpec => []AlgorithmsAgree
<1>1. GraphInv /\ UNCHANGED graph => GraphInv'
  BY DEF graph, GraphInv, GraphTypeOK, Detached, ListsAgree
<1>q. QED  BY <1>1, ValidatorRight, GraphInitially, EditKeeps, PTL DEF GraphSpec

-----------------------------------------------------------------------------
(* The orchestrator that runs the graph.                                   *)

USE DEF graph, settings, status, flags, running, work, calling

-----------------------------------------------------------------------------
(* Types.                                                                  *)

LEMMA TypeInitially == Init => CoreTypeOK
<1> SUFFICES ASSUME Init PROVE CoreTypeOK
  OBVIOUS
<1>1. GraphTypeOK
  BY GraphInitially DEF Init, GraphInv
<1>q. QED  BY <1>1 DEF Init, CoreTypeOK, OrchestrationState

\* A node's own steps.
LEMMA NodeKeepsType ==
  ASSUME CoreTypeOK, NEW n \in NodeId, Node(n) \/ NodeTimesOut(n)
  PROVE  CoreTypeOK'
<1> USE DEF CoreTypeOK, GraphTypeOK
<1>1. CASE TaskEnds(n)  BY <1>1 DEF TaskEnds
<1>2. CASE NodeReturns(n)  BY <1>2 DEF NodeReturns
<1>3. CASE NodeThrows(n)  BY <1>3 DEF NodeThrows, Leave, Return, OrchestrationState
<1>4. CASE LayerStart(n)
  <2>1. started[n] + 1 \in Nat
    OBVIOUS
  <2>q. QED  BY <1>4, <2>1 DEF LayerStart, StartNode
<1>5. CASE LayerSave(n)  BY <1>5 DEF LayerSave
<1>6. CASE LayerPush(n)  BY <1>6 DEF LayerPush, Pushing
<1>7. CASE LayerPushed(n)  BY <1>7 DEF LayerPushed
<1>8. CASE NodeTimesOut(n)  BY <1>8 DEF NodeTimesOut
<1>q. QED  BY <1>1, <1>2, <1>3, <1>4, <1>5, <1>6, <1>7, <1>8 DEF Node

LEMMA LoopKeepsType ==
  ASSUME CoreTypeOK, Loop
  PROVE  CoreTypeOK'
<1> USE DEF CoreTypeOK, GraphTypeOK
<1>1. CASE SequenceStart
  <2>1. CASE shouldAbort
    BY <1>1, <2>1 DEF SequenceStart, Leave, Return
  <2>2. CASE ~shouldAbort
    <3>1. \A n \in NodeId : started[n] + 1 \in Nat
      OBVIOUS
    <3>2. started' \in [NodeId -> Nat]
      BY <1>1, <2>2, <3>1 DEF SequenceStart, StartNode
    <3>3. /\ at' \in [NodeId -> {"out", "thread", "await", "late", "save", "push", "pushing",
                              "joined"}]
          /\ task' \in [NodeId -> {"none", "asleep", "ended"}]
          /\ nodeState' \in [NodeId -> {"PENDING", "RUNNING", "COMPLETED", "FAILED"}]
      BY <1>1, <2>2 DEF SequenceStart, StartNode
    <3>q. QED  BY <1>1, <2>2, <3>2, <3>3 DEF SequenceStart
  <2>q. QED  BY <2>1, <2>2
<1>2. CASE SequenceSave  BY <1>2 DEF SequenceSave, Leave, Return
<1>3. CASE SequenceEnds  BY <1>3 DEF SequenceEnds, Complete, Leave, Return, OrchestrationState
<1>4. CASE LayerLaunch  BY <1>4 DEF LayerLaunch
<1>5. CASE LayerJoin  BY <1>5 DEF LayerJoin, NextLayer, Leave, Return
<1>6. CASE LayersEnd  BY <1>6 DEF LayersEnd, Complete, Leave, Return, OrchestrationState
<1>q. QED  BY <1>1, <1>2, <1>3, <1>4, <1>5, <1>6 DEF Loop

LEMMA MethodKeepsType ==
  ASSUME CoreTypeOK, NEW c \in Clients, Method(c)
  PROVE  CoreTypeOK'
<1> USE DEF CoreTypeOK, GraphTypeOK, Return, OrchestrationState
<1>1. CASE SetGraph(c)  BY <1>1 DEF SetGraph
<1>2. CASE SetExecutionStrategy(c)  BY <1>2 DEF SetExecutionStrategy
<1>3. CASE Pause(c)  BY <1>3 DEF Pause
<1>4. CASE Resume(c)  BY <1>4 DEF Resume
<1>5. CASE Abort(c)  BY <1>5 DEF Abort
<1>6. CASE Reset(c)  BY <1>6 DEF Reset
<1>7. CASE Refuse(c)  BY <1>7 DEF Refuse
<1>8. CASE RejectCycle(c)  BY <1>8 DEF RejectCycle
<1>9. CASE Execute(c)  BY <1>9 DEF Execute, getStartNodes
<1>q. QED  BY <1>1, <1>2, <1>3, <1>4, <1>5, <1>6, <1>7, <1>8, <1>9 DEF Method

LEMMA TypeStep ==
  ASSUME CoreTypeOK, GraphInv, [Next]_vars
  PROVE  CoreTypeOK'
<1>1. CASE Build
  <2>1. GraphInv'
    BY <1>1, EditKeeps DEF Build
  <2>q. QED  BY <1>1, <2>1 DEF Build, CoreTypeOK, GraphInv
<1>2. CASE Request
  <2>1. /\ calls' = calls + 1
        /\ call' \in [Clients -> Methods \cup {"none"}]
    BY <1>2 DEF Request, CoreTypeOK
  <2>q. QED  BY <1>2, <2>1 DEF Request, CoreTypeOK, GraphTypeOK
<1>3. CASE \E c \in Clients : Method(c)
  BY <1>3, MethodKeepsType
<1>4. CASE \E n \in NodeId : Node(n) \/ NodeTimesOut(n)
  BY <1>4, NodeKeepsType
<1>5. CASE Loop
  BY <1>5, LoopKeepsType
<1>6. CASE UNCHANGED vars
  BY <1>6 DEF vars, CoreTypeOK, GraphTypeOK
<1>q. QED  BY <1>1, <1>2, <1>3, <1>4, <1>5, <1>6 DEF Next

\* After the first call the graph is left alone.
LEMMA GraphStep ==
  ASSUME GraphInv, [Next]_vars
  PROVE  GraphInv' /\ (UNCHANGED graph \/ Build)
<1>1. CASE Build
  BY <1>1, EditKeeps DEF Build
<1>2. CASE ~Build
  <2>1. UNCHANGED graph
    <3>1. CASE Request  BY <3>1 DEF Request
    <3>2. CASE \E c \in Clients : Method(c)
      BY <3>2 DEF Method, SetGraph, SetExecutionStrategy, Pause, Resume, Abort, Reset, Refuse,
                  RejectCycle, Execute
    <3>3. CASE \E n \in NodeId : Node(n) \/ NodeTimesOut(n)
      BY <3>3 DEF Node, NodeTimesOut, TaskEnds, NodeReturns, NodeThrows, LayerStart, LayerSave,
                  LayerPush, LayerPushed
    <3>4. CASE Loop
      BY <3>4 DEF Loop, SequenceStart, SequenceSave, SequenceEnds, LayerLaunch, LayerJoin,
                  LayersEnd
    <3>5. CASE UNCHANGED vars  BY <3>5 DEF vars
    <3>q. QED  BY <1>2, <3>1, <3>2, <3>3, <3>4, <3>5 DEF Next
  <2>q. QED  BY <2>1 DEF GraphInv, GraphTypeOK, Detached, ListsAgree
<1>q. QED  BY <1>1, <1>2

-----------------------------------------------------------------------------
(* Undisturbed runs.                                                       *)

LEMMA UndisturbedStep ==
  ASSUME RunUndisturbed, [Next]_vars
  PROVE  RunUndisturbed'
<1> USE DEF RunUndisturbed
<1>1. CASE Build  BY <1>1 DEF Build
<1>2. CASE Request  BY <1>2 DEF Request
<1>3. ASSUME NEW c \in Clients, Method(c)
      PROVE  RunUndisturbed'
  BY <1>3 DEF Method, SetGraph, SetExecutionStrategy, Pause, Resume, Abort, Reset, Refuse,
              RejectCycle, Execute, Lock
<1>4. ASSUME NEW n \in NodeId, Node(n) \/ NodeTimesOut(n)
      PROVE  RunUndisturbed'
  BY <1>4 DEF Node, NodeTimesOut, TaskEnds, NodeReturns, NodeThrows, LayerStart, LayerSave,
              LayerPush, LayerPushed, Leave
<1>5. CASE Loop
  BY <1>5 DEF Loop, SequenceStart, SequenceSave, SequenceEnds, LayerLaunch, LayerJoin, LayersEnd,
              Complete, Leave
<1>6. CASE UNCHANGED vars  BY <1>6 DEF vars
<1>q. QED  BY <1>1, <1>2, <1>3, <1>4, <1>5, <1>6 DEF Next

-----------------------------------------------------------------------------
(* Layers.                                                                 *)

\* Nothing was called while the graph is built.
BuildInv ==
  calls = 0 =>
    /\ mode = "SEQUENTIAL" /\ owner = NoClient /\ state = "IDLE" /\ context = "IDLE"
    /\ counted = 0
    /\ \A n \in NodeId : started[n] = 0
    /\ \A c \in Clients : call[c] = "none"

\* Nodes are executed within execute() only; in sequence, only the head of the rest is.
ThreadInv ==
  \A n \in NodeId : at[n] # "out" =>
    /\ owner # NoClient
    /\ mode = "SEQUENTIAL" => todo # << >> /\ n = Head(todo)

\* A node that its executor has left, on its way through the rest of its thread.
Executed == {"save", "push", "pushing", "joined"}

\* Completed nodes were executed and may be built upon; a node of the layer has all its
\* predecessors among them, and whoever started did so in a layer.
LayerInv ==
  mode = "PARALLEL" =>
    /\ \A n \in layer : Predecessors(n) \subseteq completed
    /\ owner # NoClient => layer \cap completed = {}
    /\ \A n \in completed :
         /\ started[n] = 1 /\ task[n] = "ended" /\ at[n] = "out"
         /\ outcome[n] = "success" \/ n \in Tolerated \/ n \in clash
    /\ \A n \in NodeId :
         /\ started[n] > 0 => started[n] = 1 /\ Predecessors(n) \subseteq completed
         /\ alive /\ owner # NoClient /\ at[n] \in {"out", "thread"} /\ n \notin completed =>
              started[n] = 0
         /\ at[n] # "out" => n \in layer
         /\ at[n] \notin {"out", "thread"} => started[n] = 1
         /\ at[n] = "late" => outcome[n] = "failure"
         /\ at[n] \in Executed => task[n] = "ended" /\ outcome[n] \in {"success", "failure"}
         /\ at[n] = "joined" => n \in layerResults \cup clash

OrchestratorInv == CoreTypeOK /\ GraphInv /\ BuildInv /\ ThreadInv /\ LayerInv

LEMMA BuildStep ==
  ASSUME CoreTypeOK, BuildInv, ThreadInv, [Next]_vars
  PROVE  BuildInv'
<1> USE DEF BuildInv, CoreTypeOK
<1>1. CASE Build  BY <1>1 DEF Build
<1>2. CASE Request  BY <1>2 DEF Request
<1>3. ASSUME NEW c \in Clients, Method(c)
      PROVE  BuildInv'
  BY <1>3 DEF Method, SetGraph, SetExecutionStrategy, Pause, Resume, Abort, Reset, Refuse,
              RejectCycle, Execute, Lock, Return
<1>4. ASSUME NEW n \in NodeId, Node(n) \/ NodeTimesOut(n)
      PROVE  BuildInv'
  <2>1. at[n] = "out" => TaskEnds(n)
    BY <1>4 DEF Node, NodeTimesOut, NodeReturns, NodeThrows, LayerStart, LayerSave, LayerPush,
                LayerPushed
  <2>2. calls' = calls
    BY <1>4 DEF Node, NodeTimesOut, TaskEnds, NodeReturns, NodeThrows, LayerStart, LayerSave,
                LayerPush, LayerPushed, Leave, Return
  <2>3. calls = 0 => TaskEnds(n)
    BY <2>1 DEF ThreadInv
  <2>q. QED  BY <2>2, <2>3 DEF TaskEnds
<1>5. CASE Loop
  <2>1. owner # NoClient /\ calls' = calls
    BY <1>5 DEF Loop, SequenceStart, SequenceSave, SequenceEnds, LayerLaunch, LayerJoin, LayersEnd,
                Complete, Leave, Return, Executing
  <2>q. QED  BY <2>1
<1>6. CASE UNCHANGED vars  BY <1>6 DEF vars
<1>q. QED  BY <1>1, <1>2, <1>3, <1>4, <1>5, <1>6 DEF Next

LEMMA ThreadStep ==
  ASSUME CoreTypeOK, LayerInv, ThreadInv, [Next]_vars
  PROVE  ThreadInv'
<1> USE DEF ThreadInv, CoreTypeOK
<1>1. CASE Build  BY <1>1 DEF Build
<1>2. CASE Request  BY <1>2 DEF Request
<1>3. ASSUME NEW c \in Clients, Method(c)
      PROVE  ThreadInv'
  BY <1>3 DEF Method, SetGraph, SetExecutionStrategy, Pause, Resume, Abort, Reset, Refuse,
              RejectCycle, Execute, Lock
<1>4. ASSUME NEW n \in NodeId, Node(n) \/ NodeTimesOut(n)
      PROVE  ThreadInv'
  BY <1>4 DEF Node, NodeTimesOut, TaskEnds, NodeReturns, NodeThrows, LayerStart, LayerSave,
              LayerPush, LayerPushed, StartNode, Leave
<1>5. CASE SequenceStart
  BY <1>5 DEF SequenceStart, StartNode, Executing, Leave
<1>6. CASE SequenceSave  BY <1>6 DEF SequenceSave, Leave
<1>7. CASE SequenceEnds  BY <1>7 DEF SequenceEnds, Complete, Leave
<1>8. CASE LayerLaunch  BY <1>8 DEF LayerLaunch, Executing
<1>9. CASE LayerJoin  BY <1>9 DEF LayerJoin, Leave
<1>10. CASE LayersEnd  BY <1>10 DEF LayersEnd, Complete, Leave
<1>11. CASE UNCHANGED vars  BY <1>11 DEF vars
<1>q. QED
  BY <1>1, <1>2, <1>3, <1>4, <1>5, <1>6, <1>7, <1>8, <1>9, <1>10, <1>11 DEF Next, Loop

\* The steps of a layer's threads.
LEMMA LayerThreadStep ==
  ASSUME OrchestratorInv, mode = "PARALLEL", NEW n \in NodeId, Node(n) \/ NodeTimesOut(n)
  PROVE  LayerInv'
<1> USE DEF OrchestratorInv, CoreTypeOK, LayerInv, ThreadInv, Executed, Predecessors
<1>1. CASE TaskEnds(n)  BY <1>1 DEF TaskEnds
<1>2. CASE NodeReturns(n)  BY <1>2 DEF NodeReturns
<1>3. CASE NodeThrows(n)  BY <1>3 DEF NodeThrows
<1>4. CASE LayerStart(n)  BY <1>4 DEF LayerStart, StartNode
<1>5. CASE LayerSave(n)  BY <1>5 DEF LayerSave
<1>6. CASE LayerPush(n)  BY <1>6 DEF LayerPush, Pushing
<1>7. CASE LayerPushed(n)
  <2>1. /\ at[n] = "pushing" /\ at' = [at EXCEPT ![n] = "joined"]
        /\ (alive' => alive) /\ layerResults \subseteq layerResults'
        /\ n \in layerResults' \cup clash
        /\ UNCHANGED <<graph, owner, mode, layer, completed, task, outcome, started, clash>>
    BY <1>7 DEF LayerPushed
  <2>2. \A m \in NodeId : at'[m] = IF m = n THEN "joined" ELSE at[m]
    BY <2>1
  <2>q. QED  BY <2>1, <2>2
<1>8. CASE NodeTimesOut(n)  BY <1>8 DEF NodeTimesOut
<1>q. QED  BY <1>1, <1>2, <1>3, <1>4, <1>5, <1>6, <1>7, <1>8 DEF Node

\* The join, with the layer that follows.
LEMMA LayerJoinStep ==
  ASSUME OrchestratorInv, LayerJoin
  PROVE  LayerInv'
<1> USE DEF OrchestratorInv, CoreTypeOK, LayerInv, Executed, Predecessors
<1>1. /\ mode = "PARALLEL" /\ mode' = mode /\ alive /\ owner # NoClient
      /\ \A n \in NodeId : at'[n] = "out"
      /\ UNCHANGED <<preds, nodes, started, task, outcome, clash>>
  BY DEF LayerJoin, Executing
<1>2. CASE \E n \in layerResults : Failed(n)
  <2>1. owner' = NoClient /\ completed' = completed /\ layer' = layer
    BY <1>2 DEF LayerJoin, Leave
  <2>q. QED  BY <1>1, <2>1
<1>3. CASE ~ \E n \in layerResults : Failed(n)
  <2>1. completed' = completed \cup layer /\ layer' = NextLayer(completed') /\ owner' = owner
    BY <1>3 DEF LayerJoin
  <2>2. \A n \in layer : /\ n \in NodeId /\ started[n] = 1 /\ task[n] = "ended"
                         /\ outcome[n] \in {"success", "failure"}
                         /\ n \in layerResults \cup clash
    BY <1>1 DEF LayerJoin
  <2>3. \A n \in layer : outcome[n] = "success" \/ n \in Tolerated \/ n \in clash
    BY <1>3, <2>2 DEF Failed
  <2>4. \A n \in layer' : n \notin completed' /\ Predecessors(n)' \subseteq completed'
    BY <1>1, <2>1 DEF NextLayer
  <2>5. \A n \in completed' :
          /\ started'[n] = 1 /\ task'[n] = "ended" /\ at'[n] = "out"
          /\ outcome'[n] = "success" \/ n \in Tolerated \/ n \in clash'
    BY <1>1, <2>1, <2>2, <2>3
  <2>6. \A n \in NodeId :
          /\ started'[n] > 0 => started'[n] = 1 /\ Predecessors(n)' \subseteq completed'
          /\ n \notin completed' => started'[n] = 0
    BY <1>1, <2>1
  <2>q. QED  BY <1>1, <2>4, <2>5, <2>6
<1>q. QED  BY <1>2, <1>3

LEMMA LayerStep ==
  ASSUME OrchestratorInv, [Next]_vars
  PROVE  LayerInv'
<1>1. CASE Build  BY <1>1 DEF Build, OrchestratorInv, BuildInv, LayerInv
<1>2. CASE Request
  BY <1>2 DEF Request, OrchestratorInv, LayerInv, Predecessors, Executed
<1>3. ASSUME NEW c \in Clients, Method(c)
      PROVE  LayerInv'
  <2> USE DEF OrchestratorInv, LayerInv, Predecessors, Executed
  <2>1. CASE Execute(c)
    <3>1. \A n \in NodeId : at[n] = "out" /\ at'[n] = "out" /\ started'[n] = 0
      BY <2>1 DEF Execute, Lock, ThreadInv, CoreTypeOK
    <3>2. completed' = {} /\ preds' = preds
      BY <2>1 DEF Execute
    <3>3. mode' = "PARALLEL" => layer' = getStartNodes
      BY <2>1 DEF Execute
    <3>4. mode' = "PARALLEL" => \A n \in layer' : Predecessors(n)' = {}
      BY <3>2, <3>3 DEF getStartNodes
    <3>q. QED  BY <3>1, <3>2, <3>4
  <2>2. CASE ~Execute(c)
    BY <1>3, <2>2 DEF Method, SetGraph, SetExecutionStrategy, Pause, Resume, Abort, Reset,
                      Refuse, RejectCycle
  <2>q. QED  BY <2>1, <2>2
<1>4. ASSUME NEW n \in NodeId, Node(n) \/ NodeTimesOut(n)
      PROVE  LayerInv'
  <2>1. mode' = mode
    BY <1>4 DEF Node, NodeTimesOut, TaskEnds, NodeReturns, NodeThrows, LayerStart, LayerSave,
                LayerPush, LayerPushed
  <2>q. QED  BY <1>4, <2>1, LayerThreadStep DEF LayerInv
<1>5. CASE Loop
  <2> USE DEF OrchestratorInv, LayerInv, Predecessors, Executed
  <2>1. CASE SequenceStart \/ SequenceSave \/ SequenceEnds
    BY <2>1 DEF SequenceStart, SequenceSave, SequenceEnds
  <2>2. CASE LayerLaunch  BY <2>2 DEF LayerLaunch, Executing, CoreTypeOK
  <2>3. CASE LayerJoin  BY <2>3, LayerJoinStep
  <2>4. CASE LayersEnd  BY <2>4 DEF LayersEnd, Complete, Leave
  <2>q. QED  BY <1>5, <2>1, <2>2, <2>3, <2>4 DEF Loop
<1>6. CASE UNCHANGED vars
  BY <1>6 DEF vars, OrchestratorInv, LayerInv, Predecessors, Executed
<1>q. QED  BY <1>1, <1>2, <1>3, <1>4, <1>5, <1>6 DEF Next

-----------------------------------------------------------------------------
(* The order of executeSequential.                                         *)

\* A node that others may build upon.
Sound(n) ==
  /\ started[n] = 1 /\ task[n] = "ended" /\ at[n] = "out"
  /\ outcome[n] = "success" \/ n \in Tolerated \/ n \in clash

\* Whoever was started was started once, after the sources of its edges.
SequencePast ==
  mode = "SEQUENTIAL" =>
    \A n \in NodeId : started[n] > 0 =>
      /\ started[n] = 1
      /\ CountsEdges(n) => \A p \in NodeId : edges[p][n] > 0 => Sound(p)

\* The node in hand.
SequenceNode ==
  mode = "SEQUENTIAL" =>
    \A n \in NodeId :
      /\ at[n] \in {"out", "await", "late", "save"}
      /\ at[n] # "out" => started[n] = 1
      /\ at[n] = "late" => outcome[n] = "failure"
      /\ at[n] = "save" => task[n] = "ended" /\ outcome[n] \in {"success", "failure"}

\* The rest of the sort names every node that is not through, each once, each after the
\* sources of its edges.
SequenceRest ==
  mode = "SEQUENTIAL" /\ owner # NoClient =>
    /\ todo \in Seq(nodes) /\ Len(todo) <= Cardinality(nodes)
    /\ \A i, j \in DOMAIN todo : todo[i] = todo[j] => i = j
    /\ \A i \in DOMAIN todo : started[todo[i]] > 0 => i = 1 /\ at[todo[i]] # "out"
    /\ \A i \in DOMAIN todo : CountsEdges(todo[i]) =>
         \A p \in NodeId : edges[p][todo[i]] > 0 =>
           Sound(p) \/ \E j \in 1 .. i - 1 : todo[j] = p
    /\ \A n \in nodes : Sound(n) \/ \E i \in DOMAIN todo : todo[i] = n

SequenceInv == SequencePast /\ SequenceNode /\ SequenceRest

\* What the parts of SequenceInv speak of.
SequenceKept ==
  /\ UNCHANGED <<graph, mode, started, task, at, outcome, clash>>
  /\ owner' = NoClient \/ UNCHANGED <<owner, todo>>

LEMMA SequenceKeeps ==
  ASSUME SequenceInv, SequenceKept
  PROVE  SequenceInv'
BY DEF SequenceInv, SequencePast, SequenceNode, SequenceRest, SequenceKept, Sound, CountsEdges

LEMMA SequenceNodeSteps ==
  ASSUME OrchestratorInv, SequenceInv, mode = "SEQUENTIAL",
         NEW n \in NodeId, Node(n) \/ NodeTimesOut(n)
  PROVE  SequenceInv'
<1>1. /\ mode' = mode /\ UNCHANGED <<graph, started, todo, clash>>
      /\ owner' = NoClient \/ owner' = owner
  BY DEF SequenceInv, SequenceNode, Node, NodeTimesOut, TaskEnds, NodeReturns, NodeThrows,
         LayerStart, LayerSave, LayerPush, LayerPushed, Leave
<1>2. /\ \A m \in NodeId \ {n} : at'[m] = at[m] /\ task'[m] = task[m] /\ outcome'[m] = outcome[m]
      /\ at[n] = "out" => at'[n] = "out" /\ outcome'[n] = outcome[n]
      /\ task[n] = "ended" => task'[n] = "ended"
      /\ at[n] # "out" /\ at'[n] = "out" => owner' = NoClient
  BY DEF OrchestratorInv, CoreTypeOK, SequenceInv, SequenceNode, Node, NodeTimesOut, TaskEnds,
         NodeReturns, NodeThrows, LayerStart, LayerSave, LayerPush, LayerPushed, Leave
<1>3. \A m \in NodeId : Sound(m) => Sound(m)'
  BY <1>1, <1>2 DEF Sound
<1>4. \A m \in NodeId : CountsEdges(m)' = CountsEdges(m)
  BY <1>1 DEF CountsEdges
<1>5. SequencePast'
  BY <1>1, <1>3, <1>4 DEF SequenceInv, SequencePast
<1>6. SequenceNode'
  BY <1>1 DEF OrchestratorInv, CoreTypeOK, SequenceInv, SequenceNode, Node, NodeTimesOut, TaskEnds,
         NodeReturns, NodeThrows, LayerStart, LayerSave, LayerPush, LayerPushed, Leave
<1>7. SequenceRest'
  <2> SUFFICES ASSUME owner' = owner, owner # NoClient PROVE SequenceRest'
    BY <1>1 DEF SequenceRest
  <2>1. /\ todo \in Seq(nodes) /\ nodes \subseteq NodeId /\ DOMAIN todo = 1 .. Len(todo)
        /\ \A i \in DOMAIN todo : todo[i] \in NodeId
    BY DEF SequenceInv, SequenceRest, OrchestratorInv, CoreTypeOK, GraphTypeOK
  <2>2. \A m \in NodeId : at[m] # "out" => at'[m] # "out"
    BY <1>2
  <2>3. \A i \in DOMAIN todo : started[todo[i]] > 0 => i = 1 /\ at'[todo[i]] # "out"
    BY <2>1, <2>2 DEF SequenceInv, SequenceRest
  <2>4. \A i \in DOMAIN todo : CountsEdges(todo[i]) =>
         \A p \in NodeId : edges[p][todo[i]] > 0 =>
           Sound(p)' \/ \E j \in 1 .. i - 1 : todo[j] = p
    BY <1>3, <2>1 DEF SequenceInv, SequenceRest
  <2>5. \A m \in nodes : Sound(m)' \/ \E i \in DOMAIN todo : todo[i] = m
    BY <1>3, <2>1 DEF SequenceInv, SequenceRest
  <2>q. QED  BY <1>1, <1>4, <2>1, <2>3, <2>4, <2>5 DEF SequenceInv, SequenceRest
<1>q. QED  BY <1>5, <1>6, <1>7 DEF SequenceInv

\* The next node is started, or the execution aborted.
LEMMA SequenceStartStep ==
  ASSUME OrchestratorInv, SequenceInv, SequenceStart
  PROVE  SequenceInv'
<1> DEFINE n == Head(todo)
<1>1. /\ mode = "SEQUENTIAL" /\ mode' = mode /\ owner # NoClient /\ todo # << >> /\ at[n] = "out"
      /\ UNCHANGED <<graph, todo, outcome, clash>>
  BY DEF SequenceStart, Executing
<1>2. CASE shouldAbort
  BY <1>1, <1>2, SequenceKeeps DEF SequenceStart, SequenceKept, Leave
<1>3. CASE ~shouldAbort
  <2>1. /\ at' = [at EXCEPT ![n] = "await"] /\ task' = [task EXCEPT ![n] = "asleep"]
        /\ started' = [started EXCEPT ![n] = @ + 1] /\ owner' = owner
    BY <1>3 DEF SequenceStart, StartNode
  <2>2. /\ todo \in Seq(nodes) /\ nodes \subseteq NodeId /\ DOMAIN todo = 1 .. Len(todo)
        /\ \A i \in DOMAIN todo : todo[i] \in NodeId
        /\ 1 \in DOMAIN todo /\ n = todo[1] /\ n \in NodeId
    BY <1>1 DEF SequenceInv, SequenceRest, OrchestratorInv, CoreTypeOK, GraphTypeOK
  <2>3. started[n] = 0
    <3>1. ~(started[n] > 0)
      BY <1>1, <2>2 DEF SequenceInv, SequenceRest
    <3>q. QED  BY <2>2, <3>1 DEF OrchestratorInv, CoreTypeOK
  <2>4. /\ started'[n] = 1 /\ at'[n] = "await"
        /\ \A m \in NodeId \ {n} : at'[m] = at[m] /\ task'[m] = task[m] /\ started'[m] = started[m]
    BY <2>1, <2>2, <2>3 DEF OrchestratorInv, CoreTypeOK
  <2>5. \A m \in NodeId : Sound(m) => Sound(m)'
    BY <1>1, <2>3, <2>4 DEF Sound
  <2>6. \A m \in NodeId : CountsEdges(m)' = CountsEdges(m)
    BY <1>1 DEF CountsEdges
  <2>7. CountsEdges(n) => \A p \in NodeId : edges[p][n] > 0 => Sound(p)
    BY <1>1, <2>2 DEF SequenceInv, SequenceRest
  <2>8. SequencePast'
    BY <1>1, <2>4, <2>5, <2>6, <2>7 DEF SequenceInv, SequencePast
  <2>9. SequenceNode'
    BY <1>1, <2>4 DEF SequenceInv, SequenceNode
  <2>10. SequenceRest'
    <3>1. \A i \in DOMAIN todo : started'[todo[i]] > 0 => i = 1 /\ at'[todo[i]] # "out"
      BY <1>1, <2>2, <2>4 DEF SequenceInv, SequenceRest
    <3>2. \A i \in DOMAIN todo : CountsEdges(todo[i]) =>
           \A p \in NodeId : edges[p][todo[i]] > 0 =>
             Sound(p)' \/ \E j \in 1 .. i - 1 : todo[j] = p
      BY <1>1, <2>2, <2>5 DEF SequenceInv, SequenceRest
    <3>3. \A m \in nodes : Sound(m)' \/ \E i \in DOMAIN todo : todo[i] = m
      BY <1>1, <2>2, <2>5 DEF SequenceInv, SequenceRest
    <3>q. QED  BY <1>1, <2>2, <2>6, <3>1, <3>2, <3>3 DEF SequenceInv, SequenceRest
  <2>q. QED  BY <2>8, <2>9, <2>10 DEF SequenceInv
<1>q. QED  BY <1>2, <1>3

\* The result of the node in hand is saved.
LEMMA SequenceSaveStep ==
  ASSUME OrchestratorInv, SequenceInv, SequenceSave
  PROVE  SequenceInv'
<1>0. PICK n : n = Head(todo)
  OBVIOUS
<1>1. /\ mode = "SEQUENTIAL" /\ mode' = mode /\ owner # NoClient /\ todo # << >> /\ at[n] = "save"
      /\ at' = [at EXCEPT ![n] = "out"]
      /\ UNCHANGED <<graph, started, task, outcome, clash>>
  BY <1>0 DEF SequenceSave, Executing
<1>2. /\ todo \in Seq(nodes) /\ nodes \subseteq NodeId /\ DOMAIN todo = 1 .. Len(todo)
      /\ \A i \in DOMAIN todo : todo[i] \in NodeId
      /\ 1 \in DOMAIN todo /\ n = todo[1] /\ n \in NodeId
  BY <1>0, <1>1 DEF SequenceInv, SequenceRest, OrchestratorInv, CoreTypeOK, GraphTypeOK
<1>3. /\ at'[n] = "out" /\ started[n] = 1 /\ task[n] = "ended" /\ outcome[n] \in {"success", "failure"}
      /\ \A m \in NodeId \ {n} : at'[m] = at[m]
  BY <1>1, <1>2 DEF SequenceInv, SequenceNode, OrchestratorInv, CoreTypeOK
<1>4. \A m \in NodeId : Sound(m) => Sound(m)'
  BY <1>1, <1>3 DEF Sound
<1>5. \A m \in NodeId : CountsEdges(m)' = CountsEdges(m)
  BY <1>1 DEF CountsEdges
<1>6. SequencePast'
  BY <1>1, <1>4, <1>5 DEF SequenceInv, SequencePast
<1>7. SequenceNode'
  BY <1>1, <1>3 DEF SequenceInv, SequenceNode
<1>8. SequenceRest'
  <2> SUFFICES ASSUME owner' # NoClient PROVE SequenceRest'
    BY DEF SequenceRest
  <2>1. ~Failed(n) /\ todo' = Tail(todo) /\ owner' = owner
    BY <1>0 DEF SequenceSave, Leave
  <2>2. Sound(n)'
    BY <1>1, <1>3, <2>1 DEF Sound, Failed
  <2>3. /\ todo' \in Seq(nodes) /\ Len(todo') = Len(todo) - 1 /\ DOMAIN todo' = 1 .. Len(todo')
        /\ \A i \in DOMAIN todo' : i + 1 \in DOMAIN todo /\ todo'[i] = todo[i + 1]
    BY <1>1, <1>2, <2>1, HeadTailProperties
  <2>4. \A i \in DOMAIN todo : i # 1 => i - 1 \in DOMAIN todo' /\ todo'[i - 1] = todo[i]
    BY <1>2, <2>3
  <2>5. \A i, j \in DOMAIN todo' : todo'[i] = todo'[j] => i = j
    BY <1>1, <2>3 DEF SequenceInv, SequenceRest
  <2>6. \A i \in DOMAIN todo' : ~(started[todo'[i]] > 0)
    <3> SUFFICES ASSUME NEW i \in DOMAIN todo' PROVE ~(started[todo[i + 1]] > 0)
      BY <2>3
    <3>1. i + 1 \in DOMAIN todo /\ i + 1 # 1
      BY <2>3
    <3>q. QED  BY <1>1, <3>1 DEF SequenceInv, SequenceRest
  <2>7. ASSUME NEW i \in DOMAIN todo', CountsEdges(todo'[i]), NEW p \in NodeId, edges[p][todo'[i]] > 0
        PROVE  Sound(p)' \/ \E j \in 1 .. i - 1 : todo'[j] = p
    <3>1. i + 1 \in DOMAIN todo /\ todo'[i] = todo[i + 1] /\ i \in Nat
      BY <2>3
    <3>2. Sound(p) \/ \E j \in 1 .. (i + 1) - 1 : todo[j] = p
      BY <1>1, <2>7, <3>1 DEF SequenceInv, SequenceRest
    <3>3. ASSUME NEW j \in 1 .. i, todo[j] = p, j # 1
          PROVE  \E k \in 1 .. i - 1 : todo'[k] = p
      <4>1. j \in DOMAIN todo /\ j - 1 \in 1 .. i - 1
        BY <1>2, <2>3, <3>1, <3>3
      <4>q. QED  BY <2>4, <3>3, <4>1
    <3>q. QED  BY <1>2, <1>4, <2>2, <3>1, <3>2, <3>3
  <2>8. ASSUME NEW m \in nodes
        PROVE  Sound(m)' \/ \E i \in DOMAIN todo' : todo'[i] = m
    <3>1. Sound(m) \/ \E i \in DOMAIN todo : todo[i] = m
      BY <1>1 DEF SequenceInv, SequenceRest
    <3>2. ASSUME NEW i \in DOMAIN todo, todo[i] = m, i # 1
          PROVE  \E k \in DOMAIN todo' : todo'[k] = m
      BY <2>4, <3>2
    <3>q. QED  BY <1>2, <1>4, <2>2, <3>1, <3>2
  <2>9. \A i \in DOMAIN todo' : todo'[i] \in NodeId
    BY <1>2, <2>3
  <2>10. Len(todo') <= Cardinality(nodes)
    <3>1. Len(todo) \in Nat /\ Len(todo) <= Cardinality(nodes) /\ Cardinality(nodes) \in Nat
      BY <1>1, <1>2, NodesFinite DEF SequenceInv, SequenceRest, OrchestratorInv
    <3>q. QED  BY <2>3, <3>1
  <2>q. QED
    BY <1>1, <1>5, <2>1, <2>3, <2>5, <2>6, <2>7, <2>8, <2>9, <2>10 DEF SequenceRest
<1>q. QED  BY <1>6, <1>7, <1>8 DEF SequenceInv

\* execute() begins with a sort, or with a layer.
LEMMA SequenceBegins ==
  ASSUME OrchestratorInv, SequenceInv, NEW c \in Clients, Execute(c)
  PROVE  SequenceInv'
<1> SUFFICES ASSUME mode' = "SEQUENTIAL" PROVE SequenceInv'
  BY DEF SequenceInv, SequencePast, SequenceNode, SequenceRest
<1>1. /\ \A n \in NodeId : at[n] = "out" /\ at'[n] = "out" /\ started'[n] = 0
      /\ UNCHANGED graph
  BY DEF Execute, Lock, OrchestratorInv, ThreadInv, CoreTypeOK
<1>2. SequencePast' /\ SequenceNode'
  BY <1>1 DEF SequencePast, SequenceNode
<1>3. SequenceRest'
  <2> SUFFICES ASSUME owner' # NoClient PROVE SequenceRest'
    BY DEF SequenceRest
  <2>1. todo' \in topologicalSort /\ todo' # << >>
    BY DEF Execute, Lock
  <2>2. PICK sorted : sorted = todo'
    OBVIOUS
  <2>3. GraphInv /\ nodes \subseteq NodeId
    BY DEF OrchestratorInv, GraphInv, GraphTypeOK
  <2>4. /\ sorted \in Seq(nodes)
        /\ \A i, j \in DOMAIN sorted : sorted[i] = sorted[j] => i = j
        /\ \A i \in DOMAIN sorted : CountsEdges(sorted[i]) =>
             \A p \in NodeId : edges[p][sorted[i]] > 0 => \E j \in 1 .. i - 1 : sorted[j] = p
        /\ Len(sorted) = Cardinality(nodes)
        /\ \A n \in nodes : \E i \in DOMAIN sorted : sorted[i] = n
    BY <2>1, <2>2, <2>3, SortInOrder
  <2>5. Len(sorted) <= Cardinality(nodes)
    BY <2>3, <2>4, NodesFinite
  <2>6. \A i \in DOMAIN sorted : sorted[i] \in NodeId
    BY <2>3, <2>4
  <2>7. \A i \in DOMAIN sorted : ~(started'[sorted[i]] > 0)
    BY <1>1, <2>6
  <2>8. \A n \in NodeId : CountsEdges(n)' = CountsEdges(n)
    BY <1>1 DEF CountsEdges
  <2>q. QED  BY <1>1, <2>2, <2>4, <2>5, <2>6, <2>7, <2>8 DEF SequenceRest
<1>q. QED  BY <1>2, <1>3 DEF SequenceInv

\* Nothing but executeSequential and its node reaches what SequenceInv speaks of.
LEMMA SequenceStep ==
  ASSUME OrchestratorInv, SequenceInv, [Next]_vars
  PROVE  SequenceInv'
<1>1. CASE Build
  <2>1. /\ mode' = "SEQUENTIAL" /\ owner' = NoClient
        /\ \A n \in NodeId : at'[n] = "out" /\ started'[n] = 0
    BY <1>1 DEF Build, OrchestratorInv, BuildInv, ThreadInv
  <2>q. QED  BY <2>1 DEF SequenceInv, SequencePast, SequenceNode, SequenceRest
<1>2. CASE Request
  BY <1>2, SequenceKeeps DEF Request, SequenceKept
<1>3. ASSUME NEW c \in Clients, Method(c)
      PROVE  SequenceInv'
  <2>1. CASE Execute(c)
    BY <2>1, SequenceBegins
  <2>2. CASE ~Execute(c)
    BY <1>3, <2>2, SequenceKeeps DEF SequenceKept, Method, SetGraph, SetExecutionStrategy, Pause,
       Resume, Abort, Reset, Refuse, RejectCycle
  <2>q. QED  BY <2>1, <2>2
<1>4. ASSUME NEW n \in NodeId, Node(n) \/ NodeTimesOut(n)
      PROVE  SequenceInv'
  <2>1. mode' = mode
    BY <1>4 DEF Node, NodeTimesOut, TaskEnds, NodeReturns, NodeThrows, LayerStart, LayerSave,
                LayerPush, LayerPushed
  <2>q. QED
    BY <1>4, <2>1, SequenceNodeSteps DEF SequenceInv, SequencePast, SequenceNode, SequenceRest
<1>5. CASE Loop
  <2>1. CASE SequenceStart  BY <2>1, SequenceStartStep
  <2>2. CASE SequenceSave  BY <2>2, SequenceSaveStep
  <2>3. CASE SequenceEnds
    BY <2>3, SequenceKeeps DEF SequenceEnds, SequenceKept, Complete, Leave
  <2>4. CASE LayerLaunch \/ LayerJoin \/ LayersEnd
    BY <2>4 DEF LayerLaunch, LayerJoin, LayersEnd, SequenceInv, SequencePast, SequenceNode,
                SequenceRest
  <2>q. QED  BY <1>5, <2>1, <2>2, <2>3, <2>4 DEF Loop
<1>6. CASE UNCHANGED vars
  BY <1>6, SequenceKeeps DEF vars, SequenceKept
<1>q. QED  BY <1>1, <1>2, <1>3, <1>4, <1>5, <1>6 DEF Next

-----------------------------------------------------------------------------
(* The layers, counted.                                                    *)

\* A layer is all that may run, and what its results say is of it.
LayerCount ==
  mode = "PARALLEL" =>
    /\ layer \cup completed \subseteq nodes
    /\ (\E n \in NodeId : at[n] # "out") => layerResults \subseteq layer
    /\ owner # NoClient => layer = NextLayer(completed) /\ counted <= Cardinality(completed)

\* Numbers that are never outside their bounds.
CountInv ==
  /\ counted \in 0 .. Cardinality(nodes)
  /\ progress \in 0 .. 100
  /\ calls \in 0 .. MaxCalls

LEMMA Percentage ==
  ASSUME NEW part \in Nat, NEW whole \in Nat, part <= whole, whole > 0
  PROVE  (part * 100) \div whole \in 0 .. 100
OBVIOUS

\* The results of a layer are among its nodes, and these are not completed yet.
LEMMA JoinCounts ==
  ASSUME OrchestratorInv, LayerCount, CountInv, LayerJoin
  PROVE  /\ layerResults \subseteq layer /\ layer # {}
         /\ counted' \in Nat
         /\ counted' <= Cardinality(completed \cup layer)
         /\ counted' <= Cardinality(nodes)
         /\ Cardinality(nodes) \in Nat /\ Cardinality(nodes) > 0
<1>1. /\ mode = "PARALLEL" /\ owner # NoClient /\ layer # {}
      /\ \A n \in layer : at[n] = "joined"
      /\ counted' = counted + Cardinality(layerResults)
  BY DEF LayerJoin, Executing
<1>2. /\ layer \cup completed \subseteq nodes /\ layer \subseteq NodeId
      /\ layer \cap completed = {} /\ counted <= Cardinality(completed)
  BY <1>1 DEF LayerCount, OrchestratorInv, LayerInv, CoreTypeOK
<1>3. layerResults \subseteq layer
  BY <1>1, <1>2 DEF LayerCount
<1>4. IsFiniteSet(nodes) /\ Cardinality(nodes) \in Nat
  BY NodesFinite DEF OrchestratorInv
<1>5. /\ IsFiniteSet(layer) /\ IsFiniteSet(completed) /\ IsFiniteSet(completed \cup layer)
      /\ Cardinality(completed \cup layer) <= Cardinality(nodes)
  BY <1>2, <1>4, FS_Subset
<1>6. /\ Cardinality(layerResults) \in Nat /\ Cardinality(layer) \in Nat
      /\ Cardinality(layerResults) <= Cardinality(layer)
  <2>1. IsFiniteSet(layerResults) /\ Cardinality(layerResults) <= Cardinality(layer)
    BY <1>3, <1>5, FS_Subset
  <2>q. QED  BY <1>5, <2>1, FS_CardinalityType
<1>7. Cardinality(completed \cup layer) = Cardinality(completed) + Cardinality(layer)
  <2>1. completed \cap layer = {}
    BY <1>2
  <2>2. Cardinality(completed \cap layer) = 0
    BY <2>1, FS_EmptySet
  <2>3. Cardinality(completed) \in Nat /\ Cardinality(layer) \in Nat
    BY <1>5, FS_CardinalityType
  <2>4. Cardinality(completed \cup layer)
          = Cardinality(completed) + Cardinality(layer) - Cardinality(completed \cap layer)
    BY <1>5, FS_Union
  <2>q. QED  BY <2>2, <2>3, <2>4
<1>8. counted \in Nat /\ Cardinality(completed) \in Nat /\ Cardinality(completed \cup layer) \in Nat
  BY <1>4, <1>5, FS_CardinalityType DEF CountInv
<1>9. nodes # {} /\ Cardinality(nodes) # 0
  BY <1>1, <1>2, <1>4, FS_EmptySet
<1>q. QED  BY <1>1, <1>2, <1>3, <1>4, <1>5, <1>6, <1>7, <1>8, <1>9

LEMMA LayerCountStep ==
  ASSUME OrchestratorInv, LayerCount, CountInv, [Next]_vars
  PROVE  LayerCount'
<1> USE DEF LayerCount, NextLayer, Predecessors
<1>1. CASE Build  BY <1>1 DEF Build, OrchestratorInv, BuildInv
<1>2. CASE Request  BY <1>2 DEF Request
<1>3. ASSUME NEW c \in Clients, Method(c)
      PROVE  LayerCount'
  <2>1. CASE Execute(c)
    <3> SUFFICES ASSUME mode' = "PARALLEL" PROVE LayerCount'
      OBVIOUS
    <3>1. /\ completed' = {} /\ layer' = getStartNodes /\ layerResults' = {} /\ counted' = 0
          /\ UNCHANGED graph
      BY <2>1 DEF Execute
    <3>2. Cardinality(completed') = 0
      BY <3>1, FS_EmptySet
    <3>3. getStartNodes = NextLayer({}) /\ getStartNodes \subseteq nodes
      BY DEF getStartNodes
    <3>q. QED  BY <3>1, <3>2, <3>3
  <2>2. CASE ~Execute(c)
    BY <1>3, <2>2 DEF Method, SetGraph, SetExecutionStrategy, Pause, Resume, Abort, Reset,
                      Refuse, RejectCycle
  <2>q. QED  BY <2>1, <2>2
<1>4. ASSUME NEW n \in NodeId, Node(n) \/ NodeTimesOut(n)
      PROVE  LayerCount'
  <2> SUFFICES ASSUME mode' = "PARALLEL" PROVE LayerCount'
    OBVIOUS
  <2>1. /\ mode' = mode /\ UNCHANGED <<graph, layer, completed, counted>>
        /\ owner' = owner
    BY <1>4 DEF Node, NodeTimesOut, TaskEnds, NodeReturns, NodeThrows, LayerStart, LayerSave,
                LayerPush, LayerPushed
  <2>2. /\ \A m \in NodeId \ {n} : at'[m] = at[m]
        /\ at[n] = "out" => at'[n] = "out"
        /\ \/ layerResults' = layerResults
           \/ at[n] # "out" /\ layerResults' = layerResults \cup {n}
    <3> USE DEF OrchestratorInv, CoreTypeOK
    <3>1. CASE TaskEnds(n)  BY <3>1 DEF TaskEnds
    <3>2. CASE NodeReturns(n)  BY <3>2 DEF NodeReturns
    <3>3. CASE NodeThrows(n)  BY <3>3 DEF NodeThrows
    <3>4. CASE LayerStart(n)  BY <3>4 DEF LayerStart, StartNode
    <3>5. CASE LayerSave(n)  BY <3>5 DEF LayerSave
    <3>6. CASE LayerPush(n)  BY <3>6 DEF LayerPush
    <3>7. CASE LayerPushed(n)  BY <3>7 DEF LayerPushed
    <3>8. CASE NodeTimesOut(n)  BY <3>8 DEF NodeTimesOut
    <3>q. QED  BY <1>4, <3>1, <3>2, <3>3, <3>4, <3>5, <3>6, <3>7, <3>8 DEF Node
  <2>3. at[n] # "out" => n \in layer
    BY <2>1 DEF OrchestratorInv, LayerInv
  <2>q. QED  BY <2>1, <2>2, <2>3
<1>5. CASE SequenceStart \/ SequenceSave \/ SequenceEnds
  BY <1>5 DEF SequenceStart, SequenceSave, SequenceEnds
<1>6. CASE LayerLaunch  BY <1>6 DEF LayerLaunch
<1>7. CASE LayerJoin
  <2>1. /\ mode = "PARALLEL" /\ mode' = mode /\ UNCHANGED graph
        /\ \A n \in NodeId : at'[n] = "out"
    BY <1>7 DEF LayerJoin
  <2>2. CASE \E n \in layerResults : Failed(n)
    <3>1. owner' = NoClient /\ UNCHANGED <<layer, completed>>
      BY <1>7, <2>2 DEF LayerJoin, Leave
    <3>q. QED  BY <2>1, <3>1
  <2>3. CASE ~ \E n \in layerResults : Failed(n)
    <3>1. completed' = completed \cup layer /\ layer' = NextLayer(completed')
      BY <1>7, <2>3 DEF LayerJoin
    <3>2. counted' <= Cardinality(completed')
      BY <1>7, <3>1, JoinCounts
    <3>q. QED  BY <2>1, <3>1, <3>2
  <2>q. QED  BY <2>2, <2>3
<1>8. CASE LayersEnd  BY <1>8 DEF LayersEnd, Complete, Leave
<1>9. CASE UNCHANGED vars  BY <1>9 DEF vars
<1>q. QED  BY <1>1, <1>2, <1>3, <1>4, <1>5, <1>6, <1>7, <1>8, <1>9 DEF Next, Loop

LEMMA CountStep ==
  ASSUME OrchestratorInv, GraphInv', SequenceInv, LayerCount, CountInv, [Next]_vars
  PROVE  CountInv'
<1> USE DEF CountInv
<1>1. CASE Build
  <2>1. nodes' \subseteq NodeId
    BY DEF GraphInv, GraphTypeOK
  <2>2. Cardinality(nodes') \in Nat
    BY <2>1, GraphAssumptions, FS_Subset, FS_CardinalityType
  <2>q. QED  BY <1>1, <2>2 DEF Build, OrchestratorInv, BuildInv
<1>2. CASE Request
  BY <1>2, OrchestratorAssumptions DEF Request
<1>3. ASSUME NEW c \in Clients, Method(c)
      PROVE  CountInv'
  <2>1. Cardinality(nodes) \in Nat
    BY NodesFinite DEF OrchestratorInv
  <2>2. CASE Execute(c)  BY <2>1, <2>2 DEF Execute, Return
  <2>3. CASE Reset(c)  BY <2>3 DEF Reset, Return
  <2>q. QED
    BY <1>3, <2>2, <2>3 DEF Method, SetGraph, SetExecutionStrategy, Pause, Resume, Abort, Refuse,
                            RejectCycle, Return
<1>4. ASSUME NEW n \in NodeId, Node(n) \/ NodeTimesOut(n)
      PROVE  CountInv'
  BY <1>4 DEF Node, NodeTimesOut, TaskEnds, NodeReturns, NodeThrows, LayerStart, LayerSave,
              LayerPush, LayerPushed, Leave, Return
<1>5. CASE SequenceStart
  <2>1. /\ mode = "SEQUENTIAL" /\ owner # NoClient /\ todo # << >>
        /\ UNCHANGED <<nodes, counted, calls>>
    BY <1>5 DEF SequenceStart, Executing, Leave, Return
  <2>2. CASE shouldAbort
    BY <1>5, <2>1, <2>2 DEF SequenceStart
  <2>3. CASE ~shouldAbort
    <3>1. todo \in Seq(nodes) /\ Len(todo) <= Cardinality(nodes) /\ Cardinality(nodes) \in Nat
      BY <2>1, NodesFinite DEF SequenceInv, SequenceRest, OrchestratorInv
    <3>2. Len(todo) \in Nat /\ Len(todo) > 0
      BY <2>1, <3>1
    <3>3. ((Cardinality(nodes) - Len(todo)) * 100) \div Cardinality(nodes) \in 0 .. 100
      <4>1. Cardinality(nodes) - Len(todo) \in Nat /\ Cardinality(nodes) > 0
            /\ Cardinality(nodes) - Len(todo) <= Cardinality(nodes)
        BY <3>1, <3>2
      <4>q. QED  BY <3>1, <4>1, Percentage
    <3>q. QED  BY <1>5, <2>1, <2>3, <3>3 DEF SequenceStart
  <2>q. QED  BY <2>2, <2>3
<1>6. CASE SequenceSave \/ SequenceEnds \/ LayerLaunch \/ LayersEnd
  <2>1. UNCHANGED <<nodes, counted, calls>> /\ (progress' = progress \/ progress' = 100)
    BY <1>6 DEF SequenceSave, SequenceEnds, LayerLaunch, LayersEnd, Complete, Leave, Return
  <2>q. QED  BY <2>1
<1>7. CASE LayerJoin
  <2>1. /\ counted' \in Nat /\ counted' <= Cardinality(nodes)
        /\ Cardinality(nodes) \in Nat /\ Cardinality(nodes) > 0
    BY <1>7, JoinCounts
  <2>2. nodes' = nodes /\ calls' = calls
    BY <1>7 DEF LayerJoin, Leave, Return
  <2>3. progress' = progress \/ progress' = (counted' * 100) \div Cardinality(nodes)
    BY <1>7 DEF LayerJoin
  <2>4. (counted' * 100) \div Cardinality(nodes) \in 0 .. 100
    BY <2>1, Percentage
  <2>q. QED  BY <2>1, <2>2, <2>3, <2>4
<1>8. CASE UNCHANGED vars  BY <1>8 DEF vars
<1>q. QED  BY <1>1, <1>2, <1>3, <1>4, <1>5, <1>6, <1>7, <1>8 DEF Next, Loop

-----------------------------------------------------------------------------
(* The saved results.                                                      *)

\* While execute() runs, a node that is through has the saved result of this execution.
ResultInv ==
  /\ results \in [NodeId -> {"none", "success", "failure"}]
  /\ todo \in Seq(NodeId)
  /\ alive /\ owner # NoClient =>
       \A n \in NodeId : started[n] > 0 /\ at[n] \in {"out", "push", "pushing", "joined"} =>
         results[n] = outcome[n]

LEMMA ResultNodeStep ==
  ASSUME OrchestratorInv, SequenceInv, ResultInv, NEW n \in NodeId, Node(n) \/ NodeTimesOut(n)
  PROVE  ResultInv'
<1> USE DEF OrchestratorInv, CoreTypeOK, ResultInv
<1>1. CASE TaskEnds(n)  BY <1>1 DEF TaskEnds
<1>2. CASE NodeReturns(n)  BY <1>2 DEF NodeReturns
<1>3. CASE NodeThrows(n)  BY <1>3 DEF NodeThrows, Leave
<1>4. CASE LayerStart(n)  BY <1>4 DEF LayerStart, StartNode
<1>5. CASE LayerSave(n)
  <2>1. outcome[n] \in {"success", "failure"}
    BY <1>5 DEF LayerSave, LayerInv, Executed
  <2>q. QED  BY <1>5, <2>1 DEF LayerSave
<1>6. CASE LayerPush(n)  BY <1>6 DEF LayerPush
<1>7. CASE LayerPushed(n)  BY <1>7 DEF LayerPushed
<1>8. CASE NodeTimesOut(n)  BY <1>8 DEF NodeTimesOut
<1>q. QED  BY <1>1, <1>2, <1>3, <1>4, <1>5, <1>6, <1>7, <1>8 DEF Node

LEMMA ResultLoopStep ==
  ASSUME OrchestratorInv, SequenceInv, ResultInv, Loop
  PROVE  ResultInv'
<1> USE DEF OrchestratorInv, CoreTypeOK, ResultInv
<1>1. CASE SequenceStart
  <2>1. CASE shouldAbort
    BY <1>1, <2>1 DEF SequenceStart, Leave
  <2>2. CASE ~shouldAbort
    <3>1. PICK n : n = Head(todo)
      OBVIOUS
    <3>2. n \in NodeId
      BY <1>1, <3>1 DEF SequenceStart
    <3>3. /\ at' = [at EXCEPT ![n] = "await"] /\ started' = [started EXCEPT ![n] = @ + 1]
          /\ UNCHANGED <<todo, results, outcome, alive, owner>>
      BY <1>1, <2>2, <3>1 DEF SequenceStart, StartNode
    <3>q. QED  BY <3>2, <3>3
  <2>q. QED  BY <2>1, <2>2
<1>2. CASE SequenceSave
  <2>1. PICK n : n = Head(todo)
    OBVIOUS
  <2>2. n \in NodeId /\ Tail(todo) \in Seq(NodeId)
    BY <1>2, <2>1 DEF SequenceSave
  <2>3. /\ at[n] = "save" /\ mode = "SEQUENTIAL" /\ at' = [at EXCEPT ![n] = "out"]
        /\ results' = [results EXCEPT ![n] = outcome[n]]
        /\ owner' = NoClient \/ owner' = owner
        /\ todo' = todo \/ todo' = Tail(todo)
        /\ UNCHANGED <<outcome, started, alive>>
    BY <1>2, <2>1 DEF SequenceSave, Leave
  <2>4. outcome[n] \in {"success", "failure"}
    BY <2>2, <2>3 DEF SequenceInv, SequenceNode
  <2>q. QED  BY <2>2, <2>3, <2>4
<1>3. CASE SequenceEnds  BY <1>3 DEF SequenceEnds, Complete, Leave
<1>4. CASE LayerLaunch  BY <1>4 DEF LayerLaunch
<1>5. CASE LayerJoin
  <2>1. \A n \in NodeId : at[n] = "out" \/ at[n] = "joined"
    BY <1>5 DEF LayerJoin, LayerInv
  <2>2. /\ \/ owner' = NoClient \/ owner' = owner
        /\ UNCHANGED <<outcome, started, alive, results, todo>>
    BY <1>5 DEF LayerJoin, Leave
  <2>3. alive /\ owner # NoClient
    BY <1>5 DEF LayerJoin, Executing
  <2>q. QED  BY <2>1, <2>2, <2>3
<1>6. CASE LayersEnd  BY <1>6 DEF LayersEnd, Complete, Leave
<1>q. QED  BY <1>1, <1>2, <1>3, <1>4, <1>5, <1>6 DEF Loop

LEMMA ResultStep ==
  ASSUME OrchestratorInv, SequenceInv, ResultInv, [Next]_vars
  PROVE  ResultInv'
<1>1. CASE Build  BY <1>1 DEF Build, ResultInv
<1>2. CASE Request  BY <1>2 DEF Request, ResultInv
<1>3. ASSUME NEW c \in Clients, Method(c)
      PROVE  ResultInv'
  <2>1. CASE SetGraph(c)
    BY <2>1 DEF SetGraph, Lock, ResultInv
  <2>2. CASE Execute(c)
    <3>1. todo' = todo \/ todo' \in topologicalSort
      BY <2>2 DEF Execute
    <3>2. todo' \in Seq(NodeId)
      <4>1. \A sorted \in topologicalSort : sorted \in Seq(nodes)
        BY SortInOrder DEF OrchestratorInv
      <4>2. nodes \subseteq NodeId
        BY DEF OrchestratorInv, GraphInv, GraphTypeOK
      <4>q. QED  BY <3>1, <4>1, <4>2 DEF ResultInv
    <3>q. QED  BY <2>2, <3>2 DEF Execute, ResultInv
  <2>q. QED
    BY <1>3, <2>1, <2>2 DEF ResultInv, Method, SetExecutionStrategy, Pause, Resume, Abort,
                            Reset, Refuse, RejectCycle
<1>4. ASSUME NEW n \in NodeId, Node(n) \/ NodeTimesOut(n)
      PROVE  ResultInv'
  BY <1>4, ResultNodeStep
<1>5. CASE Loop  BY <1>5, ResultLoopStep
<1>6. CASE UNCHANGED vars  BY <1>6 DEF vars, ResultInv
<1>q. QED  BY <1>1, <1>2, <1>3, <1>4, <1>5, <1>6 DEF Next

-----------------------------------------------------------------------------
(* How executions end, given a search that tells cycles.                   *)

RunInv == OrchestratorInv /\ RunUndisturbed /\ SequenceInv /\ LayerCount /\ CountInv /\ ResultInv

\* A graph that is executed has no cycle.
RankedInv == owner # NoClient /\ stale = {} => Acyclic

Done == \A n \in nodes : Sound(n) /\ results[n] = outcome[n]

\* What an execution left: everything done, or the node for which it stopped.
EndInv ==
  /\ context = "COMPLETED" /\ stale = {} => Done
  /\ owner = NoClient /\ state \in {"RUNNING", "PAUSED"} /\ stale = {} =>
       nodes = {} \/ \E n \in nodes : Failed(n)

LEMMA RankedStep ==
  ASSUME RunInv, RankedInv, [Next]_vars
  PROVE  RankedInv'
<1> SUFFICES ASSUME owner' # NoClient, stale' = {} PROVE Acyclic'
  BY DEF RankedInv
<1>1. UNCHANGED graph \/ Build
  BY GraphStep DEF RunInv, OrchestratorInv
<1>2. CASE Build
  BY <1>2 DEF Build, RunInv, OrchestratorInv, BuildInv
<1>3. CASE UNCHANGED graph
  <2>1. owner # NoClient \/ \E c \in Clients : Execute(c)
    <3>1. ASSUME NEW c \in Clients, Method(c)
          PROVE  UNCHANGED owner \/ Execute(c)
      BY <3>1 DEF Method, SetGraph, SetExecutionStrategy, Pause, Resume, Abort, Reset, Refuse,
                  RejectCycle
    <3>2. CASE \E n \in NodeId : Node(n) \/ NodeTimesOut(n)
      BY <3>2 DEF Node, NodeTimesOut, TaskEnds, NodeReturns, NodeThrows, LayerStart, LayerSave,
                  LayerPush, LayerPushed, Leave
    <3>3. CASE Loop
      BY <3>3 DEF Loop, SequenceStart, SequenceSave, SequenceEnds, LayerLaunch, LayerJoin,
                  LayersEnd, Executing
    <3>4. CASE Build \/ Request \/ UNCHANGED vars
      BY <3>4 DEF Build, Request, vars
    <3>q. QED  BY <3>1, <3>2, <3>3, <3>4 DEF Next
  <2>2. Acyclic
    BY <1>3, <2>1, SearchRight DEF RankedInv, SearchAgrees, Execute, RunInv, OrchestratorInv
  <2>q. QED  BY <1>3, <2>2 DEF Acyclic
<1>q. QED  BY <1>1, <1>2, <1>3

\* An execution that starts nothing has nothing to start.
LEMMA NothingToStart ==
  ASSUME RunInv, NEW c \in Clients, Execute(c), owner' = NoClient, stale = {}
  PROVE  nodes = {}
<1>1. Acyclic /\ GraphInv
  BY SearchRight DEF Execute, SearchAgrees, RunInv, OrchestratorInv
<1>2. \/ << >> \in topologicalSort
      \/ getStartNodes = {}
  <2>1. owner = NoClient /\ c # NoClient
    BY OrchestratorAssumptions DEF Execute, Lock
  <2>2. \/ strategy = "SEQUENTIAL" /\ todo' = << >>
        \/ strategy = "PARALLEL" /\ layer' = {}
    BY <2>1 DEF Execute
  <2>q. QED  BY <2>2 DEF Execute
<1>3. CASE << >> \in topologicalSort
  BY <1>1, <1>3, SortIsComplete
<1>4. CASE getStartNodes = {}
  <2> SUFFICES ASSUME nodes # {} PROVE FALSE
    OBVIOUS
  <2>1. PICK first \in nodes : \A p \in nodes : ~(edges[p][first] > 0)
    BY <1>1, RankedHasFirst
  <2>2. Predecessors(first) \subseteq nodes
    BY <1>1 DEF GraphInv, GraphTypeOK, Detached, Predecessors
  <2>3. first \in getStartNodes
    BY <1>1, <2>1, <2>2, NothingStale DEF getStartNodes, Predecessors
  <2>q. QED  BY <1>4, <2>3
<1>q. QED  BY <1>2, <1>3, <1>4

\* executeSequential has nothing left to do, or executeParallel no layer to form.
LEMMA DoneAtEnd ==
  ASSUME RunInv, RankedInv, stale = {}, SequenceEnds \/ (LayersEnd /\ context' = "COMPLETED")
  PROVE  Done
<1>1. alive /\ owner # NoClient /\ nodes \subseteq NodeId /\ GraphInv
  BY DEF SequenceEnds, LayersEnd, Executing, RunInv, OrchestratorInv, GraphInv, GraphTypeOK
<1>2. \A n \in nodes : Sound(n)
  <2>1. CASE SequenceEnds
    <3>1. DOMAIN todo = {}
      BY <2>1 DEF SequenceEnds
    <3>q. QED  BY <1>1, <2>1, <3>1 DEF SequenceEnds, RunInv, SequenceInv, SequenceRest
  <2>2. CASE LayersEnd
    <3>1. mode = "PARALLEL" /\ layer = {}
      BY <1>1, <2>2 DEF LayersEnd, RunInv, RunUndisturbed
    <3>2. completed \subseteq NodeId /\ NextLayer(completed) = {}
      BY <1>1, <3>1 DEF RunInv, LayerCount, OrchestratorInv, CoreTypeOK
    <3>3. Acyclic
      BY <1>1 DEF RankedInv
    <3>4. \A n \in nodes \ completed : ~(Predecessors(n) \subseteq completed)
      BY <3>2 DEF NextLayer
    <3>5. nodes \subseteq completed
      BY <1>1, <3>2, <3>3, <3>4, LayersRunOut
    <3>q. QED  BY <3>1, <3>5 DEF RunInv, OrchestratorInv, LayerInv, Sound
  <2>q. QED  BY <2>1, <2>2
<1>q. QED  BY <1>1, <1>2 DEF Done, Sound, RunInv, ResultInv

LEMMA EndMethodStep ==
  ASSUME RunInv, EndInv, NEW c \in Clients, Method(c)
  PROVE  EndInv'
<1>1. UNCHANGED graph /\ owner = NoClient
  BY DEF Method, SetGraph, SetExecutionStrategy, Pause, Resume, Abort, Reset, Refuse, RejectCycle,
         Execute, Lock
<1>2. CASE Execute(c)
  <2>1. context' = "RUNNING"
    BY <1>2 DEF Execute
  <2>2. owner' = NoClient /\ stale' = {} => nodes' = {}
    BY <1>1, <1>2, NothingToStart
  <2>q. QED  BY <2>1, <2>2 DEF EndInv
<1>3. CASE ~Execute(c)
  <2>1. UNCHANGED <<owner, at, task, outcome, started, clash>>
    BY <1>3 DEF Method, SetGraph, SetExecutionStrategy, Pause, Resume, Abort, Reset, Refuse,
                RejectCycle
  <2>2. /\ state' = "FAILED" \/ state' = "IDLE" \/ state' = state \/ {state, state'} = {"RUNNING", "PAUSED"}
        /\ context' = "COMPLETED" => context = "COMPLETED" /\ results' = results
    BY <1>3 DEF Method, SetGraph, SetExecutionStrategy, Pause, Resume, Abort, Reset, Refuse,
                RejectCycle
  <2>3. state' \in {"RUNNING", "PAUSED"} => state \in {"RUNNING", "PAUSED"}
    BY <2>2
  <2>q. QED  BY <1>1, <2>1, <2>2, <2>3 DEF EndInv, Done, Sound, Failed
<1>q. QED  BY <1>2, <1>3

LEMMA EndLoopStep ==
  ASSUME RunInv, RankedInv, EndInv, Loop
  PROVE  EndInv'
<1>1. /\ owner # NoClient /\ UNCHANGED graph /\ state = "RUNNING" /\ context = "RUNNING"
      /\ ~shouldAbort
  BY DEF Loop, SequenceStart, SequenceSave, SequenceEnds, LayerLaunch, LayerJoin, LayersEnd,
         Executing, RunInv, RunUndisturbed
<1>2. CASE SequenceStart
  BY <1>1, <1>2 DEF SequenceStart, EndInv
<1>3. CASE SequenceSave
  <2>1. PICK n : n = Head(todo)
    OBVIOUS
  <2>2. context' = context /\ outcome' = outcome /\ (owner' = NoClient => Failed(n))
    BY <1>1, <1>3, <2>1 DEF SequenceSave, Leave
  <2>3. n \in nodes
    BY <1>1, <1>3, <2>1 DEF SequenceSave, RunInv, SequenceInv, SequenceRest
  <2>q. QED  BY <1>1, <2>2, <2>3 DEF EndInv, Failed
<1>4. CASE LayerLaunch
  BY <1>1, <1>4 DEF LayerLaunch, EndInv
<1>5. CASE LayerJoin
  <2>1. context' = context /\ outcome' = outcome
        /\ (owner' = NoClient => \E n \in layerResults : Failed(n))
    BY <1>1, <1>5 DEF LayerJoin, Leave
  <2>2. layerResults \subseteq nodes
    BY <1>5, JoinCounts DEF RunInv, LayerCount, LayerJoin
  <2>q. QED  BY <1>1, <2>1, <2>2 DEF EndInv, Failed
<1>6. CASE SequenceEnds \/ LayersEnd
  <2>1. state' = "COMPLETED" /\ context' = "COMPLETED" /\ UNCHANGED work
    BY <1>1, <1>6 DEF SequenceEnds, LayersEnd, Complete
  <2>2. stale = {} => Done
    BY <1>6, <2>1, DoneAtEnd
  <2>q. QED  BY <1>1, <2>1, <2>2 DEF EndInv, Done, Sound
<1>q. QED  BY <1>2, <1>3, <1>4, <1>5, <1>6 DEF Loop

LEMMA EndStep ==
  ASSUME RunInv, RankedInv, EndInv, [Next]_vars
  PROVE  EndInv'
<1>1. CASE Build
  BY <1>1 DEF Build, RunInv, OrchestratorInv, BuildInv, EndInv
<1>2. CASE Request
  BY <1>2 DEF Request, EndInv, Done, Sound, Failed
<1>3. ASSUME NEW c \in Clients, Method(c)
      PROVE  EndInv'
  BY <1>3, EndMethodStep
<1>4. ASSUME NEW n \in NodeId, Node(n) \/ NodeTimesOut(n)
      PROVE  EndInv'
  <2>1. CASE owner = NoClient
    <3>1. at[n] = "out" /\ UNCHANGED graph
      BY <1>4, <2>1, GraphStep DEF RunInv, OrchestratorInv, ThreadInv, Node, NodeTimesOut, TaskEnds,
         NodeReturns, NodeThrows, LayerStart, LayerSave, LayerPush, LayerPushed
    <3>2. TaskEnds(n)
      BY <1>4, <3>1 DEF Node, NodeTimesOut, NodeReturns, NodeThrows, LayerStart, LayerSave,
         LayerPush, LayerPushed
    <3>3. \A m \in NodeId : task[m] = "ended" => task'[m] = "ended"
      BY <3>2 DEF TaskEnds, RunInv, OrchestratorInv, CoreTypeOK
    <3>4. nodes \subseteq NodeId
      BY DEF RunInv, OrchestratorInv, GraphInv, GraphTypeOK
    <3>q. QED  BY <3>2, <3>3, <3>4 DEF TaskEnds, EndInv, Done, Sound, Failed
  <2>2. CASE owner # NoClient
    <3>1. context' \in {"RUNNING", "FAILED"} /\ (owner' = NoClient => state' = "FAILED")
      BY <1>4, <2>2 DEF RunInv, RunUndisturbed, Node, NodeTimesOut, TaskEnds, NodeReturns,
         NodeThrows, LayerStart, LayerSave, LayerPush, LayerPushed
    <3>q. QED  BY <3>1 DEF EndInv
  <2>q. QED  BY <2>1, <2>2
<1>5. CASE Loop  BY <1>5, EndLoopStep
<1>6. CASE UNCHANGED vars
  BY <1>6 DEF vars, EndInv, Done, Sound, Failed
<1>q. QED  BY <1>1, <1>2, <1>3, <1>4, <1>5, <1>6 DEF Next

-----------------------------------------------------------------------------
LEMMA OrchestratorInitially == Init => RunInv /\ RankedInv /\ EndInv
<1> SUFFICES ASSUME Init PROVE RunInv /\ RankedInv /\ EndInv
  OBVIOUS
<1>1. CoreTypeOK /\ GraphInv
  BY TypeInitially, GraphInitially DEF Init
<1>2. BuildInv /\ ThreadInv /\ LayerInv /\ RunUndisturbed /\ LayerCount /\ RankedInv /\ EndInv
  BY DEF Init, BuildInv, ThreadInv, LayerInv, RunUndisturbed, LayerCount, RankedInv, EndInv
<1>3. SequenceInv /\ ResultInv
  BY DEF Init, SequenceInv, SequencePast, SequenceNode, SequenceRest, ResultInv
<1>4. CountInv
  <2>1. Cardinality(nodes) \in Nat
    BY <1>1, NodesFinite
  <2>q. QED  BY <2>1, OrchestratorAssumptions DEF Init, CountInv
<1>q. QED  BY <1>1, <1>2, <1>3, <1>4 DEF OrchestratorInv, RunInv

\* The inductive invariant of the orchestrator.
LEMMA RunInvariance == Spec => []RunInv
<1>1. RunInv /\ [Next]_vars => RunInv'
  <2> SUFFICES ASSUME RunInv, [Next]_vars PROVE RunInv'
    OBVIOUS
  <2>1. OrchestratorInv /\ RunUndisturbed /\ SequenceInv /\ LayerCount /\ CountInv /\ ResultInv
    BY DEF RunInv
  <2>2. OrchestratorInv'
    BY <2>1, TypeStep, GraphStep, BuildStep, ThreadStep, LayerStep DEF OrchestratorInv
  <2>3. GraphInv'
    BY <2>2 DEF OrchestratorInv
  <2>q. QED
    BY <2>1, <2>2, <2>3, UndisturbedStep, SequenceStep, LayerCountStep, CountStep, ResultStep
       DEF RunInv
<1>q. QED  BY <1>1, OrchestratorInitially, PTL DEF Spec

\* Executions end as they should.
LEMMA EndInvariance == Spec => [](RunInv /\ EndInv)
<1>1. RunInv /\ RankedInv /\ EndInv /\ [Next]_vars => RankedInv' /\ EndInv'
  BY RankedStep, EndStep
<1>q. QED  BY <1>1, RunInvariance, OrchestratorInitially, PTL DEF Spec

-----------------------------------------------------------------------------
(* Theorems.                                                               *)

\* The variables keep their types, and the counters their bounds: progress stays within
\* 0 .. 100 and no more nodes are counted than there are, whatever a layer loses.
THEOREM TypeCorrect == Spec => []TypeOK
<1>1. RunInv => TypeOK
  BY DEF RunInv, OrchestratorInv, CountInv, ResultInv, TypeOK
<1>q. QED  BY <1>1, RunInvariance, PTL

\* The graph the orchestrator runs has lists that agree, whatever the client did to build it.
THEOREM GraphListsAgree == Spec => []ListsAgree
<1>1. RunInv => ListsAgree
  BY DEF RunInv, OrchestratorInv, GraphInv
<1>q. QED  BY <1>1, RunInvariance, PTL

\* The search, the sort and the validator agree about every graph the client builds, and are
\* right.
THEOREM GraphAlgorithmsAgree == Spec => []AlgorithmsAgree
<1>1. RunInv => AlgorithmsAgree
  BY ValidatorRight DEF RunInv, OrchestratorInv
<1>q. QED  BY <1>1, RunInvariance, PTL

\* pause(), abort() and the others never reach an execution in progress.
THEOREM NoControlReachesRun == Spec => []RunUndisturbed
BY RunInvariance, PTL DEF RunInv

\* However the threads of a layer interleave and lose results, and however a graph was built,
\* neither way to execute starts a node before all its predecessors are through.
THEOREM NothingStartsEarly == Spec => []NoEarlyStart
<1>1. RunInv => NoEarlyStart
  <2> SUFFICES ASSUME RunInv, NEW n \in nodes \ stale, started[n] > 0,
                      NEW p \in nodes \ stale
      PROVE /\ started[n] = 1
            /\ (mode = "PARALLEL" \/ CountsEdges(n)) /\ edges[p][n] > 0 =>
                 /\ started[p] = 1 /\ task[p] = "ended" /\ at[p] = "out"
                 /\ outcome[p] = "success" \/ p \in Tolerated \/ p \in clash
    BY DEF NoEarlyStart
  <2>1. n \in NodeId /\ p \in NodeId /\ mode \in {"SEQUENTIAL", "PARALLEL"}
    BY DEF RunInv, OrchestratorInv, CoreTypeOK, GraphTypeOK
  <2>2. CASE mode = "PARALLEL"
    <3>1. started[n] = 1 /\ Predecessors(n) \subseteq completed
      BY <2>1, <2>2 DEF RunInv, OrchestratorInv, LayerInv
    <3>2. edges[p][n] > 0 => p \in Predecessors(n)
      BY <2>1 DEF RunInv, OrchestratorInv, GraphInv, ListsAgree, Predecessors
    <3>q. QED  BY <2>2, <3>1, <3>2 DEF RunInv, OrchestratorInv, LayerInv
  <2>3. CASE mode = "SEQUENTIAL"
    BY <2>1, <2>3 DEF RunInv, SequenceInv, SequencePast, Sound
  <2>q. QED  BY <2>1, <2>2, <2>3
<1>q. QED  BY <1>1, RunInvariance, PTL

\* COMPLETED means that every node was executed once and that no failure counts.
THEOREM CompletedIsDone == Spec => []CompletedMeansDone
<1>1. EndInv => CompletedMeansDone
  BY DEF EndInv, CompletedMeansDone, Done, Sound
<1>q. QED  BY <1>1, EndInvariance, PTL

\* An orchestrator stays RUNNING or PAUSED with nothing in progress only after a node that
\* failed for good, or without a node.
THEOREM StateIsTrue == Spec => []StateTellsRun
<1>1. RunInv /\ EndInv => StateTellsRun
  BY DEF RunInv, EndInv, StateTellsRun
<1>q. QED  BY <1>1, EndInvariance, PTL

=============================================================================

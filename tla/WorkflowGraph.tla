--------------------------- MODULE WorkflowGraph ----------------------------
(***************************************************************************)
(* The graph a client builds, node by node and edge by edge, and what its  *)
(* algorithms then say of it.  An edge is kept three times: in edges_ of   *)
(* the graph, in the successors of its source and in the predecessors of   *)
(* its target.  The algorithms mix the three.  Lists that the code only    *)
(* searches and counts are bags here; where the order of a list decides    *)
(* between several results of topologicalSort, the model keeps all.        *)
(***************************************************************************)
EXTENDS Integers, Sequences, FiniteSets, FiniteSetsExt

CONSTANTS
  NodeId,    \* the ids of nodes
  MaxEdges,  \* bound: edges in the graph, and entries in all lists of one kind, less one
             \* for every id that is stale
  MaxStale   \* bound: ids whose node object was replaced or added again

ASSUME GraphAssumptions == IsFiniteSet(NodeId) /\ MaxEdges \in Nat /\ MaxStale \in Nat

VARIABLES
  nodes,  \* the keys of nodes_
  edges,  \* edges_: how many edges lead from an id to another
  preds,  \* predecessors_ of the node object last added under an id, also once removed
  succs,  \* successors_ of that object
  stale   \* history: ids whose object was replaced in the graph, or added again later

graph == <<nodes, edges, preds, succs, stale>>

Bag == [NodeId -> [NodeId -> Nat]]

Nothing == [n \in NodeId |-> [m \in NodeId |-> 0]]

Weight(bag) == MapThenSumSet(LAMBDA p : bag[p[1]][p[2]], NodeId \X NodeId)

Drop(count, k) == IF count > k THEN count - k ELSE 0

GraphInit ==
  /\ nodes = {}
  /\ edges = Nothing
  /\ preds = Nothing
  /\ succs = Nothing
  /\ stale = {}

Stale(n) ==
  /\ stale' = stale \cup {n}
  /\ Cardinality(stale') <= MaxStale

\* addNode with a node object that is new.
AddNode(n) ==
  /\ nodes' = nodes \cup {n}
  /\ preds' = [preds EXCEPT ![n] = Nothing[n]]
  /\ succs' = [succs EXCEPT ![n] = Nothing[n]]
  /\ IF n \in nodes THEN Stale(n) ELSE UNCHANGED stale
  /\ UNCHANGED edges

\* addNode with the object that was removed before; it still has its lists.
AddNodeAgain(n) ==
  /\ n \notin nodes
  /\ nodes' = nodes \cup {n}
  /\ Stale(n)
  /\ UNCHANGED <<edges, preds, succs>>

\* Mutant: the lists of the neighbours keep the node.
RemoveNodeOnly(n) ==
  /\ n \in nodes
  /\ nodes' = nodes \ {n}
  /\ edges' = [s \in NodeId |-> [t \in NodeId |-> IF n \in {s, t} THEN 0 ELSE edges[s][t]]]
  /\ UNCHANGED <<preds, succs, stale>>

RemoveNode(n) ==
  /\ n \in nodes
  /\ nodes' = nodes \ {n}
  /\ edges' = [s \in NodeId |-> [t \in NodeId |-> IF n \in {s, t} THEN 0 ELSE edges[s][t]]]
  /\ succs' = [p \in NodeId |-> IF p \in nodes
                                  THEN [succs[p] EXCEPT ![n] = Drop(@, preds[n][p])]
                                  ELSE succs[p]]
  /\ preds' = [q \in NodeId |-> IF q \in nodes
                                  THEN [preds[q] EXCEPT ![n] = Drop(@, succs'[n][q])]
                                  ELSE preds[q]]
  /\ UNCHANGED stale

AddEdge(s, t) ==
  /\ {s, t} \subseteq nodes
  /\ \A bag \in {edges, preds, succs} : Weight(bag) < MaxEdges - Cardinality(stale)
  /\ edges' = [edges EXCEPT ![s][t] = @ + 1]
  /\ succs' = [succs EXCEPT ![s][t] = @ + 1]
  /\ preds' = [preds EXCEPT ![t][s] = @ + 1]
  /\ UNCHANGED <<nodes, stale>>

RemoveEdge(s, t) ==
  /\ edges[s][t] > 0
  /\ edges' = [edges EXCEPT ![s][t] = @ - 1]
  /\ IF {s, t} \subseteq nodes
       THEN /\ succs' = [succs EXCEPT ![s][t] = Drop(@, 1)]
            /\ preds' = [preds EXCEPT ![t][s] = Drop(@, 1)]
       ELSE UNCHANGED <<succs, preds>>
  /\ UNCHANGED <<nodes, stale>>

Clear ==
  /\ nodes' = {}
  /\ edges' = Nothing
  /\ UNCHANGED <<preds, succs, stale>>

EditGraph ==
  \/ \E n \in NodeId : AddNode(n) \/ AddNodeAgain(n) \/ RemoveNode(n)
  \/ \E s, t \in NodeId : AddEdge(s, t) \/ RemoveEdge(s, t)
  \/ Clear

-----------------------------------------------------------------------------
(* The algorithms.                                                         *)

Predecessors(n) == {p \in NodeId : preds[n][p] > 0}

\* A successor that is not in nodes_ has no list to follow.
Successors(n) == IF n \in nodes THEN {s \in NodeId : succs[n][s] > 0} ELSE {}

getStartNodes == {n \in nodes : Predecessors(n) = {}}

getEndNodes == {n \in nodes : Successors(n) = {}}

\* Where a loop of detectCycles is: the ids left to it, state, and whether cycles holds any.
Search == [left : SUBSET NodeId, colour : [NodeId -> 0 .. 2], cyclic : BOOLEAN]

\* How dfs enters n and begins with its successors, how the loop that called it goes on
\* afterwards, and how a loop gets past an id that was seen before: one that is still on the
\* path closes a cycle.
Descend(search, n) ==
  [left |-> Successors(n), colour |-> [search.colour EXCEPT ![n] = 1], cyclic |-> search.cyclic]

Ascend(search, below, n) ==
  [left |-> search.left \ {n}, colour |-> [below.colour EXCEPT ![n] = 2],
   cyclic |-> below.cyclic]

Skip(search, n) ==
  [left |-> search.left \ {n}, colour |-> search.colour,
   cyclic |-> search.cyclic \/ search.colour[n] = 1]

\* What a loop makes of the search: the one over the nodes, where none is on the path, or
\* that of dfs over the successors of the last node on it.
dfs[search \in Search] ==
  IF search.left = {} THEN search
  ELSE LET n == CHOOSE n \in search.left : TRUE
       IN  dfs[IF search.colour[n] = 0 THEN Ascend(search, dfs[Descend(search, n)], n)
               ELSE Skip(search, n)]

detectsCycles ==
  dfs[[left |-> nodes, colour |-> [n \in NodeId |-> 0], cyclic |-> FALSE]].cyclic

isDAG == ~detectsCycles

\* The entries that lead from sources to n, in edges_ or in the lists of successors.
Entries(bag, sources, n) == UNION {{s} \X (1 .. bag[s][n]) : s \in sources}

InDegree(n) == Cardinality(Entries(edges, NodeId, n))

\* Mutant: a successor is counted down once, however many edges lead to it.
CountedOnce(done, n) == Cardinality({s \in done : succs[s][n] > 0})

\* What the turns for the nodes of done have taken off the in-degree of n: it was counted
\* over edges_, but is reduced along the successors of the nodes popped.
CountedDown(done, n) == Cardinality(Entries(succs, done, n))

\* zeroDegree once done were popped: what had no edge from the start, and what was counted
\* down to zero on the way, which happens once.
ZeroDegree(done) ==
  {n \in NodeId \ done : \/ n \in nodes /\ InDegree(n) = 0
                         \/ InDegree(n) > 0 /\ CountedDown(done, n) >= InDegree(n)}

Lists == UNION {[1 .. length -> NodeId] : length \in 0 .. Cardinality(NodeId)}

Popped(list, i) == {list[j] : j \in 1 .. i - 1}

\* The lists the loop of topologicalSort may collect: what it pops is in zeroDegree at its
\* turn, and in the end nothing is.
Collected ==
  {list \in Lists : /\ \A i \in DOMAIN list : list[i] \in ZeroDegree(Popped(list, i))
                    /\ ZeroDegree(Popped(list, Len(list) + 1)) = {}}

\* The results topologicalSort may return; the empty one stands for a failure.
topologicalSort ==
  {IF Len(list) = Cardinality(nodes) THEN list ELSE << >> : list \in Collected}

\* What GraphValidator::validate complains of.
validate ==
  {complaint \in {"no start", "no end", "cycle"} :
     \/ complaint = "no start" /\ getStartNodes = {}
     \/ complaint = "no end" /\ getEndNodes = {}
     \/ complaint = "cycle" /\ detectsCycles}

-----------------------------------------------------------------------------
(* Properties.                                                             *)

GraphTypeOK ==
  /\ nodes \subseteq NodeId
  /\ {edges, preds, succs} \subseteq Bag
  /\ stale \subseteq NodeId

\* The three copies of every edge agree, however the graph was edited, unless a client
\* replaced the object of one of its ends, or put a removed one back (addNode, removeNode,
\* addEdge and removeEdge each keep all three).
ListsAgree ==
  \A s, t \in nodes \ stale : succs[s][t] = edges[s][t] /\ preds[t][s] = edges[s][t]

\* What the sort takes off the in-degree of n stands for edges: no successor list of an
\* object that was put back still names n.
CountsEdges(n) == \A s \in nodes : succs[s][n] <= edges[s][n]

\* The reference: the nodes can be ranked so that every edge leads upwards.
Acyclic ==
  \E rank \in [nodes -> 1 .. Cardinality(nodes)] :
    \A s, t \in nodes : edges[s][t] > 0 => rank[s] < rank[t]

\* The search finds a cycle exactly where there is one.
SearchAgrees == stale = {} => isDAG = Acyclic

\* Without a cycle every result of topologicalSort lists each node once and each edge in its
\* direction; with a cycle it is empty.
SortAgrees ==
  stale = {} =>
    \A sorted \in topologicalSort :
      IF ~Acyclic \/ nodes = {} THEN sorted = << >>
      ELSE \E position \in [nodes -> DOMAIN sorted] :
             /\ \A n \in nodes : sorted[position[n]] = n
             /\ \A s, t \in nodes : edges[s][t] > 0 => position[s] < position[t]

\* The search and the sort, which walk different copies of the edges, come to the same
\* verdict, the right one; and the validator finds fault with exactly the graphs that have a
\* cycle, or no node.
AlgorithmsAgree ==
  /\ SearchAgrees
  /\ SortAgrees
  /\ stale = {} => (validate = {}) = (Acyclic /\ nodes # {})

=============================================================================

-------------------------- MODULE DependencyResolver --------------------------
(***************************************************************************)
(* The DependencyResolver of the plugin system: its nodes, the depth-first *)
(* searches that order them and look for cycles, and the versions that a   *)
(* dependency accepts.                                                     *)
(***************************************************************************)
EXTENDS Callers, Sequences, Functions

VARIABLES
  nodes,   \* nodes_: the specification and both edge sets of each plugin
  added    \* history: plugins added since the dependents were computed last

own  == <<nodes, added>>
vars == <<calls, now, own>>

Versions == {0, 1}  \* 0 is 0.0.0, what a default Version is

\* A VersionConstraint; parse() makes the default one of every string.
Constraint        == [min : Versions, max : Versions]
DefaultConstraint == [min |-> 0, max |-> 0]

Satisfies(version, constraint) == constraint.min <= version /\ version <= constraint.max

PluginSpec == [deps : SUBSET Ids, required : BOOLEAN, version : Versions, constraint : Constraint]

NoSpec == [deps |-> {}, required |-> FALSE, version |-> 0, constraint |-> DefaultConstraint]
NoNode == [here |-> FALSE, spec |-> NoSpec, dependencies |-> {}, dependents |-> {}]

Listed == {id \in Ids : nodes[id].here}

-----------------------------------------------------------------------------
(* The searches.  topologicalSortDFS(), detectCycleDFS() and the lambda of *)
(* resolvePlugin() enter the plugins in the same order and each once; one  *)
(* search stands for them, of whose results each has its own.              *)

\* Where a loop over plugins stands: those left to it, the path to it, the plugins visited,
\* the order of those that are done, and the cycles met.
Search == [left : SUBSET Ids, path : Seq(Ids), visited : SUBSET Ids, result : Seq(Ids),
           cycles : SUBSET Seq(Ids)]

Unvisited(ids) == [left |-> ids, path |-> <<>>, visited |-> {}, result |-> <<>>, cycles |-> {}]

\* The part of the path from the plugin that the search comes back to.
Closed(path, id) ==
  IF id \notin Range(path) THEN {}
  ELSE {SubSeq(path, CHOOSE i \in DOMAIN path : path[i] = id, Len(path))}

\* A plugin that was visited, and maybe is on the path, or that has no node, is passed by.
Pass(s, id) ==
  [left    |-> s.left \ {id},
   path    |-> s.path,
   visited |-> s.visited \cup {id},
   result  |-> s.result,
   cycles  |-> s.cycles \cup Closed(s.path, id)]

\* Another is entered, to begin with those that it depends on, ...
Descend(s, id) ==
  [left    |-> nodes[id].dependencies,
   path    |-> Append(s.path, id),
   visited |-> s.visited \cup {id},
   result  |-> s.result,
   cycles  |-> s.cycles]

\* ... and is done, and so ordered, after them.
Ascend(s, below, id) ==
  [left    |-> s.left \ {id},
   path    |-> s.path,
   visited |-> below.visited,
   result  |-> Append(below.result, id),
   cycles  |-> below.cycles]

\* What a loop makes of the search; std::map and std::set have some order.
search[s \in Search] ==
  IF s.left = {} THEN s
  ELSE LET id == CHOOSE id \in s.left : TRUE
       IN  search[IF id \in s.visited \/ id \notin Listed THEN Pass(s, id)
                  ELSE Ascend(s, search[Descend(s, id)], id)]

TopologicalSort == search[Unvisited(Listed)].result

DetectCycles == search[Unvisited(Listed)].cycles

-----------------------------------------------------------------------------
(* The operations.                                                         *)

Init ==
  /\ CallersInit
  /\ nodes = [id \in Ids |-> NoNode]
  /\ added = {}

\* A node replaces the one of its identifier: nobody depends on it until resolve().
AddPlugin(id, spec) ==
  /\ Called
  /\ nodes' = [nodes EXCEPT ![id] = [here |-> TRUE, spec |-> spec,
                                     dependencies |-> spec.deps, dependents |-> {}]]
  /\ added' = added \cup {id}

\* Mutant: the plugins it depended on still count it among their dependents.
RemovePluginHalf(id) ==
  /\ Called /\ id \in Listed
  /\ nodes' = [j \in Ids |-> IF j = id THEN NoNode
                             ELSE [nodes[j] EXCEPT !.dependencies = @ \ {id}]]
  /\ added' = added \ {id}

\* The edges to and from the plugin go, in the nodes and not in their specifications.
RemovePlugin(id) ==
  /\ Called /\ id \in Listed
  /\ nodes' = [j \in Ids |-> IF j = id THEN NoNode
                             ELSE [nodes[j] EXCEPT !.dependencies = @ \ {id},
                                                   !.dependents = @ \ {id}]]
  /\ added' = added \ {id}

Clear == Called /\ nodes' = [id \in Ids |-> NoNode] /\ added' = {}

\* buildDependencyGraph(), whatever resolve() finds then.
BuildDependencyGraph ==
  nodes' = [id \in Ids |-> IF id \in Listed
                           THEN [nodes[id] EXCEPT !.dependents =
                                   {j \in Listed : id \in nodes[j].dependencies}]
                           ELSE NoNode]

Resolve == Called /\ BuildDependencyGraph /\ added' = {}

-----------------------------------------------------------------------------
(* What the operations return.                                             *)

\* The dependencies whose absence, or whose version, is an error.
Missing(id)  == IF nodes[id].spec.required THEN nodes[id].spec.deps \ Listed ELSE {}
Rejected(id) == {dep \in nodes[id].spec.deps \cap Listed :
                   ~Satisfies(nodes[dep].spec.version, nodes[id].spec.constraint)}

ResolutionSucceeds ==
  DetectCycles = {} /\ \A id \in Listed : Missing(id) = {} /\ Rejected(id) = {}

LoadOrder   == TopologicalSort
UnloadOrder == [i \in DOMAIN LoadOrder |-> LoadOrder[Len(LoadOrder) + 1 - i]]

\* resolvePlugin(): what one plugin needs, and whether a part of it is missing.
ResolvePlugin(id) ==
  LET s == search[Unvisited({id})]
  IN  [success |-> s.visited \subseteq Listed, order |-> s.result]

CanUnload(id) == nodes[id].dependents = {}

CheckDependencies(id) == id \in Listed /\ Missing(id) = {}

\* Bound: a plugin that depends on itself depends on no other one.
Dependencies(id) == (SUBSET (Ids \ {id})) \cup {{id}}

Next ==
  \/ \E id \in Ids :
       \/ \E deps \in Dependencies(id), required \in BOOLEAN, version \in Versions :
            /\ required => deps # {}
            /\ AddPlugin(id, [deps |-> deps, required |-> required, version |-> version,
                              constraint |-> DefaultConstraint])
       \/ RemovePlugin(id)
  \/ Clear \/ Resolve

Spec == Init /\ [][Next]_vars

-----------------------------------------------------------------------------
TypeOK ==
  /\ CallersTypeOK
  /\ nodes \in [Ids -> [here : BOOLEAN, spec : PluginSpec, dependencies : SUBSET Ids,
                        dependents : SUBSET Ids]]
  /\ added \subseteq Ids

Edges(id) == nodes[id].dependencies \cap Listed

\* The definition to compare with: what id reaches is in every set that holds its edges and
\* those of its own members.
Reached(id) ==
  {j \in Ids : \A S \in SUBSET Ids : Edges(id) \subseteq S /\ (\A k \in S : Edges(k) \subseteq S)
                                      => j \in S}

Cyclic == \E id \in Listed : id \in Reached(id)

Before(s, x, y) == \E i, j \in DOMAIN s : i < j /\ s[i] = x /\ s[j] = y

\* The plugins of a list are listed after those that they depend on.
Ordered(list) == \A id \in Range(list) : \A dep \in Edges(id) : Before(list, dep, id)

\* resolve() refuses exactly the graphs with a cycle or an unmet dependency, every cycle it
\* reports is one, and the order it returns has each plugin once, after what it depends on
\* (removePlugin() tears an edge for good, though the specification keeps it);
\* resolvePlugin() returns what the plugin reaches, each once, in such an order, it last.
OrderIsSound ==
  /\ DetectCycles # {} <=> Cyclic
  /\ \A cycle \in DetectCycles : \A i \in DOMAIN cycle :
       cycle[(i % Len(cycle)) + 1] \in Edges(cycle[i])
  /\ Range(LoadOrder) = Listed /\ Len(LoadOrder) = Cardinality(Listed)
  /\ ~Cyclic => Ordered(LoadOrder)
  /\ ResolutionSucceeds =>
       \A id \in Listed : nodes[id].spec.required =>
         \A dep \in nodes[id].spec.deps :
           dep \in Listed /\ (dep \in Edges(id) => Before(LoadOrder, dep, id))
  /\ \A id \in Listed :
       LET order == ResolvePlugin(id).order
       IN  /\ Range(order) = {id} \cup Reached(id)
           /\ Len(order) = Cardinality(Range(order)) /\ order[Len(order)] = id
           /\ ~Cyclic => Ordered(order)

\* canUnload() lets go exactly the plugins that no other needs, removals included, unless a
\* plugin was added since the dependents were computed.
UnloadIsSafe ==
  added = {} => \A id \in Listed :
                  CanUnload(id) <=> \A j \in Listed : id \notin nodes[j].dependencies

=============================================================================

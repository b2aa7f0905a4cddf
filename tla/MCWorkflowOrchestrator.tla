----------------------- MODULE MCWorkflowOrchestrator -----------------------
(* WorkflowOrchestrator with two callers and up to three nodes. *)
EXTENDS WorkflowOrchestrator

\* The graph that adding the nodes 1..size and then the edges, once each, builds.
Built(size, links) ==
  LET Copies == [s \in NodeId |-> [t \in NodeId |-> IF <<s, t>> \in links THEN 1 ELSE 0]]
  IN  <<1 .. size, Copies, [t \in NodeId |-> [s \in NodeId |-> Copies[s][t]]], Copies, {}>>

\* As Built, but the object of node n was replaced in the end.
Replaced(size, links, n) ==
  LET built == Built(size, links)
  IN  <<built[1], built[2], [built[3] EXCEPT ![n] = Nothing[n]],
        [built[4] EXCEPT ![n] = Nothing[n]], {n}>>

\* As Built, but node n, once with the given edges, was removed before the links were added
\* and the same object was put back: its list of successors still has them.
PutBack(size, links, n, former) ==
  LET built == Built(size, links)
  IN  <<built[1], built[2], built[3],
        [built[4] EXCEPT ![n] = [t \in NodeId |-> IF <<n, t>> \in former THEN 1 ELSE @[t]]], {n}>>

\* Nothing, a triangle, a fork, a join, two nodes apart, a cycle, an edge whose source was
\* replaced, and a node put back that still counts down the target of another's edge.
MCPlans ==
  {Built(0, {}), Built(3, {<<1, 2>>, <<2, 3>>, <<1, 3>>}), Built(3, {<<1, 2>>, <<1, 3>>}),
   Built(3, {<<1, 3>>, <<2, 3>>}), Built(2, {}), Built(2, {<<1, 2>>, <<2, 1>>}),
   Replaced(3, {<<1, 2>>, <<2, 3>>}, 2), PutBack(3, {<<2, 3>>}, 1, {<<1, 3>>})}

=============================================================================

------------------------------- MODULE Loopholes -------------------------------
(***************************************************************************)
(* Loopholes in a graph of weighted dependencies (refactoring/): the graph *)
(* a request describes (dependency_graph.py), its negative cycles          *)
(* (cycle_detector.py) and the fundamental cycle basis whose equations the *)
(* correction solves (zero_arbitrage.py), as POST /detect-loopholes calls  *)
(* them (api/routes/refactoring.py).                                       *)
(*                                                                         *)
(* Weights are integers.  The least-squares solver is numpy's and is left  *)
(* out: what it solves is B w = -B weights, and B is here.                 *)
(***************************************************************************)
EXTENDS Integers, Sequences, Sums, FiniteSetsExt

-----------------------------------------------------------------------------
(* DependencyGraphBuilder: a request is a sequence of records [source,     *)
(* target, weight].  networkx keeps one edge for a pair of nodes and the   *)
(* weight it was given last; it lists the nodes as they appeared first and *)
(* the edges by source.                                                    *)

Requests(N) == Seq([source : N, target : N, weight : Int])

Listed(out, x) == IF x \in Range(out) THEN out ELSE Append(out, x)

\* Every element once, where it first appears.
Once(seq) ==
    LET out[n \in 0..Len(seq)] == IF n = 0 THEN <<>> ELSE Listed(out[n - 1], seq[n])
    IN out[Len(seq)]

EndsOf(request) ==
    [k \in 1..2 * Len(request) |->
        IF k % 2 = 1 THEN request[(k + 1) \div 2].source ELSE request[k \div 2].target]

NodesOf(request) == Once(EndsOf(request))

PairsOf(request) ==
    Once([k \in 1..Len(request) |-> <<request[k].source, request[k].target>>])

\* The pairs that leave a node.
With(out, pair, node) == IF pair[1] = node THEN Append(out, pair) ELSE out

Leaving(pairs, node) ==
    LET out[n \in 0..Len(pairs)] ==
            IF n = 0 THEN <<>> ELSE With(out[n - 1], pairs[n], node)
    IN out[Len(pairs)]

\* The edges out of each node, node by node.
EdgesOf(request) ==
    LET nodes == NodesOf(request)
        pairs == PairsOf(request)
        out[n \in 0..Len(nodes)] ==
            IF n = 0 THEN <<>> ELSE out[n - 1] \o Leaving(pairs, nodes[n])
    IN out[Len(nodes)]

WeightOf(request, edge) ==
    request[Max({k \in DOMAIN request :
                   <<request[k].source, request[k].target>> = edge})].weight

-----------------------------------------------------------------------------
(* find_negative_weight_cycles: strongly connected components narrow the   *)
(* search of simple_cycles and lose no cycle, so what is found is every    *)
(* simple directed cycle of negative weight.  A cycle is the set of the    *)
(* indices of its edges.                                                   *)

\* Every node that an edge enters is left by one, and by no other.
Rotates(edges, inside) ==
    /\ \A i, j \in inside : i # j => edges[i][1] # edges[j][1] /\ edges[i][2] # edges[j][2]
    /\ {edges[i][1] : i \in inside} = {edges[i][2] : i \in inside}

SimpleCycles(edges) ==
    LET rotations == {inside \in SUBSET DOMAIN edges \ {{}} : Rotates(edges, inside)}
    IN {inside \in rotations : \A part \in rotations : part \subseteq inside => part = inside}

CycleWeight(request, cycle) ==
    LET edges == EdgesOf(request)
    IN SumAt(cycle, [i \in 1..Len(edges) |-> WeightOf(request, edges[i])])

NegativeCycles(request) ==
    {c \in SimpleCycles(EdgesOf(request)) : CycleWeight(request, c) < 0}

-----------------------------------------------------------------------------
(* build_cycle_basis_matrix.                                               *)

\* The other end of an edge, seen from a node that it touches.
OtherEnd(edge, node) == IF edge[1] = node THEN edge[2] ELSE edge[1]

\* Where a node hangs: below another one, on an edge, along it or against it.
Hook(edges, node, i) ==
    [node |-> node, edge |-> i, direction |-> IF edges[i][1] = node THEN 1 ELSE -1]

Root == [node |-> "none", edge |-> 0, direction |-> 0]

Hung(parent, node, hook) ==
    [n \in DOMAIN parent \cup {node} |-> IF n = node THEN hook ELSE parent[n]]

\* One turn of the loop over the neighbours of a node: a neighbour not yet
\* visited hangs below the node on the first edge between them.
Visit(edges, node, forest, i) ==
    LET neighbour == OtherEnd(edges[i], node) IN
    IF node \notin {edges[i][1], edges[i][2]} \/ neighbour \in DOMAIN forest.parent
    THEN forest
    ELSE [parent |-> Hung(forest.parent, neighbour, Hook(edges, node, i)),
          queue |-> Append(forest.queue, neighbour)]

\* One turn of the loop over the queue.
Turn(edges, forest) ==
    LET after[i \in 0..Len(edges)] ==
            IF i = 0 THEN [forest EXCEPT !.queue = Tail(@)]
            ELSE Visit(edges, Head(forest.queue), after[i - 1], i)
    IN IF forest.queue = <<>> THEN forest ELSE after[Len(edges)]

\* The loop over the queue.  A node enters it once, so that it ends within
\* as many turns as there are nodes.
Grow(nodes, edges, forest) ==
    LET after[k \in 0..Len(nodes)] == IF k = 0 THEN forest ELSE Turn(edges, after[k - 1])
    IN after[Len(nodes)]

\* The loop over the nodes that no tree has reached.
Planted(nodes, edges, forest, start) ==
    IF start \in DOMAIN forest.parent THEN forest
    ELSE Grow(nodes, edges, [parent |-> Hung(forest.parent, start, Root), queue |-> <<start>>])

\* The spanning forest: where every node hangs.
Forest(nodes, edges) ==
    LET after[n \in 0..Len(nodes)] ==
            IF n = 0 THEN [parent |-> [node \in {} |-> Root], queue |-> <<>>]
            ELSE Planted(nodes, edges, after[n - 1], nodes[n])
    IN after[Len(nodes)].parent

TreeEdges(parent) == {parent[n].edge : n \in DOMAIN parent} \ {0}

\* path_to_root_coeffs of every node, as functions on the edges.
PathsToRoot(edges, parent) ==
    LET path[n \in DOMAIN parent] ==
            IF parent[n] = Root THEN [i \in 1..Len(edges) |-> 0]
            ELSE [path[parent[n].node] EXCEPT ![parent[n].edge] = @ - parent[n].direction]
    IN path

\* From the root to the source of an edge, along it, and back to the root.
Row(edges, path, i) ==
    [j \in 1..Len(edges) |->
        path[edges[i][1]][j] - path[edges[i][2]][j] - (IF j = i THEN 1 ELSE 0)]

\* Mutant: reciprocal edges share a column, as in an undirected simple graph.
BasisOfSimpleGraph(nodes, edges) ==
    LET parent == Forest(nodes, edges)
        merged == {i \in DOMAIN edges : \E t \in TreeEdges(parent) :
                      edges[t] = <<edges[i][2], edges[i][1]>>}
        path == PathsToRoot(edges, parent)
    IN [i \in DOMAIN edges \ (TreeEdges(parent) \cup merged) |-> Row(edges, path, i)]

\* The rows of B, one for every edge outside the forest.
Basis(nodes, edges) ==
    LET parent == Forest(nodes, edges)
        path == PathsToRoot(edges, parent)
    IN [i \in DOMAIN edges \ TreeEdges(parent) |-> Row(edges, path, i)]

-----------------------------------------------------------------------------
(* What the basis promises.                                                *)

(* Every directed cycle is, edge by edge, the negated sum of the rows of   *)
(* its edges outside the forest, two-node loopholes and self-loops         *)
(* included; so weights that zero every row leave no cycle with a negative *)
(* weight, and the corrected graph has no loophole (the module docstring   *)
(* of zero_arbitrage.py).                                                  *)
CoverEveryCycle(edges, rows) ==
    \A cycle \in SimpleCycles(edges) : \A j \in DOMAIN edges :
        (IF j \in cycle THEN 1 ELSE 0)
           = - SumOf([i \in 1..Len(edges) |-> IF i \in cycle \cap DOMAIN rows
                                              THEN rows[i][j] ELSE 0])
=============================================================================

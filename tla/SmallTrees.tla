----------------------------- MODULE SmallTrees -----------------------------
(***************************************************************************)
(* All small traces and patterns for the subtree isomorphisms.  The graph  *)
(* of a trace has every caller behind the services it called, as merge and *)
(* AddMe build it; the nodes of a pattern come in the order of the query's *)
(* text. *)
(***************************************************************************)
EXTENDS SubtreeMatch, FiniteSets

OneService == {"s"}
TwoValues == {"x", "y"}

GraphOf(nodes, edges) == [nodes |-> nodes, edges |-> edges, unassigned |-> {}]

TraceNodes == [name : OneService, value : TwoValues]

(* The trees of a size, each given by the parents of 1, 2, ... n - 1. *)
Shapes == <<{<<>>}, {<<2>>}, {<<2, 3>>, <<3, 3>>},
            {<<2, 3, 4>>, <<3, 3, 4>>, <<2, 4, 4>>, <<4, 4, 4>>}>>

TracesOfSize(n) ==
    {GraphOf(nodes, {<<parent[i], i>> : i \in 1 .. n - 1}) :
        nodes \in [1 .. n -> TraceNodes], parent \in Shapes[n]}

WantedNodes == [name : {AnyName}, value : {"x", NoValue}]

(* The same trees, numbered from the leaves up or from the root down. *)
PatternsOfSize(n) ==
    {GraphOf(nodes, {<<place[parent[i]], place[i]>> : i \in 1 .. n - 1}) :
        nodes \in [1 .. n -> WantedNodes],
        parent \in Shapes[n],
        place \in {[i \in 1 .. n |-> i], [i \in 1 .. n |-> n + 1 - i]}}

SmallTraces == UNION {TracesOfSize(n) : n \in 2 .. 4}

(* Patterns as large as the largest trace have an attribute filter at most. *)
OneFilter(p) == Cardinality({i \in DOMAIN p.nodes : p.nodes[i].value # NoValue}) <= 1

SmallPatterns ==
    UNION {PatternsOfSize(n) : n \in 1 .. 3} \cup {p \in PatternsOfSize(4) : OneFilter(p)}
=============================================================================

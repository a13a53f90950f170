---------------------------- MODULE SubtreeMatch ----------------------------
(***************************************************************************)
(* When a query's pattern matches a trace: the pattern (the structural     *)
(* filter with its attribute filters) is a tree, and it matches at a node  *)
(* of the trace when it can be laid over the trace injectively with its    *)
(* root on that node, edges on edges, every attribute filter satisfied.    *)
(* This is the definition the subtree isomorphism of iso.rs is written to  *)
(* decide.                                                                 *)
(***************************************************************************)
EXTENDS FerriedData

CONSTANT AnyName   \* a pattern node without a filter on WORKLOAD_NAME

(* The graph create_target_graph builds: what the query asks of each node  *)
(* and the edges of MATCH.                                                 *)
PatternNode == [name : Services \cup {AnyName}, value : Values \cup {NoValue}]

(* has_property_subset(node of the trace, node of the pattern) *)
HasPropertySubset(node, wanted) ==
    /\ wanted.name # AnyName => node.name = wanted.name
    /\ wanted.value # NoValue => node.value = wanted.value

(* find_root: the first node without an incoming edge. *)
FindRoot(h) ==
    CHOOSE u \in DOMAIN h.nodes :
        /\ \A e \in h.edges : e[2] # u
        /\ \A w \in 1 .. u - 1 : \E e \in h.edges : e[2] = w

(* The pattern h lies over the graph with these edges and this labelling   *)
(* of its vertices, its root on v.                                         *)
EmbedsAt(h, label, edges, v) ==
    \E f \in [DOMAIN h.nodes -> DOMAIN label] :
        /\ f[FindRoot(h)] = v
        /\ \A u, w \in DOMAIN h.nodes : f[u] = f[w] => u = w
        /\ \A e \in h.edges : <<f[e[1]], f[e[2]]>> \in edges
        /\ \A u \in DOMAIN h.nodes : HasPropertySubset(label[f[u]], h.nodes[u])

(* The vertices in V that the edges lead to from v, v included. *)
Reachable(V, edges, v) ==
    {w \in V : \A S \in SUBSET V :
        v \in S /\ (\A e \in edges : e[1] \in S => e[2] \in S) => w \in S}

(* Mutant: only the filters on the pattern's root are looked at. *)
FirstMatchesOfRoot(g, h) ==
    {v \in DOMAIN g.nodes : HasPropertySubset(g.nodes[v], h.nodes[FindRoot(h)])}

(* find_mapping_shamir_centralized walks the trace in postorder from its   *)
(* root and stops at the first match: a match with no other match below    *)
(* it.  (Which of several such matches depends on the order of the edges.) *)
FirstMatches(g, h) ==
    LET below(v) == Reachable(DOMAIN g.nodes, g.edges, v)
        all == {v \in below(FindRoot(g)) : EmbedsAt(h, g.nodes, g.edges, v)}
    IN  {v \in all : \A w \in all \cap below(v) : v \in below(w)}
=============================================================================

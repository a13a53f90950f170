----------------------------- MODULE ShamirTsur -----------------------------
(***************************************************************************)
(* What the centralized and the decentralized subtree isomorphism of       *)
(* libs/utils/graph/iso.rs share: one round of                             *)
(* find_mapping_shamir_inner_loop, the algorithm of Shamir and Tsur, for a *)
(* graph g of the trace, a pattern h and keys, the keys of set_s:          *)
(* keys[<<v, u>>] are those of set_s[SetSKey {val1: v, val2: u}].          *)
(*                                                                         *)
(* set_s[v, u], for a node v of g and a node u of h, gets the key w, a     *)
(* neighbour of u, when the branch of the pattern that starts at u and     *)
(* leads away from w can be laid over the trace from v downwards, and the  *)
(* key u when all of the pattern can, seen from u.                         *)
(***************************************************************************)
EXTENDS SubtreeMatch, FiniteSets

Nodes(graph) == DOMAIN graph.nodes

(* What the algorithm is for: the trace and the pattern are trees, each     *)
(* with a root that leads to every node, by one edge to each.              *)
Tree(graph) ==
    /\ graph.nodes \in Seq(PatternNode)
    /\ graph.edges \subseteq Nodes(graph) \X Nodes(graph)
    /\ \A d, e \in graph.edges : d[2] = e[2] => d = e
    /\ \E root \in Nodes(graph) :
        /\ \A e \in graph.edges : e[2] # root
        /\ Nodes(graph) \subseteq Reachable(Nodes(graph), graph.edges, root)

Both(edges) == edges \cup {<<e[2], e[1]>> : e \in edges}

(* neighbors_undirected *)
Neighbours(graph, x) == {y \in Nodes(graph) : <<x, y>> \in Both(graph.edges)}

(* find_leaves(root, graph) *)
Leaves(graph) ==
    {x \in Reachable(Nodes(graph), graph.edges, FindRoot(graph)) :
        \A e \in graph.edges : e[1] # x}

(* What is entered for u at a leaf of the trace: a leaf of h can be placed  *)
(* there, as a branch seen from its caller and, if it is all of the         *)
(* pattern, from itself.                                                    *)
LeafKeys(h, u) ==
    IF u \in Leaves(h) THEN {u} \cup {e[1] : e \in {x \in h.edges : x[2] = u}} ELSE {}

-----------------------------------------------------------------------------
(* Mutant: the attribute filters are left to the root's check. *)
MatchEdgesByShape(g, h, keys, v, u) ==
    {xy \in Neighbours(h, u) \X Neighbours(g, v) : u \in keys[<<xy[2], xy[1]>>]}

(* The edges of max_matching's flow graph for u_null = u: neighbour x of u  *)
(* can be placed on neighbour y of v.                                       *)
MatchEdges(g, h, keys, v, u) ==
    {xy \in Neighbours(h, u) \X Neighbours(g, v) :
        /\ u \in keys[<<xy[2], xy[1]>>]
        /\ HasPropertySubset(g.nodes[xy[2]], h.nodes[xy[1]])}

(* The matchings along these edges that cover all of X. *)
Matchings(edges, X) ==
    {m \in SUBSET edges :
        /\ \A x \in X : \E p \in m : p[1] = x
        /\ Cardinality(m) = Cardinality(X)
        /\ \A p, q \in m : p[1] = q[1] \/ p[2] = q[2] => p = q}

(* What max_matching adds to set_s[v, u]: u if all neighbours of u can be   *)
(* matched, w if all but w can.  With too few edges it returns at once; its *)
(* other early return is the case that the last set is empty.               *)
MaxMatching(g, h, keys, v, u) ==
    LET X == Neighbours(h, u)
        edges == MatchEdges(g, h, keys, v, u)
    IN  IF Cardinality(edges) + 1 < Cardinality(X) THEN {}
        ELSE {w \in X \cup {u} : Matchings(edges, X \ {w}) # {}}

(* Mutant: u is skipped unless all of its neighbours can be placed. *)
DegreeFitsAll(g, h, v, u) ==
    Cardinality(Neighbours(h, u)) <= Cardinality(Neighbours(g, v))

(* The loop skips u when it has more than one neighbour too many. *)
DegreeFits(g, h, v, u) ==
    Cardinality(Neighbours(h, u)) <= Cardinality(Neighbours(g, v)) + 1

(* The pattern is found, its root on v. *)
RootMatches(g, h, keys, v) ==
    /\ FindRoot(h) \in keys[<<v, FindRoot(h)>>]
    /\ HasPropertySubset(g.nodes[v], h.nodes[FindRoot(h)])

-----------------------------------------------------------------------------
(* The branch of the pattern at u that leads away from w; all of it if w    *)
(* is u. *)
Branch(h, u, w) ==
    Reachable(Nodes(h), Both(h.edges) \ {<<u, w>>, <<w, u>>}, u)

(* The branch can be laid over what is at and below v, u on v, each edge on *)
(* a call, every attribute filter but u's satisfied.                        *)
BranchEmbeds(g, h, v, u, w) ==
    LET branch == Branch(h, u, w)
        below == Reachable(Nodes(g), g.edges, v)
    IN  \E f \in [branch -> below] :
            /\ f[u] = v
            /\ \A a, b \in branch : f[a] = f[b] => a = b
            /\ \A e \in h.edges : e[1] \in branch /\ e[2] \in branch =>
                <<f[e[1]], f[e[2]]>> \in Both(g.edges)
            /\ \A a \in branch \ {u} : HasPropertySubset(g.nodes[f[a]], h.nodes[a])
=============================================================================

----------------------------- MODULE SubtreeIso -----------------------------
(***************************************************************************)
(* find_mapping_shamir_centralized (libs/utils/graph/iso.rs): the subtree  *)
(* isomorphism of Shamir and Tsur, by which the root's sidecar decides     *)
(* whether the trace g contains the pattern h, and get_mapping_from_set_s, *)
(* which tells for the RETURN of the query what node was matched.          *)
(*                                                                         *)
(* The trace is visited in postorder.  At node v every node u of the       *)
(* pattern is tried in the order of its position.                          *)
(*                                                                         *)
(* Abstracted: petgraph's order of neighbours, hence the order of the      *)
(* subtrees of one node; which of several maximum matchings Edmonds-Karp   *)
(* finds, hence the value stored with a key, which is chosen when the      *)
(* mapping is read; the order within the returned mapping, whose first     *)
(* pair is the root's.                                                     *)
(***************************************************************************)
EXTENDS IsoGraphs

VARIABLES
    visited,   \* the nodes of g that the postorder traversal is through with
    at,        \* <<v, u>>: at v, the next node of the pattern is u; or NoNode
    result,    \* the answer: a set with the matched node, or empty for None
    running,   \* no answer yet
    todo,      \* set_to_find_mapping of get_mapping_from_set_s
    mapping    \* to_return of get_mapping_from_set_s

vars == <<g, h, setS, visited, at, result, running, todo, mapping>>

NoNode == <<0, 0>>

(* Mutant: the entries are made under the nodes of the trace. *)
InitializeUnderTrace(gg, hh) ==
    [vu \in (DOMAIN gg.nodes) \X (DOMAIN hh.nodes) |->
        IF vu[1] \in Leaves(gg) /\ vu[2] \in Leaves(hh) THEN {vu[1]} ELSE {}]

(* initialize_s *)
InitializeS(gg, hh) ==
    [vu \in (DOMAIN gg.nodes) \X (DOMAIN hh.nodes) |->
        IF vu[1] \in Leaves(gg) THEN LeafKeys(hh, vu[2]) ELSE {}]

TypeOK ==
    /\ g \in TraceGraphs /\ h \in Patterns
    /\ setS \in [V \X U -> SUBSET U]
    /\ visited \subseteq V
    /\ at \in {NoNode} \cup (V \X U)
    /\ result \subseteq V /\ Cardinality(result) <= 1
    /\ running \in BOOLEAN
    /\ todo \subseteq U \X V
    /\ mapping \subseteq (U \X V) \cup (V \X U)

Init ==
    /\ g \in TraceGraphs /\ h \in Patterns
    /\ setS = InitializeS(g, h)
    /\ visited = {} /\ at = NoNode
    /\ result = {} /\ running = TRUE
    /\ todo = {} /\ mapping = {}

-----------------------------------------------------------------------------
(* The trace has fewer nodes than the pattern. *)
TooSmall ==
    /\ running /\ visited = {} /\ at = NoNode
    /\ Len(g.nodes) < Len(h.nodes)
    /\ running' = FALSE
    /\ UNCHANGED <<g, h, setS, visited, at, result, todo, mapping>>

(* The traversal comes to v, after what v leads to. *)
NextNode(v) ==
    /\ running /\ at = NoNode
    /\ Len(g.nodes) >= Len(h.nodes)
    /\ v \in Reachable(V, g.edges, FindRoot(g)) \ visited
    /\ \A e \in g.edges : e[1] = v => e[2] \in visited
    /\ at' = <<v, 1>>
    /\ UNCHANGED <<g, h, setS, visited, result, running, todo, mapping>>

(* One round of find_mapping_shamir_inner_loop. *)
Advance(v, u) ==
    IF u < Len(h.nodes)
    THEN at' = <<v, u + 1>> /\ UNCHANGED visited
    ELSE at' = NoNode /\ visited' = visited \cup {v}

SkipPatternNode(v, u) ==
    /\ at = <<v, u>>
    /\ ~ DegreeFits(g, h, v, u)
    /\ Advance(v, u)
    /\ UNCHANGED <<g, h, setS, result, running, todo, mapping>>

TryPatternNode(v, u) ==
    /\ at = <<v, u>>
    /\ DegreeFits(g, h, v, u)
    /\ setS' = [setS EXCEPT ![at] = @ \cup MaxMatching(g, h, setS, v, u)]
    /\ \/ /\ RootMatches(g, h, setS', v)
          /\ result' = {v} /\ running' = FALSE
          /\ todo' = {<<FindRoot(h), v>>}
          /\ at' = NoNode /\ UNCHANGED visited
       \/ /\ ~ RootMatches(g, h, setS', v)
          /\ Advance(v, u)
          /\ UNCHANGED <<result, running, todo>>
    /\ UNCHANGED <<g, h, mapping>>

(* The traversal ends without a match. *)
NotFound ==
    /\ running /\ at = NoNode
    /\ Len(g.nodes) >= Len(h.nodes)
    /\ Reachable(V, g.edges, FindRoot(g)) \subseteq visited
    /\ running' = FALSE
    /\ UNCHANGED <<g, h, setS, visited, at, result, todo, mapping>>

-----------------------------------------------------------------------------
(* The pairs stored in set_s[v, u] under the key u: a maximum matching of   *)
(* the neighbours of u with nodes v leads to (set_s has nothing yet for the *)
(* node that leads to v), or at a leaf the pair initialize_s put there.     *)
StoredMatchings(v, u) ==
    IF u \notin setS[<<v, u>>] THEN {{}}
    ELSE IF u \in InitializeS(g, h)[<<v, u>>] THEN {{<<u, v>>}}
    ELSE Matchings({xy \in MatchEdges(g, h, setS, v, u) : <<v, xy[2]>> \in g.edges}, Neighbours(h, u))

(* Mutant: what was looked up is not returned itself. *)
FollowSilently(u, v) ==
    /\ ~ running
    /\ <<u, v>> \in todo
    /\ \E stored \in StoredMatchings(v, u) :
        LET fresh == {p \in stored : <<p[2], p[1]>> \notin mapping}
        IN  /\ mapping' = mapping \cup {<<p[2], p[1]>> : p \in fresh}
            /\ todo' = (todo \ {<<u, v>>}) \cup fresh
    /\ UNCHANGED <<g, h, setS, visited, at, result, running>>

(* One round of the loop of get_mapping_from_set_s: a pair is looked up,    *)
(* and each pair stored there is returned with its sides swapped, and       *)
(* looked up later.                                                         *)
FollowPair(u, v) ==
    /\ ~ running
    /\ <<u, v>> \in todo
    /\ \E stored \in StoredMatchings(v, u) :
        LET returned == mapping \cup {<<u, v>>}
            fresh == {p \in stored : <<p[2], p[1]>> \notin returned}
        IN  /\ mapping' = returned \cup {<<p[2], p[1]>> : p \in fresh}
            /\ todo' = (todo \ {<<u, v>>}) \cup fresh
    /\ UNCHANGED <<g, h, setS, visited, at, result, running>>

Finished ==
    /\ ~ running /\ todo = {}
    /\ UNCHANGED vars

Next ==
    \/ TooSmall
    \/ NotFound
    \/ \E v \in V : NextNode(v)
    \/ \E v \in V, u \in U :
        \/ SkipPatternNode(v, u)
        \/ TryPatternNode(v, u)
        \/ FollowPair(u, v)
    \/ Finished

Spec == Init /\ [][Next]_vars

-----------------------------------------------------------------------------
(* set_s is what the paper says of it: once the traversal is through with   *)
(* v, a key is in set_s[v, u] exactly if its branch embeds.  (The entry a   *)
(* leaf of the pattern has for itself at a leaf of the trace is the         *)
(* exception: it claims too much, and only get_mapping_from_set_s reads     *)
(* it.) *)
SetSExact ==
    at = NoNode => \A v \in visited, u \in U : \A w \in Neighbours(h, u) \cup {u} :
        (w # u \/ u = FindRoot(h)) =>
            (w \in setS[<<v, u>>] <=> BranchEmbeds(g, h, v, u, w))

(* The answer is right: a match is found exactly if there is one, and it is *)
(* one with no other match below it - what TraceFilter takes for granted of *)
(* find_mapping_shamir_centralized.                                         *)
AnswerRight ==
    ~ running =>
        /\ result \subseteq FirstMatches(g, h)
        /\ result = {} => FirstMatches(g, h) = {}

(* The mapping, complete, says of the pattern's root what was found. *)
RootIsMapped ==
    ~ running /\ todo = {} => \A v \in result : <<FindRoot(h), v>> \in mapping

(* "The mapping from graph H to graph G returned by this function": every   *)
(* pair leads from a node of the pattern to a node of the trace that has    *)
(* its properties. *)
MapsPatternToTrace ==
    \A p \in mapping :
        p[1] \in U /\ p[2] \in V /\ HasPropertySubset(g.nodes[p[2]], h.nodes[p[1]])
=============================================================================

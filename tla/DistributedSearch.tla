-------------------------- MODULE DistributedSearch --------------------------
(***************************************************************************)
(* What the distributed filters of Envoy and of the simulator share: the   *)
(* data they ferry, a graph with found_match and set_s, how it is merged,  *)
(* and find_mapping_shamir_decentralized, which every sidecar runs on it.  *)
(***************************************************************************)
EXTENDS Mesh, ShamirTsur

(* FerriedData::default_distributed(), also what is fetched where there is *)
(* no header.  set_s[<<i, u>>] is a set of nodes of the pattern, for the   *)
(* i-th node of the graph and the node u of the pattern.                   *)
DefaultDistributed ==
    [nodes |-> <<>>, edges |-> {}, unassigned |-> {},
     found_match |-> FALSE, set_s |-> <<>>]

-----------------------------------------------------------------------------
(* Mutant: the keys of other keep the positions they had. *)
MergeSetSUnmoved(mine, theirs, moved) ==
    [k \in DOMAIN theirs \cup DOMAIN mine |->
        IF k \in DOMAIN theirs THEN theirs[k] ELSE mine[k]]

(* merge_set_s: the i-th node of other has moved up. *)
MergeSetS(mine, theirs, moved) ==
    LET new == {<<e[1] + moved, e[2]>> : e \in DOMAIN theirs}
    IN  [k \in new \cup DOMAIN mine |->
            IF k \in new THEN theirs[<<k[1] - moved, k[2]>>] ELSE mine[k]]

(* Mutant: the found_match of the response is overwritten. *)
MergeTakesFound(self, other) ==
    [WithGraph(self, Merge(self, other)) EXCEPT
        !.found_match = other.found_match,
        !.set_s = MergeSetS(@, other.set_s, Len(self.nodes))]

(* self.merge(other); once a match is found, set_s is no longer carried    *)
(* around. *)
MergeDistributed(self, other) ==
    LET found == self.found_match \/ other.found_match
    IN  [WithGraph(self, Merge(self, other)) EXCEPT
            !.found_match = found,
            !.set_s = IF found THEN <<>>
                      ELSE MergeSetS(@, other.set_s, Len(self.nodes))]

-----------------------------------------------------------------------------
(* find_mapping_shamir_decentralized.  In the inner loop for v only        *)
(* set_s[<<v, u>>] changes, and max_matching does not read that one, so    *)
(* the rounds of one loop, and the loops for several children, do not      *)
(* affect each other.                                                      *)
ChildrenIn(graph, v) == {c \in DOMAIN graph.nodes : <<v, c>> \in graph.edges}

(* initialize_s_for_node *)
Entered(data, me) ==
    LET new == {me} \X Nodes(Target)
    IN  [k \in new \cup DOMAIN data.set_s |->
            IF k \notin new THEN data.set_s[k]
            ELSE IF ChildrenIn(data, me) # {} THEN {}
            ELSE LeafKeys(Target, k[2])]

(* find_mapping_shamir_inner_loop for v, over a graph, with set_s = keys:  *)
(* what set_s[<<v, u>>] is after the round for u, ...                      *)
AfterRound(graph, keys, v, u) ==
    IF DegreeFits(graph, Target, v, u)
    THEN keys[<<v, u>>] \cup MaxMatching(graph, Target, keys, v, u)
    ELSE keys[<<v, u>>]

(* Mutant: set_s is looked at before max_matching has filled it. *)
FoundBeforeRound(graph, keys, v, u) ==
    LET root == FindRoot(Target)
    IN  /\ DegreeFits(graph, Target, v, u)
        /\ root \in keys[<<v, root>>]
        /\ HasPropertySubset(graph.nodes[v], Target.nodes[root])

(* ... and whether the pattern is found in that round. *)
FoundInRound(graph, keys, v, u) ==
    LET root == FindRoot(Target)
    IN  /\ DegreeFits(graph, Target, v, u)
        /\ \/ root \in keys[<<v, root>>]
           \/ u >= root /\ root \in AfterRound(graph, keys, v, root)
        /\ HasPropertySubset(graph.nodes[v], Target.nodes[root])

FoundAt(graph, keys, v) == \E u \in Nodes(Target) : FoundInRound(graph, keys, v, u)

(* The inner loops for the nodes in vs: each ends with the round that      *)
(* finds the pattern.                                                      *)
InnerLoops(graph, keys, vs) ==
    [k \in DOMAIN keys |->
        IF /\ k[1] \in vs
           /\ \A u \in 1 .. k[2] - 1 : ~ FoundInRound(graph, keys, k[1], u)
        THEN AfterRound(graph, keys, k[1], k[2])
        ELSE keys[k]]

(* set_s afterwards, and the nodes the pattern's root may be mapped to: a  *)
(* callee's node, or, at the root's sidecar, its own.                      *)
Search(data, me, am_root) ==
    LET entered == Entered(data, me)
        children == ChildrenIn(data, me)
        looped == InnerLoops(data, entered, children)
    IN  IF am_root
        THEN [set_s |-> InnerLoops(data, looped, {me}),
              at |-> {v \in {me} : FoundAt(data, looped, v)}]
        ELSE [set_s |-> looped,
              at |-> {v \in children : FoundAt(data, entered, v)}]

-----------------------------------------------------------------------------
(* While nothing is found, there is an entry in set_s for each node of the *)
(* graph, and none for others: the search looks entries up without asking  *)
(* whether they are there. *)
SetSHasEntries(data) ==
    /\ ~ data.found_match => DOMAIN data.set_s = (DOMAIN data.nodes) \X Nodes(Target)
    /\ \A k \in DOMAIN data.set_s : data.set_s[k] \subseteq Nodes(Target)

(* What set_s says of the nodes of a graph is true of that graph.  (The    *)
(* entry of a leaf of the pattern for itself is not a claim, see           *)
(* SubtreeIso.) *)
SetSTrue(data) ==
    \A k \in DOMAIN data.set_s : \A w \in data.set_s[k] :
        w # k[2] \/ w = FindRoot(Target) =>
            BranchEmbeds(data, Target, k[1], k[2], w)
=============================================================================

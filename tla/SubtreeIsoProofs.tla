--------------------------- MODULE SubtreeIsoProofs ---------------------------
(***************************************************************************)
(* Theorems about find_mapping_shamir_centralized, for all trees: its      *)
(* set_s is what the paper says, and its answer is right.                  *)
(***************************************************************************)
EXTENDS SubtreeIso, ShamirTsurProofs

USE DEF V, U

(* The graphs considered are trees, with find_root's root and nodes 1, 2... *)
LEMMA Trees ==
    ASSUME g \in TraceGraphs, h \in Patterns
    PROVE  /\ TwoTrees(g, h)
           /\ V = 1 .. Len(g.nodes) /\ U = 1 .. Len(h.nodes)
           /\ Len(g.nodes) \in Nat /\ Len(h.nodes) \in Nat
           /\ TreeFrom(V, g.edges, FindRoot(g)) /\ TreeFrom(U, h.edges, FindRoot(h))
           /\ FindRoot(g) \in V /\ FindRoot(h) \in U
           /\ \A v, u : <<v, u>> = <<0, 0>> => v \notin V
BY TreesAssumption, TreePair

(* Neither graph changes. *)
LEMMA SameTrees ==
    ASSUME g' = g, h' = h
    PROVE  /\ V' = V /\ U' = U
           /\ \A v, u, w : BranchEmbeds(g, h, v, u, w)' <=> BranchEmbeds(g, h, v, u, w)
OBVIOUS

LEMMA InitializeType ==
    ASSUME g \in TraceGraphs, h \in Patterns
    PROVE  /\ InitializeS(g, h) \in [V \X U -> SUBSET U]
           /\ \A v \in V, u \in U : InitializeS(g, h)[<<v, u>>] =
                IF v \in Leaves(g) THEN LeafKeys(h, u) ELSE {}
<1>1. \A u \in U : LeafKeys(h, u) \subseteq U
  <2>1. ASSUME NEW u \in U, NEW w \in LeafKeys(h, u)
        PROVE  w \in U
    <3>1. TwoTrees(g, h)
      BY Trees
    <3>2. CASE V = {}
      BY <3>2, Trees
    <3>3. CASE V # {}
      <4>1. PICK v \in V : TRUE
        BY <3>3
      <4>2. w \in Neighbours(h, u) \cup {u}
        BY <3>1, LeafKeysSound
      <4>3. QED
        BY <4>2 DEF Neighbours
    <3>4. QED
      BY <3>2, <3>3
  <2>2. QED
    BY <2>1
<1>2. QED
  BY <1>1 DEF InitializeS, Nodes

(* The initial states are well-typed. *)
LEMMA TypeInit == Init => TypeOK
<1>1. SUFFICES ASSUME Init
               PROVE  TypeOK
  OBVIOUS
<1>2. setS \in [V \X U -> SUBSET U]
  BY <1>1, InitializeType DEF Init
<1>3. Cardinality({}) = 0
  BY FS_EmptySet
<1>4. QED
  BY <1>1, <1>2, <1>3 DEF Init, TypeOK, NoNode

LEMMA TypeStep == TypeOK /\ [Next]_vars => TypeOK'
<1>1. SUFFICES ASSUME TypeOK, [Next]_vars
               PROVE  TypeOK'
  OBVIOUS
<1>2. /\ TwoTrees(g, h)
      /\ V = 1 .. Len(g.nodes) /\ U = 1 .. Len(h.nodes)
      /\ Len(g.nodes) \in Nat /\ Len(h.nodes) \in Nat
      /\ FindRoot(g) \in V /\ FindRoot(h) \in U
  BY <1>1, Trees DEF TypeOK
<1> USE <1>1 DEF TypeOK
<1>3. g' = g /\ h' = h /\ V' = V /\ U' = U
  BY SameTrees DEF Next, vars, TooSmall, NextNode, SkipPatternNode, TryPatternNode, NotFound, FollowPair, Finished
<1>4. CASE TooSmall \/ NotFound \/ UNCHANGED vars
  BY <1>3, <1>4 DEF TooSmall, NotFound, vars
<1>5. ASSUME NEW v \in V, NextNode(v)
      PROVE  TypeOK'
  BY <1>2, <1>3, <1>5 DEF NextNode
<1>6. ASSUME NEW v \in V, NEW u \in U, Advance(v, u)
      PROVE  at' \in {NoNode} \cup (V \X U) /\ visited' \subseteq V
  <2>1. CASE u < Len(h.nodes)
    <3>1. u + 1 \in U
      BY <1>2, <2>1
    <3>2. QED
      BY <1>6, <2>1, <3>1 DEF Advance
  <2>2. CASE ~ (u < Len(h.nodes))
    BY <1>6, <2>2 DEF Advance
  <2>3. QED
    BY <2>1, <2>2
<1>7. ASSUME NEW v \in V, NEW u \in U, SkipPatternNode(v, u)
      PROVE  TypeOK'
  BY <1>3, <1>6, <1>7 DEF SkipPatternNode
<1>8. ASSUME NEW v \in V, NEW u \in U, TryPatternNode(v, u)
      PROVE  TypeOK'
  <2>1. setS' \in [V \X U -> SUBSET U]
    <3>1. setS[<<v, u>>] \cup MaxMatching(g, h, setS, v, u) \in SUBSET U
      BY MaxMatchingType
    <3>2. setS' = [setS EXCEPT ![<<v, u>>] = setS[<<v, u>>] \cup MaxMatching(g, h, setS, v, u)]
      BY <1>8 DEF TryPatternNode
    <3>3. QED
      BY <3>1, <3>2
  <2>2. CASE RootMatches(g, h, setS', v)
    <3>1. /\ result' = {v} /\ running' = FALSE /\ todo' = {<<FindRoot(h), v>>}
          /\ at' = NoNode /\ visited' = visited /\ mapping' = mapping
      BY <1>8, <2>2 DEF TryPatternNode
    <3>2. Cardinality({v}) = 1
      BY FS_Singleton
    <3>3. result' \subseteq V /\ Cardinality(result') <= 1
      BY <3>1, <3>2
    <3>4. /\ at' \in {NoNode} \cup (V \X U) /\ todo' \subseteq U \X V
          /\ visited' \subseteq V /\ running' \in BOOLEAN
          /\ mapping' \subseteq (U \X V) \cup (V \X U)
      <4>1. todo' \subseteq U \X V
        BY <1>2, <3>1
      <4>2. visited' \subseteq V /\ mapping' \subseteq (U \X V) \cup (V \X U)
        BY <3>1
      <4>3. QED
        BY <3>1, <4>1, <4>2
    <3>5. QED
      BY <1>3, <2>1, <3>3, <3>4
  <2>3. CASE ~ RootMatches(g, h, setS', v)
    <3>1. /\ Advance(v, u)
          /\ result' = result /\ running' = running /\ todo' = todo /\ mapping' = mapping
      BY <1>8, <2>3 DEF TryPatternNode
    <3>2. QED
      BY <1>3, <1>6, <2>1, <3>1
  <2>4. QED
    BY <2>2, <2>3
<1>9. ASSUME NEW v \in V, NEW u \in U, FollowPair(u, v)
      PROVE  TypeOK'
  <2>1. \A stored \in StoredMatchings(v, u) : stored \subseteq U \X V
    <3>1. MatchEdges(g, h, setS, v, u) \subseteq U \X V
      BY DEF MatchEdges, Neighbours, Nodes
    <3>2. {{<<u, v>>}} \subseteq SUBSET (U \X V) /\ {{}} \subseteq SUBSET (U \X V)
      OBVIOUS
    <3>3. \A stored \in Matchings({xy \in MatchEdges(g, h, setS, v, u) : <<v, xy[2]>> \in g.edges},
                                  Neighbours(h, u)) : stored \subseteq U \X V
      BY <3>1 DEF Matchings
    <3>4. QED
      BY <3>2, <3>3 DEF StoredMatchings
  <2>2. PICK stored \in StoredMatchings(v, u) :
            /\ mapping' = (mapping \cup {<<u, v>>}) \cup
                  {<<p[2], p[1]>> : p \in {p \in stored : <<p[2], p[1]>> \notin mapping \cup {<<u, v>>}}}
            /\ todo' = (todo \ {<<u, v>>}) \cup
                  {p \in stored : <<p[2], p[1]>> \notin mapping \cup {<<u, v>>}}
    BY <1>9 DEF FollowPair
  <2>3. \A p \in stored : <<p[2], p[1]>> \in V \X U
    BY <2>1
  <2>4. mapping' \subseteq (U \X V) \cup (V \X U) /\ todo' \subseteq U \X V
    <3>1. {<<p[2], p[1]>> : p \in {p \in stored : <<p[2], p[1]>> \notin mapping \cup {<<u, v>>}}}
            \subseteq V \X U
      BY <2>3
    <3>2. {p \in stored : <<p[2], p[1]>> \notin mapping \cup {<<u, v>>}} \subseteq U \X V
      BY <2>1
    <3>3. mapping \cup {<<u, v>>} \subseteq (U \X V) \cup (V \X U)
      OBVIOUS
    <3>4. todo \ {<<u, v>>} \subseteq U \X V
      OBVIOUS
    <3>5. QED
      BY <2>2, <3>1, <3>2, <3>3, <3>4, Zenon
  <2>5. QED
    BY <1>3, <1>9, <2>4 DEF FollowPair
<1>10. QED
  BY <1>1, <1>4, <1>5, <1>7, <1>8, <1>9 DEF Next, Finished

(* For all trees, find_mapping_shamir_centralized enters only nodes of the  *)
(* pattern into set_s, answers with one node of the trace at most, and      *)
(* get_mapping_from_set_s follows pairs of a pattern's and a trace's node.  *)
THEOREM TypeCorrect == Spec => []TypeOK
  BY TypeInit, TypeStep, PTL DEF Spec

-----------------------------------------------------------------------------
(* The mapping.  What was found is looked up, and is returned then.        *)
RootLookedUp ==
    /\ running => result = {}
    /\ \A v \in result : <<FindRoot(h), v>> \in todo \cup mapping

LEMMA RootLookedUpStep == TypeOK /\ RootLookedUp /\ [Next]_vars => RootLookedUp'
<1>1. SUFFICES ASSUME TypeOK, RootLookedUp, [Next]_vars
               PROVE  RootLookedUp'
  OBVIOUS
<1>2. CASE TooSmall \/ NotFound \/ UNCHANGED vars
  BY <1>1, <1>2 DEF TooSmall, NotFound, vars, RootLookedUp
<1>3. ASSUME NEW v \in V, NextNode(v)
      PROVE  RootLookedUp'
  BY <1>1, <1>3 DEF NextNode, RootLookedUp
<1>4. ASSUME NEW v \in V, NEW u \in U, SkipPatternNode(v, u) \/ TryPatternNode(v, u)
      PROVE  RootLookedUp'
  BY <1>1, <1>4 DEF SkipPatternNode, TryPatternNode, RootLookedUp
<1>5. ASSUME NEW v \in V, NEW u \in U, FollowPair(u, v)
      PROVE  RootLookedUp'
  <2>1. /\ mapping \cup {<<u, v>>} \subseteq mapping'
        /\ todo \ {<<u, v>>} \subseteq todo'
    BY <1>5 DEF FollowPair
  <2>2. h' = h /\ result' = result /\ running' = running
    BY <1>5 DEF FollowPair
  <2>3. QED
    BY <1>1, <2>1, <2>2 DEF RootLookedUp
<1>6. QED
  BY <1>1, <1>2, <1>3, <1>4, <1>5 DEF Next, Finished

(* "The mapping from graph H to graph G": complete, it says where the       *)
(* pattern's root was found, for all trees and whatever else is in it.      *)
THEOREM RootMapped == Spec => []RootIsMapped
<1>1. Init => RootLookedUp
  BY DEF Init, RootLookedUp
<1>2. RootLookedUp => RootIsMapped
  BY DEF RootLookedUp, RootIsMapped
<1>3. QED
  BY <1>1, <1>2, TypeCorrect, RootLookedUpStep, PTL DEF Spec

-----------------------------------------------------------------------------
(* The algorithm.  set_s has for v and u what the paper says.              *)
ExactAt(v, u) ==
    \A w \in Neighbours(h, u) \cup {u} :
        (w # u \/ u = FindRoot(h)) => (w \in setS[<<v, u>>] <=> BranchEmbeds(g, h, v, u, w))

Matching(v) == EmbedsAt(h, g.nodes, g.edges, v)

(* The traversal is in postorder. *)
Postorder ==
    /\ \A a, b : <<a, b>> \in g.edges /\ a \in visited => b \in visited
    /\ at # NoNode =>
        /\ running /\ at[1] \notin visited
        /\ \A b : <<at[1], b>> \in g.edges => b \in visited
    /\ running => result = {}

(* set_s is right about the nodes that were visited, and about the node at  *)
(* hand as far as the loop has come. *)
VisitedExact ==
    /\ \A v \in visited, u \in U : ExactAt(v, u)
    /\ at # NoNode => \A u \in U : u < at[2] => ExactAt(at[1], u)

(* Of all others it has what initialize_s put there.                       *)
OthersInitial ==
    running => \A v \in V, u \in U :
        v \notin visited /\ ~ (at # NoNode /\ v = at[1] /\ u < at[2]) =>
            setS[<<v, u>>] = InitializeS(g, h)[<<v, u>>]

(* None of the visited nodes is a match. *)
NoMatchYet ==
    /\ \A v \in visited : ~ Matching(v)
    /\ at # NoNode /\ FindRoot(h) < at[2] => ~ Matching(at[1])

IsoInv == Postorder /\ VisitedExact /\ OthersInitial /\ NoMatchYet /\ AnswerRight

(* What round u of the inner loop at v leaves in set_s[v, u] is right.      *)
LEMMA RoundExact ==
    ASSUME TypeOK, IsoInv, NEW v \in V, NEW u \in U, at = <<v, u>>,
           NEW w \in Neighbours(h, u) \cup {u}, w # u \/ u = FindRoot(h)
    PROVE  /\ w \in setS[<<v, u>>] \cup MaxMatching(g, h, setS, v, u) => BranchEmbeds(g, h, v, u, w)
           /\ BranchEmbeds(g, h, v, u, w) => w \in MaxMatching(g, h, setS, v, u) /\ DegreeFits(g, h, v, u)
<1>1. /\ TwoTrees(g, h)
      /\ h.edges \in SUBSET (U \X U) /\ g.edges \in SUBSET (V \X V)
      /\ U = 1 .. Len(h.nodes) /\ at # NoNode
  BY Trees DEF NoNode, TypeOK, TreeFrom
<1>2. \A y : <<v, y>> \in g.edges => y \in visited
  BY <1>1 DEF IsoInv, Postorder
<1>3. v \notin visited /\ running
  BY <1>1 DEF IsoInv, Postorder
<1>4. \A x \in Neighbours(h, u) : u \in Neighbours(h, x) /\ u # x /\ x \in U
  <2>1. ASSUME NEW x \in Neighbours(h, u)
        PROVE  u \in Neighbours(h, x) /\ u # x /\ x \in U
    <3>1. x \in U /\ <<u, x>> \in Both(h.edges)
      BY <2>1 DEF Neighbours, Nodes
    <3>2. <<x, u>> \in Both(h.edges)
      BY <1>1, <3>1, BothWays
    <3>3. u # x
      <4>1. TreeFrom(U, h.edges, FindRoot(h))
        BY Trees DEF TypeOK
      <4>2. <<u, u>> \notin h.edges
        BY <4>1, OneParent
      <4>3. <<u, u>> \notin Both(h.edges)
        BY <1>1, <4>2, BothWays
      <4>4. QED
        BY <3>1, <4>3
    <3>4. QED
      BY <3>1, <3>2, <3>3 DEF Neighbours, Nodes
  <2>2. QED
    BY <2>1
<1>5. \A y \in V : <<v, y>> \in g.edges =>
        \A x \in Neighbours(h, u) : u \in setS[<<y, x>>] <=> BranchEmbeds(g, h, y, x, u)
  BY <1>2, <1>4 DEF IsoInv, VisitedExact, ExactAt
<1>6. ASSUME NEW p \in V, <<p, v>> \in g.edges, NEW x \in U
      PROVE  setS[<<p, x>>] = {}
  <2>1. p \notin visited
    BY <1>3, <1>6 DEF IsoInv, Postorder
  <2>2. p # v
    <3>1. TreeFrom(V, g.edges, FindRoot(g))
      BY Trees DEF TypeOK
    <3>2. QED
      BY <1>6, <3>1, OneParent
  <2>3. setS[<<p, x>>] = InitializeS(g, h)[<<p, x>>]
    BY <1>3, <2>1, <2>2 DEF IsoInv, OthersInitial
  <2>4. p \notin Leaves(g)
    <3>1. <<p, v>>[1] = p
      OBVIOUS
    <3>2. QED
      BY <1>6, <3>1 DEF Leaves
  <2>5. QED
    BY <2>3, <2>4, InitializeType DEF TypeOK
<1>7. ASSUME w \in MaxMatching(g, h, setS, v, u)
      PROVE  BranchEmbeds(g, h, v, u, w)
  BY <1>1, <1>5, <1>6, <1>7, MaxMatchingSound
<1>8. ASSUME BranchEmbeds(g, h, v, u, w)
      PROVE  w \in MaxMatching(g, h, setS, v, u) /\ DegreeFits(g, h, v, u)
  BY <1>1, <1>5, <1>8, MaxMatchingComplete
<1>9. ASSUME w \in setS[<<v, u>>]
      PROVE  BranchEmbeds(g, h, v, u, w)
  <2>1. setS[<<v, u>>] = InitializeS(g, h)[<<v, u>>]
    BY <1>1, <1>3 DEF IsoInv, OthersInitial
  <2>2. w \in LeafKeys(h, u)
    BY <1>9, <2>1, InitializeType DEF TypeOK
  <2>3. QED
    BY <1>1, <2>2, LeafKeysSound
<1>10. QED
  BY <1>7, <1>8, <1>9

(* A round keeps the invariant, when the search goes on after it.          *)
LEMMA AdvanceKeeps ==
    ASSUME TypeOK, IsoInv, NEW v \in V, NEW u \in U, at = <<v, u>>, Advance(v, u),
           g' = g, h' = h, running' = running, result' = result,
           \A p \in V \X U : p # <<v, u>> => setS'[p] = setS[p],
           \A w \in Neighbours(h, u) \cup {u} : w # u \/ u = FindRoot(h) =>
                (w \in setS'[<<v, u>>] <=> BranchEmbeds(g, h, v, u, w)),
           FindRoot(h) <= u => ~ Matching(v)
    PROVE  IsoInv'
<1>1. /\ TwoTrees(g, h)
      /\ V = 1 .. Len(g.nodes) /\ U = 1 .. Len(h.nodes)
      /\ Len(g.nodes) \in Nat /\ Len(h.nodes) \in Nat
      /\ FindRoot(g) \in V /\ FindRoot(h) \in U
  BY Trees DEF TypeOK
<1>2. V' = V /\ U' = U /\ \A a, b, w : BranchEmbeds(g, h, a, b, w)' <=> BranchEmbeds(g, h, a, b, w)
  BY SameTrees
<1>3. /\ at # NoNode /\ at[1] = v /\ at[2] = u /\ v \notin visited /\ running
      /\ \A b : <<v, b>> \in g.edges => b \in visited
  <2>1. at # NoNode /\ at[1] = v /\ at[2] = u
    BY Trees DEF NoNode, TypeOK
  <2>2. QED
    BY <2>1 DEF IsoInv, Postorder
<1>4. visited \in SUBSET V
  BY DEF TypeOK
<1>5. ASSUME NEW a \in V, NEW b \in U, <<a, b>> # <<v, u>>
      PROVE  ExactAt(a, b)' <=> ExactAt(a, b)
  <2>1. setS'[<<a, b>>] = setS[<<a, b>>]
    BY <1>5
  <2>2. QED
    BY <1>2, <2>1 DEF ExactAt
<1>6. ExactAt(v, u)'
  BY <1>2 DEF ExactAt
<1>7. \A a : Matching(a)' <=> Matching(a)
  BY DEF Matching
<1>8. /\ \A a \in visited, b \in U : ExactAt(a, b)'
      /\ \A b \in U : b <= u => ExactAt(v, b)'
  <2>1. \A a \in visited, b \in U : ExactAt(a, b)'
    BY <1>3, <1>4, <1>5 DEF IsoInv, VisitedExact
  <2>2. \A b \in U : b < u => ExactAt(v, b)'
    BY <1>1, <1>3, <1>5 DEF IsoInv, VisitedExact
  <2>3. QED
    BY <1>1, <1>6, <2>1, <2>2
<1>9. \A a \in V, b \in U :
        a \notin visited /\ ~ (a = v /\ b <= u) => setS'[<<a, b>>] = InitializeS(g, h)[<<a, b>>]
  <2>1. SUFFICES ASSUME NEW a \in V, NEW b \in U, a \notin visited, ~ (a = v /\ b <= u)
                 PROVE  setS'[<<a, b>>] = InitializeS(g, h)[<<a, b>>]
    OBVIOUS
  <2>2. <<a, b>> # <<v, u>>
    BY <1>1, <2>1
  <2>3. ~ (a = v /\ b < u)
    BY <1>1, <2>1
  <2>4. setS[<<a, b>>] = InitializeS(g, h)[<<a, b>>]
    BY <1>3, <2>1, <2>3 DEF IsoInv, OthersInitial
  <2>5. QED
    BY <2>2, <2>4
<1>10. AnswerRight'
  BY <1>3 DEF AnswerRight
<1>11. /\ \A a, b : <<a, b>> \in g.edges /\ a \in visited => b \in visited
       /\ result = {}
       /\ \A a \in visited : ~ Matching(a)
  BY <1>3 DEF IsoInv, Postorder, NoMatchYet
<1>12. CASE u < Len(h.nodes)
  <2>1. at' = <<v, u + 1>> /\ visited' = visited
    BY <1>12 DEF Advance
  <2>2. at' # NoNode /\ at'[1] = v /\ at'[2] = u + 1
    BY <1>1, <2>1, Trees DEF NoNode, TypeOK
  <2>3. \A b \in U : b < u + 1 <=> b <= u
    BY <1>1
  <2>4. Postorder'
    BY <1>3, <1>11, <2>1, <2>2 DEF Postorder
  <2>5. VisitedExact'
    BY <1>2, <1>8, <2>1, <2>2, <2>3 DEF VisitedExact
  <2>6. OthersInitial'
    BY <1>2, <1>9, <2>1, <2>2, <2>3 DEF OthersInitial
  <2>7. NoMatchYet'
    <3>1. FindRoot(h) < u + 1 => FindRoot(h) <= u
      BY <1>1
    <3>2. QED
      BY <1>7, <1>11, <2>1, <2>2, <3>1 DEF NoMatchYet
  <2>8. QED
    BY <1>10, <2>4, <2>5, <2>6, <2>7 DEF IsoInv
<1>13. CASE ~ (u < Len(h.nodes))
  <2>1. at' = NoNode /\ visited' = visited \cup {v}
    BY <1>13 DEF Advance
  <2>2. \A b \in U : b <= u
    BY <1>1, <1>13
  <2>3. Postorder'
    BY <1>3, <1>11, <2>1 DEF Postorder
  <2>4. VisitedExact'
    BY <1>2, <1>8, <2>1, <2>2 DEF VisitedExact
  <2>5. OthersInitial'
    BY <1>2, <1>9, <2>1 DEF OthersInitial
  <2>6. NoMatchYet'
    <3>1. ~ Matching(v)
      BY <1>1, <2>2
    <3>2. QED
      BY <1>7, <1>11, <2>1, <3>1 DEF NoMatchYet
  <2>7. QED
    BY <1>10, <2>3, <2>4, <2>5, <2>6 DEF IsoInv
<1>14. QED
  BY <1>12, <1>13

LEMMA SkipKeeps ==
    ASSUME TypeOK, IsoInv, NEW v \in V, NEW u \in U, SkipPatternNode(v, u)
    PROVE  IsoInv'
<1>1. at = <<v, u>> /\ ~ DegreeFits(g, h, v, u) /\ Advance(v, u)
  BY DEF SkipPatternNode
<1>2. g' = g /\ h' = h /\ setS' = setS /\ result' = result /\ running' = running
  BY DEF SkipPatternNode
<1>3. \A w \in Neighbours(h, u) \cup {u} : w # u \/ u = FindRoot(h) =>
        (w \in setS'[<<v, u>>] <=> BranchEmbeds(g, h, v, u, w)) /\ ~ BranchEmbeds(g, h, v, u, w)
  BY <1>1, <1>2, RoundExact
<1>4. ASSUME FindRoot(h) <= u
      PROVE  ~ Matching(v)
  <2>1. CASE FindRoot(h) = u
    <3>1. ~ BranchEmbeds(g, h, v, FindRoot(h), FindRoot(h))
      BY <1>3, <2>1
    <3>2. QED
      BY <3>1, WholeEmbeds, Trees DEF TypeOK, Matching
  <2>2. CASE FindRoot(h) # u
    <3>1. at # NoNode /\ at[1] = v /\ at[2] = u
      BY <1>1, Trees DEF NoNode, TypeOK
    <3>2. FindRoot(h) < u
      BY <1>4, <2>2, Trees DEF TypeOK
    <3>3. QED
      BY <3>1, <3>2 DEF IsoInv, NoMatchYet
  <2>3. QED
    BY <2>1, <2>2
<1>5. QED
  BY <1>1, <1>2, <1>3, <1>4, AdvanceKeeps

LEMMA TryKeeps ==
    ASSUME TypeOK, IsoInv, NEW v \in V, NEW u \in U, TryPatternNode(v, u)
    PROVE  IsoInv'
<1> DEFINE root == FindRoot(h)
<1>1. /\ at = <<v, u>> /\ DegreeFits(g, h, v, u) /\ g' = g /\ h' = h
      /\ setS' = [setS EXCEPT ![<<v, u>>] = setS[<<v, u>>] \cup MaxMatching(g, h, setS, v, u)]
  BY DEF TryPatternNode
<1>2. /\ TwoTrees(g, h)
      /\ V = 1 .. Len(g.nodes) /\ U = 1 .. Len(h.nodes)
      /\ Len(g.nodes) \in Nat /\ Len(h.nodes) \in Nat
      /\ TreeFrom(V, g.edges, FindRoot(g))
      /\ root \in U
      /\ at # NoNode /\ at[1] = v /\ at[2] = u
  BY <1>1, Trees DEF NoNode, TypeOK
<1>3. /\ setS'[<<v, u>>] = setS[<<v, u>>] \cup MaxMatching(g, h, setS, v, u)
      /\ \A p \in V \X U : p # <<v, u>> => setS'[p] = setS[p]
  BY <1>1 DEF TypeOK
<1>4. \A w \in Neighbours(h, u) \cup {u} : w # u \/ u = root =>
        (w \in setS'[<<v, u>>] <=> BranchEmbeds(g, h, v, u, w))
  BY <1>1, <1>3, RoundExact
<1>5. CASE RootMatches(g, h, setS', v)
  <2>1. /\ result' = {v} /\ running' = FALSE /\ at' = NoNode /\ visited' = visited
    BY <1>5 DEF TryPatternNode
  <2>2. root \in setS'[<<v, root>>] /\ HasPropertySubset(g.nodes[v], h.nodes[root])
    BY <1>1, <1>5 DEF RootMatches
  <2>3. BranchEmbeds(g, h, v, root, root)
    <3>1. CASE root = u
      BY <1>4, <2>2, <3>1
    <3>2. CASE root # u
      <4>1. root \in setS[<<v, root>>]
        BY <1>2, <1>3, <2>2, <3>2
      <4>2. CASE root < u
        BY <1>2, <4>1, <4>2 DEF IsoInv, VisitedExact, ExactAt
      <4>3. CASE ~ (root < u)
        <5>1. setS[<<v, root>>] = InitializeS(g, h)[<<v, root>>]
          BY <1>2, <4>3 DEF IsoInv, OthersInitial, Postorder
        <5>2. root \in LeafKeys(h, root)
          BY <1>2, <4>1, <5>1, InitializeType DEF TypeOK
        <5>3. QED
          BY <1>2, <5>2, LeafKeysSound
      <4>4. QED
        BY <4>2, <4>3
    <3>3. QED
      BY <3>1, <3>2
  <2>4. Matching(v)
    BY <1>2, <2>2, <2>3, WholeEmbeds DEF Matching
  <2>5. v \in FirstMatches(g, h)
    <3> DEFINE below(x) == Reachable(V, g.edges, x)
               all == {x \in below(FindRoot(g)) : Matching(x)}
    <3>1. FirstMatches(g, h) = {x \in all : \A w \in all \cap below(x) : x \in below(w)}
      BY DEF FirstMatches, Nodes, Matching
    <3>2. V = below(FindRoot(g)) /\ g.edges \in SUBSET (V \X V) /\ FindRoot(g) \in V
      <4>1. g.edges \in SUBSET (V \X V) /\ FindRoot(g) \in V
        BY <1>2 DEF TreeFrom
      <4>2. Reachable(V, g.edges, FindRoot(g)) \subseteq V
        BY <4>1, ReachableLeast
      <4>3. V \subseteq Reachable(V, g.edges, FindRoot(g))
        BY <1>2 DEF TreeFrom
      <4>4. QED
        BY <4>1, <4>2, <4>3
    <3>3. v \in below(v)
      BY <3>2, ReachableLeast
    <3>4. ASSUME NEW w \in below(v), w # v
          PROVE  ~ Matching(w)
      <4>1. PICK c \in V : <<v, c>> \in g.edges /\ w \in Reachable(V, g.edges, c)
        BY <3>2, <3>4, ReachableByChildren
      <4>2. c \in visited
        BY <1>2, <4>1 DEF IsoInv, Postorder
      <4>3. Reachable(V, g.edges, c) \subseteq visited
        <5>1. visited \in SUBSET V
          BY DEF TypeOK
        <5>2. \A a, b : <<a, b>> \in g.edges /\ a \in visited => b \in visited
          BY DEF IsoInv, Postorder
        <5>3. g.edges \in SUBSET (V \X V)
          BY <3>2, <4>1
        <5> HIDE DEF below, all, V
        <5>4. QED
          BY <4>2, <5>1, <5>2, <5>3, ReachableLeast
      <4>4. QED
        BY <4>1, <4>3 DEF IsoInv, NoMatchYet
    <3>5. v \in all
      BY <2>4, <3>2
    <3>6. \A w \in all \cap below(v) : v \in below(w)
      BY <3>3, <3>4
    <3> HIDE DEF below, all
    <3>7. QED
      BY <3>1, <3>5, <3>6
  <2>6. AnswerRight'
    <3>1. result' \subseteq FirstMatches(g, h) /\ result' # {}
      BY <2>1, <2>5
    <3>2. QED
      BY <1>1, <3>1 DEF AnswerRight
  <2>7. Postorder'
    BY <1>1, <2>1 DEF IsoInv, Postorder
  <2>8. NoMatchYet'
    BY <1>1, <2>1 DEF IsoInv, NoMatchYet, Matching
  <2>9. OthersInitial'
    BY <2>1 DEF OthersInitial
  <2>10. VisitedExact'
    <3>1. V' = V /\ U' = U /\ \A a, b, w : BranchEmbeds(g, h, a, b, w)' <=> BranchEmbeds(g, h, a, b, w)
      BY <1>1, SameTrees
    <3>2. v \notin visited /\ visited \subseteq V
      BY <1>2 DEF IsoInv, Postorder, TypeOK
    <3>3. ASSUME NEW a \in visited, NEW b \in U
          PROVE  ExactAt(a, b)'
      <4>1. setS'[<<a, b>>] = setS[<<a, b>>]
        BY <1>3, <3>2
      <4>2. ExactAt(a, b)
        BY DEF IsoInv, VisitedExact
      <4>3. QED
        BY <1>1, <3>1, <4>1, <4>2 DEF ExactAt
    <3>4. QED
      BY <2>1, <3>1, <3>3 DEF VisitedExact
  <2>11. QED
    BY <2>6, <2>7, <2>8, <2>9, <2>10 DEF IsoInv
<1>6. CASE ~ RootMatches(g, h, setS', v)
  <2>1. Advance(v, u) /\ running' = running /\ result' = result
    BY <1>6 DEF TryPatternNode
  <2>2. ASSUME root <= u, Matching(v)
        PROVE  FALSE
    <3>1. BranchEmbeds(g, h, v, root, root) /\ HasPropertySubset(g.nodes[v], h.nodes[root])
      BY <1>2, <2>2, WholeEmbeds DEF Matching
    <3>2. root \in setS'[<<v, root>>]
      <4>1. CASE root = u
        BY <1>4, <3>1, <4>1
      <4>2. CASE root < u
        BY <1>2, <2>2, <4>2 DEF IsoInv, NoMatchYet
      <4>3. QED
        BY <1>2, <2>2, <4>1, <4>2
    <3>3. QED
      BY <1>1, <1>6, <3>1, <3>2 DEF RootMatches
  <2> HIDE DEF root
  <2>3. QED
    BY <1>1, <1>3, <1>4, <2>1, <2>2, AdvanceKeeps DEF root
<1>7. QED
  BY <1>5, <1>6

(* The traversal begins at a node whose children it is through with.        *)
LEMMA NextNodeKeeps ==
    ASSUME TypeOK, IsoInv, NEW v \in V, NextNode(v)
    PROVE  IsoInv'
<1>1. /\ at = NoNode /\ running /\ v \notin visited
      /\ \A e \in g.edges : e[1] = v => e[2] \in visited
      /\ at' = <<v, 1>>
  BY DEF NextNode
<1>2. /\ g' = g /\ h' = h /\ setS' = setS /\ visited' = visited /\ result' = result
      /\ running' = running
  BY DEF NextNode
<1>3. at' # NoNode /\ at'[1] = v /\ at'[2] = 1
  BY <1>1, Trees DEF NoNode, TypeOK
<1>4. \A b : <<v, b>> \in g.edges => b \in visited
  <2>1. \A b : <<v, b>>[1] = v /\ <<v, b>>[2] = b
    OBVIOUS
  <2>2. QED
    BY <1>1, <2>1
<1>5. U = 1 .. Len(h.nodes) /\ FindRoot(h) \in U /\ Len(h.nodes) \in Nat
  BY Trees DEF TypeOK
<1>6. \A u \in U : ~ (u < 1)
  BY <1>5
<1>7. V' = V /\ U' = U /\ \A a, b, w : BranchEmbeds(g, h, a, b, w)' <=> BranchEmbeds(g, h, a, b, w)
  BY <1>2, SameTrees
<1>8. Postorder'
  BY <1>1, <1>2, <1>3, <1>4 DEF IsoInv, Postorder
<1>9. VisitedExact'
  BY <1>2, <1>3, <1>6, <1>7 DEF IsoInv, VisitedExact, ExactAt
<1>10. OthersInitial'
  BY <1>1, <1>2, <1>3, <1>6, <1>7 DEF IsoInv, OthersInitial
<1>11. NoMatchYet'
  BY <1>2, <1>3, <1>5, <1>6 DEF IsoInv, NoMatchYet, Matching
<1>12. AnswerRight'
  BY <1>1, <1>2 DEF AnswerRight
<1>13. QED
  BY <1>8, <1>9, <1>10, <1>11, <1>12 DEF IsoInv

(* The search ends with no match, which is right: there is none, because    *)
(* every node was visited, or because the trace has too few nodes.          *)
LEMMA EndKeeps ==
    ASSUME TypeOK, IsoInv, TooSmall \/ NotFound
    PROVE  IsoInv'
<1>1. /\ g' = g /\ h' = h /\ setS' = setS /\ visited' = visited /\ result' = result
      /\ at = NoNode /\ at' = NoNode /\ running /\ running' = FALSE
  BY DEF TooSmall, NotFound
<1>2. result = {}
  BY <1>1 DEF IsoInv, Postorder
<1>3. /\ V = 1 .. Len(g.nodes) /\ U = 1 .. Len(h.nodes)
      /\ Len(g.nodes) \in Nat /\ Len(h.nodes) \in Nat
      /\ FindRoot(g) \in V /\ g.edges \in SUBSET (V \X V)
  BY Trees DEF TypeOK, TreeFrom
<1>4. \A v \in Reachable(V, g.edges, FindRoot(g)) : ~ Matching(v)
  <2>1. CASE TooSmall
    <3>1. SUFFICES ASSUME NEW v, Matching(v)
                   PROVE  FALSE
      OBVIOUS
    <3>2. PICK f \in [U -> V] : \A a, b \in U : f[a] = f[b] => a = b
      BY <3>1 DEF Matching, EmbedsAt, Nodes
    <3>3. IsFiniteSet(V) /\ Cardinality(V) = Len(g.nodes) /\ Cardinality(U) = Len(h.nodes)
      <4>1. \A n \in Nat : IsFiniteSet(1 .. n) /\ Cardinality(1 .. n) = n
        <5>1. SUFFICES ASSUME NEW n \in Nat
                       PROVE  IsFiniteSet(1 .. n) /\ Cardinality(1 .. n) = n
          OBVIOUS
        <5>2. /\ IsFiniteSet(1 .. n)
              /\ Cardinality(1 .. n) = IF 1 > n THEN 0 ELSE n - 1 + 1
          BY FS_Interval
        <5>3. QED
          BY <5>2
      <4>2. QED
        BY <1>3, <4>1
    <3>4. \A a \in U : f[a] \in V
      OBVIOUS
    <3>5. Cardinality(U) <= Cardinality(V)
      BY <3>2, <3>3, <3>4, CountInjective
    <3>6. QED
      BY <1>3, <2>1, <3>3, <3>5 DEF TooSmall
  <2>2. CASE NotFound
    BY <2>2 DEF NotFound, IsoInv, NoMatchYet
  <2>3. QED
    BY <2>1, <2>2
<1>5. FirstMatches(g, h) = {}
  BY <1>4 DEF FirstMatches, Matching, Nodes
<1>6. AnswerRight'
  BY <1>1, <1>2, <1>5 DEF AnswerRight
<1>7. V' = V /\ U' = U /\ \A a, b, w : BranchEmbeds(g, h, a, b, w)' <=> BranchEmbeds(g, h, a, b, w)
  BY <1>1, SameTrees
<1>8. Postorder' /\ OthersInitial' /\ NoMatchYet'
  BY <1>1 DEF IsoInv, Postorder, OthersInitial, NoMatchYet, Matching
<1>9. VisitedExact'
  BY <1>1, <1>7 DEF IsoInv, VisitedExact, ExactAt
<1>10. QED
  BY <1>6, <1>8, <1>9 DEF IsoInv

LEMMA IsoInit == Init => IsoInv
<1>1. SUFFICES ASSUME Init
               PROVE  IsoInv
  OBVIOUS
<1>2. Postorder /\ VisitedExact /\ NoMatchYet /\ AnswerRight
  BY <1>1 DEF Init, Postorder, VisitedExact, NoMatchYet, AnswerRight
<1>3. OthersInitial
  BY <1>1 DEF Init, OthersInitial
<1>4. QED
  BY <1>2, <1>3 DEF IsoInv

LEMMA IsoStep == TypeOK /\ IsoInv /\ [Next]_vars => IsoInv'
<1>1. SUFFICES ASSUME TypeOK, IsoInv, [Next]_vars
               PROVE  IsoInv'
  OBVIOUS
<1>2. ASSUME UNCHANGED <<g, h, setS, visited, at, result, running>>
      PROVE  IsoInv'
  <2>1. V' = V /\ U' = U /\ \A a, b, w : BranchEmbeds(g, h, a, b, w)' <=> BranchEmbeds(g, h, a, b, w)
    BY <1>2, SameTrees
  <2>2. Postorder' /\ OthersInitial' /\ NoMatchYet' /\ AnswerRight'
    BY <1>1, <1>2, <2>1 DEF IsoInv, Postorder, OthersInitial, NoMatchYet, Matching, AnswerRight
  <2>3. VisitedExact'
    BY <1>1, <1>2, <2>1 DEF IsoInv, VisitedExact, ExactAt
  <2>4. QED
    BY <2>2, <2>3 DEF IsoInv
<1>3. ASSUME NEW v \in V, NEW u \in U, FollowPair(u, v)
      PROVE  IsoInv'
  BY <1>2, <1>3 DEF FollowPair
<1>4. CASE UNCHANGED vars
  BY <1>2, <1>4 DEF vars
<1>5. QED
  BY <1>1, <1>3, <1>4, NextNodeKeeps, EndKeeps, SkipKeeps, TryKeeps DEF Next, Finished

(* set_s is what Shamir and Tsur say of it, for all trees: once the         *)
(* traversal is through with a node of the trace, a key is there exactly if *)
(* the branch of the pattern can be laid at and below the node.             *)
THEOREM SetSIsExact == Spec => []SetSExact
<1>1. TypeOK /\ IsoInv => SetSExact
  BY DEF IsoInv, VisitedExact, ExactAt, SetSExact
<1>2. QED
  BY <1>1, TypeCorrect, IsoInit, IsoStep, PTL DEF Spec

(* find_mapping_shamir_centralized decides rightly, for all trees: it finds *)
(* a match exactly if there is one, and one with no match below it.         *)
THEOREM AnswerIsRight == Spec => []AnswerRight
<1>1. IsoInv => AnswerRight
  BY DEF IsoInv
<1>2. QED
  BY <1>1, TypeCorrect, IsoInit, IsoStep, PTL DEF Spec
===============================================================================

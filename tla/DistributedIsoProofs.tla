------------------------- MODULE DistributedIsoProofs -------------------------
(***************************************************************************)
(* Theorems about the decentralized subtree isomorphism, for all trees: a  *)
(* sidecar reports only real matches, there is one report on a way through *)
(* the trace, and which matches are found.                                 *)
(***************************************************************************)
EXTENDS DistributedIso, ShamirTsurProofs

USE DEF V, U

(* The graphs considered are trees, with find_root's root and nodes 1, 2... *)
LEMMA Trees ==
    ASSUME g \in TraceGraphs, h \in Patterns
    PROVE  /\ TwoTrees(g, h)
           /\ V = 1 .. Len(g.nodes) /\ U = 1 .. Len(h.nodes)
           /\ Len(g.nodes) \in Nat /\ Len(h.nodes) \in Nat
           /\ TreeFrom(V, g.edges, FindRoot(g)) /\ TreeFrom(U, h.edges, FindRoot(h))
           /\ FindRoot(g) \in V /\ FindRoot(h) \in U
           /\ \A v, u : <<v, u>> = <<0, 0>> => v \notin V
BY TreesAssumption, TreePair

(* Neither graph changes. *)
LEMMA SameTrees ==
    ASSUME g' = g, h' = h
    PROVE  /\ V' = V /\ U' = U
           /\ \A v, u, w : BranchEmbeds(g, h, v, u, w)' <=> BranchEmbeds(g, h, v, u, w)
OBVIOUS

(* What the type invariant says of the graphs and of the position.         *)
LEMMA Here ==
    ASSUME TypeOK
    PROVE  /\ TwoTrees(g, h)
           /\ V = 1 .. Len(g.nodes) /\ U = 1 .. Len(h.nodes)
           /\ Len(g.nodes) \in Nat /\ Len(h.nodes) \in Nat
           /\ TreeFrom(V, g.edges, Root) /\ TreeFrom(U, h.edges, FindRoot(h))
           /\ g.edges \in SUBSET (V \X V) /\ h.edges \in SUBSET (U \X U)
           /\ Root \in V /\ FindRoot(h) \in U
           /\ \A v \in V : v # 0
           /\ \A v \in V : \A u : <<v, u>> # NoNode
           /\ \A v, b : b \in Children(v) <=> <<v, b>> \in g.edges
<1>1. /\ TwoTrees(g, h)
      /\ V = 1 .. Len(g.nodes) /\ U = 1 .. Len(h.nodes)
      /\ Len(g.nodes) \in Nat /\ Len(h.nodes) \in Nat
      /\ TreeFrom(V, g.edges, Root) /\ TreeFrom(U, h.edges, FindRoot(h))
      /\ FindRoot(h) \in U
      /\ \A v, u : <<v, u>> = <<0, 0>> => v \notin V
  BY Trees DEF TypeOK, Root
<1>2. g.edges \in SUBSET (V \X V) /\ h.edges \in SUBSET (U \X U) /\ Root \in V
  BY <1>1 DEF TreeFrom
<1>3. \A v \in V : v # 0
  BY <1>1
<1>4. \A v, b : b \in Children(v) <=> <<v, b>> \in g.edges
  BY <1>2 DEF Children
<1>5. QED
  BY <1>1, <1>2, <1>3, <1>4 DEF NoNode

LEMMA SameGraphs == [Next]_vars => g' = g /\ h' = h
BY DEF Next, vars, PassOn, Begin, StartInnerLoop, Answer, SkipPatternNode, TryPatternNode, Finished

LEMMA LeafKeysType ==
    ASSUME TypeOK, NEW u \in U
    PROVE  LeafKeys(h, u) \subseteq U
<1>1. SUFFICES ASSUME NEW w \in LeafKeys(h, u)
               PROVE  w \in U
  OBVIOUS
<1>2. PICK v \in V : TRUE
  BY Here
<1>3. w \in Neighbours(h, u) \cup {u}
  BY Here, LeafKeysSound
<1>4. QED
  BY <1>3 DEF Neighbours, Nodes

LEMMA NextPatternNodeType ==
    ASSUME TypeOK, NEW v \in V, NEW u \in U
    PROVE  /\ NextPatternNode(v, u) \in {NoNode} \cup (V \X U)
           /\ NextPatternNode(v, u) # NoNode =>
                u < Len(h.nodes) /\ NextPatternNode(v, u) = <<v, u + 1>>
<1>1. CASE u < Len(h.nodes)
  <2>1. u + 1 \in U
    BY <1>1, Here
  <2>2. QED
    BY <1>1, <2>1 DEF NextPatternNode
<1>2. CASE ~ (u < Len(h.nodes))
  BY <1>2 DEF NextPatternNode
<1>3. QED
  BY <1>1, <1>2

LEMMA TypeInit == Init => TypeOK
<1>1. Cardinality({}) = 0
  BY FS_EmptySet
<1>2. QED
  BY <1>1 DEF Init, TypeOK, NoNode

LEMMA TypeStep == TypeOK /\ [Next]_vars => TypeOK'
<1>1. SUFFICES ASSUME TypeOK, [Next]_vars
               PROVE  TypeOK'
  OBVIOUS
<1>2. g' = g /\ h' = h /\ V' = V /\ U' = U
  BY <1>1, SameGraphs, SameTrees
<1>3. Cardinality({}) = 0
  BY FS_EmptySet
<1>4. /\ V = 1 .. Len(g.nodes) /\ U = 1 .. Len(h.nodes)
      /\ Len(g.nodes) \in Nat /\ Len(h.nodes) \in Nat /\ FindRoot(h) \in U
      /\ \A v : Children(v) \subseteq V
  BY <1>1, Here DEF Children
<1>5. ASSUME NEW v \in V, PassOn(v)
      PROVE  TypeOK'
  BY <1>1, <1>2, <1>5 DEF PassOn, TypeOK
<1>6. ASSUME NEW v \in V, Begin(v)
      PROVE  TypeOK'
  <2>1. setS' \in [V \X U -> SUBSET U]
    <3>1. \A p \in V \X U : p[2] \in U /\ LeafKeys(h, p[2]) \subseteq U
      BY <1>1, LeafKeysType
    <3>2. QED
      BY <1>1, <1>6, <3>1 DEF Begin, TypeOK
  <2>2. turn' \in V \cup {0} /\ left' \subseteq V /\ match' = {}
    BY <1>4, <1>6 DEF Begin
  <2>3. QED
    BY <1>1, <1>2, <1>3, <1>6, <2>1, <2>2 DEF Begin, TypeOK
<1>7. ASSUME NEW v \in V, StartInnerLoop(v)
      PROVE  TypeOK'
  <2>1. at' \in V \X U
    BY <1>4, <1>7 DEF StartInnerLoop
  <2>2. QED
    BY <1>1, <1>2, <1>7, <2>1 DEF StartInnerLoop, TypeOK
<1>8. ASSUME NEW v \in V, Answer(v)
      PROVE  TypeOK'
  BY <1>1, <1>2, <1>3, <1>8 DEF Answer, TypeOK
<1>9. ASSUME NEW v \in V, NEW u \in U, SkipPatternNode(v, u)
      PROVE  TypeOK'
  <2>1. at' \in {NoNode} \cup (V \X U)
    BY <1>1, <1>9, NextPatternNodeType DEF SkipPatternNode
  <2>2. QED
    BY <1>1, <1>2, <1>9, <2>1 DEF SkipPatternNode, TypeOK
<1>10. ASSUME NEW v \in V, NEW u \in U, TryPatternNode(v, u)
       PROVE  TypeOK'
  <2>1. at' \in {NoNode} \cup (V \X U)
    BY <1>1, <1>10, NextPatternNodeType DEF TryPatternNode
  <2>2. setS' \in [V \X U -> SUBSET U]
    <3>1. setS[<<v, u>>] \cup MaxMatching(g, h, setS, v, u) \in SUBSET U
      BY <1>1, MaxMatchingType DEF TypeOK
    <3>2. setS' = [setS EXCEPT ![<<v, u>>] = setS[<<v, u>>] \cup MaxMatching(g, h, setS, v, u)]
      BY <1>10 DEF TryPatternNode
    <3>3. QED
      BY <1>1, <3>1, <3>2 DEF TypeOK
  <2>3. match' \subseteq V /\ Cardinality(match') <= 1
    <3>1. Cardinality({v}) = 1
      BY FS_Singleton
    <3>2. match' = {v} \/ match' = match
      BY <1>10 DEF TryPatternNode
    <3>3. match \subseteq V /\ Cardinality(match) <= 1
      BY <1>1 DEF TypeOK
    <3>4. CASE match' = {v}
      <4>1. {v} \subseteq V
        OBVIOUS
      <4>2. QED
        BY <3>1, <3>4, <4>1
    <3>5. CASE match' = match
      BY <3>3, <3>5
    <3>6. QED
      BY <3>2, <3>4, <3>5
  <2>4. QED
    BY <1>1, <1>2, <1>10, <2>1, <2>2, <2>3 DEF TryPatternNode, TypeOK
<1>11. CASE UNCHANGED vars
  BY <1>1, <1>2, <1>11 DEF vars, TypeOK
<1>12. QED
  BY <1>1, <1>5, <1>6, <1>7, <1>8, <1>9, <1>10, <1>11 DEF Next, Finished

(* For all trees, what a sidecar does stays within the two graphs: set_s    *)
(* has only nodes of the pattern for keys, and there is one match at most.  *)
THEOREM TypeCorrect == Spec => []TypeOK
  BY TypeInit, TypeStep, PTL DEF Spec

-----------------------------------------------------------------------------
(* Whose turn it is.  Responses leave from the leaves up, and found_match   *)
(* goes all the way up from where it was set.                              *)
TurnInv ==
    /\ \A a, b : <<a, b>> \in g.edges /\ a \in answered => b \in answered
    /\ \A a, b : <<a, b>> \in g.edges /\ a \in answered /\ b \in foundMatch => a \in foundMatch
    /\ turn = 0 => left = {} /\ at = NoNode /\ match = {}
    /\ turn # 0 =>
        /\ turn \notin answered
        /\ \A b : <<turn, b>> \in g.edges => b \in answered /\ b \notin foundMatch
        /\ \A c \in left : <<turn, c>> \in g.edges \/ (c = turn /\ turn = Root)
    /\ at # NoNode =>
        /\ turn # 0 /\ at[1] \notin left
        /\ <<turn, at[1]>> \in g.edges \/ (at[1] = turn /\ turn = Root /\ left = {})
    /\ turn = Root /\ (left # {} \/ (at # NoNode /\ at[1] # Root)) => Root \in left
    /\ \A r \in reports :
        r[1] \in foundMatch /\ \A b : <<r[1], b>> \in g.edges => b \notin foundMatch

LEMMA TurnInit == Init => TurnInv
<1>1. SUFFICES ASSUME Init
               PROVE  TurnInv
  OBVIOUS
<1>2. TypeOK
  BY <1>1, TypeInit
<1>3. Root # 0
  BY <1>2, Here
<1>4. QED
  BY <1>1, <1>3 DEF Init, TurnInv

(* The inner loop goes on at the same node, or ends. *)
LEMMA TurnRound ==
    ASSUME TypeOK, TurnInv, NEW v \in V, NEW u \in U, at = <<v, u>>,
           at' = NoNode \/ at' = <<v, u + 1>>,
           g' = g, turn' = turn, left' = left, answered' = answered,
           foundMatch' = foundMatch, reports' = reports
    PROVE  TurnInv'
<1>1. at # NoNode /\ at[1] = v /\ Root' = Root
  BY Here DEF Root
<1>2. turn # 0 /\ v \notin left /\ (<<turn, v>> \in g.edges \/ (v = turn /\ turn = Root /\ left = {}))
  BY <1>1 DEF TurnInv
<1>3. at' # NoNode => at'[1] = v
  OBVIOUS
<1>4. QED
  BY <1>1, <1>2, <1>3 DEF TurnInv

LEMMA TurnStep == TypeOK /\ TurnInv /\ [Next]_vars => TurnInv'
<1>1. SUFFICES ASSUME TypeOK, TurnInv, [Next]_vars
               PROVE  TurnInv'
  OBVIOUS
<1>2. g' = g /\ h' = h /\ Root' = Root
  BY <1>1, SameGraphs DEF Root
<1>3. /\ TreeFrom(V, g.edges, Root) /\ g.edges \in SUBSET (V \X V)
      /\ \A v \in V : v # 0
      /\ \A v \in V : \A u : <<v, u>> # NoNode
      /\ \A v, b : b \in Children(v) <=> <<v, b>> \in g.edges
      /\ \A v : <<v, v>> \notin g.edges
      /\ Root # 0
  <2>1. TreeFrom(V, g.edges, Root)
    BY <1>1, Here
  <2>2. \A v : <<v, v>> \notin g.edges
    BY <2>1, OneParent
  <2>3. QED
    BY <1>1, <2>1, <2>2, Here
<1>4. foundMatch \subseteq answered
  BY <1>1 DEF TypeOK
<1>5. ASSUME NEW v \in V, Ready(v)
      PROVE  /\ turn = 0 /\ v \notin answered
             /\ \A b : <<v, b>> \in g.edges => b \in answered
             /\ left = {} /\ at = NoNode /\ match = {}
  BY <1>1, <1>3, <1>5 DEF Ready, TurnInv
<1>6. ASSUME NEW v \in V, v \notin answered, NEW r \in reports
      PROVE  \A b : <<r[1], b>> \in g.edges => b # v
  BY <1>1, <1>4, <1>6 DEF TurnInv
<1>7. ASSUME NEW v \in V, PassOn(v)
      PROVE  TurnInv'
  <2>1. Ready(v) /\ answered' = answered \cup {v} /\ foundMatch' = foundMatch \cup {v}
    BY <1>7 DEF PassOn
  <2>2. /\ turn' = turn /\ left' = left /\ at' = at /\ match' = match /\ reports' = reports
    BY <1>7 DEF PassOn
  <2>3. \A a, b : <<a, b>> \in g.edges /\ a \in answered' => b \in answered'
    BY <1>1, <1>5, <2>1 DEF TurnInv
  <2>4. \A a, b : <<a, b>> \in g.edges /\ a \in answered' /\ b \in foundMatch'
            => a \in foundMatch'
    BY <1>1, <1>5, <2>1 DEF TurnInv
  <2>5. \A r \in reports' : r[1] \in foundMatch'
            /\ \A b : <<r[1], b>> \in g.edges => b \notin foundMatch'
    BY <1>1, <1>5, <1>6, <2>1, <2>2 DEF TurnInv
  <2>6. QED
    BY <1>2, <1>3, <1>5, <2>1, <2>2, <2>3, <2>4, <2>5 DEF TurnInv
<1>8. ASSUME NEW v \in V, Begin(v)
      PROVE  TurnInv'
  <2>1. /\ Ready(v) /\ Children(v) \cap foundMatch = {}
        /\ turn' = v /\ left' = Children(v) \cup (IF v = Root THEN {v} ELSE {})
        /\ match' = {} /\ at' = at /\ answered' = answered /\ foundMatch' = foundMatch
        /\ reports' = reports
    BY <1>8 DEF Begin
  <2>2. \A b : <<v, b>> \in g.edges => b \in answered /\ b \notin foundMatch
    BY <1>3, <1>5, <2>1
  <2>3. \A c \in left' : <<v, c>> \in g.edges \/ (c = v /\ v = Root)
    BY <1>3, <2>1
  <2>4. at' = NoNode /\ turn' # 0 /\ v \notin answered
    BY <1>3, <1>5, <2>1
  <2>5. turn' = Root => Root \in left'
    BY <2>1
  <2>6. QED
    BY <1>1, <1>2, <2>1, <2>2, <2>3, <2>4, <2>5 DEF TurnInv
<1>9. ASSUME NEW v \in V, StartInnerLoop(v)
      PROVE  TurnInv'
  <2>1. /\ turn # 0 /\ v \in left /\ (v = turn => left = {v})
        /\ at' = <<v, 1>> /\ left' = left \ {v}
        /\ turn' = turn /\ match' = match /\ answered' = answered
        /\ foundMatch' = foundMatch /\ reports' = reports
    BY <1>9 DEF StartInnerLoop
  <2>2. at'[1] = v
    BY <2>1
  <2>3. <<turn, v>> \in g.edges \/ (v = turn /\ turn = Root /\ left' = {})
    BY <1>1, <2>1 DEF TurnInv
  <2>4. turn = Root /\ (left' # {} \/ v # Root) => Root \in left'
    BY <1>1, <2>1 DEF TurnInv
  <2>5. QED
    BY <1>1, <1>2, <2>1, <2>2, <2>3, <2>4 DEF TurnInv
<1>10. ASSUME NEW v \in V, Answer(v)
       PROVE  TurnInv'
  <2>1. /\ turn = v /\ at = NoNode /\ left = {}
        /\ turn' = 0 /\ match' = {} /\ left' = left /\ at' = at
        /\ answered' = answered \cup {v}
        /\ foundMatch' \subseteq foundMatch \cup {v} /\ foundMatch \subseteq foundMatch'
        /\ match # {} => v \in foundMatch'
        /\ reports' = reports \cup {<<v, m>> : m \in match}
    BY <1>10 DEF Answer
  <2>2. /\ v \notin answered
        /\ \A b : <<v, b>> \in g.edges => b \in answered /\ b \notin foundMatch
    BY <1>1, <1>3, <2>1 DEF TurnInv
  <2>3. \A a, b : <<a, b>> \in g.edges /\ a \in answered' => b \in answered'
    BY <1>1, <2>1, <2>2 DEF TurnInv
  <2>4. \A a, b : <<a, b>> \in g.edges /\ a \in answered' /\ b \in foundMatch'
            => a \in foundMatch'
    BY <1>1, <1>3, <2>1, <2>2 DEF TurnInv
  <2>5. ASSUME NEW r \in reports'
        PROVE  r[1] \in foundMatch' /\ \A b : <<r[1], b>> \in g.edges => b \notin foundMatch'
    <3>1. CASE r \in reports
      BY <1>1, <1>6, <2>1, <2>2, <3>1 DEF TurnInv
    <3>2. CASE r \notin reports
      <4>1. r[1] = v /\ match # {}
        BY <2>1, <3>2
      <4>2. QED
        BY <1>3, <2>1, <2>2, <4>1
    <3>3. QED
      BY <3>1, <3>2
  <2>6. QED
    BY <1>2, <1>3, <2>1, <2>3, <2>4, <2>5 DEF TurnInv
<1>11. ASSUME NEW v \in V, NEW u \in U, SkipPatternNode(v, u) \/ TryPatternNode(v, u)
       PROVE  TurnInv'
  <2>1. /\ at = <<v, u>> /\ (at' = NoNode \/ at' = NextPatternNode(v, u))
        /\ turn' = turn /\ left' = left /\ answered' = answered
        /\ foundMatch' = foundMatch /\ reports' = reports
    BY <1>11 DEF SkipPatternNode, TryPatternNode
  <2>2. at' = NoNode \/ at' = <<v, u + 1>>
    BY <1>1, <2>1, NextPatternNodeType
  <2>3. QED
    BY <1>1, <1>2, <2>1, <2>2, TurnRound
<1>12. CASE UNCHANGED vars
  BY <1>1, <1>2, <1>12 DEF vars, TurnInv
<1>13. QED
  BY <1>1, <1>7, <1>8, <1>9, <1>10, <1>11, <1>12 DEF Next, Finished

(* found_match goes all the way up, for all trees: whoever reports a match, *)
(* nobody below it knows of one.                                            *)
THEOREM ReportedOnBranch == Spec => []ReportedOncePerBranch
<1>1. ASSUME TypeOK, TurnInv
      PROVE  ReportedOncePerBranch
  <2>1. SUFFICES ASSUME NEW r \in reports, NEW v \in Reachable(V, g.edges, r[1]), v # r[1]
                 PROVE  v \notin foundMatch
    BY DEF ReportedOncePerBranch
  <2>2. g.edges \in SUBSET (V \X V) /\ r[1] \in V
    BY <1>1, Here DEF TypeOK
  <2>3. PICK c \in V : <<r[1], c>> \in g.edges /\ v \in Reachable(V, g.edges, c)
    BY <2>1, <2>2, ReachableByChildren
  <2> DEFINE S == answered \ foundMatch
  <2>4. c \in S /\ S \in SUBSET V
    BY <1>1, <2>3 DEF TypeOK, TurnInv
  <2>5. \A a, b : <<a, b>> \in g.edges /\ a \in S => b \in S
    BY <1>1 DEF TurnInv
  <2>6. Reachable(V, g.edges, c) \subseteq S
    <3> HIDE DEF S
    <3>1. QED
      BY <2>2, <2>4, <2>5, ReachableLeast
  <2>7. QED
    BY <2>3, <2>6
<1>2. QED
  BY <1>1, TypeCorrect, TurnInit, TurnStep, PTL DEF Spec

-----------------------------------------------------------------------------
(* What is in set_s can be laid over the trace.                            *)
Matching(v) == EmbedsAt(h, g.nodes, g.edges, v)

SoundAt(v, u) ==
    \A w \in setS[<<v, u>>] :
        /\ w \in Neighbours(h, u) \cup {u}
        /\ w # u \/ u = FindRoot(h) => BranchEmbeds(g, h, v, u, w)

(* While the inner loop is run for callees, set_s has nothing of the        *)
(* sidecar's own node yet. *)
SearchesBelow ==
    turn # 0 /\ \E c : <<turn, c>> \in g.edges /\ (c \in left \/ (at # NoNode /\ at[1] = c))

SoundInv ==
    /\ \A v \in V, u \in U : SoundAt(v, u)
    /\ SearchesBelow => \A x \in U : setS[<<turn, x>>] = {}
    /\ \A v \in match : Matching(v)
    /\ \A r \in reports : Matching(r[2])

(* What round u of the inner loop at v reads: about the callees of v what   *)
(* is there is true, and nothing about its caller.                         *)
LEMMA RoundSound ==
    ASSUME TypeOK, TurnInv, SoundInv, NEW v \in V, NEW u \in U, at = <<v, u>>,
           NEW w \in MaxMatching(g, h, setS, v, u)
    PROVE  w \in Neighbours(h, u) \cup {u} /\ BranchEmbeds(g, h, v, u, w)
<1>1. /\ TwoTrees(g, h) /\ TreeFrom(V, g.edges, Root)
      /\ g.edges \in SUBSET (V \X V) /\ h.edges \in SUBSET (U \X U)
      /\ TreeFrom(U, h.edges, FindRoot(h)) /\ at # NoNode /\ at[1] = v
  BY Here
<1>2. ASSUME NEW p \in V, <<p, v>> \in g.edges, NEW x \in U
      PROVE  setS[<<p, x>>] = {}
  <2>1. turn # 0 /\ (<<turn, v>> \in g.edges \/ (v = turn /\ turn = Root))
    BY <1>1 DEF TurnInv
  <2>2. v # Root
    BY <1>1, <1>2, OneParent
  <2>3. <<turn, v>> \in g.edges /\ p = turn
    BY <1>1, <1>2, <2>1, <2>2, OneParent
  <2>4. SearchesBelow
    BY <1>1, <2>1, <2>3 DEF SearchesBelow
  <2>5. QED
    BY <2>3, <2>4 DEF SoundInv
<1>3. ASSUME NEW y \in V, <<v, y>> \in g.edges, NEW x \in Neighbours(h, u), u \in setS[<<y, x>>]
      PROVE  BranchEmbeds(g, h, y, x, u)
  <2>1. x \in U /\ <<u, x>> \in Both(h.edges)
    BY DEF Neighbours, Nodes
  <2>2. <<u, u>> \notin Both(h.edges)
    BY <1>1, OneParent, BothWays
  <2>3. QED
    BY <1>3, <2>1, <2>2 DEF SoundInv, SoundAt
<1>4. QED
  BY <1>1, <1>2, <1>3, MaxMatchingSound

LEMMA SoundInit == Init => SoundInv
<1>1. SUFFICES ASSUME Init
               PROVE  SoundInv
  OBVIOUS
<1>2. \A v \in V, u \in U : setS[<<v, u>>] = {}
  BY <1>1 DEF Init
<1>3. \A v \in V, u \in U : SoundAt(v, u)
  BY <1>2 DEF SoundAt
<1>4. ~ SearchesBelow
  BY <1>1 DEF Init, SearchesBelow
<1>5. QED
  BY <1>1, <1>3, <1>4 DEF Init, SoundInv

(* A round that finds the root of the pattern has found a match.            *)
LEMMA FoundMatches ==
    ASSUME TypeOK, TurnInv, SoundInv, NEW v \in V, NEW u \in U, TryPatternNode(v, u)
    PROVE  /\ \A a \in V, b \in U : SoundAt(a, b)'
           /\ RootMatches(g, h, setS', v) => Matching(v)
           /\ \A a \in V, b \in U : <<a, b>> # <<v, u>> => setS'[<<a, b>>] = setS[<<a, b>>]
           /\ setS'[<<v, u>>] = setS[<<v, u>>] \cup MaxMatching(g, h, setS, v, u)
<1>1. /\ at = <<v, u>> /\ g' = g /\ h' = h
      /\ setS' = [setS EXCEPT ![<<v, u>>] = setS[<<v, u>>] \cup MaxMatching(g, h, setS, v, u)]
  BY DEF TryPatternNode
<1>2. V' = V /\ U' = U /\ \A a, b, w : BranchEmbeds(g, h, a, b, w)' <=> BranchEmbeds(g, h, a, b, w)
  BY <1>1, SameTrees
<1>3. /\ \A a \in V, b \in U : <<a, b>> # <<v, u>> => setS'[<<a, b>>] = setS[<<a, b>>]
      /\ setS'[<<v, u>>] = setS[<<v, u>>] \cup MaxMatching(g, h, setS, v, u)
  BY <1>1 DEF TypeOK
<1>4. ASSUME NEW a \in V, NEW b \in U, NEW w \in setS'[<<a, b>>]
      PROVE  /\ w \in Neighbours(h, b) \cup {b}
             /\ w # b \/ b = FindRoot(h) => BranchEmbeds(g, h, a, b, w)
  <2>1. CASE w \in setS[<<a, b>>]
    BY <2>1 DEF SoundInv, SoundAt
  <2>2. CASE w \notin setS[<<a, b>>]
    <3>1. a = v /\ b = u /\ w \in MaxMatching(g, h, setS, v, u)
      BY <1>3, <1>4, <2>2
    <3>2. QED
      BY <1>1, <3>1, RoundSound
  <2>3. QED
    BY <2>1, <2>2
<1>5. ASSUME RootMatches(g, h, setS', v)
      PROVE  Matching(v)
  <2>1. /\ FindRoot(h) \in setS'[<<v, FindRoot(h)>>]
        /\ HasPropertySubset(g.nodes[v], h.nodes[FindRoot(h)])
    BY <1>1, <1>5 DEF RootMatches
  <2>2. BranchEmbeds(g, h, v, FindRoot(h), FindRoot(h))
    BY <1>4, <2>1, Here
  <2>3. QED
    BY <2>1, <2>2, WholeEmbeds, Here DEF Matching
<1>6. \A a \in V, b \in U : SoundAt(a, b)'
  BY <1>1, <1>2, <1>4 DEF SoundAt
<1>7. QED
  BY <1>3, <1>5, <1>6

LEMMA SoundStep == TypeOK /\ TurnInv /\ SoundInv /\ [Next]_vars => SoundInv'
<1>1. SUFFICES ASSUME TypeOK, TurnInv, SoundInv, [Next]_vars
               PROVE  SoundInv'
  OBVIOUS
<1>2. /\ g' = g /\ h' = h
      /\ V' = V /\ U' = U /\ \A a, b, w : BranchEmbeds(g, h, a, b, w)' <=> BranchEmbeds(g, h, a, b, w)
      /\ \A a : Matching(a)' <=> Matching(a)
  BY <1>1, SameGraphs, SameTrees DEF Matching
<1>3. ASSUME setS' = setS
      PROVE  \A a \in V, b \in U : SoundAt(a, b)'
  BY <1>1, <1>2, <1>3 DEF SoundAt, SoundInv
<1>4. /\ TreeFrom(V, g.edges, Root)
      /\ \A v \in V : \A u : <<v, u>> # NoNode
      /\ \A v, b : b \in Children(v) <=> <<v, b>> \in g.edges
      /\ \A v : <<v, v>> \notin g.edges
  <2>1. TreeFrom(V, g.edges, Root)
    BY <1>1, Here
  <2>2. \A v : <<v, v>> \notin g.edges
    BY <2>1, OneParent
  <2>3. QED
    BY <1>1, <2>1, <2>2, Here
<1>5. ASSUME NEW v \in V, PassOn(v)
      PROVE  SoundInv'
  <2>1. setS' = setS /\ match' = match /\ reports' = reports /\ turn = 0 /\ turn' = 0
    BY <1>5 DEF PassOn, Ready
  <2>2. ~ SearchesBelow'
    BY <2>1 DEF SearchesBelow
  <2>3. QED
    BY <1>1, <1>2, <1>3, <2>1, <2>2 DEF SoundInv
<1>6. ASSUME NEW v \in V, Begin(v)
      PROVE  SoundInv'
  <2>1. /\ turn' = v /\ match' = {} /\ reports' = reports
        /\ \A a \in V, b \in U : setS'[<<a, b>>] =
             IF a # v THEN setS[<<a, b>>]
             ELSE IF Children(v) = {} THEN LeafKeys(h, b) ELSE {}
    BY <1>6 DEF Begin
  <2>2. ASSUME NEW a \in V, NEW b \in U
        PROVE  SoundAt(a, b)'
    <3>1. CASE a # v
      BY <1>1, <1>2, <2>1, <3>1 DEF SoundInv, SoundAt
    <3>2. CASE a = v
      <4>1. \A w \in setS'[<<a, b>>] :
                /\ w \in Neighbours(h, b) \cup {b}
                /\ w # b \/ b = FindRoot(h) => BranchEmbeds(g, h, a, b, w)
        <5>1. SUFFICES ASSUME NEW w \in setS'[<<a, b>>]
                       PROVE  /\ w \in Neighbours(h, b) \cup {b}
                              /\ w # b \/ b = FindRoot(h) => BranchEmbeds(g, h, a, b, w)
          OBVIOUS
        <5>2. w \in LeafKeys(h, b)
          BY <2>1, <3>2
        <5>3. QED
          BY <1>1, <5>2, Here, LeafKeysSound
      <4>2. QED
        BY <1>2, <4>1 DEF SoundAt
    <3>3. QED
      BY <3>1, <3>2
  <2>3. SearchesBelow' => \A x \in U : setS'[<<turn', x>>] = {}
    <3>1. SearchesBelow' => Children(v) # {}
      BY <1>2, <1>4, <2>1 DEF SearchesBelow
    <3>2. QED
      BY <2>1, <3>1
  <2>4. QED
    BY <1>1, <1>2, <2>1, <2>2, <2>3 DEF SoundInv
<1>7. ASSUME NEW v \in V, StartInnerLoop(v)
      PROVE  SoundInv'
  <2>1. /\ v \in left /\ at' = <<v, 1>> /\ left' = left \ {v}
        /\ setS' = setS /\ turn' = turn /\ match' = match /\ reports' = reports
    BY <1>7 DEF StartInnerLoop
  <2>2. at'[1] = v
    BY <2>1
  <2>3. SearchesBelow' => SearchesBelow
    BY <1>2, <2>1, <2>2 DEF SearchesBelow
  <2>4. QED
    BY <1>1, <1>2, <1>3, <2>1, <2>3 DEF SoundInv
<1>8. ASSUME NEW v \in V, Answer(v)
      PROVE  SoundInv'
  <2>1. /\ turn' = 0 /\ match' = {} /\ setS' = setS
        /\ reports' = reports \cup {<<v, m>> : m \in match}
    BY <1>8 DEF Answer
  <2>2. ~ SearchesBelow'
    BY <2>1 DEF SearchesBelow
  <2>3. \A r \in reports' : Matching(r[2])
    BY <1>1, <2>1 DEF SoundInv
  <2>4. QED
    BY <1>1, <1>2, <1>3, <2>1, <2>2, <2>3 DEF SoundInv
<1>9. ASSUME NEW v \in V, NEW u \in U, at = <<v, u>>, at' = NoNode \/ at' = NextPatternNode(v, u),
             turn' = turn, left' = left
      PROVE  SearchesBelow' => SearchesBelow /\ v # turn
  <2>1. at # NoNode /\ at[1] = v
    BY <1>4, <1>9
  <2>2. at' # NoNode => at'[1] = v
    BY <1>1, <1>9, NextPatternNodeType
  <2>3. SearchesBelow' => SearchesBelow
    BY <1>2, <1>9, <2>1, <2>2 DEF SearchesBelow
  <2>4. ASSUME SearchesBelow', v = turn
        PROVE  FALSE
    <3>1. left = {}
      BY <1>1, <1>4, <2>1, <2>4 DEF TurnInv
    <3>2. QED
      BY <1>2, <1>4, <1>9, <2>2, <2>4, <3>1 DEF SearchesBelow
  <2>5. QED
    BY <2>3, <2>4
<1>10. ASSUME NEW v \in V, NEW u \in U, SkipPatternNode(v, u)
       PROVE  SoundInv'
  <2>1. /\ at = <<v, u>> /\ at' = NextPatternNode(v, u)
        /\ setS' = setS /\ turn' = turn /\ left' = left /\ match' = match /\ reports' = reports
    BY <1>10 DEF SkipPatternNode
  <2>2. SearchesBelow' => SearchesBelow
    BY <1>9, <2>1
  <2>3. QED
    BY <1>1, <1>2, <1>3, <2>1, <2>2 DEF SoundInv
<1>11. ASSUME NEW v \in V, NEW u \in U, TryPatternNode(v, u)
       PROVE  SoundInv'
  <2>1. /\ at = <<v, u>> /\ (at' = NoNode \/ at' = NextPatternNode(v, u))
        /\ turn' = turn /\ left' = left /\ reports' = reports
        /\ match' = match \/ (match' = {v} /\ RootMatches(g, h, setS', v))
    BY <1>11 DEF TryPatternNode
  <2>2. /\ \A a \in V, b \in U : SoundAt(a, b)'
        /\ RootMatches(g, h, setS', v) => Matching(v)
        /\ \A a \in V, b \in U : <<a, b>> # <<v, u>> => setS'[<<a, b>>] = setS[<<a, b>>]
    BY <1>1, <1>11, FoundMatches
  <2>3. \A a \in match' : Matching(a)
    BY <1>1, <2>1, <2>2 DEF SoundInv
  <2>4. ASSUME SearchesBelow', NEW x \in U
        PROVE  setS'[<<turn', x>>] = {}
    <3>1. SearchesBelow /\ v # turn
      BY <1>9, <2>1, <2>4
    <3>2. turn \in V
      BY <1>1, <3>1 DEF TypeOK, SearchesBelow
    <3>3. setS'[<<turn, x>>] = setS[<<turn, x>>]
      BY <2>2, <3>1, <3>2
    <3>4. QED
      BY <1>1, <2>1, <3>1, <3>3 DEF SoundInv
  <2>5. QED
    BY <1>1, <1>2, <2>1, <2>2, <2>3, <2>4 DEF SoundInv
<1>12. CASE UNCHANGED vars
  <2>1. SearchesBelow' => SearchesBelow
    BY <1>12 DEF vars, SearchesBelow
  <2>2. QED
    BY <1>1, <1>2, <1>3, <1>12, <2>1 DEF vars, SoundInv
<1>13. QED
  BY <1>1, <1>5, <1>6, <1>7, <1>8, <1>10, <1>11, <1>12 DEF Next, Finished

(* Each sidecar decides from what its callees ferried, and still, for all   *)
(* trees, what it reports is a node of the trace at which the pattern       *)
(* matches. *)
THEOREM ReportsAreMatches == Spec => []ReportsMatches
<1>1. TypeOK /\ SoundInv => ReportsMatches
  <2>1. SUFFICES ASSUME TypeOK, SoundInv, NEW r \in reports
                 PROVE  r[2] \in Matches
    BY DEF ReportsMatches, Reported
  <2>2. r[2] \in V
    BY <2>1 DEF TypeOK
  <2>3. QED
    BY <2>1, <2>2 DEF SoundInv, Matches, Matching
<1>2. QED
  BY <1>1, TypeCorrect, TurnInit, TurnStep, SoundInit, SoundStep, PTL DEF Spec

-----------------------------------------------------------------------------
(* What is found.  As long as nobody has a match, every sidecar that has    *)
(* answered has searched, and set_s has all there is about the nodes that   *)
(* were searched.  The root's sidecar stops early at a callee that matches, *)
(* and does not count it: what it knows of that callee, and hence of        *)
(* itself, is incomplete. *)
FullAt(v, u) ==
    \A w \in Neighbours(h, u) \cup {u} : BranchEmbeds(g, h, v, u, w) => w \in setS[<<v, u>>]

Full(v) == \A u \in U : FullAt(v, u)

NoCalleeMatches == \A c \in V : <<Root, c>> \in g.edges => ~ Matching(c)

Missed ==
    /\ foundMatch = {}
    /\ \A p \in answered \ {Root}, c \in V :
        <<p, c>> \in g.edges => Full(c) /\ ~ Matching(c)
    /\ turn # 0 => \A c \in V :
        <<turn, c>> \in g.edges /\ c \notin left /\ ~ (at # NoNode /\ at[1] = c) =>
            /\ turn # Root => ~ Matching(c)
            /\ Matching(c) \/ Full(c)
    /\ at # NoNode /\ (at[1] = Root => NoCalleeMatches) =>
        /\ \A u \in U : u < at[2] => FullAt(at[1], u)
        /\ FindRoot(h) < at[2] => ~ Matching(at[1])
    /\ turn = Root /\ at = NoNode /\ left = {} /\ NoCalleeMatches => ~ Matching(Root)
    /\ Root \in answered /\ NoCalleeMatches => ~ Matching(Root)

SearchInv == reports = {} /\ match = {} => Missed

(* In round u at v, all of what can be laid there is entered, and the round *)
(* is not skipped.                                                         *)
LEMMA RoundFull ==
    ASSUME TypeOK, TurnInv, Missed, NEW v \in V, NEW u \in U, at = <<v, u>>,
           v = Root => NoCalleeMatches,
           NEW w \in Neighbours(h, u) \cup {u}, BranchEmbeds(g, h, v, u, w)
    PROVE  w \in MaxMatching(g, h, setS, v, u) /\ DegreeFits(g, h, v, u)
<1>1. /\ TwoTrees(g, h) /\ TreeFrom(V, g.edges, Root)
      /\ g.edges \in SUBSET (V \X V) /\ h.edges \in SUBSET (U \X U)
      /\ at # NoNode /\ at[1] = v
  BY Here
<1>2. turn # 0 /\ (<<turn, v>> \in g.edges \/ (v = turn /\ turn = Root /\ left = {}))
  BY <1>1 DEF TurnInv
<1>3. ASSUME NEW y \in V, <<v, y>> \in g.edges
      PROVE  Full(y)
  <2>1. CASE <<turn, v>> \in g.edges
    <3>1. v \in answered
      BY <1>2, <2>1 DEF TurnInv
    <3>2. v # Root
      BY <1>1, <2>1, OneParent
    <3>3. QED
      BY <1>3, <3>1, <3>2 DEF Missed
  <2>2. CASE v = turn /\ turn = Root /\ left = {}
    <3>1. y # v
      BY <1>1, <1>3, OneParent
    <3>2. ~ Matching(y)
      BY <1>3, <2>2 DEF NoCalleeMatches
    <3>3. Matching(y) \/ Full(y)
      BY <1>1, <1>2, <1>3, <2>2, <3>1 DEF Missed
    <3>4. QED
      BY <3>2, <3>3
  <2>3. QED
    BY <1>2, <2>1, <2>2
<1>4. ASSUME NEW y \in V, <<v, y>> \in g.edges, NEW x \in Neighbours(h, u), BranchEmbeds(g, h, y, x, u)
      PROVE  u \in setS[<<y, x>>]
  <2>1. x \in U /\ <<u, x>> \in Both(h.edges)
    BY DEF Neighbours, Nodes
  <2>2. <<x, u>> \in Both(h.edges)
    BY <1>1, <2>1, BothWays
  <2>3. u \in Neighbours(h, x)
    BY <2>2 DEF Neighbours, Nodes
  <2>4. FullAt(y, x)
    BY <1>3, <1>4, <2>1 DEF Full
  <2>5. QED
    BY <1>4, <2>3, <2>4 DEF FullAt
<1>5. QED
  BY <1>1, <1>4, MaxMatchingComplete

(* The search at v goes on, or is over: nothing was missed in this round.  *)
LEMMA RoundMisses ==
    ASSUME TypeOK, TurnInv, Missed, NEW v \in V, NEW u \in U, at = <<v, u>>,
           g' = g, h' = h, turn' = turn, left' = left, answered' = answered,
           foundMatch' = foundMatch,
           \A a \in V, b \in U : setS[<<a, b>>] \subseteq setS'[<<a, b>>],
           \/ /\ at' = NextPatternNode(v, u)
              /\ (v = Root => NoCalleeMatches) =>
                    FullAt(v, u)' /\ (FindRoot(h) <= u => ~ Matching(v))
           \/ at' = NoNode /\ Matching(v) /\ v # Root /\ turn = Root
    PROVE  Missed'
<1>1. /\ TreeFrom(V, g.edges, Root)
      /\ at # NoNode /\ at[1] = v /\ at[2] = u
      /\ U = 1 .. Len(h.nodes) /\ Len(h.nodes) \in Nat /\ FindRoot(h) \in U
      /\ \A a \in V : \A b : <<a, b>> # NoNode
      /\ Root \in V
  BY Here
<1>2. turn # 0 /\ v \notin left /\ (<<turn, v>> \in g.edges \/ (v = turn /\ turn = Root /\ left = {}))
  BY <1>1 DEF TurnInv
<1>3. /\ V' = V /\ U' = U /\ Root' = Root
      /\ \A a, b, w : BranchEmbeds(g, h, a, b, w)' <=> BranchEmbeds(g, h, a, b, w)
      /\ \A a : Matching(a)' <=> Matching(a)
  BY SameTrees DEF Matching, Root
<1>4. NoCalleeMatches' <=> NoCalleeMatches
  BY <1>3 DEF NoCalleeMatches
<1>5. ASSUME NEW a \in V, NEW b \in U, FullAt(a, b)
      PROVE  FullAt(a, b)'
  BY <1>3, <1>5 DEF FullAt
<1>6. \A a \in V : Full(a) => Full(a)'
  BY <1>3, <1>5 DEF Full
<1>7. /\ foundMatch' = {}
      /\ \A p \in answered' \ {Root'}, c \in V' :
            <<p, c>> \in g'.edges => Full(c)' /\ ~ Matching(c)'
      /\ Root' \in answered' /\ NoCalleeMatches' => ~ Matching(Root)'
  BY <1>3, <1>4, <1>6 DEF Missed
<1>8. \A b \in U : b < u \/ b = u \/ ~ (b <= u)
  BY <1>1
<1>9. CASE at' # NoNode
  <2>1. /\ at' = <<v, u + 1>> /\ at'[1] = v /\ at'[2] = u + 1
        /\ (v = Root => NoCalleeMatches) =>
                    FullAt(v, u)' /\ (FindRoot(h) <= u => ~ Matching(v))
    BY <1>1, <1>9, NextPatternNodeType
  <2>2. \A b \in U : b < u + 1 => b < u \/ b = u
    BY <1>1
  <2>3. FindRoot(h) < u + 1 => FindRoot(h) <= u
    BY <1>1
  <2>4. (v = Root => NoCalleeMatches) =>
            /\ \A b \in U : b < u + 1 => FullAt(v, b)'
            /\ FindRoot(h) < u + 1 => ~ Matching(v)
    BY <1>1, <1>5, <2>1, <2>2, <2>3 DEF Missed
  <2>5. \A c \in V : <<turn, c>> \in g.edges /\ c \notin left /\ c # v =>
            /\ turn # Root => ~ Matching(c)
            /\ Matching(c) \/ Full(c)'
    BY <1>1, <1>2, <1>6 DEF Missed
  <2>6. QED
    BY <1>3, <1>4, <1>7, <1>9, <2>1, <2>4, <2>5 DEF Missed
<1>10. CASE at' = NoNode
  <2>1. ASSUME /\ at' = NextPatternNode(v, u)
               /\ (v = Root => NoCalleeMatches) =>
                    FullAt(v, u)' /\ (FindRoot(h) <= u => ~ Matching(v)),
               v = Root => NoCalleeMatches
        PROVE  Full(v)' /\ ~ Matching(v)
    <3>1. ~ (u < Len(h.nodes))
      BY <1>1, <1>10, <2>1 DEF NextPatternNode
    <3>2. (\A b \in U : b < u \/ b = u) /\ FindRoot(h) <= u
      BY <1>1, <3>1
    <3>3. FullAt(v, u)' /\ ~ Matching(v)
      BY <2>1, <3>2
    <3>4. \A b \in U : b < u => FullAt(v, b)'
      BY <1>1, <1>5, <2>1 DEF Missed
    <3>5. \A b \in U : FullAt(v, b)'
      BY <3>2, <3>3, <3>4
    <3>6. QED
      BY <1>3, <3>3, <3>5 DEF Full
  <2>2. ASSUME NEW c \in V, <<turn, c>> \in g.edges, c \notin left
        PROVE  /\ turn # Root => ~ Matching(c)
               /\ Matching(c) \/ Full(c)'
    <3>1. CASE c # v
      BY <1>1, <1>2, <1>6, <2>2, <3>1 DEF Missed
    <3>2. CASE c = v
      <4>1. v # Root
        BY <1>1, <2>2, <3>2, OneParent
      <4>2. CASE Matching(v) /\ turn = Root
        BY <3>2, <4>2
      <4>3. CASE ~ (Matching(v) /\ turn = Root)
        BY <2>1, <3>2, <4>1, <4>3
      <4>4. QED
        BY <4>2, <4>3
    <3>3. QED
      BY <3>1, <3>2
  <2>3. ASSUME turn = Root, left = {}, NoCalleeMatches
        PROVE  ~ Matching(Root)
    <3>1. CASE v = Root
      BY <2>1, <2>3, <3>1
    <3>2. CASE v # Root
      BY <1>1, <2>3, <3>2 DEF TurnInv
    <3>3. QED
      BY <3>1, <3>2
  <2>4. QED
    BY <1>3, <1>4, <1>7, <1>10, <2>2, <2>3 DEF Missed
<1>11. QED
  BY <1>9, <1>10

LEMMA SearchInit == Init => SearchInv
<1>1. SUFFICES ASSUME Init
               PROVE  Missed
  BY DEF SearchInv
<1>2. TypeOK
  BY <1>1, TypeInit
<1>3. Root # 0
  BY <1>2, Here
<1>4. QED
  BY <1>1, <1>3 DEF Init, Missed

LEMMA SearchStep == TypeOK /\ TurnInv /\ SoundInv /\ SearchInv /\ [Next]_vars => SearchInv'
<1>1. SUFFICES ASSUME TypeOK, TurnInv, SoundInv, SearchInv, [Next]_vars,
                      reports' = {}, match' = {}
               PROVE  Missed'
  BY DEF SearchInv
<1>2. /\ g' = g /\ h' = h /\ V' = V /\ U' = U /\ Root' = Root
      /\ \A a, b, w : BranchEmbeds(g, h, a, b, w)' <=> BranchEmbeds(g, h, a, b, w)
      /\ \A a : Matching(a)' <=> Matching(a)
  BY <1>1, SameGraphs, SameTrees DEF Matching, Root
<1>3. NoCalleeMatches' <=> NoCalleeMatches
  BY <1>2 DEF NoCalleeMatches
<1>4. /\ U = 1 .. Len(h.nodes) /\ Len(h.nodes) \in Nat /\ FindRoot(h) \in U
      /\ \A a \in V : \A b : <<a, b>> # NoNode
      /\ \A a \in V : a # 0
      /\ \A v, b : b \in Children(v) <=> <<v, b>> \in g.edges
      /\ Root \in V
  BY <1>1, Here
<1>5. ASSUME NEW c \in V, Full(c), \A b \in U : setS'[<<c, b>>] = setS[<<c, b>>]
      PROVE  Full(c)'
  BY <1>2, <1>5 DEF Full, FullAt
<1>6. ASSUME match = {}
      PROVE  Missed
  <2>1. reports = {}
    BY <1>1 DEF Next, Finished, vars, PassOn, Begin, StartInnerLoop, Answer, SkipPatternNode, TryPatternNode
  <2>2. QED
    BY <1>1, <1>6, <2>1 DEF SearchInv
<1>7. ASSUME NEW v \in V, PassOn(v)
      PROVE  Missed'
  <2>1. turn = 0 /\ Children(v) \cap foundMatch # {}
    BY <1>7 DEF PassOn, Ready
  <2>2. match = {}
    BY <1>1, <2>1 DEF TurnInv
  <2>3. foundMatch = {}
    BY <1>6, <2>2 DEF Missed
  <2>4. QED
    BY <2>1, <2>3
<1>8. ASSUME NEW v \in V, Begin(v)
      PROVE  Missed'
  <2>1. /\ turn = 0 /\ v \notin answered
        /\ turn' = v /\ left' = Children(v) \cup (IF v = Root THEN {v} ELSE {})
        /\ at' = at /\ answered' = answered /\ foundMatch' = foundMatch
        /\ \A a \in V, b \in U : a # v => setS'[<<a, b>>] = setS[<<a, b>>]
    BY <1>8 DEF Begin, Ready
  <2>2. match = {} /\ at = NoNode
    BY <1>1, <2>1 DEF TurnInv
  <2>3. Missed
    BY <1>6, <2>2
  <2>4. \A p \in answered \ {Root}, c \in V :
            <<p, c>> \in g.edges => Full(c)' /\ ~ Matching(c)
    <3>1. SUFFICES ASSUME NEW p \in answered \ {Root}, NEW c \in V, <<p, c>> \in g.edges
                   PROVE  Full(c)' /\ ~ Matching(c)
      OBVIOUS
    <3>2. Full(c) /\ ~ Matching(c)
      BY <2>3, <3>1 DEF Missed
    <3>3. c # v
      BY <1>1, <2>1, <3>1 DEF TurnInv
    <3>4. QED
      BY <1>5, <2>1, <3>2, <3>3
  <2>5. \A c \in V : <<v, c>> \in g.edges => c \in left'
    BY <1>4, <2>1
  <2>6. v = Root => left' # {}
    BY <2>1
  <2>7. foundMatch = {} /\ (Root \in answered /\ NoCalleeMatches => ~ Matching(Root))
    BY <2>3 DEF Missed
  <2>8. QED
    BY <1>2, <1>3, <2>1, <2>2, <2>4, <2>5, <2>6, <2>7 DEF Missed
<1>9. ASSUME NEW v \in V, StartInnerLoop(v)
      PROVE  Missed'
  <2>1. /\ at = NoNode /\ at' = <<v, 1>> /\ left' = left \ {v}
        /\ setS' = setS /\ turn' = turn /\ match' = match /\ answered' = answered
        /\ foundMatch' = foundMatch
    BY <1>9 DEF StartInnerLoop
  <2>2. Missed
    BY <1>1, <1>6, <2>1
  <2>3. at'[1] = v /\ at'[2] = 1 /\ at' # NoNode
    BY <1>4, <2>1
  <2>4. ~ (FindRoot(h) < 1) /\ \A u \in U : ~ (u < 1)
    BY <1>4
  <2>5. \A c \in V : Full(c) => Full(c)'
    BY <1>5, <2>1
  <2>6. turn # 0 => \A c \in V : <<turn, c>> \in g.edges /\ c \notin left' /\ c # v =>
            /\ turn # Root => ~ Matching(c)
            /\ Matching(c) \/ Full(c)'
    BY <2>1, <2>2, <2>5 DEF Missed
  <2>7. \A p \in answered \ {Root}, c \in V :
            <<p, c>> \in g.edges => Full(c)' /\ ~ Matching(c)
    BY <2>2, <2>5 DEF Missed
  <2>8. foundMatch = {} /\ (Root \in answered /\ NoCalleeMatches => ~ Matching(Root))
    BY <2>2 DEF Missed
  <2>9. QED
    BY <1>2, <1>3, <2>1, <2>3, <2>4, <2>6, <2>7, <2>8 DEF Missed
<1>10. ASSUME NEW v \in V, Answer(v)
       PROVE  Missed'
  <2>1. /\ turn = v /\ at = NoNode /\ left = {}
        /\ turn' = 0 /\ at' = at /\ setS' = setS
        /\ answered' = answered \cup {v}
        /\ foundMatch' = IF match = {} THEN foundMatch ELSE foundMatch \cup {v}
        /\ reports' = reports \cup {<<v, m>> : m \in match}
    BY <1>10 DEF Answer
  <2>2. match = {}
    BY <1>1, <2>1
  <2>3. Missed
    BY <1>6, <2>2
  <2>4. \A c \in V : Full(c) => Full(c)'
    BY <1>5, <2>1
  <2>5. \A p \in answered' \ {Root}, c \in V :
            <<p, c>> \in g.edges => Full(c)' /\ ~ Matching(c)
    <3>1. SUFFICES ASSUME NEW p \in answered' \ {Root}, NEW c \in V, <<p, c>> \in g.edges
                   PROVE  Full(c)' /\ ~ Matching(c)
      OBVIOUS
    <3>2. CASE p \in answered
      BY <2>3, <2>4, <3>1, <3>2 DEF Missed
    <3>3. CASE p \notin answered
      <4>1. p = v /\ turn # 0 /\ turn # Root
        BY <1>4, <2>1, <3>1, <3>3
      <4>2. ~ Matching(c) /\ (Matching(c) \/ Full(c))
        BY <2>1, <2>3, <3>1, <4>1 DEF Missed
      <4>3. QED
        BY <2>4, <4>2
    <3>4. QED
      BY <3>2, <3>3
  <2>6. Root \in answered' /\ NoCalleeMatches => ~ Matching(Root)
    BY <2>1, <2>3 DEF Missed
  <2>7. foundMatch' = {}
    BY <2>1, <2>2, <2>3 DEF Missed
  <2>8. turn' = 0 /\ at' = NoNode /\ Root # 0
    BY <1>4, <2>1
  <2>9. QED
    BY <1>2, <1>3, <2>5, <2>6, <2>7, <2>8 DEF Missed
<1>11. ASSUME NEW v \in V, NEW u \in U, at = <<v, u>>, Missed, v = Root => NoCalleeMatches,
              FindRoot(h) <= u, Matching(v)
       PROVE  u = FindRoot(h) /\ u \in MaxMatching(g, h, setS, v, u) /\ DegreeFits(g, h, v, u)
              /\ HasPropertySubset(g.nodes[v], h.nodes[u])
  <2>1. at # NoNode /\ at[1] = v /\ at[2] = u
    BY <1>4, <1>11
  <2>2. ~ (FindRoot(h) < u)
    BY <1>11, <2>1 DEF Missed
  <2>3. u = FindRoot(h)
    BY <1>4, <1>11, <2>2
  <2>4. BranchEmbeds(g, h, v, u, u) /\ HasPropertySubset(g.nodes[v], h.nodes[u])
    BY <1>1, <1>11, <2>3, WholeEmbeds, Here DEF Matching
  <2>5. u \in Neighbours(h, u) \cup {u}
    OBVIOUS
  <2>6. QED
    BY <1>1, <1>11, <2>3, <2>4, <2>5, RoundFull
<1>12. ASSUME NEW v \in V, NEW u \in U, SkipPatternNode(v, u)
       PROVE  Missed'
  <2>1. /\ at = <<v, u>> /\ ~ DegreeFits(g, h, v, u) /\ at' = NextPatternNode(v, u)
        /\ setS' = setS /\ turn' = turn /\ left' = left /\ match' = match
        /\ answered' = answered /\ foundMatch' = foundMatch
    BY <1>12 DEF SkipPatternNode
  <2>2. Missed
    BY <1>1, <1>6, <2>1
  <2>3. ASSUME v = Root => NoCalleeMatches
        PROVE  FullAt(v, u)' /\ (FindRoot(h) <= u => ~ Matching(v))
    <3>1. \A w \in Neighbours(h, u) \cup {u} : ~ BranchEmbeds(g, h, v, u, w)
      BY <1>1, <2>1, <2>2, <2>3, RoundFull
    <3>2. FullAt(v, u)'
      BY <1>2, <3>1 DEF FullAt
    <3>3. QED
      BY <1>11, <2>1, <2>2, <2>3, <3>2
  <2>4. \A a \in V, b \in U : setS[<<a, b>>] \subseteq setS'[<<a, b>>]
    BY <2>1
  <2>5. QED
    BY <1>1, <1>2, <2>1, <2>2, <2>3, <2>4, RoundMisses
<1>13. ASSUME NEW v \in V, NEW u \in U, TryPatternNode(v, u)
       PROVE  Missed'
  <2>1. /\ at = <<v, u>> /\ turn' = turn /\ left' = left
        /\ answered' = answered /\ foundMatch' = foundMatch
        /\ at' = IF RootMatches(g, h, setS', v) THEN NoNode ELSE NextPatternNode(v, u)
        /\ match' = IF RootMatches(g, h, setS', v) /\ MatchCounts(v) THEN {v} ELSE match
    BY <1>13 DEF TryPatternNode
  <2>2. match = {}
    BY <1>1, <2>1
  <2>3. Missed
    BY <1>6, <2>2
  <2>4. /\ RootMatches(g, h, setS', v) => Matching(v)
        /\ \A a \in V, b \in U : <<a, b>> # <<v, u>> => setS'[<<a, b>>] = setS[<<a, b>>]
        /\ setS'[<<v, u>>] = setS[<<v, u>>] \cup MaxMatching(g, h, setS, v, u)
    BY <1>1, <1>13, FoundMatches
  <2>5. \A a \in V, b \in U : setS[<<a, b>>] \subseteq setS'[<<a, b>>]
    BY <2>4
  <2>6. CASE RootMatches(g, h, setS', v)
    <3>1. ~ MatchCounts(v)
      BY <1>1, <2>1, <2>6
    <3>2. turn = Root /\ v # Root /\ Matching(v) /\ at' = NoNode
      BY <2>1, <2>4, <2>6, <3>1 DEF MatchCounts
    <3>3. QED
      BY <1>1, <1>2, <2>1, <2>3, <2>5, <3>2, RoundMisses
  <2>7. CASE ~ RootMatches(g, h, setS', v)
    <3>1. ASSUME v = Root => NoCalleeMatches
          PROVE  FullAt(v, u)' /\ (FindRoot(h) <= u => ~ Matching(v))
      <4>1. \A w \in Neighbours(h, u) \cup {u} : BranchEmbeds(g, h, v, u, w) => w \in MaxMatching(g, h, setS, v, u)
        BY <1>1, <2>1, <2>3, <3>1, RoundFull
      <4>2. FullAt(v, u)'
        BY <1>2, <2>4, <4>1 DEF FullAt
      <4>3. ASSUME FindRoot(h) <= u, Matching(v)
            PROVE  FALSE
        <5>1. /\ u = FindRoot(h) /\ u \in MaxMatching(g, h, setS, v, u)
              /\ HasPropertySubset(g.nodes[v], h.nodes[u])
          BY <1>11, <2>1, <2>3, <3>1, <4>3
        <5>2. RootMatches(g, h, setS', v)
          BY <2>4, <5>1 DEF RootMatches
        <5>3. QED
          BY <2>7, <5>2
      <4>4. QED
        BY <4>2, <4>3
    <3>2. at' = NextPatternNode(v, u)
      BY <2>1, <2>7
    <3>3. QED
      BY <1>1, <1>2, <2>1, <2>3, <2>5, <3>1, <3>2, RoundMisses
  <2>8. QED
    BY <2>6, <2>7
<1>14. CASE UNCHANGED vars
  <2>1. /\ setS' = setS /\ turn' = turn /\ left' = left /\ match' = match /\ at' = at
        /\ answered' = answered /\ foundMatch' = foundMatch
    BY <1>14 DEF vars
  <2>2. Missed
    BY <1>1, <1>6, <2>1
  <2>3. \A c \in V : Full(c)' <=> Full(c)
    BY <1>2, <2>1 DEF Full, FullAt
  <2>4. \A c \in V, u \in U : FullAt(c, u)' <=> FullAt(c, u)
    BY <1>2, <2>1 DEF FullAt
  <2>5. at # NoNode => at[1] \in V
    BY <1>1 DEF TypeOK
  <2>6. QED
    BY <1>2, <1>3, <2>1, <2>2, <2>3, <2>4, <2>5 DEF Missed
<1>15. QED
  BY <1>1, <1>7, <1>8, <1>9, <1>10, <1>12, <1>13, <1>14 DEF Next, Finished

(* For all trees, a match that nobody's search is cut short for is found:   *)
(* whatever matches below the callees of the root is reported by someone,   *)
(* and so is a match at the root when none of its callees matches.          *)
THEOREM FindsMatches == Spec => []FindsMatch
<1>1. ASSUME TypeOK, TurnInv, SearchInv, Root \in answered, reports = {}
      PROVE  /\ Matches \subseteq Children(Root) \cup {Root}
             /\ ~ (Root \in Matches /\ Children(Root) \cap Matches = {})
  <2>1. /\ TreeFrom(V, g.edges, Root) /\ g.edges \in SUBSET (V \X V) /\ Root \in V
        /\ \A v \in V : v # 0
        /\ \A v, b : b \in Children(v) <=> <<v, b>> \in g.edges
        /\ answered \in SUBSET V /\ turn \in V \cup {0}
    BY <1>1, Here DEF TypeOK
  <2>2. \A a, b : <<a, b>> \in g.edges /\ a \in answered => b \in answered
    BY <1>1 DEF TurnInv
  <2>3. answered = V
    BY <1>1, <2>1, <2>2, TreeInduction
  <2>4. turn = 0
    BY <1>1, <2>1, <2>3 DEF TurnInv
  <2>5. Missed
    BY <1>1, <2>4 DEF TurnInv, SearchInv
  <2>6. ASSUME NEW m \in Matches, m # Root
        PROVE  m \in Children(Root)
    <3>1. m \in V /\ Matching(m)
      BY <2>6 DEF Matches, Matching
    <3>2. m \in Reachable(V, g.edges, Root)
      BY <2>1, <3>1 DEF TreeFrom
    <3>3. PICK p : <<p, m>> \in g.edges
      BY <2>1, <2>6, <3>2, ReachableSteps
    <3>4. p = Root
      BY <2>1, <2>3, <2>5, <3>1, <3>3 DEF Missed
    <3>5. QED
      BY <2>1, <3>3, <3>4
  <2>7. ASSUME Root \in Matches, Children(Root) \cap Matches = {}
        PROVE  FALSE
    <3>1. NoCalleeMatches
      BY <2>1, <2>7 DEF NoCalleeMatches, Matches, Matching
    <3>2. ~ Matching(Root)
      BY <1>1, <2>5, <3>1 DEF Missed
    <3>3. QED
      BY <2>7, <3>2 DEF Matches, Matching
  <2>8. QED
    BY <2>6, <2>7
<1>2. TypeOK /\ TurnInv /\ SearchInv => FindsMatch
  BY <1>1 DEF FindsMatch
<1>3. QED
  BY <1>2, TypeCorrect, TurnInit, TurnStep, SoundInit, SoundStep, SearchInit, SearchStep, PTL
     DEF Spec
===============================================================================

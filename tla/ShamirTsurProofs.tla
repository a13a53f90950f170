--------------------------- MODULE ShamirTsurProofs ---------------------------
(***************************************************************************)
(* Lemmas about the subtree isomorphism of Shamir and Tsur, for any trees: *)
(* what a round of find_mapping_shamir_inner_loop enters into set_s is     *)
(* exactly what can be laid over the trace, provided that set_s is right   *)
(* about the nodes below.                                                  *)
(***************************************************************************)
EXTENDS ShamirTsur, TLAPS, FiniteSetTheorems

-----------------------------------------------------------------------------
(* Trees.  Every node of N but r has exactly one edge that leads to it, and *)
(* is reached from r.                                                      *)
TreeFrom(N, E, r) ==
    /\ r \in N
    /\ E \subseteq N \X N
    /\ \A e \in E : e[2] # r
    /\ \A d, e \in E : d[2] = e[2] => d[1] = e[1]
    /\ N \subseteq Reachable(N, E, r)

(* Reachable(N, E, x) is the least set that has x and is closed under E.   *)
LEMMA ReachableLeast ==
    ASSUME NEW N, NEW E \in SUBSET (N \X N), NEW x \in N
    PROVE  /\ x \in Reachable(N, E, x)
           /\ Reachable(N, E, x) \subseteq N
           /\ \A a, b : <<a, b>> \in E /\ a \in Reachable(N, E, x)
                           => b \in Reachable(N, E, x)
           /\ \A S \in SUBSET N :
                x \in S /\ (\A a, b : <<a, b>> \in E /\ a \in S => b \in S)
                    => Reachable(N, E, x) \subseteq S
<1>1. \A e \in E : e = <<e[1], e[2]>> /\ e[1] \in N /\ e[2] \in N
  OBVIOUS
<1>2. ASSUME NEW a, NEW b, <<a, b>> \in E, a \in Reachable(N, E, x)
      PROVE  b \in Reachable(N, E, x)
  <2>1. a \in N /\ b \in N
    BY <1>2
  <2>2. ASSUME NEW S \in SUBSET N, x \in S, \A e \in E : e[1] \in S => e[2] \in S
        PROVE  b \in S
    <3>1. a \in S
      BY <1>2, <2>2 DEF Reachable
    <3>2. <<a, b>>[1] = a /\ <<a, b>>[2] = b
      OBVIOUS
    <3>3. QED
      BY <1>2, <2>2, <3>1, <3>2
  <2>3. QED
    BY <2>1, <2>2 DEF Reachable
<1>3. ASSUME NEW S \in SUBSET N, x \in S,
             \A a, b : <<a, b>> \in E /\ a \in S => b \in S
      PROVE  Reachable(N, E, x) \subseteq S
  <2>1. \A e \in E : e[1] \in S => e[2] \in S
    BY <1>1, <1>3
  <2>2. QED
    BY <1>3, <2>1 DEF Reachable
<1>4. x \in Reachable(N, E, x) /\ Reachable(N, E, x) \subseteq N
  BY DEF Reachable
<1>5. QED
  BY <1>2, <1>3, <1>4

(* What is reached from a node that is reached is reached. *)
LEMMA ReachableTransitive ==
    ASSUME NEW N, NEW E \in SUBSET (N \X N), NEW x \in N,
           NEW y \in Reachable(N, E, x)
    PROVE  Reachable(N, E, y) \subseteq Reachable(N, E, x)
<1>1. y \in N
  BY ReachableLeast
<1>2. \A a, b : <<a, b>> \in E /\ a \in Reachable(N, E, x) => b \in Reachable(N, E, x)
  BY ReachableLeast
<1>3. Reachable(N, E, x) \in SUBSET N
  BY ReachableLeast
<1>4. QED
  BY <1>1, <1>2, <1>3, ReachableLeast

(* What is reached is the node itself or is led to by what is reached. *)
LEMMA ReachableSteps ==
    ASSUME NEW N, NEW E \in SUBSET (N \X N), NEW x \in N,
           NEW y \in Reachable(N, E, x), y # x
    PROVE  \E a \in Reachable(N, E, x) : <<a, y>> \in E
<1> SUFFICES ASSUME \A a \in Reachable(N, E, x) : <<a, y>> \notin E
             PROVE  FALSE
  OBVIOUS
<1> DEFINE S == Reachable(N, E, x) \ {y}
<1>1. S \in SUBSET N /\ x \in S
  BY ReachableLeast
<1>2. \A a, b : <<a, b>> \in E /\ a \in S => b \in S
  BY ReachableLeast
<1>3. Reachable(N, E, x) \subseteq S
  <2> HIDE DEF S
  <2>1. QED
    BY <1>1, <1>2, ReachableLeast
<1>4. QED
  BY <1>3

(* The children of a node lead to all that is below it. *)
LEMMA ReachableByChildren ==
    ASSUME NEW N, NEW E \in SUBSET (N \X N), NEW x \in N,
           NEW y \in Reachable(N, E, x), y # x
    PROVE  \E c \in N : <<x, c>> \in E /\ y \in Reachable(N, E, c)
<1> DEFINE C == {c \in N : <<x, c>> \in E}
           S == {x} \cup UNION {Reachable(N, E, c) : c \in C}
<1>1. S \in SUBSET N
  <2>1. \A c \in C : Reachable(N, E, c) \subseteq N
    BY ReachableLeast
  <2>2. QED
    BY <2>1
<1>2. ASSUME NEW a, NEW b, <<a, b>> \in E, a \in S
      PROVE  b \in S
  <2>0. a \in N /\ b \in N
    BY <1>2
  <2>1. CASE a = x
    <3>1. b \in C
      BY <1>2, <2>0, <2>1
    <3>2. b \in Reachable(N, E, b)
      BY <2>0, ReachableLeast
    <3>3. QED
      BY <3>1, <3>2
  <2>2. CASE a # x
    <3>1. PICK c \in C : a \in Reachable(N, E, c)
      BY <1>2, <2>2
    <3>2. b \in Reachable(N, E, c)
      BY <1>2, <3>1, ReachableLeast
    <3>3. QED
      BY <3>1, <3>2
  <2>3. QED
    BY <2>1, <2>2
<1>3. x \in S
  OBVIOUS
<1>4. Reachable(N, E, x) \subseteq S
  <2>1. \A a, b : <<a, b>> \in E /\ a \in S => b \in S
    BY <1>2
  <2> HIDE DEF S
  <2>2. QED
    BY <1>1, <1>3, <2>1, ReachableLeast
<1>5. QED
  BY <1>4

(* Induction along a tree, as a set: one that has the root, and with a node *)
(* its children, has all nodes.                                            *)
LEMMA TreeInduction ==
    ASSUME NEW N, NEW E, NEW r, TreeFrom(N, E, r),
           NEW Z \in SUBSET N, r \in Z,
           \A a, b : <<a, b>> \in E /\ a \in Z => b \in Z
    PROVE  Z = N
<1>1. Reachable(N, E, r) \subseteq Z
  BY ReachableLeast DEF TreeFrom
<1>2. QED
  BY <1>1 DEF TreeFrom

(* There is one edge to each node but the root. *)
LEMMA OneParent ==
    ASSUME NEW N, NEW E, NEW r, TreeFrom(N, E, r)
    PROVE  /\ E \in SUBSET (N \X N)
           /\ \A a, b, c : <<a, c>> \in E /\ <<b, c>> \in E => a = b
           /\ \A a : <<a, r>> \notin E
           /\ \A a : <<a, a>> \notin E
<1>1. ASSUME NEW a, NEW b, NEW c, <<a, c>> \in E, <<b, c>> \in E
      PROVE  a = b
  <2>1. <<a, c>>[2] = <<b, c>>[2]
    OBVIOUS
  <2>2. <<a, c>>[1] = <<b, c>>[1]
    BY <1>1, <2>1 DEF TreeFrom
  <2>3. QED
    BY <2>2
<1>2. ASSUME NEW a, <<a, r>> \in E
      PROVE  FALSE
  <2>1. <<a, r>>[2] = r
    OBVIOUS
  <2>2. QED
    BY <1>2, <2>1 DEF TreeFrom
<1>3. ASSUME NEW a, <<a, a>> \in E
      PROVE  FALSE
  <2> DEFINE Z == N \ {a}
  <2>1. a # r
    BY <1>2, <1>3
  <2>2. Z \in SUBSET N /\ r \in Z
    BY <2>1 DEF TreeFrom
  <2>3. \A x, y : <<x, y>> \in E /\ x \in Z => y \in Z
    <3>1. SUFFICES ASSUME NEW x, NEW y, <<x, y>> \in E, x \in Z
                   PROVE  y \in Z
      OBVIOUS
    <3>2. y \in N
      BY <3>1 DEF TreeFrom
    <3>3. y # a
      BY <1>1, <1>3, <3>1
    <3>4. QED
      BY <3>2, <3>3
  <2>4. Z = N
    <3> HIDE DEF Z
    <3>1. QED
      BY <2>2, <2>3, TreeInduction
  <2>5. a \in N
    BY <1>3 DEF TreeFrom
  <2>6. QED
    BY <2>4, <2>5
<1>4. E \in SUBSET (N \X N)
  BY DEF TreeFrom
<1>5. QED
  BY <1>1, <1>2, <1>3, <1>4

(* A node that is reached is where one started or its parent is reached.   *)
LEMMA ParentReached ==
    ASSUME NEW N, NEW E, NEW r, TreeFrom(N, E, r), NEW x \in N,
           NEW a, NEW b, <<a, b>> \in E, b \in Reachable(N, E, x), b # x
    PROVE  a \in Reachable(N, E, x)
<1>1. E \in SUBSET (N \X N)
  BY OneParent
<1>2. PICK d \in Reachable(N, E, x) : <<d, b>> \in E
  BY <1>1, ReachableSteps
<1>3. d = a
  BY <1>2, OneParent
<1>4. QED
  BY <1>2, <1>3

(* The root is below nothing. *)
LEMMA RootReached ==
    ASSUME NEW N, NEW E, NEW r, TreeFrom(N, E, r), NEW x \in N, r \in Reachable(N, E, x)
    PROVE  r = x
<1>1. E \in SUBSET (N \X N)
  BY OneParent
<1>2. SUFFICES ASSUME r # x
               PROVE  FALSE
  OBVIOUS
<1>3. PICK d \in Reachable(N, E, x) : <<d, r>> \in E
  BY <1>1, <1>2, ReachableSteps
<1>4. QED
  BY <1>3, OneParent

(* Nothing is below what is below it. *)
LEMMA TreeAcyclic ==
    ASSUME NEW N, NEW E, NEW r, TreeFrom(N, E, r), NEW x \in N, NEW y \in N,
           y \in Reachable(N, E, x), x \in Reachable(N, E, y)
    PROVE  x = y
<1> DEFINE Z == {b \in N : \A a \in N :
                    b \in Reachable(N, E, a) /\ a \in Reachable(N, E, b) => a = b}
<1>1. E \in SUBSET (N \X N) /\ r \in N
  BY DEF TreeFrom
<1>2. r \in Z
  BY <1>1, RootReached
<1>3. ASSUME NEW a, NEW b, <<a, b>> \in E, a \in Z
      PROVE  b \in Z
  <2>0. a \in N /\ b \in N
    BY <1>1, <1>3
  <2>1. SUFFICES ASSUME NEW c \in N, b \in Reachable(N, E, c), c \in Reachable(N, E, b), c # b
                 PROVE  FALSE
    BY <2>0
  <2>2. b \in Reachable(N, E, a)
    BY <1>1, <1>3, <2>0, ReachableLeast
  <2>5. a \in Reachable(N, E, c)
    BY <1>3, <2>1, ParentReached
  <2>6. c \in Reachable(N, E, a)
    BY <1>1, <2>0, <2>1, <2>2, ReachableTransitive
  <2>7. c = a
    BY <1>3, <2>1, <2>5, <2>6
  <2>8. b = a
    BY <1>3, <2>0, <2>1, <2>2, <2>7
  <2>9. QED
    BY <2>1, <2>7, <2>8
<1>4. Z \in SUBSET N
  OBVIOUS
<1>5. Z = N
  <2> HIDE DEF Z
  <2>1. QED
    BY <1>2, <1>3, <1>4, TreeInduction
<1>6. QED
  BY <1>5

(* A node is not below its child, nor is the child the node itself. *)
LEMMA NotBelowChild ==
    ASSUME NEW N, NEW E, NEW r, TreeFrom(N, E, r), NEW a, NEW b, <<a, b>> \in E
    PROVE  a \notin Reachable(N, E, b) /\ b \in Reachable(N, E, a) /\ a # b
<1>1. E \in SUBSET (N \X N) /\ a \in N /\ b \in N
  BY DEF TreeFrom
<1>2. b \in Reachable(N, E, a)
  BY <1>1, ReachableLeast
<1>3. a # b
  BY OneParent
<1>4. QED
  BY <1>1, <1>2, <1>3, TreeAcyclic

(* Two nodes with something in common below them are one below the other.  *)
LEMMA TreeComparable ==
    ASSUME NEW N, NEW E, NEW r, TreeFrom(N, E, r), NEW x \in N, NEW y \in N,
           NEW c \in Reachable(N, E, x) \cap Reachable(N, E, y)
    PROVE  x \in Reachable(N, E, y) \/ y \in Reachable(N, E, x)
<1> DEFINE Z == {b \in N : b \in Reachable(N, E, x) \cap Reachable(N, E, y) =>
                    x \in Reachable(N, E, y) \/ y \in Reachable(N, E, x)}
<1>1. E \in SUBSET (N \X N) /\ r \in N
  BY DEF TreeFrom
<1>2. r \in Z
  <2>1. CASE r \in Reachable(N, E, x)
    <3>1. r = x
      BY <2>1, RootReached
    <3>2. QED
      BY <1>1, <3>1
  <2>2. CASE r \notin Reachable(N, E, x)
    BY <1>1, <2>2
  <2>3. QED
    BY <2>1, <2>2
<1>3. ASSUME NEW a, NEW b, <<a, b>> \in E, a \in Z
      PROVE  b \in Z
  <2>0. a \in N /\ b \in N
    BY <1>1, <1>3
  <2>1. SUFFICES ASSUME b \in Reachable(N, E, x), b \in Reachable(N, E, y), b # x, b # y
                 PROVE  x \in Reachable(N, E, y) \/ y \in Reachable(N, E, x)
    BY <2>0
  <2>2. a \in Reachable(N, E, x)
    BY <1>3, <2>1, ParentReached
  <2>3. a \in Reachable(N, E, y)
    BY <1>3, <2>1, ParentReached
  <2>4. QED
    BY <1>3, <2>2, <2>3
<1>4. Z \in SUBSET N
  OBVIOUS
<1>5. Z = N
  <2> HIDE DEF Z
  <2>1. QED
    BY <1>2, <1>3, <1>4, TreeInduction
<1>6. c \in N
  BY <1>1, ReachableLeast
<1>7. QED
  BY <1>5, <1>6

(* What is below different children of a node is different. *)
LEMMA SiblingsDisjoint ==
    ASSUME NEW N, NEW E, NEW r, TreeFrom(N, E, r), NEW u, NEW x, NEW y,
           <<u, x>> \in E, <<u, y>> \in E, x # y
    PROVE  Reachable(N, E, x) \cap Reachable(N, E, y) = {}
<1>1. E \in SUBSET (N \X N) /\ x \in N /\ y \in N
  BY DEF TreeFrom
<1>2. ASSUME NEW a, NEW b, <<u, a>> \in E, <<u, b>> \in E, a # b, a \in Reachable(N, E, b)
      PROVE  FALSE
  <2>1. b \in N
    BY <1>1, <1>2
  <2>2. u \in Reachable(N, E, b)
    BY <1>2, <2>1, ParentReached
  <2>3. QED
    BY <1>2, <2>2, NotBelowChild
<1>3. QED
  BY <1>1, <1>2, TreeComparable

-----------------------------------------------------------------------------
(* Branches: what an edge of a tree leads to, away from the node at its     *)
(* other end.                                                              *)
Away(N, E, u, w) == Reachable(N, Both(E) \ {<<u, w>>, <<w, u>>}, u)

Beside(N, E, u) == {x \in N : <<u, x>> \in Both(E)}

(* Both has the edges and their converses. *)
LEMMA BothWays ==
    ASSUME NEW N, NEW E \in SUBSET (N \X N)
    PROVE  /\ \A a, b : <<a, b>> \in Both(E) <=> (<<a, b>> \in E \/ <<b, a>> \in E)
           /\ Both(E) \in SUBSET (N \X N)
<1>1. ASSUME NEW a, NEW b, <<a, b>> \in Both(E), <<a, b>> \notin E
      PROVE  <<b, a>> \in E
  <2>1. PICK e \in E : <<a, b>> = <<e[2], e[1]>>
    BY <1>1 DEF Both
  <2>2. e = <<e[1], e[2]>>
    OBVIOUS
  <2>3. QED
    BY <2>1, <2>2
<1>2. ASSUME NEW a, NEW b, <<b, a>> \in E
      PROVE  <<a, b>> \in Both(E)
  <2>1. <<b, a>>[1] = b /\ <<b, a>>[2] = a
    OBVIOUS
  <2>2. QED
    BY <1>2, <2>1 DEF Both
<1>3. ASSUME NEW a, NEW b, <<a, b>> \in E
      PROVE  <<a, b>> \in Both(E)
  BY <1>3 DEF Both
<1>4. Both(E) \in SUBSET (N \X N)
  <2>1. \A e \in E : e[1] \in N /\ e[2] \in N
    OBVIOUS
  <2>2. QED
    BY <2>1 DEF Both
<1>5. QED
  BY <1>1, <1>2, <1>3, <1>4

(* A branch is the least set with its first node that is closed under all   *)
(* edges but the one it leads away from.                                   *)
LEMMA AwayLeast ==
    ASSUME NEW N, NEW E \in SUBSET (N \X N), NEW u \in N, NEW w
    PROVE  /\ u \in Away(N, E, u, w)
           /\ Away(N, E, u, w) \in SUBSET N
           /\ \A a, b : /\ <<a, b>> \in Both(E) /\ a \in Away(N, E, u, w)
                        /\ ~ (a = u /\ b = w) /\ ~ (a = w /\ b = u)
                        => b \in Away(N, E, u, w)
           /\ \A S \in SUBSET N :
                /\ u \in S
                /\ \A a, b : /\ <<a, b>> \in Both(E) /\ a \in S
                             /\ ~ (a = u /\ b = w) /\ ~ (a = w /\ b = u)
                             => b \in S
                => Away(N, E, u, w) \subseteq S
<1> DEFINE F == Both(E) \ {<<u, w>>, <<w, u>>}
<1>1. F \in SUBSET (N \X N)
  BY BothWays
<1>2. \A a, b : <<a, b>> \in F <=>
        <<a, b>> \in Both(E) /\ ~ (a = u /\ b = w) /\ ~ (a = w /\ b = u)
  OBVIOUS
<1>3. Away(N, E, u, w) = Reachable(N, F, u)
  BY DEF Away
<1> HIDE DEF F
<1>4. /\ u \in Reachable(N, F, u)
      /\ Reachable(N, F, u) \subseteq N
      /\ \A a, b : <<a, b>> \in F /\ a \in Reachable(N, F, u) => b \in Reachable(N, F, u)
      /\ \A S \in SUBSET N :
           u \in S /\ (\A a, b : <<a, b>> \in F /\ a \in S => b \in S)
               => Reachable(N, F, u) \subseteq S
  BY <1>1, ReachableLeast
<1>5. QED
  BY <1>2, <1>3, <1>4

(* The branch from a node to its child is what is below the child. *)
LEMMA BranchDown ==
    ASSUME NEW N, NEW E, NEW r, TreeFrom(N, E, r), NEW u, NEW x, <<u, x>> \in E
    PROVE  Away(N, E, x, u) \subseteq Reachable(N, E, x)
<1>1. E \in SUBSET (N \X N) /\ x \in N /\ u \in N
  BY DEF TreeFrom
<1> DEFINE S == Reachable(N, E, x)
<1>2. S \in SUBSET N /\ x \in S
  BY <1>1, ReachableLeast
<1>3. ASSUME NEW a, NEW b, <<a, b>> \in Both(E), a \in S,
             ~ (a = x /\ b = u), ~ (a = u /\ b = x)
      PROVE  b \in S
  <2>1. CASE <<a, b>> \in E
    BY <1>1, <1>3, <2>1, ReachableLeast
  <2>2. CASE <<b, a>> \in E
    <3>1. a # x
      BY <1>3, <2>2, OneParent
    <3>2. QED
      BY <1>1, <1>3, <2>2, <3>1, ParentReached
  <2>3. QED
    BY <1>1, <1>3, <2>1, <2>2, BothWays
<1>4. QED
  <2> HIDE DEF S
  <2>1. Away(N, E, x, u) \subseteq S
    BY <1>1, <1>2, <1>3, AwayLeast
  <2>2. QED
    BY <2>1 DEF S

(* The branch from a node to its parent is what is not below the node. *)
LEMMA BranchUp ==
    ASSUME NEW N, NEW E, NEW r, TreeFrom(N, E, r), NEW u, NEW x, <<x, u>> \in E
    PROVE  Away(N, E, x, u) \subseteq N \ Reachable(N, E, u)
<1>1. E \in SUBSET (N \X N) /\ x \in N /\ u \in N
  BY DEF TreeFrom
<1> DEFINE S == N \ Reachable(N, E, u)
<1>2. S \in SUBSET N /\ x \in S
  BY <1>1, NotBelowChild
<1>3. ASSUME NEW a, NEW b, <<a, b>> \in Both(E), a \in S,
             ~ (a = x /\ b = u), ~ (a = u /\ b = x)
      PROVE  b \in S
  <2>0. b \in N
    BY <1>1, <1>3, BothWays
  <2>1. CASE <<a, b>> \in E
    <3>1. b # u
      BY <1>3, <2>1, OneParent
    <3>2. QED
      BY <1>1, <1>3, <2>0, <2>1, <3>1, ParentReached
  <2>2. CASE <<b, a>> \in E
    BY <1>1, <1>3, <2>0, <2>2, ReachableLeast
  <2>3. QED
    BY <1>1, <1>3, <2>1, <2>2, BothWays
<1>4. QED
  <2> HIDE DEF S
  <2>1. Away(N, E, x, u) \subseteq S
    BY <1>1, <1>2, <1>3, AwayLeast
  <2>2. QED
    BY <2>1 DEF S

(* The branches from a node have neither it nor each other's nodes. *)
LEMMA BranchesDisjoint ==
    ASSUME NEW N, NEW E, NEW r, TreeFrom(N, E, r), NEW u \in N,
           NEW x \in Beside(N, E, u)
    PROVE  /\ u \notin Away(N, E, x, u)
           /\ \A y \in Beside(N, E, u) :
                y # x => Away(N, E, x, u) \cap Away(N, E, y, u) = {}
<1>1. E \in SUBSET (N \X N)
  BY DEF TreeFrom
<1>2. \A y \in Beside(N, E, u) : y \in N /\ (<<u, y>> \in E \/ <<y, u>> \in E)
  BY <1>1, BothWays DEF Beside
<1>3. \A y : <<u, y>> \in E => Away(N, E, y, u) \subseteq Reachable(N, E, y)
  BY BranchDown
<1>4. \A y : <<y, u>> \in E => Away(N, E, y, u) \subseteq N \ Reachable(N, E, u)
  BY BranchUp
<1>5. u \in Reachable(N, E, u)
  BY <1>1, ReachableLeast
<1>6. \A y : <<u, y>> \in E => u \notin Reachable(N, E, y)
  BY NotBelowChild
<1>7. \A y : <<u, y>> \in E => Reachable(N, E, y) \subseteq Reachable(N, E, u)
  <2>1. ASSUME NEW y, <<u, y>> \in E
        PROVE  Reachable(N, E, y) \subseteq Reachable(N, E, u)
    <3>1. y \in Reachable(N, E, u)
      BY <2>1, NotBelowChild
    <3>2. QED
      BY <1>1, <3>1, ReachableTransitive
  <2>2. QED
    BY <2>1
<1>8. u \notin Away(N, E, x, u)
  BY <1>2, <1>3, <1>4, <1>5, <1>6
<1>9. ASSUME NEW y \in Beside(N, E, u), y # x
      PROVE  Away(N, E, x, u) \cap Away(N, E, y, u) = {}
  <2>1. CASE <<u, x>> \in E /\ <<u, y>> \in E
    <3>1. Reachable(N, E, x) \cap Reachable(N, E, y) = {}
      BY <1>9, <2>1, SiblingsDisjoint
    <3>2. QED
      BY <1>3, <2>1, <3>1
  <2>2. CASE <<u, x>> \in E /\ <<y, u>> \in E
    BY <1>3, <1>4, <1>7, <2>2
  <2>3. CASE <<x, u>> \in E /\ <<u, y>> \in E
    BY <1>3, <1>4, <1>7, <2>3
  <2>4. CASE <<x, u>> \in E /\ <<y, u>> \in E
    BY <1>9, <2>4, OneParent
  <2>5. QED
    BY <1>2, <1>9, <2>1, <2>2, <2>3, <2>4
<1>10. QED
  BY <1>8, <1>9

(* A branch is its first node and the branches from there, but the one it   *)
(* leads away from.                                                        *)
LEMMA BranchParts ==
    ASSUME NEW N, NEW E, NEW r, TreeFrom(N, E, r), NEW u \in N, NEW w
    PROVE  /\ \A a \in Away(N, E, u, w) :
                a # u => \E x \in Beside(N, E, u) \ {w} : a \in Away(N, E, x, u)
           /\ \A x \in Beside(N, E, u) \ {w} : Away(N, E, x, u) \subseteq Away(N, E, u, w)
<1>1. E \in SUBSET (N \X N)
  BY DEF TreeFrom
<1>2. \A a, b : <<a, b>> \in Both(E) => a \in N /\ b \in N /\ <<b, a>> \in Both(E)
  BY <1>1, BothWays
<1> DEFINE X == Beside(N, E, u) \ {w}
           S == {u} \cup UNION {Away(N, E, x, u) : x \in X}
<1>3. \A x \in X : x \in N
  BY DEF Beside
<1>4. S \in SUBSET N
  <2>1. \A x \in X : Away(N, E, x, u) \in SUBSET N
    BY <1>1, <1>3, AwayLeast
  <2>2. QED
    BY <2>1
<1>5. ASSUME NEW a, NEW b, <<a, b>> \in Both(E), a \in S,
             ~ (a = u /\ b = w), ~ (a = w /\ b = u)
      PROVE  b \in S
  <2>1. CASE a = u
    <3>1. b \in X
      BY <1>2, <1>5, <2>1 DEF Beside
    <3>2. b \in Away(N, E, b, u)
      BY <1>1, <1>3, <3>1, AwayLeast
    <3>3. QED
      BY <3>1, <3>2
  <2>2. CASE a # u
    <3>1. PICK x \in X : a \in Away(N, E, x, u)
      BY <1>5, <2>2
    <3>2. CASE b = u
      BY <3>2
    <3>3. CASE b # u
      <4>1. b \in Away(N, E, x, u)
        BY <1>1, <1>3, <1>5, <2>2, <3>1, <3>3, AwayLeast
      <4>2. QED
        BY <3>1, <4>1
    <3>4. QED
      BY <3>2, <3>3
  <2>3. QED
    BY <2>1, <2>2
<1>6. Away(N, E, u, w) \subseteq S
  <2>1. u \in S
    OBVIOUS
  <2>2. \A a, b : /\ <<a, b>> \in Both(E) /\ a \in S
                  /\ ~ (a = u /\ b = w) /\ ~ (a = w /\ b = u)
                  => b \in S
    BY <1>5
  <2> HIDE DEF S
  <2>3. QED
    BY <1>1, <1>4, <2>1, <2>2, AwayLeast
<1>7. ASSUME NEW x \in X
      PROVE  Away(N, E, x, u) \subseteq Away(N, E, u, w)
  <2> DEFINE T == Away(N, E, x, u) \cap Away(N, E, u, w)
  <2>1. x \in N /\ x \in Away(N, E, x, u)
    BY <1>1, <1>3, AwayLeast
  <2>2. /\ Away(N, E, u, w) \in SUBSET N
        /\ u \in Away(N, E, u, w)
        /\ \A a, b : /\ <<a, b>> \in Both(E) /\ a \in Away(N, E, u, w)
                     /\ ~ (a = u /\ b = w) /\ ~ (a = w /\ b = u)
                     => b \in Away(N, E, u, w)
    BY <1>1, AwayLeast
  <2>3. u \notin Away(N, E, x, u)
    BY BranchesDisjoint
  <2>4. x # u
    BY <2>1, <2>3
  <2>5. x \in T
    BY <2>1, <2>2, <2>4 DEF Beside
  <2>6. ASSUME NEW a, NEW b, <<a, b>> \in Both(E), a \in T,
               ~ (a = x /\ b = u), ~ (a = u /\ b = x)
        PROVE  b \in T
    <3>1. b \in Away(N, E, x, u)
      BY <1>1, <2>1, <2>6, AwayLeast
    <3>2. b \in Away(N, E, u, w)
      BY <2>2, <2>3, <2>6, <3>1
    <3>3. QED
      BY <3>1, <3>2
  <2>7. T \in SUBSET N
    BY <2>2
  <2>8. \A a, b : /\ <<a, b>> \in Both(E) /\ a \in T
                  /\ ~ (a = x /\ b = u) /\ ~ (a = u /\ b = x)
                  => b \in T
    BY <2>6
  <2>9. Away(N, E, x, u) \subseteq T
    <3> HIDE DEF T
    <3>1. QED
      BY <1>1, <2>1, <2>5, <2>7, <2>8, AwayLeast
  <2>10. QED
    BY <2>9
<1>8. QED
  BY <1>6, <1>7

(* An edge of a branch that is not at its first node is in one of the       *)
(* branches from there.                                                    *)
LEMMA BranchEdges ==
    ASSUME NEW N, NEW E, NEW r, TreeFrom(N, E, r), NEW u \in N, NEW x \in Beside(N, E, u),
           NEW a \in Away(N, E, x, u), NEW b, <<a, b>> \in Both(E), b # u
    PROVE  b \in Away(N, E, x, u)
<1>1. E \in SUBSET (N \X N) /\ x \in N
  BY DEF TreeFrom, Beside
<1>2. a # u
  BY BranchesDisjoint
<1>3. QED
  BY <1>1, <1>2, AwayLeast

(* A branch that leads away from nothing is the whole tree. *)
LEMMA WholeBranch ==
    ASSUME NEW N, NEW E, NEW r, TreeFrom(N, E, r), NEW u \in N
    PROVE  Away(N, E, u, u) = N
<1> DEFINE S == Away(N, E, u, u)
           Z == {a \in N : a \in S => r \in S}
<1>1. E \in SUBSET (N \X N) /\ r \in N
  BY DEF TreeFrom
<1>2. /\ u \in S /\ S \in SUBSET N
      /\ \A a, b : <<a, b>> \in Both(E) /\ a \in S => b \in S
  <2>1. \A a, b : <<a, b>> \in Both(E) => a # b
    BY <1>1, OneParent, BothWays
  <2>2. QED
    BY <1>1, <2>1, AwayLeast
<1>3. \A a, b : <<a, b>> \in E => a \in N /\ b \in N /\ <<a, b>> \in Both(E) /\ <<b, a>> \in Both(E)
  BY <1>1, BothWays
<1> HIDE DEF S
<1>4. \A a, b : <<a, b>> \in E /\ a \in Z => b \in Z
  BY <1>2, <1>3
<1>5. Z \in SUBSET N /\ r \in Z
  BY <1>1
<1>6. Z = N
  <2> HIDE DEF Z
  <2>1. QED
    BY <1>4, <1>5, TreeInduction
<1>7. r \in S
  BY <1>2, <1>6
<1>8. \A a, b : <<a, b>> \in E /\ a \in S => b \in S
  BY <1>2, <1>3
<1>9. S = N
  BY <1>2, <1>7, <1>8, TreeInduction
<1>10. QED
  BY <1>9 DEF S

-----------------------------------------------------------------------------
(* The trace and the pattern are trees. *)
IsTree(graph) ==
    /\ Nodes(graph) = 1 .. Len(graph.nodes) /\ Len(graph.nodes) \in Nat
    /\ TreeFrom(Nodes(graph), graph.edges, FindRoot(graph))

TwoTrees(g, h) == IsTree(g) /\ IsTree(h)

(* find_root finds the root of a tree. *)
LEMMA TreeHasRoot ==
    ASSUME NEW graph, Tree(graph)
    PROVE  IsTree(graph)
<1> DEFINE N == Nodes(graph)
<1>1. N = 1 .. Len(graph.nodes) /\ Len(graph.nodes) \in Nat
  BY DEF Tree, Nodes
<1>2. PICK r \in N : /\ \A e \in graph.edges : e[2] # r
                     /\ N \subseteq Reachable(N, graph.edges, r)
  BY DEF Tree
<1>3. TreeFrom(N, graph.edges, r)
  BY <1>2 DEF Tree, TreeFrom
<1>4. graph.edges \in SUBSET (N \X N)
  BY DEF Tree
<1>5. ASSUME NEW w \in N, w # r
      PROVE  \E e \in graph.edges : e[2] = w
  <2>1. w \in Reachable(N, graph.edges, r)
    BY <1>2
  <2>2. PICK a \in Reachable(N, graph.edges, r) : <<a, w>> \in graph.edges
    BY <1>4, <1>5, <2>1, ReachableSteps
  <2>3. <<a, w>>[2] = w
    OBVIOUS
  <2>4. QED
    BY <2>2, <2>3
<1>6. \A w \in 1 .. r - 1 : w \in N /\ w # r
  BY <1>1
<1>7. FindRoot(graph) = r
  BY <1>2, <1>5, <1>6 DEF FindRoot, Nodes
<1>8. QED
  BY <1>1, <1>3, <1>7 DEF IsTree

(* f lays the branch at u, away from w, over what is at and below v.        *)
Lays(g, h, f, v, u, w) ==
    /\ f \in [Away(Nodes(h), h.edges, u, w) -> Reachable(Nodes(g), g.edges, v)]
    /\ f[u] = v
    /\ \A a, b \in Away(Nodes(h), h.edges, u, w) : f[a] = f[b] => a = b
    /\ \A a, b \in Away(Nodes(h), h.edges, u, w) :
        <<a, b>> \in h.edges => <<f[a], f[b]>> \in Both(g.edges)
    /\ \A a \in Away(Nodes(h), h.edges, u, w) \ {u} : HasPropertySubset(g.nodes[f[a]], h.nodes[a])

LEMMA EmbedsLays ==
    ASSUME NEW g, NEW h, TwoTrees(g, h), NEW v, NEW u, NEW w
    PROVE  BranchEmbeds(g, h, v, u, w) <=> \E f : Lays(g, h, f, v, u, w)
<1>1. h.edges \in SUBSET (Nodes(h) \X Nodes(h))
  BY DEF TwoTrees, IsTree, TreeFrom, Nodes
<1>2. Branch(h, u, w) = Away(Nodes(h), h.edges, u, w)
  BY DEF Branch, Away
<1> DEFINE A == Away(Nodes(h), h.edges, u, w)
           D == Reachable(Nodes(g), g.edges, v)
           E(f) == \A e \in h.edges : e[1] \in A /\ e[2] \in A
                                        => <<f[e[1]], f[e[2]]>> \in Both(g.edges)
           P(f) == \A a, b \in A : <<a, b>> \in h.edges => <<f[a], f[b]>> \in Both(g.edges)
<1>3. ASSUME NEW f
      PROVE  E(f) <=> P(f)
  <2>1. ASSUME E(f), NEW a \in A, NEW b \in A, <<a, b>> \in h.edges
        PROVE  <<f[a], f[b]>> \in Both(g.edges)
    <3>1. <<a, b>>[1] = a /\ <<a, b>>[2] = b
      OBVIOUS
    <3>2. QED
      BY <2>1, <3>1
  <2>2. ASSUME P(f), NEW e \in h.edges, e[1] \in A, e[2] \in A
        PROVE  <<f[e[1]], f[e[2]]>> \in Both(g.edges)
    <3>1. <<e[1], e[2]>> \in h.edges
      BY <1>1
    <3>2. QED
      BY <2>2, <3>1
  <2>3. QED
    BY <2>1, <2>2
<1>4. BranchEmbeds(g, h, v, u, w) <=>
        \E f \in [A -> D] :
            /\ f[u] = v
            /\ \A a, b \in A : f[a] = f[b] => a = b
            /\ E(f)
            /\ \A a \in A \ {u} : HasPropertySubset(g.nodes[f[a]], h.nodes[a])
  BY <1>2 DEF BranchEmbeds
<1>5. \A f : Lays(g, h, f, v, u, w) <=>
            /\ f \in [A -> D]
            /\ f[u] = v
            /\ \A a, b \in A : f[a] = f[b] => a = b
            /\ P(f)
            /\ \A a \in A \ {u} : HasPropertySubset(g.nodes[f[a]], h.nodes[a])
  BY DEF Lays
<1> HIDE DEF A, D, E, P
<1>6. QED
  BY <1>3, <1>4, <1>5

(* Edges of the pattern are laid on edges in either direction. *)
LEMMA LaysBothWays ==
    ASSUME NEW g, NEW h, TwoTrees(g, h), NEW f, NEW v, NEW u, NEW w, Lays(g, h, f, v, u, w),
           NEW a \in Away(Nodes(h), h.edges, u, w), NEW b \in Away(Nodes(h), h.edges, u, w),
           <<a, b>> \in Both(h.edges)
    PROVE  <<f[a], f[b]>> \in Both(g.edges)
<1>1. h.edges \in SUBSET (Nodes(h) \X Nodes(h)) /\ g.edges \in SUBSET (Nodes(g) \X Nodes(g))
  BY DEF TwoTrees, IsTree, TreeFrom, Nodes
<1>2. CASE <<a, b>> \in h.edges
  BY <1>2 DEF Lays
<1>3. CASE <<b, a>> \in h.edges
  <2>1. <<f[b], f[a]>> \in Both(g.edges)
    BY <1>3 DEF Lays
  <2>2. QED
    BY <1>1, <2>1, BothWays
<1>4. QED
  BY <1>1, <1>2, <1>3, BothWays

(* A branch is laid over the trace by laying the branches from its first    *)
(* node over different children.                                           *)
LEMMA BranchGrows ==
    ASSUME NEW g, NEW h, TwoTrees(g, h), NEW v \in Nodes(g), NEW u \in Nodes(h), NEW w, NEW k,
           \A x \in Neighbours(h, u) \ {w} :
                /\ <<v, k[x]>> \in g.edges
                /\ BranchEmbeds(g, h, k[x], x, u)
                /\ HasPropertySubset(g.nodes[k[x]], h.nodes[x]),
           \A x, y \in Neighbours(h, u) \ {w} : k[x] = k[y] => x = y
    PROVE  BranchEmbeds(g, h, v, u, w)
<1> DEFINE X == Neighbours(h, u) \ {w}
           A(a, b) == Away(Nodes(h), h.edges, a, b)
           D(b) == Reachable(Nodes(g), g.edges, b)
<1>1. /\ TreeFrom(Nodes(h), h.edges, FindRoot(h)) /\ TreeFrom(Nodes(g), g.edges, FindRoot(g))
      /\ h.edges \in SUBSET (Nodes(h) \X Nodes(h)) /\ g.edges \in SUBSET (Nodes(g) \X Nodes(g))
  BY DEF TwoTrees, IsTree, TreeFrom, Nodes
<1>2. Neighbours(h, u) = Beside(Nodes(h), h.edges, u)
  BY DEF Neighbours, Beside, Nodes
<1>3. \A x \in X : \E f : Lays(g, h, f, k[x], x, u)
  BY EmbedsLays
<1> DEFINE part == [x \in X |-> CHOOSE f : Lays(g, h, f, k[x], x, u)]
           owner(a) == CHOOSE x \in X : a \in A(x, u)
           F == [a \in A(u, w) |-> IF a = u THEN v ELSE part[owner(a)][a]]
<1>4. \A x \in X : Lays(g, h, part[x], k[x], x, u)
  BY <1>3
<1>5. \A x \in X : x \in Nodes(h) /\ <<u, x>> \in Both(h.edges)
  BY <1>2 DEF Beside
<1>6. /\ u \in A(u, w)
      /\ \A x \in X : x \in A(x, u) /\ A(x, u) \subseteq A(u, w)
      /\ \A x \in X : u \notin A(x, u)
      /\ \A a \in A(u, w) \ {u} : \E x \in X : a \in A(x, u)
      /\ \A x, y \in X : x # y => A(x, u) \cap A(y, u) = {}
  <2>1. u \in A(u, w)
    BY <1>1, AwayLeast
  <2>2. \A x \in X : x \in A(x, u)
    BY <1>1, <1>5, AwayLeast
  <2>3. \A x \in X : A(x, u) \subseteq A(u, w)
    BY <1>1, <1>2, BranchParts
  <2>4. \A a \in A(u, w) \ {u} : \E x \in X : a \in A(x, u)
    BY <1>1, <1>2, BranchParts
  <2>5. \A x \in X : u \notin A(x, u)
    BY <1>1, <1>2, BranchesDisjoint
  <2>6. \A x, y \in X : x # y => A(x, u) \cap A(y, u) = {}
    BY <1>1, <1>2, BranchesDisjoint
  <2>7. QED
    BY <2>1, <2>2, <2>3, <2>4, <2>5, <2>6
<1>7. \A a \in A(u, w) \ {u} : owner(a) \in X /\ a \in A(owner(a), u)
  BY <1>6
<1>8. \A x \in X : \A a \in A(x, u) : a \in A(u, w) \ {u} /\ owner(a) = x
  BY <1>6, <1>7
<1>9. F[u] = v
  BY <1>6
<1>10. \A x \in X : \A a \in A(x, u) : F[a] = part[x][a]
  BY <1>8
<1>11. \A x \in X : \A a \in A(x, u) : F[a] \in D(k[x])
  <2>1. ASSUME NEW x \in X, NEW a \in A(x, u)
        PROVE  F[a] \in D(k[x])
    <3>1. part[x] \in [A(x, u) -> D(k[x])]
      BY <1>4 DEF Lays
    <3>2. F[a] = part[x][a]
      BY <1>10
    <3> HIDE DEF part, F, D
    <3>3. QED
      BY <3>1, <3>2
  <2>2. QED
    BY <2>1
<1>12. \A x \in X : F[x] = k[x]
  BY <1>4, <1>6, <1>10 DEF Lays
<1>13. \A x \in X : D(k[x]) \subseteq D(v) /\ v \notin D(k[x])
  <2>1. ASSUME NEW x \in X
        PROVE  D(k[x]) \subseteq D(v) /\ v \notin D(k[x])
    <3>1. <<v, k[x]>> \in g.edges
      OBVIOUS
    <3>2. k[x] \in D(v) /\ v \notin D(k[x])
      BY <1>1, <3>1, NotBelowChild
    <3>3. QED
      BY <1>1, <3>2, ReachableTransitive
  <2>2. QED
    BY <2>1
<1>14. \A x, y \in X : x # y => D(k[x]) \cap D(k[y]) = {}
  <2>1. ASSUME NEW x \in X, NEW y \in X, x # y
        PROVE  D(k[x]) \cap D(k[y]) = {}
    <3>1. <<v, k[x]>> \in g.edges /\ <<v, k[y]>> \in g.edges /\ k[x] # k[y]
      BY <2>1
    <3>2. QED
      BY <1>1, <3>1, SiblingsDisjoint
  <2>2. QED
    BY <2>1
<1>15. v \in D(v)
  BY <1>1, ReachableLeast
<1> HIDE DEF part, owner, D
<1>16. F \in [A(u, w) -> D(v)]
  <2>1. \A a \in A(u, w) : F[a] \in D(v)
    <3> HIDE DEF F
    <3>1. QED
      BY <1>7, <1>9, <1>11, <1>13, <1>15
  <2>2. QED
    BY <2>1
<1> HIDE DEF F
<1>17. ASSUME NEW a \in A(u, w), NEW b \in A(u, w), F[a] = F[b]
       PROVE  a = b
  <2>1. CASE a = u \/ b = u
    BY <1>7, <1>9, <1>11, <1>13, <1>17, <2>1
  <2>2. CASE a # u /\ b # u
    <3>1. PICK x \in X, y \in X : a \in A(x, u) /\ b \in A(y, u)
      BY <1>7, <2>2
    <3>2. x = y
      BY <1>11, <1>14, <1>17, <3>1
    <3>3. part[x][a] = part[x][b]
      BY <1>10, <1>17, <3>1, <3>2
    <3>4. QED
      BY <1>4, <3>1, <3>2, <3>3 DEF Lays
  <2>3. QED
    BY <2>1, <2>2
<1>18. ASSUME NEW a \in A(u, w), NEW b \in A(u, w), <<a, b>> \in h.edges
       PROVE  <<F[a], F[b]>> \in Both(g.edges)
  <2>0. <<a, b>> \in Both(h.edges) /\ <<b, a>> \in Both(h.edges)
    BY <1>1, <1>18, BothWays
  <2>1. ASSUME NEW c \in A(u, w), <<u, c>> \in Both(h.edges)
        PROVE  <<v, F[c]>> \in g.edges
    <3>1. c # u
      BY <1>1, <2>1, OneParent, BothWays
    <3>2. PICK x \in X : c \in A(x, u)
      BY <1>6, <3>1
    <3>3. c \in Neighbours(h, u)
      BY <1>1, <1>2, <2>1, BothWays DEF Beside
    <3>4. c \in A(c, u) /\ (c # x => A(c, u) \cap A(x, u) = {})
      BY <1>1, <1>2, <3>3, AwayLeast, BranchesDisjoint DEF Beside
    <3>5. c = x
      BY <3>2, <3>4
    <3>6. QED
      BY <1>12, <3>5
  <2>2. CASE a = u
    <3>1. <<v, F[b]>> \in g.edges
      BY <2>0, <2>1, <2>2
    <3>2. QED
      BY <1>1, <1>9, <2>2, <3>1, BothWays
  <2>3. CASE b = u
    <3>1. <<v, F[a]>> \in g.edges
      BY <2>0, <2>1, <2>3
    <3>2. QED
      BY <1>1, <1>9, <2>3, <3>1, BothWays
  <2>4. CASE a # u /\ b # u
    <3>1. PICK x \in X : a \in A(x, u)
      BY <1>6, <2>4
    <3>2. b \in A(x, u)
      BY <1>1, <1>2, <2>0, <2>4, <3>1, BranchEdges
    <3>3. <<part[x][a], part[x][b]>> \in Both(g.edges)
      BY <1>4, <1>18, <3>1, <3>2 DEF Lays
    <3>4. QED
      BY <1>10, <3>1, <3>2, <3>3
  <2>5. QED
    BY <2>2, <2>3, <2>4
<1>19. ASSUME NEW a \in A(u, w) \ {u}
       PROVE  HasPropertySubset(g.nodes[F[a]], h.nodes[a])
  <2>1. PICK x \in X : a \in A(x, u)
    BY <1>6
  <2>2. CASE a = x
    BY <1>12, <2>2
  <2>3. CASE a # x
    <3>1. HasPropertySubset(g.nodes[part[x][a]], h.nodes[a])
      BY <1>4, <2>1, <2>3 DEF Lays
    <3>2. QED
      BY <1>10, <2>1, <3>1
  <2>4. QED
    BY <2>2, <2>3
<1>20. Lays(g, h, F, v, u, w)
  BY <1>9, <1>16, <1>17, <1>18, <1>19 DEF Lays, D
<1>21. QED
  BY <1>20, EmbedsLays

(* Conversely, the neighbours of u are laid on different children of v, and *)
(* the branches from there below them.                                     *)
LEMMA BranchShrinks ==
    ASSUME NEW g, NEW h, TwoTrees(g, h), NEW v \in Nodes(g), NEW u \in Nodes(h), NEW w, NEW f, Lays(g, h, f, v, u, w)
    PROVE  /\ \A x \in Neighbours(h, u) \ {w} :
                /\ <<v, f[x]>> \in g.edges
                /\ BranchEmbeds(g, h, f[x], x, u)
                /\ HasPropertySubset(g.nodes[f[x]], h.nodes[x])
           /\ \A x, y \in Neighbours(h, u) \ {w} : f[x] = f[y] => x = y
<1> DEFINE X == Neighbours(h, u) \ {w}
           A(a, b) == Away(Nodes(h), h.edges, a, b)
           D(b) == Reachable(Nodes(g), g.edges, b)
<1>1. /\ TreeFrom(Nodes(h), h.edges, FindRoot(h)) /\ TreeFrom(Nodes(g), g.edges, FindRoot(g))
      /\ h.edges \in SUBSET (Nodes(h) \X Nodes(h)) /\ g.edges \in SUBSET (Nodes(g) \X Nodes(g))
  BY DEF TwoTrees, IsTree, TreeFrom, Nodes
<1>2. Neighbours(h, u) = Beside(Nodes(h), h.edges, u)
  BY DEF Neighbours, Beside, Nodes
<1>3. \A x \in X : x \in Nodes(h) /\ <<u, x>> \in Both(h.edges)
  BY <1>2 DEF Beside
<1>4. u \in A(u, w)
  BY <1>1, AwayLeast
<1>5. \A x \in X : /\ x \in A(x, u) /\ A(x, u) \subseteq A(u, w)
                   /\ u \notin A(x, u) /\ x # u
  <2>1. \A x \in X : x \in A(x, u)
    BY <1>1, <1>3, AwayLeast
  <2>2. \A x \in X : A(x, u) \subseteq A(u, w)
    BY <1>1, <1>2, BranchParts
  <2>3. \A x \in X : u \notin A(x, u)
    BY <1>1, <1>2, BranchesDisjoint
  <2>4. QED
    BY <2>1, <2>2, <2>3
<1>6. /\ f \in [A(u, w) -> D(v)]
      /\ f[u] = v
      /\ \A a, b \in A(u, w) : f[a] = f[b] => a = b
      /\ \A a, b \in A(u, w) : <<a, b>> \in h.edges => <<f[a], f[b]>> \in Both(g.edges)
      /\ \A a \in A(u, w) \ {u} : HasPropertySubset(g.nodes[f[a]], h.nodes[a])
  BY DEF Lays
<1>7. D(v) \subseteq Nodes(g)
  <2>1. g.edges \in SUBSET (Nodes(g) \X Nodes(g))
    BY <1>1
  <2>2. QED
    BY <2>1, ReachableLeast
<1>8. ASSUME NEW x \in X
      PROVE  /\ <<v, f[x]>> \in g.edges
             /\ Lays(g, h, [a \in A(x, u) |-> f[a]], f[x], x, u)
  <2>1. x \in A(u, w) /\ f[x] \in D(v) /\ f[x] \in Nodes(g)
    BY <1>5, <1>6, <1>7
  <2>2. <<v, f[x]>> \in Both(g.edges)
    BY <1>3, <1>4, <1>6, <2>1, LaysBothWays
  <2>3. <<v, f[x]>> \in g.edges
    <3>1. <<f[x], v>> \notin g.edges
      BY <1>1, <2>1, NotBelowChild
    <3>2. QED
      BY <1>1, <2>2, <3>1, BothWays
  <2> DEFINE S == {a \in A(x, u) : f[a] \in D(f[x])}
  <2>4. S \in SUBSET Nodes(h) /\ x \in S
    <3>1. A(x, u) \in SUBSET Nodes(h)
      BY <1>1, <1>3, AwayLeast
    <3>2. f[x] \in D(f[x])
      BY <1>1, <2>1, ReachableLeast
    <3>3. QED
      BY <1>5, <3>1, <3>2
  <2>5. ASSUME NEW a, NEW b, <<a, b>> \in Both(h.edges), a \in S,
               ~ (a = x /\ b = u), ~ (a = u /\ b = x)
        PROVE  b \in S
    <3>1. b \in A(x, u)
      BY <1>1, <1>3, <2>5, AwayLeast
    <3>2. a \in A(u, w) /\ b \in A(u, w) /\ b # u
      BY <1>5, <2>5, <3>1
    <3>3. <<f[a], f[b]>> \in Both(g.edges)
      BY <2>5, <3>2, LaysBothWays
    <3>4. f[a] \in D(f[x])
      BY <2>5
    <3>5. CASE <<f[a], f[b]>> \in g.edges
      <4>1. f[b] \in D(f[x])
        BY <1>1, <2>1, <3>4, <3>5, ReachableLeast
      <4>2. QED
        BY <3>1, <4>1
    <3>6. CASE <<f[b], f[a]>> \in g.edges
      <4>1. f[a] # f[x]
        <5>1. SUFFICES ASSUME f[a] = f[x]
                       PROVE  FALSE
          OBVIOUS
        <5>2. f[b] = v
          BY <1>1, <2>3, <3>6, <5>1, OneParent
        <5>3. QED
          BY <1>4, <1>6, <3>2, <5>2
      <4>2. f[b] \in D(f[x])
        BY <1>1, <2>1, <3>4, <3>6, <4>1, ParentReached
      <4>3. QED
        BY <3>1, <4>2
    <3>7. QED
      BY <1>1, <3>3, <3>5, <3>6, BothWays
  <2>6. A(x, u) \subseteq S
    <3>1. \A a, b : /\ <<a, b>> \in Both(h.edges) /\ a \in S
                    /\ ~ (a = x /\ b = u) /\ ~ (a = u /\ b = x)
                    => b \in S
      BY <2>5
    <3>2. /\ h.edges \in SUBSET (Nodes(h) \X Nodes(h))
          /\ S \in SUBSET Nodes(h) /\ x \in S /\ x \in Nodes(h)
      BY <1>1, <1>3, <2>4
    <3> HIDE DEF S
    <3>3. Away(Nodes(h), h.edges, x, u) \subseteq S
      BY <3>1, <3>2, AwayLeast
    <3>4. QED
      BY <3>3
  <2> DEFINE F == [a \in A(x, u) |-> f[a]]
  <2>7. F \in [A(x, u) -> D(f[x])]
    BY <2>6
  <2>8. \A a \in A(x, u) : F[a] = f[a] /\ a \in A(u, w) /\ a # u
    BY <1>5
  <2>9. F[x] = f[x]
    BY <1>5
  <2> HIDE DEF F
  <2>10. \A a, b \in A(x, u) : F[a] = F[b] => a = b
    BY <1>6, <2>8
  <2>11. \A a, b \in A(x, u) : <<a, b>> \in h.edges => <<F[a], F[b]>> \in Both(g.edges)
    BY <1>6, <2>8
  <2>12. \A a \in A(x, u) \ {x} : HasPropertySubset(g.nodes[F[a]], h.nodes[a])
    BY <1>6, <2>8
  <2>13. Lays(g, h, F, f[x], x, u)
    BY <2>7, <2>9, <2>10, <2>11, <2>12 DEF Lays
  <2>14. QED
    BY <2>3, <2>13 DEF F
<1>9. \A x \in X : BranchEmbeds(g, h, f[x], x, u)
  BY <1>8, EmbedsLays
<1>10. \A x \in X : HasPropertySubset(g.nodes[f[x]], h.nodes[x])
  BY <1>5, <1>6
<1>11. \A x, y \in X : f[x] = f[y] => x = y
  BY <1>5, <1>6
<1>12. QED
  BY <1>8, <1>9, <1>10, <1>11

(* The whole pattern seen from its root is laid over the trace, each edge   *)
(* on a call in its direction.                                             *)
LEMMA WholeEmbeds ==
    ASSUME NEW g, NEW h, TwoTrees(g, h), NEW v \in Nodes(g)
    PROVE  EmbedsAt(h, g.nodes, g.edges, v) <=>
             /\ BranchEmbeds(g, h, v, FindRoot(h), FindRoot(h))
             /\ HasPropertySubset(g.nodes[v], h.nodes[FindRoot(h)])
<1> DEFINE r == FindRoot(h)
           D == Reachable(Nodes(g), g.edges, v)
<1>1. /\ TreeFrom(Nodes(h), h.edges, r) /\ TreeFrom(Nodes(g), g.edges, FindRoot(g))
      /\ h.edges \in SUBSET (Nodes(h) \X Nodes(h)) /\ g.edges \in SUBSET (Nodes(g) \X Nodes(g)) /\ r \in Nodes(h)
  BY DEF TwoTrees, IsTree, TreeFrom, Nodes
<1>2. Away(Nodes(h), h.edges, r, r) = Nodes(h)
  BY <1>1, WholeBranch
<1>3. D \subseteq Nodes(g) /\ v \in D
  BY <1>1, ReachableLeast
<1>4. \A e \in h.edges : e = <<e[1], e[2]>> /\ e[1] \in Nodes(h) /\ e[2] \in Nodes(h)
  BY <1>1
<1> DEFINE Fits(f) ==
        /\ f[r] = v
        /\ \A a, b \in Nodes(h) : f[a] = f[b] => a = b
        /\ \A a, b : <<a, b>> \in h.edges => <<f[a], f[b]>> \in g.edges
        /\ \A a \in Nodes(h) : HasPropertySubset(g.nodes[f[a]], h.nodes[a])
<1>5. EmbedsAt(h, g.nodes, g.edges, v) <=> \E f \in [Nodes(h) -> Nodes(g)] : Fits(f)
  <2>1. EmbedsAt(h, g.nodes, g.edges, v) <=>
        \E f \in [Nodes(h) -> Nodes(g)] :
            /\ f[r] = v
            /\ \A a, b \in Nodes(h) : f[a] = f[b] => a = b
            /\ \A e \in h.edges : <<f[e[1]], f[e[2]]>> \in g.edges
            /\ \A a \in Nodes(h) : HasPropertySubset(g.nodes[f[a]], h.nodes[a])
    BY DEF EmbedsAt, Nodes
  <2>2. ASSUME NEW f
        PROVE  (\A e \in h.edges : <<f[e[1]], f[e[2]]>> \in g.edges)
                <=> (\A a, b : <<a, b>> \in h.edges => <<f[a], f[b]>> \in g.edges)
    <3>1. ASSUME \A e \in h.edges : <<f[e[1]], f[e[2]]>> \in g.edges,
                 NEW a, NEW b, <<a, b>> \in h.edges
          PROVE  <<f[a], f[b]>> \in g.edges
      <4>1. <<a, b>>[1] = a /\ <<a, b>>[2] = b
        OBVIOUS
      <4>2. QED
        BY <3>1, <4>1
    <3>2. ASSUME \A a, b : <<a, b>> \in h.edges => <<f[a], f[b]>> \in g.edges,
                 NEW e \in h.edges
          PROVE  <<f[e[1]], f[e[2]]>> \in g.edges
      BY <1>4, <3>2
    <3>3. QED
      BY <3>1, <3>2
  <2>3. QED
    BY <2>1, <2>2
<1>6. ASSUME NEW f \in [Nodes(h) -> Nodes(g)], Fits(f)
      PROVE  Lays(g, h, f, v, r, r) /\ HasPropertySubset(g.nodes[v], h.nodes[r])
  <2> DEFINE Z == {a \in Nodes(h) : f[a] \in D}
  <2>1. Z \in SUBSET Nodes(h) /\ r \in Z
    BY <1>1, <1>3, <1>6
  <2>2. ASSUME NEW a, NEW b, <<a, b>> \in h.edges, a \in Z
        PROVE  b \in Z
    <3>1. <<f[a], f[b]>> \in g.edges /\ b \in Nodes(h)
      BY <1>1, <1>6, <2>2
    <3>2. f[b] \in D
      BY <1>1, <2>2, <3>1, ReachableLeast
    <3>3. QED
      BY <3>1, <3>2
  <2>3. Z = Nodes(h)
    <3>1. \A a, b : <<a, b>> \in h.edges /\ a \in Z => b \in Z
      BY <2>2
    <3> HIDE DEF Z
    <3>2. QED
      BY <1>1, <2>1, <3>1, TreeInduction
  <2>4. f \in [Nodes(h) -> D]
    BY <2>3
  <2>5. \A a, b \in Nodes(h) : <<a, b>> \in h.edges => <<f[a], f[b]>> \in Both(g.edges)
    BY <1>1, <1>6, BothWays
  <2>6. QED
    BY <1>1, <1>2, <1>6, <2>4, <2>5 DEF Lays
<1>7. ASSUME NEW f, Lays(g, h, f, v, r, r), HasPropertySubset(g.nodes[v], h.nodes[r])
      PROVE  f \in [Nodes(h) -> Nodes(g)] /\ Fits(f)
  <2>1. /\ f \in [Nodes(h) -> D]
        /\ f[r] = v
        /\ \A a, b \in Nodes(h) : f[a] = f[b] => a = b
        /\ \A a, b \in Nodes(h) : <<a, b>> \in h.edges => <<f[a], f[b]>> \in Both(g.edges)
        /\ \A a \in Nodes(h) \ {r} : HasPropertySubset(g.nodes[f[a]], h.nodes[a])
    BY <1>2, <1>7 DEF Lays
  <2>2. f \in [Nodes(h) -> Nodes(g)]
    BY <1>3, <2>1
  <2>3. \A a \in Nodes(h) : HasPropertySubset(g.nodes[f[a]], h.nodes[a])
    BY <1>7, <2>1
  <2> DEFINE Z == {a \in Nodes(h) : \A p : <<p, a>> \in h.edges => <<f[p], f[a]>> \in g.edges}
  <2>4. Z \in SUBSET Nodes(h) /\ r \in Z
    BY <1>1, OneParent
  <2>5. ASSUME NEW a, NEW b, <<a, b>> \in h.edges, a \in Z
        PROVE  b \in Z
    <3>1. a \in Nodes(h) /\ b \in Nodes(h) /\ <<f[a], f[b]>> \in Both(g.edges)
      BY <1>1, <2>1, <2>5
    <3>2. <<f[b], f[a]>> \notin g.edges
      <4>1. SUFFICES ASSUME <<f[b], f[a]>> \in g.edges
                     PROVE  FALSE
        OBVIOUS
      <4>2. CASE a = r
        <5>1. f[b] \in D /\ f[a] = v
          BY <2>1, <3>1, <4>2
        <5>2. QED
          BY <1>1, <4>1, <5>1, NotBelowChild
      <4>3. CASE a # r
        <5>1. a \in Reachable(Nodes(h), h.edges, r)
          BY <1>1, <3>1 DEF TreeFrom
        <5>2. PICK p \in Reachable(Nodes(h), h.edges, r) : <<p, a>> \in h.edges
          BY <1>1, <4>3, <5>1, ReachableSteps
        <5>3. p \in Nodes(h)
          BY <1>1, <5>2
        <5>4. <<f[p], f[a]>> \in g.edges
          BY <2>5, <5>2
        <5>5. f[p] = f[b]
          BY <1>1, <4>1, <5>4, OneParent
        <5>6. p = b
          BY <2>1, <3>1, <5>3, <5>5
        <5>7. a \in Reachable(Nodes(h), h.edges, b)
          BY <1>1, <5>2, <5>6, NotBelowChild
        <5>8. QED
          BY <1>1, <2>5, <5>7, NotBelowChild
      <4>4. QED
        BY <4>2, <4>3
    <3>3. <<f[a], f[b]>> \in g.edges
      BY <1>1, <3>1, <3>2, BothWays
    <3>4. \A p : <<p, b>> \in h.edges => p = a
      BY <1>1, <2>5, OneParent
    <3>5. QED
      BY <3>1, <3>3, <3>4
  <2>6. Z = Nodes(h)
    <3>1. \A a, b : <<a, b>> \in h.edges /\ a \in Z => b \in Z
      BY <2>5
    <3> HIDE DEF Z
    <3>2. QED
      BY <1>1, <2>4, <3>1, TreeInduction
  <2>7. \A a, b : <<a, b>> \in h.edges => <<f[a], f[b]>> \in g.edges
    BY <1>1, <2>6
  <2>8. QED
    BY <2>1, <2>2, <2>3, <2>7
<1>8. BranchEmbeds(g, h, v, r, r) <=> \E f : Lays(g, h, f, v, r, r)
  BY EmbedsLays
<1> HIDE DEF Fits, r
<1>9. QED
  BY <1>5, <1>6, <1>7, <1>8 DEF r

-----------------------------------------------------------------------------
(* Matchings. *)
LEMMA CountInjective ==
    ASSUME NEW S, NEW T, IsFiniteSet(T), NEW k,
           \A x \in S : k[x] \in T, \A x, y \in S : k[x] = k[y] => x = y
    PROVE  IsFiniteSet(S) /\ Cardinality(S) <= Cardinality(T)
<1> DEFINE F == [x \in S |-> k[x]]
<1>1. F \in Injection(S, T)
  BY DEF Injection, IsInjective
<1>2. QED
  BY <1>1, FS_Injection

(* If X can be sent along the edges injectively, there is a matching, and   *)
(* there are edges enough.                                                 *)
LEMMA MatchingFromMap ==
    ASSUME NEW X, IsFiniteSet(X), NEW edges, IsFiniteSet(edges), NEW k,
           \A x \in X : <<x, k[x]>> \in edges,
           \A x, y \in X : k[x] = k[y] => x = y
    PROVE  Matchings(edges, X) # {} /\ Cardinality(X) <= Cardinality(edges)
<1> DEFINE F == [x \in X |-> <<x, k[x]>>]
           m == {<<x, k[x]>> : x \in X}
<1>1. m \in SUBSET edges
  OBVIOUS
<1>2. F \in Bijection(X, m)
  BY DEF Bijection, Injection, Surjection, IsInjective
<1>3. Cardinality(m) = Cardinality(X)
  BY <1>2, FS_Bijection DEF ExistsBijection
<1>4. Cardinality(m) <= Cardinality(edges)
  BY <1>1, FS_Subset
<1>5. \A p \in m : \E x \in X : p = <<x, k[x]>> /\ p[1] = x /\ p[2] = k[x]
  OBVIOUS
<1>6. \A x \in X : \E p \in m : p[1] = x
  <2>1. \A x \in X : <<x, k[x]>> \in m /\ <<x, k[x]>>[1] = x
    OBVIOUS
  <2> HIDE DEF m
  <2>2. QED
    BY <2>1
<1>7. \A p, q \in m : p[1] = q[1] \/ p[2] = q[2] => p = q
  <2> HIDE DEF m
  <2>1. QED
    BY <1>5
<1> HIDE DEF m
<1>8. m \in Matchings(edges, X)
  BY <1>1, <1>3, <1>6, <1>7 DEF Matchings
<1>9. QED
  BY <1>3, <1>4, <1>8

(* A matching sends X along the edges injectively. *)
LEMMA MapFromMatching ==
    ASSUME NEW X, NEW edges, \A p \in edges : p = <<p[1], p[2]>>,
           Matchings(edges, X) # {}
    PROVE  \E k : /\ \A x \in X : <<x, k[x]>> \in edges
                  /\ \A x, y \in X : k[x] = k[y] => x = y
<1>1. PICK m \in SUBSET edges :
        /\ \A x \in X : \E p \in m : p[1] = x
        /\ \A p, q \in m : p[1] = q[1] \/ p[2] = q[2] => p = q
  BY DEF Matchings
<1> DEFINE pair(x) == CHOOSE p \in m : p[1] = x
           k == [x \in X |-> pair(x)[2]]
<1>2. \A x \in X : pair(x) \in m /\ pair(x)[1] = x
  BY <1>1
<1>3. \A p \in m : p = <<p[1], p[2]>> /\ p \in edges
  OBVIOUS
<1> HIDE DEF pair
<1>4. \A x \in X : <<x, k[x]>> \in edges
  BY <1>2, <1>3
<1>5. \A x, y \in X : k[x] = k[y] => x = y
  <2>1. ASSUME NEW x \in X, NEW y \in X, k[x] = k[y]
        PROVE  x = y
    <3>1. pair(x)[2] = pair(y)[2]
      BY <2>1
    <3>2. pair(x) = pair(y)
      BY <1>1, <1>2, <3>1
    <3>3. QED
      BY <1>2, <3>2
  <2>2. QED
    BY <2>1
<1>6. QED
  BY <1>4, <1>5

-----------------------------------------------------------------------------
(* The nodes of both trees, and the neighbours of a node, are finitely many. *)
LEMMA FiniteNodes ==
    ASSUME NEW g, NEW h, NEW keys, TwoTrees(g, h), NEW v, NEW u
    PROVE  /\ IsFiniteSet(Neighbours(h, u)) /\ IsFiniteSet(Neighbours(g, v))
           /\ IsFiniteSet(MatchEdges(g, h, keys, v, u))
           /\ MatchEdges(g, h, keys, v, u) \in SUBSET (Neighbours(h, u) \X Neighbours(g, v))
<1>1. IsFiniteSet(Nodes(g)) /\ IsFiniteSet(Nodes(h))
  BY FS_Interval DEF TwoTrees, IsTree
<1>2. /\ Neighbours(h, u) \in SUBSET (Nodes(h))
      /\ Neighbours(g, v) \in SUBSET (Nodes(g))
  BY DEF Neighbours
<1>3. IsFiniteSet(Neighbours(h, u)) /\ IsFiniteSet(Neighbours(g, v))
  BY <1>1, <1>2, FS_Subset
<1>4. IsFiniteSet(Neighbours(h, u) \X Neighbours(g, v))
  BY <1>3, FS_Product
<1>5. MatchEdges(g, h, keys, v, u) \in SUBSET (Neighbours(h, u) \X Neighbours(g, v))
  BY DEF MatchEdges
<1>6. QED
  BY <1>3, <1>4, <1>5, FS_Subset

(* What max_matching claims is true, if what it reads is: nothing is        *)
(* claimed yet for the node that leads to v, and only what can be laid at   *)
(* and below the nodes v leads to.                                         *)
LEMMA MaxMatchingSound ==
    ASSUME NEW g, NEW h, NEW keys, TwoTrees(g, h), NEW v \in Nodes(g), NEW u \in Nodes(h),
           \A p \in Nodes(g) : <<p, v>> \in g.edges => \A x \in Nodes(h) : keys[<<p, x>>] = {},
           \A y \in Nodes(g) : <<v, y>> \in g.edges =>
                \A x \in Neighbours(h, u) : u \in keys[<<y, x>>] => BranchEmbeds(g, h, y, x, u),
           NEW w \in MaxMatching(g, h, keys, v, u)
    PROVE  w \in Neighbours(h, u) \cup {u} /\ BranchEmbeds(g, h, v, u, w)
<1> DEFINE X == Neighbours(h, u)
<1>1. /\ w \in X \cup {u}
      /\ Matchings(MatchEdges(g, h, keys, v, u), X \ {w}) # {}
  BY DEF MaxMatching
<1>2. \A p \in MatchEdges(g, h, keys, v, u) : p = <<p[1], p[2]>>
  BY DEF MatchEdges
<1>3. PICK k : /\ \A x \in X \ {w} : <<x, k[x]>> \in MatchEdges(g, h, keys, v, u)
               /\ \A x, y \in X \ {w} : k[x] = k[y] => x = y
  <2> HIDE DEF X
  <2>1. QED
    BY <1>1, <1>2, MapFromMatching
<1>4. ASSUME NEW x \in X \ {w}
      PROVE  /\ <<v, k[x]>> \in g.edges
             /\ BranchEmbeds(g, h, k[x], x, u)
             /\ HasPropertySubset(g.nodes[k[x]], h.nodes[x])
  <2>1. <<x, k[x]>>[1] = x /\ <<x, k[x]>>[2] = k[x]
    OBVIOUS
  <2>2. /\ x \in Nodes(h)
        /\ k[x] \in Nodes(g) /\ <<v, k[x]>> \in Both(g.edges)
        /\ u \in keys[<<k[x], x>>]
        /\ HasPropertySubset(g.nodes[k[x]], h.nodes[x])
    BY <1>3, <2>1 DEF MatchEdges, Neighbours, Nodes
  <2>3. <<k[x], v>> \notin g.edges
    BY <2>2
  <2>4. <<v, k[x]>> \in g.edges
    <3>1. g.edges \in SUBSET (Nodes(g) \X Nodes(g))
      BY DEF TwoTrees, IsTree, TreeFrom, Nodes
    <3>2. QED
      BY <2>2, <2>3, <3>1, BothWays
  <2>5. QED
    BY <2>2, <2>4
<1> HIDE DEF X
<1>5. BranchEmbeds(g, h, v, u, w)
  BY <1>3, <1>4, BranchGrows DEF X
<1>6. QED
  BY <1>1, <1>5 DEF X

(* What can be laid over the trace max_matching claims, if what it reads    *)
(* has all there is at and below the nodes v leads to; and the loop does    *)
(* not skip u then.                                                        *)
LEMMA MaxMatchingComplete ==
    ASSUME NEW g, NEW h, NEW keys, TwoTrees(g, h), NEW v \in Nodes(g), NEW u \in Nodes(h),
           \A y \in Nodes(g) : <<v, y>> \in g.edges =>
                \A x \in Neighbours(h, u) : BranchEmbeds(g, h, y, x, u) => u \in keys[<<y, x>>],
           NEW w \in Neighbours(h, u) \cup {u}, BranchEmbeds(g, h, v, u, w)
    PROVE  w \in MaxMatching(g, h, keys, v, u) /\ DegreeFits(g, h, v, u)
<1> DEFINE X == Neighbours(h, u)
           edges == MatchEdges(g, h, keys, v, u)
<1>1. g.edges \in SUBSET (Nodes(g) \X Nodes(g))
  BY DEF TwoTrees, IsTree, TreeFrom, Nodes
<1>2. PICK f : Lays(g, h, f, v, u, w)
  BY EmbedsLays
<1>3. /\ \A x \in X \ {w} :
           /\ <<v, f[x]>> \in g.edges
           /\ BranchEmbeds(g, h, f[x], x, u)
           /\ HasPropertySubset(g.nodes[f[x]], h.nodes[x])
      /\ \A x, y \in X \ {w} : f[x] = f[y] => x = y
  BY <1>2, BranchShrinks
<1>4. \A x \in X \ {w} : f[x] \in Neighbours(g, v)
  <2>1. ASSUME NEW x \in X \ {w}
        PROVE  f[x] \in Nodes(g) /\ <<v, f[x]>> \in Both(g.edges)
    BY <1>1, <1>3, BothWays
  <2>2. QED
    BY <2>1 DEF Neighbours, Nodes
<1>5. \A x \in X \ {w} : <<x, f[x]>> \in edges
  <2>1. ASSUME NEW x \in X \ {w}
        PROVE  <<x, f[x]>> \in edges
    <3>1. f[x] \in Nodes(g)
      BY <1>1, <1>3
    <3>2. u \in keys[<<f[x], x>>]
      BY <1>3, <3>1
    <3>3. <<x, f[x]>>[1] = x /\ <<x, f[x]>>[2] = f[x]
      OBVIOUS
    <3>4. QED
      BY <1>3, <1>4, <3>2, <3>3 DEF MatchEdges
  <2>2. QED
    BY <2>1
<1>6. IsFiniteSet(X) /\ IsFiniteSet(Neighbours(g, v)) /\ IsFiniteSet(edges)
  BY FiniteNodes
<1>7. /\ IsFiniteSet(X \ {w})
      /\ Cardinality(X) <= Cardinality(X \ {w}) + 1
      /\ Cardinality(X) \in Nat /\ Cardinality(X \ {w}) \in Nat
      /\ Cardinality(edges) \in Nat /\ Cardinality(Neighbours(g, v)) \in Nat
  <2> HIDE DEF X, edges
  <2>1. /\ IsFiniteSet(X \ {w})
        /\ Cardinality(X \ {w}) = IF w \in X THEN Cardinality(X) - 1 ELSE Cardinality(X)
    BY <1>6, FS_RemoveElement
  <2>2. Cardinality(X) \in Nat /\ Cardinality(X \ {w}) \in Nat
    BY <1>6, <2>1, FS_CardinalityType
  <2>3. Cardinality(edges) \in Nat /\ Cardinality(Neighbours(g, v)) \in Nat
    BY <1>6, FS_CardinalityType
  <2>4. QED
    BY <2>1, <2>2, <2>3
<1> HIDE DEF X, edges
<1>8. Matchings(edges, X \ {w}) # {} /\ Cardinality(X \ {w}) <= Cardinality(edges)
  BY <1>3, <1>5, <1>6, <1>7, MatchingFromMap
<1>9. Cardinality(X \ {w}) <= Cardinality(Neighbours(g, v))
  BY <1>3, <1>4, <1>6, CountInjective
<1>10. ~ (Cardinality(edges) + 1 < Cardinality(X))
  BY <1>7, <1>8
<1>11. w \in MaxMatching(g, h, keys, v, u)
  BY <1>8, <1>10 DEF MaxMatching, X, edges
<1>12. Cardinality(X) <= Cardinality(Neighbours(g, v)) + 1
  BY <1>7, <1>9
<1>13. QED
  BY <1>11, <1>12 DEF DegreeFits, X

(* What is entered at a leaf of the trace is true, but for the entry a leaf *)
(* of the pattern that is not its root has for itself.                      *)
LEMMA LeafKeysSound ==
    ASSUME NEW g, NEW h, TwoTrees(g, h), NEW v \in Nodes(g), NEW u \in Nodes(h), NEW w \in LeafKeys(h, u)
    PROVE  /\ w \in Neighbours(h, u) \cup {u}
           /\ w # u \/ u = FindRoot(h) => BranchEmbeds(g, h, v, u, w)
<1>1. /\ TreeFrom(Nodes(h), h.edges, FindRoot(h)) /\ h.edges \in SUBSET (Nodes(h) \X Nodes(h))
  BY DEF TwoTrees, IsTree, TreeFrom, Nodes
<1>2. /\ u \in Leaves(h)
      /\ w = u \/ <<w, u>> \in h.edges
  <2>1. u \in Leaves(h)
    BY DEF LeafKeys
  <2>2. ASSUME w # u
        PROVE  <<w, u>> \in h.edges
    <3>1. PICK e \in h.edges : e[2] = u /\ w = e[1]
      BY <2>1, <2>2 DEF LeafKeys
    <3>2. e = <<e[1], e[2]>>
      BY <1>1
    <3>3. QED
      BY <3>1, <3>2
  <2>3. QED
    BY <2>1, <2>2
<1>3. \A b : <<u, b>> \notin h.edges
  <2>1. \A b : <<u, b>>[1] = u
    OBVIOUS
  <2>2. QED
    BY <1>2, <2>1 DEF Leaves
<1>4. w \in Neighbours(h, u) \cup {u}
  BY <1>1, <1>2, BothWays DEF Neighbours, Nodes
<1>5. \A x \in Neighbours(h, u) : <<x, u>> \in h.edges
  BY <1>1, <1>3, BothWays DEF Neighbours, Nodes
<1>6. ASSUME w # u \/ u = FindRoot(h)
      PROVE  Neighbours(h, u) \ {w} = {}
  <2>1. CASE u = FindRoot(h)
    <3>1. \A a : <<a, FindRoot(h)>> \notin h.edges
      BY <1>1, OneParent
    <3>2. Neighbours(h, u) = {}
      BY <1>5, <2>1, <3>1
    <3>3. QED
      BY <3>2
  <2>2. CASE w # u
    <3>1. \A x \in Neighbours(h, u) : x = w
      BY <1>1, <1>2, <1>5, <2>2, OneParent
    <3>2. QED
      BY <3>1
  <2>3. QED
    BY <1>6, <2>1, <2>2
<1>7. ASSUME w # u \/ u = FindRoot(h)
      PROVE  BranchEmbeds(g, h, v, u, w)
  <2> DEFINE k == [x \in {} |-> x]
  <2>1. Neighbours(h, u) \ {w} = {}
    BY <1>6, <1>7
  <2>2. /\ \A x \in Neighbours(h, u) \ {w} :
             /\ <<v, k[x]>> \in g.edges
             /\ BranchEmbeds(g, h, k[x], x, u)
             /\ HasPropertySubset(g.nodes[k[x]], h.nodes[x])
        /\ \A x, y \in Neighbours(h, u) \ {w} : k[x] = k[y] => x = y
    BY <2>1
  <2> HIDE DEF k
  <2>3. QED
    BY <2>2, BranchGrows
<1>8. QED
  BY <1>4, <1>7

(* Two trees have find_root's roots and nodes 1, 2, ... *)
LEMMA TreePair ==
    ASSUME NEW g, NEW h, Tree(g), Tree(h)
    PROVE  /\ TwoTrees(g, h)
           /\ Nodes(g) = 1 .. Len(g.nodes) /\ Nodes(h) = 1 .. Len(h.nodes)
           /\ Len(g.nodes) \in Nat /\ Len(h.nodes) \in Nat
           /\ TreeFrom(Nodes(g), g.edges, FindRoot(g)) /\ TreeFrom(Nodes(h), h.edges, FindRoot(h))
           /\ FindRoot(g) \in Nodes(g) /\ FindRoot(h) \in Nodes(h)
           /\ \A v, u : <<v, u>> = <<0, 0>> => v \notin Nodes(g)
<1>1. IsTree(g) /\ IsTree(h)
  BY TreeHasRoot
<1>2. /\ Nodes(g) = 1 .. Len(g.nodes) /\ Nodes(h) = 1 .. Len(h.nodes)
      /\ Len(g.nodes) \in Nat /\ Len(h.nodes) \in Nat
      /\ TreeFrom(Nodes(g), g.edges, FindRoot(g)) /\ TreeFrom(Nodes(h), h.edges, FindRoot(h))
  BY <1>1 DEF IsTree
<1>3. FindRoot(g) \in Nodes(g) /\ FindRoot(h) \in Nodes(h)
  BY <1>2 DEF TreeFrom
<1>4. \A v, u : <<v, u>> = <<0, 0>> => v \notin Nodes(g)
  BY <1>2
<1>5. QED
  BY <1>1, <1>2, <1>3, <1>4 DEF TwoTrees

(* max_matching adds nodes of the pattern. *)
LEMMA MaxMatchingType ==
    ASSUME NEW g, NEW h, NEW keys, NEW v, NEW u \in Nodes(h)
    PROVE  MaxMatching(g, h, keys, v, u) \subseteq Nodes(h)
BY DEF MaxMatching, Neighbours, Nodes

-----------------------------------------------------------------------------
(* A branch that can be laid over a graph can be laid over every graph in   *)
(* which its nodes and edges are found again, under other numbers maybe,   *)
(* with nodes that satisfy no fewer filters.                               *)
LEMMA EmbedsMoved ==
    ASSUME NEW g, NEW gg, NEW h, NEW move,
           g.edges \in SUBSET (Nodes(g) \X Nodes(g)),
           gg.edges \in SUBSET (Nodes(gg) \X Nodes(gg)),
           \A i \in Nodes(g) : move[i] \in Nodes(gg),
           \A i, j \in Nodes(g) : move[i] = move[j] => i = j,
           \A a, b : <<a, b>> \in g.edges => <<move[a], move[b]>> \in gg.edges,
           \A i \in Nodes(g), x \in Nodes(h) :
                HasPropertySubset(g.nodes[i], h.nodes[x])
                    => HasPropertySubset(gg.nodes[move[i]], h.nodes[x]),
           NEW v \in Nodes(g), NEW u \in Nodes(h), NEW w, BranchEmbeds(g, h, v, u, w)
    PROVE  BranchEmbeds(gg, h, move[v], u, w)
<1> DEFINE branch == Branch(h, u, w)
           below == Reachable(Nodes(g), g.edges, v)
           above == Reachable(Nodes(gg), gg.edges, move[v])
<1>1. PICK f \in [branch -> below] :
        /\ f[u] = v
        /\ \A a, b \in branch : f[a] = f[b] => a = b
        /\ \A e \in h.edges : e[1] \in branch /\ e[2] \in branch =>
                <<f[e[1]], f[e[2]]>> \in Both(g.edges)
        /\ \A a \in branch \ {u} : HasPropertySubset(g.nodes[f[a]], h.nodes[a])
  BY DEF BranchEmbeds
<1>2. branch \subseteq Nodes(h) /\ below \subseteq Nodes(g) /\ move[v] \in Nodes(gg)
  BY DEF Branch, Reachable
<1>3. \A i \in below : move[i] \in above
  <2> DEFINE S == {i \in Nodes(g) : move[i] \in above}
  <2>1. /\ move[v] \in above
        /\ \A a, b : <<a, b>> \in gg.edges /\ a \in above => b \in above
    BY <1>2, ReachableLeast
  <2> HIDE DEF above
  <2>2. v \in S
    BY <2>1
  <2>3. ASSUME NEW a, NEW b, <<a, b>> \in g.edges, a \in S
        PROVE  b \in S
    <3>1. b \in Nodes(g) /\ <<move[a], move[b]>> \in gg.edges
      BY <2>3
    <3>2. QED
      BY <2>1, <2>3, <3>1
  <2> HIDE DEF S
  <2>4. S \in SUBSET Nodes(g)
    BY DEF S
  <2>5. below \subseteq S
    <3>1. \A x, y : <<x, y>> \in g.edges /\ x \in S => y \in S
      BY <2>3
    <3>2. QED
      BY <2>2, <2>4, <3>1, ReachableLeast DEF below
  <2>6. QED
    BY <2>5 DEF S
<1> HIDE DEF branch, below, above
<1> DEFINE k == [a \in branch |-> move[f[a]]]
<1>4. \A a \in branch : f[a] \in below /\ f[a] \in Nodes(g) /\ k[a] = move[f[a]]
  BY <1>2
<1>5. k \in [branch -> above] /\ \A a, b \in branch : k[a] = k[b] => a = b
  BY <1>1, <1>3, <1>4
<1> HIDE DEF k
<1>6. u \in branch
  BY DEF branch, Branch, Reachable
<1>7. k[u] = move[v]
  BY <1>1, <1>4, <1>6
<1>8. ASSUME NEW e \in h.edges, e[1] \in branch, e[2] \in branch
      PROVE  <<k[e[1]], k[e[2]]>> \in Both(gg.edges)
  <2>1. <<f[e[1]], f[e[2]]>> \in Both(g.edges)
    BY <1>1, <1>8
  <2>2. <<f[e[1]], f[e[2]]>> \in g.edges \/ <<f[e[2]], f[e[1]]>> \in g.edges
    BY <2>1, BothWays
  <2>3. <<k[e[1]], k[e[2]]>> \in gg.edges \/ <<k[e[2]], k[e[1]]>> \in gg.edges
    BY <1>4, <1>8, <2>2
  <2>4. QED
    BY <2>3, BothWays
<1>9. ASSUME NEW a \in branch \ {u}
      PROVE  HasPropertySubset(gg.nodes[k[a]], h.nodes[a])
  BY <1>1, <1>2, <1>4
<1>10. QED
  BY <1>5, <1>7, <1>8, <1>9 DEF BranchEmbeds, branch, above

(* A branch that can be laid over a graph within a larger one, which adds   *)
(* nothing below its nodes, can be laid over it by itself.                  *)
LEMMA EmbedsBack ==
    ASSUME NEW g, NEW gg, NEW h, NEW move,
           g.edges \in SUBSET (Nodes(g) \X Nodes(g)),
           gg.edges \in SUBSET (Nodes(gg) \X Nodes(gg)),
           \A i \in Nodes(g) : move[i] \in Nodes(gg),
           \A i, j \in Nodes(g) : move[i] = move[j] => i = j,
           \A i \in Nodes(g) : \A b : <<move[i], b>> \in gg.edges =>
                \E j \in Nodes(g) : b = move[j] /\ <<i, j>> \in g.edges,
           \A i \in Nodes(g), x \in Nodes(h) :
                HasPropertySubset(gg.nodes[move[i]], h.nodes[x])
                    => HasPropertySubset(g.nodes[i], h.nodes[x]),
           NEW v \in Nodes(g), NEW u \in Nodes(h), NEW w, BranchEmbeds(gg, h, move[v], u, w)
    PROVE  BranchEmbeds(g, h, v, u, w)
<1> DEFINE branch == Branch(h, u, w)
           below == Reachable(Nodes(g), g.edges, v)
           above == Reachable(Nodes(gg), gg.edges, move[v])
<1>1. PICK f \in [branch -> above] :
        /\ f[u] = move[v]
        /\ \A a, b \in branch : f[a] = f[b] => a = b
        /\ \A e \in h.edges : e[1] \in branch /\ e[2] \in branch =>
                <<f[e[1]], f[e[2]]>> \in Both(gg.edges)
        /\ \A a \in branch \ {u} : HasPropertySubset(gg.nodes[f[a]], h.nodes[a])
  BY DEF BranchEmbeds
<1>2. /\ branch \subseteq Nodes(h) /\ below \subseteq Nodes(g) /\ move[v] \in Nodes(gg)
      /\ u \in branch
  BY DEF Branch, Reachable
<1>3. above \subseteq {move[i] : i \in below}
  <2> DEFINE S == {move[i] : i \in below}
  <2>1. /\ v \in below
        /\ \A a, b : <<a, b>> \in g.edges /\ a \in below => b \in below
    BY ReachableLeast
  <2> HIDE DEF below
  <2>2. move[v] \in S
    BY <2>1
  <2>3. ASSUME NEW a, NEW b, <<a, b>> \in gg.edges, a \in S
        PROVE  b \in S
    <3>1. PICK i \in below : a = move[i]
      BY <2>3
    <3>2. PICK j \in Nodes(g) : b = move[j] /\ <<i, j>> \in g.edges
      BY <1>2, <2>3, <3>1
    <3>3. QED
      BY <2>1, <3>2
  <2>4. S \in SUBSET Nodes(gg)
    BY <1>2
  <2> HIDE DEF S
  <2>5. above \subseteq S
    <3>1. \A x, y : <<x, y>> \in gg.edges /\ x \in S => y \in S
      BY <2>3
    <3>2. QED
      BY <1>2, <2>2, <2>4, <3>1, ReachableLeast DEF above
  <2>6. QED
    BY <2>5 DEF S
<1> DEFINE k == [a \in branch |-> CHOOSE i \in below : move[i] = f[a]]
<1> HIDE DEF branch, below, above
<1>4. \A a \in branch : k[a] \in below /\ k[a] \in Nodes(g) /\ move[k[a]] = f[a]
  BY <1>1, <1>2, <1>3
<1>5. k \in [branch -> below]
  <2>1. \A a \in branch : k[a] \in below
    BY <1>4
  <2>2. QED
    BY <2>1
<1> HIDE DEF k
<1>6. \A a, b \in branch : k[a] = k[b] => a = b
  BY <1>1, <1>4
<1>7. k[u] = v
  <2>1. move[k[u]] = move[v]
    BY <1>1, <1>2, <1>4
  <2>2. QED
    BY <1>2, <1>4, <2>1
<1>8. ASSUME NEW a \in branch, NEW b \in branch, <<f[a], f[b]>> \in gg.edges
      PROVE  <<k[a], k[b]>> \in g.edges
  <2>1. <<move[k[a]], f[b]>> \in gg.edges /\ k[a] \in Nodes(g)
    BY <1>4, <1>8
  <2>2. PICK j \in Nodes(g) : f[b] = move[j] /\ <<k[a], j>> \in g.edges
    BY <2>1
  <2>3. j = k[b]
    BY <1>4, <2>2
  <2>4. QED
    BY <2>2, <2>3
<1>9. ASSUME NEW e \in h.edges, e[1] \in branch, e[2] \in branch
      PROVE  <<k[e[1]], k[e[2]]>> \in Both(g.edges)
  <2>1. <<f[e[1]], f[e[2]]>> \in Both(gg.edges)
    BY <1>1, <1>9
  <2>2. <<f[e[1]], f[e[2]]>> \in gg.edges \/ <<f[e[2]], f[e[1]]>> \in gg.edges
    BY <2>1, BothWays
  <2>3. <<k[e[1]], k[e[2]]>> \in g.edges \/ <<k[e[2]], k[e[1]]>> \in g.edges
    BY <1>8, <1>9, <2>2
  <2>4. QED
    BY <2>3, BothWays
<1>10. ASSUME NEW a \in branch \ {u}
       PROVE  HasPropertySubset(g.nodes[k[a]], h.nodes[a])
  <2>1. HasPropertySubset(gg.nodes[move[k[a]]], h.nodes[a]) /\ k[a] \in Nodes(g) /\ a \in Nodes(h)
    BY <1>1, <1>2, <1>4
  <2>2. QED
    BY <2>1
<1>11. QED
  BY <1>5, <1>6, <1>7, <1>9, <1>10 DEF BranchEmbeds, branch, below
===============================================================================

------------------------------ MODULE MeshProofs ------------------------------
(***************************************************************************)
(* Lemmas for the proofs about the filters that run in a mesh, whatever    *)
(* their state: the type of what the operators of FerriedData return, that *)
(* the calls of a trace are a tree, what merging and AddMe make of data    *)
(* that is sound about parts of it, and what the decentralized search      *)
(* finds in the picture that such data gives of the trace.                 *)
(***************************************************************************)
EXTENDS DistributedSearch, ShamirTsurProofs, SequenceTheorems, WellFoundedInduction

(* Of some positions one is the first. *)
LEMMA LeastPosition ==
    ASSUME NEW T \in SUBSET Nat, T # {}
    PROVE  \E x \in T : \A y \in T : x <= y
<1> DEFINE R == {ss \in Nat \X Nat : ss[1] < ss[2]}
<1>1. IsWellFoundedOn(R, Nat)
  BY NatLessThanWellFounded, Zenon DEF OpToRel
<1>2. PICK x \in T : \A y \in T : ~ (<<y, x>> \in R)
  <2> HIDE DEF R
  <2> QED
    BY <1>1, WFMin, Zenon
<1>3. ASSUME NEW y \in T
      PROVE  x <= y
  <2>1. <<y, x>> \in Nat \X Nat /\ x \in Nat /\ y \in Nat
    OBVIOUS
  <2>2. ~ (y < x)
    BY <1>2, <2>1, Zenon
  <2>3. QED
    BY <2>1, <2>2
<1>4. QED
  BY <1>3

(* get_node_with_id finds a node of the given name exactly when there is   *)
(* one, and it is the first.                                               *)
LEMMA GetNodeWithIdFinds ==
    ASSUME NEW nodes \in Seq(Node), NEW id
    PROVE  /\ id \in NamesIn(nodes) =>
                /\ GetNodeWithId(nodes, id) \in DOMAIN nodes
                /\ nodes[GetNodeWithId(nodes, id)].name = id
           /\ id \notin NamesIn(nodes) => GetNodeWithId(nodes, id) = 0
           /\ GetNodeWithId(nodes, id) \in Nat
<1>1. CASE id \notin NamesIn(nodes)
  BY <1>1 DEF GetNodeWithId
<1>2. CASE id \in NamesIn(nodes)
  <2> DEFINE T == {i \in DOMAIN nodes : nodes[i].name = id}
  <2>1. T \in SUBSET Nat /\ T # {} /\ DOMAIN nodes = 1 .. Len(nodes) /\ Len(nodes) \in Nat
    BY <1>2 DEF NamesIn
  <2>2. PICK x \in T : \A y \in T : x <= y
    BY <2>1, LeastPosition, Zenon
  <2>3. /\ x \in DOMAIN nodes
        /\ nodes[x].name = id
        /\ \A j \in 1 .. x - 1 : nodes[j].name # id
    BY <2>1, <2>2
  <2>4. /\ GetNodeWithId(nodes, id) \in DOMAIN nodes
        /\ nodes[GetNodeWithId(nodes, id)].name = id
    BY <1>2, <2>3 DEF GetNodeWithId
  <2>5. QED
    BY <1>2, <2>1, <2>4
<1>3. QED
  BY <1>1, <1>2

(* Inserting properties changes values only, and only to values of the     *)
(* properties of the node's own name.                                      *)
LEMMA InsertPropertiesKeeps ==
    ASSUME NEW nodes \in Seq(Node), NEW properties \in SUBSET Property
    PROVE  /\ InsertProperties(nodes, properties) \in Seq(Node)
           /\ Len(InsertProperties(nodes, properties)) = Len(nodes)
           /\ DOMAIN InsertProperties(nodes, properties) = DOMAIN nodes
           /\ \A i \in DOMAIN nodes :
                LET new == InsertProperties(nodes, properties)[i]
                IN  /\ new.name = nodes[i].name
                    /\ \/ new.value = nodes[i].value
                       \/ \E p \in properties :
                            p.entity = new.name /\ p.value = new.value
<1> DEFINE mine(i) == {p \in properties : GetNodeWithId(nodes, p.entity) = i}
           new(i) == IF mine(i) = {} THEN nodes[i]
                     ELSE [nodes[i] EXCEPT !.value = (CHOOSE p \in mine(i) : TRUE).value]
<1>1. /\ Len(nodes) \in Nat /\ DOMAIN nodes = 1 .. Len(nodes)
      /\ \A i \in DOMAIN nodes : nodes[i] \in Node
  BY LenProperties, ElementOfSeq
<1>2. InsertProperties(nodes, properties) = [i \in 1 .. Len(nodes) |-> new(i)]
  BY <1>1 DEF InsertProperties
<1>3. ASSUME NEW i \in DOMAIN nodes
      PROVE  /\ new(i) \in Node
             /\ new(i).name = nodes[i].name
             /\ \/ new(i).value = nodes[i].value
                \/ \E p \in properties :
                     p.entity = new(i).name /\ p.value = new(i).value
  <2>1. CASE mine(i) = {}
    BY <1>1, <2>1
  <2>2. CASE mine(i) # {}
    <3> DEFINE p == CHOOSE q \in mine(i) : TRUE
    <3>1. p \in mine(i)
      BY <2>2
    <3>2. p \in properties /\ p \in Property /\ GetNodeWithId(nodes, p.entity) = i
      BY <3>1
    <3>3. p.entity \in NamesIn(nodes)
      BY <1>1, <3>2, GetNodeWithIdFinds
    <3>4. nodes[i].name = p.entity
      BY <3>2, <3>3, GetNodeWithIdFinds
    <3>5. new(i) = [nodes[i] EXCEPT !.value = p.value]
      BY <2>2
    <3> HIDE DEF p, mine, new
    <3>6. p.value \in Values /\ nodes[i] \in Node
      BY <1>1, <3>2 DEF Property
    <3>7. new(i) \in Node /\ new(i).name = nodes[i].name /\ new(i).value = p.value
      BY <3>5, <3>6 DEF Node
    <3>8. QED
      BY <3>2, <3>4, <3>7
  <2>3. QED
    BY <2>1, <2>2
<1> HIDE DEF new, mine
<1>4. [i \in 1 .. Len(nodes) |-> new(i)] \in Seq(Node)
  BY <1>1, <1>3
<1>5. QED
  BY <1>1, <1>2, <1>3, <1>4

LEMMA DefaultType == Default \in FerriedDataType
BY DEF Default, FerriedDataType

(* The positions of a concatenation are those of its first part and, shifted, *)
(* those of its second.                                                        *)
LEMMA ConcatPositions ==
    ASSUME NEW a \in Seq(Node), NEW b \in Seq(Node)
    PROVE  /\ a \o b \in Seq(Node)
           /\ \A i \in DOMAIN a : i \in DOMAIN (a \o b) /\ (a \o b)[i] = a[i]
           /\ \A k \in DOMAIN b :
                k + Len(a) \in DOMAIN (a \o b) /\ (a \o b)[k + Len(a)] = b[k]
           /\ \A i \in DOMAIN (a \o b) : i \notin DOMAIN a =>
                \E k \in DOMAIN b : i = k + Len(a)
<1>1. /\ a \o b \in Seq(Node)
      /\ Len(a) \in Nat /\ Len(b) \in Nat
      /\ DOMAIN a = 1 .. Len(a) /\ DOMAIN b = 1 .. Len(b)
      /\ DOMAIN (a \o b) = 1 .. Len(a) + Len(b)
  BY ConcatProperties, LenProperties
<1>2. \A i \in 1 .. Len(a) + Len(b) :
        (a \o b)[i] = IF i <= Len(a) THEN a[i] ELSE b[i - Len(a)]
  BY ConcatProperties
<1>3. \A i \in DOMAIN a : i \in DOMAIN (a \o b) /\ (a \o b)[i] = a[i]
  BY <1>1, <1>2
<1>4. ASSUME NEW k \in DOMAIN b
      PROVE  k + Len(a) \in DOMAIN (a \o b) /\ (a \o b)[k + Len(a)] = b[k]
  <2>1. k + Len(a) \in 1 .. Len(a) + Len(b) /\ ~ (k + Len(a) <= Len(a))
        /\ (k + Len(a)) - Len(a) = k
    BY <1>1
  <2>2. QED
    BY <1>1, <1>2, <2>1
<1>5. ASSUME NEW i \in DOMAIN (a \o b), i \notin DOMAIN a
      PROVE  \E k \in DOMAIN b : i = k + Len(a)
  <2>1. i - Len(a) \in DOMAIN b /\ i = (i - Len(a)) + Len(a)
    BY <1>1, <1>5
  <2>2. QED
    BY <2>1
<1>6. QED
  BY <1>1, <1>3, <1>4, <1>5

(* merge keeps every node of both sides, in order and under its name; a    *)
(* value can only change to one of a property waiting for that name.       *)
LEMMA MergeNodes ==
    ASSUME NEW a \in FerriedDataType, NEW b \in FerriedDataType
    PROVE  LET m == Merge(a, b)
               nodes == a.nodes \o b.nodes
           IN  /\ m.nodes \in Seq(Node)
               /\ DOMAIN m.nodes = DOMAIN nodes
               /\ \A i \in DOMAIN nodes :
                    /\ m.nodes[i].name = nodes[i].name
                    /\ \/ m.nodes[i].value = nodes[i].value
                       \/ \E p \in a.unassigned \cup b.unassigned :
                            /\ p.entity = m.nodes[i].name
                            /\ p.value = m.nodes[i].value
<1> DEFINE nodes == a.nodes \o b.nodes
           own == InsertProperties(nodes, a.unassigned)
           full == InsertProperties(own, b.unassigned)
<1>1. /\ a.nodes \in Seq(Node) /\ b.nodes \in Seq(Node)
      /\ a.unassigned \in SUBSET Property /\ b.unassigned \in SUBSET Property
  BY DEF FerriedDataType
<1>2. nodes \in Seq(Node)
  BY <1>1, ConcatPositions, Zenon
<1>3. Merge(a, b).nodes = full
  BY DEF Merge
<1> HIDE DEF nodes, own, full
<1>4. /\ own \in Seq(Node) /\ DOMAIN own = DOMAIN nodes
      /\ \A i \in DOMAIN nodes :
            /\ own[i].name = nodes[i].name
            /\ \/ own[i].value = nodes[i].value
               \/ \E p \in a.unassigned : p.entity = own[i].name /\ p.value = own[i].value
  BY <1>1, <1>2, InsertPropertiesKeeps, Zenon DEF own
<1>5. /\ full \in Seq(Node) /\ DOMAIN full = DOMAIN own
      /\ \A i \in DOMAIN own :
            /\ full[i].name = own[i].name
            /\ \/ full[i].value = own[i].value
               \/ \E p \in b.unassigned : p.entity = full[i].name /\ p.value = full[i].value
  BY <1>1, <1>4, InsertPropertiesKeeps, Zenon DEF full
<1>6. ASSUME NEW i \in DOMAIN nodes
      PROVE  /\ full[i].name = nodes[i].name
             /\ \/ full[i].value = nodes[i].value
                \/ \E p \in a.unassigned \cup b.unassigned :
                     p.entity = full[i].name /\ p.value = full[i].value
  <2>1. full[i].name = own[i].name /\ own[i].name = nodes[i].name
    BY <1>4, <1>5
  <2>2. CASE full[i].value = own[i].value
    BY <1>4, <2>1, <2>2
  <2>3. CASE \E p \in b.unassigned : p.entity = full[i].name /\ p.value = full[i].value
    BY <2>1, <2>3
  <2>4. QED
    BY <1>4, <1>5, <2>2, <2>3
<1>7. QED
  BY <1>3, <1>4, <1>5, <1>6 DEF nodes

(* The ends of other's edges get positions of nodes that carry their names. *)
LEMMA EdgesByNameFinds ==
    ASSUME NEW a \in Seq(Node), NEW b \in Seq(Node), NEW f,
           f[1] \in DOMAIN b, f[2] \in DOMAIN b,
           NEW e,
           e = <<GetNodeWithId(a \o b, b[f[1]].name), GetNodeWithId(a \o b, b[f[2]].name)>>
    PROVE  /\ e[1] \in DOMAIN (a \o b) /\ (a \o b)[e[1]].name = b[f[1]].name
           /\ e[2] \in DOMAIN (a \o b) /\ (a \o b)[e[2]].name = b[f[2]].name
<1> DEFINE nodes == a \o b
<1>1. nodes \in Seq(Node)
  BY ConcatPositions
<1>2. ASSUME NEW k \in DOMAIN b
      PROVE  /\ GetNodeWithId(nodes, b[k].name) \in DOMAIN nodes
             /\ nodes[GetNodeWithId(nodes, b[k].name)].name = b[k].name
  <2>1. k + Len(a) \in DOMAIN nodes /\ nodes[k + Len(a)] = b[k]
    BY ConcatPositions
  <2>3. b[k].name \in NamesIn(nodes)
    BY <2>1 DEF NamesIn
  <2>4. QED
    BY <1>1, <2>3, GetNodeWithIdFinds
<1>3. e[1] = GetNodeWithId(nodes, b[f[1]].name) /\ e[2] = GetNodeWithId(nodes, b[f[2]].name)
  OBVIOUS
<1> HIDE DEF nodes
<1>4. /\ e[1] \in DOMAIN nodes /\ nodes[e[1]].name = b[f[1]].name
      /\ e[2] \in DOMAIN nodes /\ nodes[e[2]].name = b[f[2]].name
  BY <1>2, <1>3, Zenon
<1>5. QED
  BY <1>4 DEF nodes

LEMMA MergeType ==
    ASSUME NEW a \in FerriedDataType, NEW b \in FerriedDataType
    PROVE  Merge(a, b) \in FerriedDataType
<1>1. a.nodes \in Seq(Node) /\ b.nodes \in Seq(Node)
  BY DEF FerriedDataType
<1>2. a.nodes \o b.nodes \in Seq(Node)
  BY <1>1, ConcatProperties
<1>3. \A id : GetNodeWithId(a.nodes \o b.nodes, id) \in Nat
  BY <1>2, GetNodeWithIdFinds
<1>4. EdgesByName(a.nodes \o b.nodes, b) \subseteq Nat \X Nat
  BY <1>3 DEF EdgesByName
<1>5. Merge(a, b).nodes \in Seq(Node)
  BY MergeNodes, Zenon
<1>6. a.edges \in SUBSET (Nat \X Nat) /\ a.unassigned \in SUBSET Property
      /\ b.unassigned \in SUBSET Property
  BY DEF FerriedDataType
<1>7. QED
  BY <1>4, <1>5, <1>6 DEF Merge, FerriedDataType, RemoveAssignedProperties

(* AddMe keeps the nodes and puts one more, called me, behind them; again a *)
(* value can only change to one of a property waiting for that name, and    *)
(* the properties that still wait are of other names.                       *)
LEMMA AddMeNodes ==
    ASSUME NEW fd \in FerriedDataType, NEW me \in Services
    PROVE  LET g == AddMe(fd, me)
               n == Len(fd.nodes)
           IN  /\ g.nodes \in Seq(Node)
               /\ n \in Nat
               /\ DOMAIN fd.nodes = 1 .. n
               /\ DOMAIN g.nodes = 1 .. n + 1
               /\ \A i \in DOMAIN fd.nodes :
                    /\ g.nodes[i].name = fd.nodes[i].name
                    /\ \/ g.nodes[i].value = fd.nodes[i].value
                       \/ \E p \in fd.unassigned :
                            p.entity = g.nodes[i].name /\ p.value = g.nodes[i].value
               /\ g.nodes[n + 1].name = me
               /\ \/ g.nodes[n + 1].value = NoValue
                  \/ \E p \in fd.unassigned :
                       p.entity = me /\ p.value = g.nodes[n + 1].value
               /\ g.edges = fd.edges \cup {<<n + 1, r>> : r \in Roots(fd)}
               /\ g.unassigned \subseteq fd.unassigned
               /\ \A p \in g.unassigned : p.entity # me
<1> DEFINE last == [name |-> me, value |-> NoValue]
           nodes == Append(fd.nodes, last)
           full == InsertProperties(nodes, fd.unassigned)
           n == Len(fd.nodes)
<1>1. fd.nodes \in Seq(Node) /\ fd.unassigned \in SUBSET Property /\ last \in Node
  BY DEF FerriedDataType, Node
<1>2. /\ nodes \in Seq(Node)
      /\ Len(nodes) = n + 1
      /\ n \in Nat
      /\ DOMAIN fd.nodes = 1 .. n
      /\ DOMAIN nodes = 1 .. n + 1
      /\ \A i \in DOMAIN fd.nodes : i \in DOMAIN nodes /\ nodes[i] = fd.nodes[i]
      /\ n + 1 \in DOMAIN nodes /\ nodes[n + 1] = last
  <2> HIDE DEF last
  <2>1. /\ nodes \in Seq(Node) /\ Len(nodes) = n + 1 /\ n \in Nat
        /\ DOMAIN fd.nodes = 1 .. n /\ DOMAIN nodes = 1 .. n + 1
    BY <1>1, AppendProperties, LenProperties
  <2>2. \A i \in 1 .. n : nodes[i] = fd.nodes[i]
    BY <1>1, AppendProperties
  <2>3. nodes[n + 1] = last
    BY <1>1, AppendProperties
  <2>4. QED
    BY <2>1, <2>2, <2>3
<1>3. /\ AddMe(fd, me).nodes = full
      /\ AddMe(fd, me).edges = fd.edges \cup {<<n + 1, r>> : r \in Roots(fd)}
      /\ AddMe(fd, me).unassigned = RemoveAssignedProperties(fd.unassigned, nodes)
  BY DEF AddMe, AssignProperties, FerriedDataType
<1> HIDE DEF nodes, full
<1>4. /\ full \in Seq(Node)
      /\ DOMAIN full = DOMAIN nodes
      /\ \A i \in DOMAIN nodes :
            /\ full[i].name = nodes[i].name
            /\ \/ full[i].value = nodes[i].value
               \/ \E p \in fd.unassigned : p.entity = full[i].name /\ p.value = full[i].value
  BY <1>1, <1>2, InsertPropertiesKeeps, Zenon DEF full
<1>5. me \in NamesIn(nodes)
  <2>1. n + 1 \in DOMAIN nodes /\ nodes[n + 1].name = me
    BY <1>2
  <2>2. QED
    BY <2>1 DEF NamesIn
<1>6. /\ AddMe(fd, me).unassigned \subseteq fd.unassigned
      /\ \A p \in AddMe(fd, me).unassigned : p.entity # me
  BY <1>3, <1>5 DEF RemoveAssignedProperties
<1>7. ASSUME NEW i \in DOMAIN fd.nodes
      PROVE  /\ full[i].name = fd.nodes[i].name
             /\ \/ full[i].value = fd.nodes[i].value
                \/ \E p \in fd.unassigned : p.entity = full[i].name /\ p.value = full[i].value
  BY <1>2, <1>4
<1>8. /\ full[n + 1].name = me
      /\ \/ full[n + 1].value = NoValue
         \/ \E p \in fd.unassigned : p.entity = me /\ p.value = full[n + 1].value
  BY <1>2, <1>4
<1>9. QED
  BY <1>2, <1>3, <1>4, <1>6, <1>7, <1>8

LEMMA AddMeType ==
    ASSUME NEW fd \in FerriedDataType, NEW me \in Services
    PROVE  AddMe(fd, me) \in FerriedDataType
<1> DEFINE n == Len(fd.nodes)
<1>1. /\ AddMe(fd, me).nodes \in Seq(Node)
      /\ n \in Nat
      /\ DOMAIN fd.nodes = 1 .. n
      /\ AddMe(fd, me).edges = fd.edges \cup {<<n + 1, r>> : r \in Roots(fd)}
      /\ AddMe(fd, me).unassigned \subseteq fd.unassigned
  BY AddMeNodes, Zenon
<1>2. fd.edges \in SUBSET (Nat \X Nat) /\ fd.unassigned \in SUBSET Property
  BY DEF FerriedDataType
<1>3. {<<n + 1, r>> : r \in Roots(fd)} \subseteq Nat \X Nat
  BY <1>1 DEF Roots
<1>4. AddMe(fd, me) = [nodes |-> AddMe(fd, me).nodes, edges |-> AddMe(fd, me).edges,
                       unassigned |-> AddMe(fd, me).unassigned]
  BY DEF AddMe, AssignProperties
<1>5. QED
  BY <1>1, <1>2, <1>3, <1>4 DEF FerriedDataType

(* Merging neither loses nor renames a node, AddMe adds one.               *)
LEMMA MergeNames ==
    ASSUME NEW a \in FerriedDataType, NEW b \in FerriedDataType
    PROVE  NamesIn(Merge(a, b).nodes) = NamesIn(a.nodes) \cup NamesIn(b.nodes)
<1> DEFINE both == a.nodes \o b.nodes
<1>1. a.nodes \in Seq(Node) /\ b.nodes \in Seq(Node)
  BY DEF FerriedDataType
<1>2. /\ \A i \in DOMAIN a.nodes : i \in DOMAIN both /\ both[i] = a.nodes[i]
      /\ \A k \in DOMAIN b.nodes :
            k + Len(a.nodes) \in DOMAIN both /\ both[k + Len(a.nodes)] = b.nodes[k]
      /\ \A i \in DOMAIN both : i \notin DOMAIN a.nodes =>
            \E k \in DOMAIN b.nodes : i = k + Len(a.nodes)
  BY <1>1, ConcatPositions, Zenon
<1>3. /\ DOMAIN Merge(a, b).nodes = DOMAIN both
      /\ \A i \in DOMAIN both : Merge(a, b).nodes[i].name = both[i].name
  BY MergeNodes, Zenon
<1> HIDE DEF both
<1>4. NamesIn(Merge(a, b).nodes) = NamesIn(both)
  BY <1>3 DEF NamesIn
<1>5. NamesIn(a.nodes) \cup NamesIn(b.nodes) \subseteq NamesIn(both)
  BY <1>2 DEF NamesIn
<1>6. NamesIn(both) \subseteq NamesIn(a.nodes) \cup NamesIn(b.nodes)
  BY <1>2 DEF NamesIn
<1>7. QED
  BY <1>4, <1>5, <1>6

LEMMA AddMeNames ==
    ASSUME NEW fd \in FerriedDataType, NEW me \in Services
    PROVE  NamesIn(AddMe(fd, me).nodes) = NamesIn(fd.nodes) \cup {me}
<1> DEFINE g == AddMe(fd, me)
           n == Len(fd.nodes)
<1>1. /\ n \in Nat
      /\ DOMAIN fd.nodes = 1 .. n
      /\ DOMAIN g.nodes = 1 .. n + 1
      /\ \A i \in DOMAIN fd.nodes : g.nodes[i].name = fd.nodes[i].name
      /\ g.nodes[n + 1].name = me
  BY AddMeNodes
<1> HIDE DEF g, n
<1>2. \A i \in DOMAIN g.nodes : i \in DOMAIN fd.nodes \/ i = n + 1
  BY <1>1
<1>3. n + 1 \in DOMAIN g.nodes /\ \A i \in DOMAIN fd.nodes : i \in DOMAIN g.nodes
  BY <1>1
<1>4. NamesIn(g.nodes) = NamesIn(fd.nodes) \cup {me}
  BY <1>1, <1>2, <1>3 DEF NamesIn
<1>5. QED
  BY <1>4 DEF g
(* A node that some property waits for, and that is the only one of its     *)
(* name, gets the value of such a property.                                 *)
LEMMA InsertPropertiesAssigns ==
    ASSUME NEW nodes \in Seq(Node), NEW properties, NEW i \in DOMAIN nodes,
           \A j \in DOMAIN nodes : nodes[j].name = nodes[i].name => j = i,
           \E p \in properties : p.entity = nodes[i].name
    PROVE  \E p \in properties :
                p.entity = nodes[i].name /\ InsertProperties(nodes, properties)[i].value = p.value
<1> DEFINE mine == {p \in properties : GetNodeWithId(nodes, p.entity) = i}
           one == CHOOSE p \in mine : TRUE
<1>1. \A id : id = nodes[i].name => GetNodeWithId(nodes, id) = i
  <2> SUFFICES GetNodeWithId(nodes, nodes[i].name) = i
    OBVIOUS
  <2>1. nodes[i].name \in NamesIn(nodes)
    BY DEF NamesIn
  <2>2. QED
    BY <2>1, GetNodeWithIdFinds
<1>2. one \in mine
  BY <1>1
<1>3. InsertProperties(nodes, properties)[i] = [nodes[i] EXCEPT !.value = one.value]
  BY <1>2 DEF InsertProperties
<1>4. nodes[i] \in Node
  OBVIOUS
<1> HIDE DEF one
<1>5. InsertProperties(nodes, properties)[i].value = one.value
  BY <1>3, <1>4 DEF Node
<1>6. one \in properties /\ GetNodeWithId(nodes, one.entity) = i
  BY <1>2
<1>7. one.entity = nodes[i].name
  <2>1. i # 0
    OBVIOUS
  <2>2. QED
    BY <1>6, <2>1, GetNodeWithIdFinds
<1>8. QED
  BY <1>5, <1>6, <1>7

(* The own node gets the own property, if it waits and no other node has    *)
(* the name.                                                                *)
LEMMA AddMeAssigns ==
    ASSUME NEW fd \in FerriedDataType, NEW me \in Services, me \notin NamesIn(fd.nodes),
           \E p \in fd.unassigned : p.entity = me
    PROVE  \E p \in fd.unassigned :
                p.entity = me /\ AddMe(fd, me).nodes[Len(fd.nodes) + 1].value = p.value
<1> DEFINE last == [name |-> me, value |-> NoValue]
           nodes == Append(fd.nodes, last)
           n == Len(fd.nodes)
<1>1. fd.nodes \in Seq(Node) /\ fd.unassigned \in SUBSET Property /\ last \in Node
  BY DEF FerriedDataType, Node
<1>2. /\ nodes \in Seq(Node)
      /\ n + 1 \in DOMAIN nodes /\ nodes[n + 1] = last
      /\ \A j \in DOMAIN nodes : j # n + 1 =>
            j \in DOMAIN fd.nodes /\ nodes[j] = fd.nodes[j]
  <2> HIDE DEF last
  <2>1. /\ nodes \in Seq(Node) /\ Len(nodes) = n + 1 /\ n \in Nat
        /\ DOMAIN fd.nodes = 1 .. n /\ DOMAIN nodes = 1 .. n + 1
    BY <1>1, AppendProperties, LenProperties
  <2>2. \A i \in 1 .. n : nodes[i] = fd.nodes[i]
    BY <1>1, AppendProperties
  <2>3. nodes[n + 1] = last
    BY <1>1, AppendProperties
  <2> HIDE DEF nodes
  <2>4. QED
    BY <2>1, <2>2, <2>3
<1>3. nodes[n + 1].name = me
  BY <1>2
<1>4. AddMe(fd, me).nodes = InsertProperties(nodes, fd.unassigned)
  BY DEF AddMe, AssignProperties
<1> HIDE DEF nodes, n
<1>5. \A j \in DOMAIN nodes : nodes[j].name = nodes[n + 1].name => j = n + 1
  BY <1>2, <1>3 DEF NamesIn
<1>6. \E p \in fd.unassigned :
        /\ p.entity = nodes[n + 1].name
        /\ InsertProperties(nodes, fd.unassigned)[n + 1].value = p.value
  BY <1>2, <1>3, <1>5, InsertPropertiesAssigns, Zenon
<1>7. QED
  BY <1>3, <1>4, <1>6 DEF n

-----------------------------------------------------------------------------
LEMMA CallerType ==
    /\ \A s \in Spans : ServiceOf[s] \in Services
    /\ \A s \in Spans \ {RootSpan} : Caller(s) \in Services
BY TraceAssumption DEF Caller

(* Reachable(V, edges, v) is the least subset of V that contains v and is  *)
(* closed under the edges inside V.                                        *)
LEMMA ReachableIsLeast ==
    ASSUME NEW V, NEW edges, NEW v \in V,
           \A e \in edges : e[1] \in V => e[2] \in V
    PROVE  /\ v \in Reachable(V, edges, v)
           /\ Reachable(V, edges, v) \subseteq V
           /\ \A e \in edges : e[1] \in Reachable(V, edges, v)
                                => e[2] \in Reachable(V, edges, v)
           /\ \A S \in SUBSET V :
                v \in S /\ (\A e \in edges : e[1] \in S => e[2] \in S)
                    => Reachable(V, edges, v) \subseteq S
BY DEF Reachable

(* The spans below a span, in terms of Parent: with a span, the spans called *)
(* during it are below.                                                      *)
LEMMA BelowClosed ==
    ASSUME NEW s \in Spans
    PROVE  /\ s \in Below[s]
           /\ Below[s] \subseteq Spans
           /\ \A c \in Spans \ {RootSpan} : Parent[c] \in Below[s] => c \in Below[s]
<1>1. \A c \in Spans \ {RootSpan} : <<Parent[c], c>> \in CallEdges
  BY DEF CallEdges
<1>2. \A e \in CallEdges : e[1] \in Spans => e[2] \in Spans
  BY DEF CallEdges
<1>3. Below[s] = Reachable(Spans, CallEdges, s)
  BY DEF Below
<1>4. /\ s \in Reachable(Spans, CallEdges, s)
      /\ Reachable(Spans, CallEdges, s) \subseteq Spans
      /\ \A e \in CallEdges : e[1] \in Reachable(Spans, CallEdges, s)
                           => e[2] \in Reachable(Spans, CallEdges, s)
  BY <1>2, ReachableIsLeast, Zenon
<1>5. QED
  BY <1>1, <1>3, <1>4

(* Below[s] is the least set of spans with this property. *)
LEMMA BelowWithin ==
    ASSUME NEW s \in Spans, NEW S \in SUBSET Spans, s \in S,
           \A c \in Spans \ {RootSpan} : Parent[c] \in S => c \in S
    PROVE  Below[s] \subseteq S
<1>1. \A e \in CallEdges : e[1] \in S => e[2] \in S
  <2>1. ASSUME NEW e \in CallEdges, e[1] \in S
        PROVE  e[2] \in S
    <3>1. PICK c \in Spans \ {RootSpan} : e = <<Parent[c], c>>
      BY DEF CallEdges
    <3>2. QED
      BY <2>1, <3>1
  <2>2. QED
    BY <2>1
<1>2. \A e \in CallEdges : e[1] \in Spans => e[2] \in Spans
  BY DEF CallEdges
<1>3. Reachable(Spans, CallEdges, s) \subseteq S
  BY <1>1, <1>2, ReachableIsLeast, Zenon
<1>4. QED
  BY <1>3 DEF Below

(* All spans are below the root span, and nothing above it. *)
LEMMA BelowRoot ==
    ASSUME NEW c \in Spans
    PROVE  /\ Below[RootSpan] = Spans
           /\ RootSpan \in Below[c] => c = RootSpan
<1>1. Below[RootSpan] = Spans
  BY TraceAssumption DEF Below
<1>2. ASSUME c # RootSpan
      PROVE  RootSpan \notin Below[c]
  <2> DEFINE S == Below[c] \ {RootSpan}
  <2>1. S \in SUBSET Spans /\ c \in S
    BY <1>2, BelowClosed
  <2>2. \A d \in Spans \ {RootSpan} : Parent[d] \in S => d \in S
    BY BelowClosed
  <2> HIDE DEF S
  <2>3. Below[c] \subseteq S
    BY <2>1, <2>2, BelowWithin
  <2>4. QED
    BY <2>3 DEF S
<1>3. QED
  BY <1>1, <1>2

(* A span below c, other than c, was called by one below c. *)
LEMMA ParentBelow ==
    ASSUME NEW c \in Spans, NEW d \in Below[c], d # c
    PROVE  d \in Spans \ {RootSpan} /\ Parent[d] \in Below[c]
<1>1. d \in Spans \ {RootSpan}
  BY BelowRoot, BelowClosed
<1>2. ASSUME Parent[d] \notin Below[c]
      PROVE  FALSE
  <2> DEFINE S == Below[c] \ {d}
  <2>1. S \in SUBSET Spans /\ c \in S
    BY BelowClosed
  <2>2. \A e \in Spans \ {RootSpan} : Parent[e] \in S => e \in S
    BY <1>2, BelowClosed
  <2> HIDE DEF S
  <2>3. Below[c] \subseteq S
    BY <2>1, <2>2, BelowWithin
  <2>4. QED
    BY <2>3 DEF S
<1>3. QED
  BY <1>1, <1>2

(* Calls are a tree: a span is not below the spans called during it, what   *)
(* is below them is below it, and no span is below two of them.             *)
LEMMA BelowChildren ==
    ASSUME NEW s \in Spans, NEW c \in Children(s)
    PROVE  /\ Below[c] \subseteq Below[s]
           /\ s \notin Below[c]
           /\ \A d \in Children(s) : c # d => Below[c] \cap Below[d] = {}
<1>1. ASSUME NEW t \in Spans, NEW d \in Children(t)
      PROVE  d \in Spans \ {RootSpan} /\ Parent[d] = t /\ t \notin Below[d]
  <2>1. d \in Spans \ {RootSpan} /\ Parent[d] = t
    BY DEF Children
  <2>2. ASSUME t \in Below[d]
        PROVE  FALSE
    <3> DEFINE S == Spans \ Below[d]
    <3>1. S \in SUBSET Spans /\ RootSpan \in S
      BY <2>1, BelowRoot, TraceAssumption
    <3>2. ASSUME NEW e \in Spans \ {RootSpan}, Parent[e] \in S
          PROVE  e \in S
      BY <2>1, <2>2, <3>2, ParentBelow
    <3> HIDE DEF S
    <3>3. Below[RootSpan] \subseteq S
      BY <3>1, <3>2, BelowWithin, TraceAssumption
    <3>4. QED
      BY <2>1, <3>3, BelowRoot, BelowClosed DEF S
  <2>3. QED
    BY <2>1, <2>2
<1>2. Below[c] \subseteq Below[s]
  <2>1. c \in Below[s]
    BY <1>1, BelowClosed
  <2>2. Below[s] \in SUBSET Spans
        /\ \A e \in Spans \ {RootSpan} : Parent[e] \in Below[s] => e \in Below[s]
    BY BelowClosed
  <2>3. QED
    BY <1>1, <2>1, <2>2, BelowWithin
<1>3. ASSUME NEW d \in Children(s), c # d
      PROVE  Below[c] \cap Below[d] = {}
  <2> DEFINE S == Below[c] \ Below[d]
  <2>1. c \notin Below[d]
    BY <1>1, <1>3, ParentBelow
  <2>2. S \in SUBSET Spans /\ c \in S
    BY <1>1, <2>1, BelowClosed
  <2>3. ASSUME NEW e \in Spans \ {RootSpan}, Parent[e] \in S
        PROVE  e \in S
    <3>1. e \in Below[c]
      BY <1>1, <2>3, BelowClosed
    <3>2. e = d => s \in Below[c]
      BY <1>1, <2>3
    <3>3. e # d => e \notin Below[d]
      BY <1>1, <2>3, ParentBelow
    <3>4. QED
      BY <1>1, <3>1, <3>2, <3>3
  <2> HIDE DEF S
  <2>4. Below[c] \subseteq S
    BY <1>1, <2>2, <2>3, BelowWithin
  <2>5. QED
    BY <2>4 DEF S
<1>4. QED
  BY <1>1, <1>2, <1>3

(* What is below a span below s is below s, and not the other way. *)
LEMMA BelowTransitive ==
    ASSUME NEW s \in Spans, NEW u \in Below[s]
    PROVE  Below[u] \subseteq Below[s]
<1>1. u \in Spans /\ Below[s] \in SUBSET Spans
      /\ \A e \in Spans \ {RootSpan} : Parent[e] \in Below[s] => e \in Below[s]
  BY BelowClosed
<1>2. QED
  BY <1>1, BelowWithin

LEMMA BelowSplit ==
    ASSUME NEW s \in Spans, NEW t \in Below[s], t # s
    PROVE  \E c \in Children(s) : t \in Below[c]
<1> DEFINE S == {s} \cup UNION {Below[c] : c \in Children(s)}
<1>1. \A c \in Children(s) : c \in Spans
  BY DEF Children
<1>2. S \in SUBSET Spans /\ s \in S
  BY <1>1, BelowClosed
<1>3. ASSUME NEW e \in Spans \ {RootSpan}, Parent[e] \in S
      PROVE  e \in S
  <2>1. CASE Parent[e] = s
    <3>1. e \in Children(s) /\ e \in Below[e]
      BY <2>1, BelowClosed DEF Children
    <3>2. QED
      BY <3>1
  <2>2. CASE Parent[e] # s
    <3>1. PICK c \in Children(s) : Parent[e] \in Below[c]
      BY <1>3, <2>2
    <3>2. e \in Below[c]
      BY <1>1, <3>1, BelowClosed
    <3>3. QED
      BY <3>2
  <2>3. QED
    BY <2>1, <2>2
<1> HIDE DEF S
<1>4. Below[s] \subseteq S
  BY <1>2, <1>3, BelowWithin
<1>5. QED
  BY <1>4 DEF S

LEMMA BelowOneWay ==
    ASSUME NEW s \in Spans, NEW u \in Below[s], u # s
    PROVE  s \notin Below[u]
<1>1. PICK c \in Children(s) : u \in Below[c]
  BY BelowSplit
<1>2. c \in Spans /\ s \notin Below[c]
  BY BelowChildren DEF Children
<1>3. QED
  BY <1>1, <1>2, BelowTransitive

-----------------------------------------------------------------------------
(* fd is sound about the spans in C, all called during one span, and what   *)
(* is below them, and they are its only roots.                              *)
Carries(fd, C) ==
    /\ Sound(fd, UNION {Below[c] : c \in C})
    /\ \A i \in Roots(fd) : \E c \in C : fd.nodes[i].name = ServiceOf[c]

(* No property but n's own waits for a node. *)
OwnOnly(fd, n) == fd.unassigned \subseteq {[entity |-> n, value |-> PropertyOf[n]]}

LEMMA SoundMonotone ==
    ASSUME NEW fd, NEW S, NEW T, S \subseteq T, Sound(fd, S)
    PROVE  Sound(fd, T)
BY DEF Sound

LEMMA CarriesMonotone ==
    ASSUME NEW fd, NEW C, NEW D, C \subseteq D, Carries(fd, C)
    PROVE  Carries(fd, D)
<1>1. UNION {Below[c] : c \in C} \subseteq UNION {Below[c] : c \in D}
  OBVIOUS
<1>2. QED
  BY <1>1, SoundMonotone DEF Carries

(* Ferried data without nodes carries nothing. *)
LEMMA EmptyCarries ==
    ASSUME NEW fd, fd.nodes = <<>>, fd.edges = {}
    PROVE  \A C : Carries(fd, C)
<1>1. DOMAIN fd.nodes = {}
  OBVIOUS
<1>2. QED
  BY <1>1 DEF Carries, Sound, Roots

LEMMA DefaultCarries == \A C : Carries(Default, C)
BY EmptyCarries DEF Default

(* The value of a node after properties were inserted is its own or one of *)
(* these properties; if those are owners' values it is its owner's.        *)
Owned(fd) == \A p \in fd.unassigned : p.value = PropertyOf[p.entity]

(* merge of ferried data about disjoint sets of spans is sound about their *)
(* union, and makes no new roots.                                          *)
LEMMA MergeSound ==
    ASSUME DistinctServices,
           NEW a \in FerriedDataType, NEW b \in FerriedDataType,
           NEW S \in SUBSET Spans, NEW T \in SUBSET Spans, S \cap T = {},
           Sound(a, S), Sound(b, T), Owned(a), Owned(b)
    PROVE  /\ Sound(Merge(a, b), S \cup T)
           /\ \A i \in Roots(Merge(a, b)) :
                \/ \E j \in Roots(a) : Merge(a, b).nodes[i].name = a.nodes[j].name
                \/ \E j \in Roots(b) : Merge(a, b).nodes[i].name = b.nodes[j].name
<1> DEFINE m == Merge(a, b)
           la == Len(a.nodes)
           both == a.nodes \o b.nodes
           Faithful(n) == n.value \in {NoValue, PropertyOf[n.name]}
<1>1. a.nodes \in Seq(Node) /\ b.nodes \in Seq(Node)
  BY DEF FerriedDataType
<1>2. /\ \A i \in DOMAIN a.nodes : i \in DOMAIN both /\ both[i] = a.nodes[i]
      /\ \A k \in DOMAIN b.nodes : k + la \in DOMAIN both /\ both[k + la] = b.nodes[k]
      /\ \A i \in DOMAIN both : i \notin DOMAIN a.nodes =>
            \E k \in DOMAIN b.nodes : i = k + la
  BY <1>1, ConcatPositions, Zenon
<1>3. /\ DOMAIN m.nodes = DOMAIN both
      /\ \A i \in DOMAIN both :
            /\ m.nodes[i].name = both[i].name
            /\ \/ m.nodes[i].value = both[i].value
               \/ \E p \in a.unassigned \cup b.unassigned :
                    p.entity = m.nodes[i].name /\ p.value = m.nodes[i].value
  BY MergeNodes, Zenon
<1>4. m.edges = a.edges \cup EdgesByName(both, b)
  BY DEF Merge
<1>5. ASSUME NEW f \in b.edges, NEW e,
             e = <<GetNodeWithId(both, b.nodes[f[1]].name),
                   GetNodeWithId(both, b.nodes[f[2]].name)>>
      PROVE  /\ e[1] \in DOMAIN both /\ both[e[1]].name = b.nodes[f[1]].name
             /\ e[2] \in DOMAIN both /\ both[e[2]].name = b.nodes[f[2]].name
  <2>1. f[1] \in DOMAIN b.nodes /\ f[2] \in DOMAIN b.nodes
    BY DEF Sound
  <2> DEFINE bn == b.nodes
             an == a.nodes
  <2>2. /\ an \in Seq(Node) /\ bn \in Seq(Node)
        /\ f[1] \in DOMAIN bn /\ f[2] \in DOMAIN bn
        /\ e = <<GetNodeWithId(an \o bn, bn[f[1]].name), GetNodeWithId(an \o bn, bn[f[2]].name)>>
    BY <1>1, <1>5, <2>1
  <2> HIDE DEF an, bn
  <2>3. /\ e[1] \in DOMAIN (an \o bn) /\ (an \o bn)[e[1]].name = bn[f[1]].name
        /\ e[2] \in DOMAIN (an \o bn) /\ (an \o bn)[e[2]].name = bn[f[2]].name
    BY <2>2, EdgesByNameFinds
  <2>4. QED
    BY <2>3 DEF an, bn
<1> HIDE DEF m, both, la
<1>6. ASSUME NEW i \in DOMAIN both
      PROVE  /\ i \in DOMAIN a.nodes =>
                /\ m.nodes[i].name = a.nodes[i].name
                /\ \E s \in S : ServiceOf[s] = m.nodes[i].name
             /\ i \notin DOMAIN a.nodes => \E k \in DOMAIN b.nodes :
                /\ i = k + la
                /\ m.nodes[i].name = b.nodes[k].name
                /\ \E s \in T : ServiceOf[s] = m.nodes[i].name
             /\ Faithful(m.nodes[i])
  <2>1. CASE i \in DOMAIN a.nodes
    <3>1. m.nodes[i].name = a.nodes[i].name /\ both[i] = a.nodes[i]
      BY <1>2, <1>3, <2>1
    <3>2. /\ \E s \in S : ServiceOf[s] = a.nodes[i].name
          /\ Faithful(a.nodes[i])
      BY <2>1 DEF Sound
    <3>3. QED
      BY <1>3, <2>1, <3>1, <3>2 DEF Owned
  <2>2. CASE i \notin DOMAIN a.nodes
    <3>1. PICK k \in DOMAIN b.nodes : i = k + la /\ both[i] = b.nodes[k]
      BY <1>2, <2>2
    <3>2. /\ \E s \in T : ServiceOf[s] = b.nodes[k].name
          /\ Faithful(b.nodes[k])
      BY DEF Sound
    <3>3. m.nodes[i].name = b.nodes[k].name
      BY <1>3, <3>1
    <3>4. QED
      BY <1>3, <2>2, <3>1, <3>2, <3>3 DEF Owned
  <2>3. QED
    BY <2>1, <2>2
<1>7. ASSUME NEW i \in DOMAIN both, NEW j \in DOMAIN both,
             m.nodes[i].name = m.nodes[j].name
      PROVE  i = j
  <2>1. (i \in DOMAIN a.nodes) <=> (j \in DOMAIN a.nodes)
    BY <1>6, <1>7 DEF DistinctServices
  <2>2. CASE i \in DOMAIN a.nodes
    <3>1. a.nodes[i].name = a.nodes[j].name
      BY <1>6, <1>7, <2>1, <2>2
    <3>2. QED
      BY <2>1, <2>2, <3>1 DEF Sound
  <2>3. CASE i \notin DOMAIN a.nodes
    <3>1. PICK k \in DOMAIN b.nodes : i = k + la /\ m.nodes[i].name = b.nodes[k].name
      BY <1>6, <2>3
    <3>2. PICK l \in DOMAIN b.nodes : j = l + la /\ m.nodes[j].name = b.nodes[l].name
      BY <1>6, <2>1, <2>3
    <3>3. k = l
      BY <1>7, <3>1, <3>2 DEF Sound
    <3>4. QED
      BY <3>1, <3>2, <3>3
  <2>4. QED
    BY <2>2, <2>3
<1>8. ASSUME NEW e \in m.edges
      PROVE  /\ e[1] \in DOMAIN m.nodes /\ e[2] \in DOMAIN m.nodes
             /\ \E c \in Spans \ {RootSpan} :
                   m.nodes[e[1]].name = Caller(c) /\ m.nodes[e[2]].name = ServiceOf[c]
  <2>1. CASE e \in a.edges
    <3>1. PICK c \in Spans \ {RootSpan} :
            /\ e[1] \in DOMAIN a.nodes /\ e[2] \in DOMAIN a.nodes
            /\ a.nodes[e[1]].name = Caller(c) /\ a.nodes[e[2]].name = ServiceOf[c]
      BY <2>1 DEF Sound
    <3>2. e[1] \in DOMAIN both /\ e[2] \in DOMAIN both
      BY <1>2, <3>1
    <3>3. m.nodes[e[1]].name = a.nodes[e[1]].name /\ m.nodes[e[2]].name = a.nodes[e[2]].name
      BY <1>6, <3>1, <3>2
    <3>4. QED
      BY <1>3, <3>1, <3>2, <3>3
  <2>2. CASE e \in EdgesByName(both, b)
    <3>1. PICK f \in b.edges :
            e = <<GetNodeWithId(both, b.nodes[f[1]].name),
                  GetNodeWithId(both, b.nodes[f[2]].name)>>
      BY <2>2 DEF EdgesByName
    <3>2. PICK c \in Spans \ {RootSpan} :
            b.nodes[f[1]].name = Caller(c) /\ b.nodes[f[2]].name = ServiceOf[c]
      BY DEF Sound
    <3>3. /\ e[1] \in DOMAIN both /\ both[e[1]].name = b.nodes[f[1]].name
          /\ e[2] \in DOMAIN both /\ both[e[2]].name = b.nodes[f[2]].name
      BY <1>5, <3>1, Zenon
    <3>4. QED
      BY <1>3, <3>2, <3>3
  <2>3. QED
    BY <1>4, <2>1, <2>2
<1>9. Sound(m, S \cup T)
  <2>1. \A i \in DOMAIN m.nodes : \E s \in S \cup T : ServiceOf[s] = m.nodes[i].name
    BY <1>3, <1>6
  <2>2. QED
    BY <1>3, <1>6, <1>7, <1>8, <2>1 DEF Sound
<1>10. ASSUME NEW i \in Roots(m)
       PROVE  \/ \E j \in Roots(a) : m.nodes[i].name = a.nodes[j].name
              \/ \E j \in Roots(b) : m.nodes[i].name = b.nodes[j].name
  <2>1. i \in DOMAIN both /\ \A e \in m.edges : e[2] # i
    BY <1>3 DEF Roots
  <2>2. CASE i \in DOMAIN a.nodes
    <3>1. i \in Roots(a)
      BY <1>4, <2>1, <2>2 DEF Roots
    <3>2. QED
      BY <1>6, <2>1, <2>2, <3>1
  <2>3. CASE i \notin DOMAIN a.nodes
    <3>1. PICK k \in DOMAIN b.nodes : m.nodes[i].name = b.nodes[k].name
      BY <1>6, <2>1, <2>3
    <3>2. ASSUME NEW f \in b.edges, f[2] = k
          PROVE  FALSE
      <4>1. PICK e : e = <<GetNodeWithId(both, b.nodes[f[1]].name),
                           GetNodeWithId(both, b.nodes[f[2]].name)>>
        OBVIOUS
      <4>2. e \in m.edges
        BY <1>4, <4>1 DEF EdgesByName
      <4>3. e[2] \in DOMAIN both /\ both[e[2]].name = b.nodes[k].name
        BY <1>5, <3>2, <4>1, Zenon
      <4>4. e[2] = i
        BY <1>3, <1>7, <2>1, <3>1, <4>3
      <4>5. QED
        BY <2>1, <4>2, <4>4
    <3>3. k \in Roots(b)
      BY <3>1, <3>2 DEF Roots
    <3>4. QED
      BY <3>1, <3>3
  <2>4. QED
    BY <2>2, <2>3
<1>11. QED
  BY <1>9, <1>10 DEF m

(* A sidecar's own node over the roots it called is sound about its span,   *)
(* and the only root.                                                       *)
LEMMA AddMeSound ==
    ASSUME DistinctServices, NEW fd \in FerriedDataType, NEW s \in Spans,
           NEW S \in SUBSET Spans, s \notin S,
           Sound(fd, S), Owned(fd),
           \A i \in Roots(fd) : \E c \in Children(s) : fd.nodes[i].name = ServiceOf[c]
    PROVE  /\ Sound(AddMe(fd, ServiceOf[s]), S \cup {s})
           /\ \A i \in Roots(AddMe(fd, ServiceOf[s])) :
                AddMe(fd, ServiceOf[s]).nodes[i].name = ServiceOf[s]
<1>0. PICK me \in Services : me = ServiceOf[s]
  BY CallerType
<1> DEFINE g == AddMe(fd, me)
           n == Len(fd.nodes)
           Faithful(node) == node.value \in {NoValue, PropertyOf[node.name]}
<1>1. /\ n \in Nat
      /\ DOMAIN fd.nodes = 1 .. n
      /\ DOMAIN g.nodes = 1 .. n + 1
      /\ g.nodes[n + 1].name = me
      /\ \/ g.nodes[n + 1].value = NoValue
         \/ \E p \in fd.unassigned : p.entity = me /\ p.value = g.nodes[n + 1].value
      /\ g.edges = fd.edges \cup {<<n + 1, r>> : r \in Roots(fd)}
  BY AddMeNodes
<1>2. /\ n + 1 \in DOMAIN g.nodes
      /\ n + 1 \notin DOMAIN fd.nodes
      /\ \A i \in DOMAIN g.nodes : i \in DOMAIN fd.nodes \/ i = n + 1
      /\ \A i \in DOMAIN fd.nodes : i \in DOMAIN g.nodes
  <2> HIDE DEF g, n
  <2> QED
    BY <1>1
<1>3. \A i \in DOMAIN fd.nodes :
            /\ g.nodes[i].name = fd.nodes[i].name
            /\ \/ g.nodes[i].value = fd.nodes[i].value
               \/ \E p \in fd.unassigned :
                    p.entity = g.nodes[i].name /\ p.value = g.nodes[i].value
  BY AddMeNodes
<1> HIDE DEF g, n
<1>4. ASSUME NEW i \in DOMAIN g.nodes
      PROVE  /\ \E t \in S \cup {s} : ServiceOf[t] = g.nodes[i].name
             /\ Faithful(g.nodes[i])
  <2>1. CASE i = n + 1
    BY <1>0, <1>1, <2>1 DEF Owned
  <2>2. CASE i \in DOMAIN fd.nodes
    <3>1. Faithful(fd.nodes[i]) /\ \E t \in S : ServiceOf[t] = fd.nodes[i].name
      BY <2>2 DEF Sound
    <3>2. QED
      BY <1>3, <2>2, <3>1 DEF Owned
  <2>3. QED
    BY <1>2, <2>1, <2>2
<1>5. ASSUME NEW i \in DOMAIN fd.nodes
      PROVE  g.nodes[i].name # me
  <2>1. PICK t \in S : ServiceOf[t] = g.nodes[i].name
    BY <1>3 DEF Sound
  <2>2. QED
    BY <1>0, <2>1 DEF DistinctServices
<1>6. ASSUME NEW i \in DOMAIN g.nodes, NEW j \in DOMAIN g.nodes,
             g.nodes[i].name = g.nodes[j].name
      PROVE  i = j
  <2>1. CASE i \in DOMAIN fd.nodes /\ j \in DOMAIN fd.nodes
    BY <1>3, <1>6, <2>1 DEF Sound
  <2>2. QED
    BY <1>1, <1>2, <1>5, <1>6, <2>1
<1>7. ASSUME NEW e \in g.edges
      PROVE  /\ e[1] \in DOMAIN g.nodes /\ e[2] \in DOMAIN g.nodes
             /\ \E c \in Spans \ {RootSpan} :
                   g.nodes[e[1]].name = Caller(c) /\ g.nodes[e[2]].name = ServiceOf[c]
  <2>1. CASE e \in fd.edges
    <3>1. PICK c \in Spans \ {RootSpan} :
            /\ e[1] \in DOMAIN fd.nodes /\ e[2] \in DOMAIN fd.nodes
            /\ fd.nodes[e[1]].name = Caller(c) /\ fd.nodes[e[2]].name = ServiceOf[c]
      BY <2>1 DEF Sound
    <3>2. QED
      BY <1>2, <1>3, <3>1
  <2>2. CASE e \notin fd.edges
    <3>1. PICK r \in Roots(fd) : e = <<n + 1, r>>
      BY <1>1, <2>2
    <3>2. r \in DOMAIN fd.nodes
      BY <3>1 DEF Roots
    <3>3. PICK c \in Children(s) : fd.nodes[r].name = ServiceOf[c]
      BY <3>1
    <3>4. c \in Spans \ {RootSpan} /\ Caller(c) = me
      BY <1>0, <3>3 DEF Children, Caller
    <3>5. e[1] = n + 1 /\ e[2] = r
      BY <3>1
    <3>6. QED
      BY <1>1, <1>2, <1>3, <3>2, <3>3, <3>4, <3>5
  <2>3. QED
    BY <2>1, <2>2
<1>8. Sound(g, S \cup {s})
  BY <1>4, <1>6, <1>7 DEF Sound
<1>9. ASSUME NEW i \in Roots(g)
      PROVE  g.nodes[i].name = me
  <2>1. i \in DOMAIN g.nodes /\ \A e \in g.edges : e[2] # i
    BY DEF Roots
  <2>2. ASSUME i \in DOMAIN fd.nodes
        PROVE  FALSE
    <3>1. i \in Roots(fd)
      BY <1>1, <2>1, <2>2 DEF Roots
    <3>2. <<n + 1, i>> \in g.edges
      BY <1>1, <3>1
    <3>3. QED
      BY <2>1, <3>2
  <2>3. QED
    BY <1>1, <1>2, <2>1, <2>2
<1>10. QED
  BY <1>0, <1>8, <1>9 DEF g

LEMMA OwnIsOwned ==
    ASSUME NEW fd, NEW n, OwnOnly(fd, n)
    PROVE  Owned(fd)
BY DEF OwnOnly, Owned

(* A merge brings together what came from different callees. *)
LEMMA MergeOwned ==
    ASSUME DistinctServices, NEW s \in Spans,
           NEW C \in SUBSET Children(s), NEW D \in SUBSET Children(s), C \cap D = {},
           NEW a \in FerriedDataType, NEW b \in FerriedDataType,
           Carries(a, C), Carries(b, D), Owned(a), Owned(b)
    PROVE  /\ Carries(Merge(a, b), C \cup D)
           /\ Merge(a, b).unassigned \subseteq a.unassigned \cup b.unassigned
<1> DEFINE S == UNION {Below[c] : c \in C}
           T == UNION {Below[c] : c \in D}
<1>1. S \in SUBSET Spans /\ T \in SUBSET Spans
  BY BelowClosed DEF Children
<1>2. S \cap T = {}
  <2>1. \A c \in C, d \in D : Below[c] \cap Below[d] = {}
    BY BelowChildren
  <2>2. QED
    BY <2>1
<1>3. Sound(a, S) /\ Sound(b, T)
  BY DEF Carries
<1>4. UNION {Below[c] : c \in C \cup D} = S \cup T
  OBVIOUS
<1> HIDE DEF S, T
<1>5. /\ Sound(Merge(a, b), S \cup T)
      /\ \A i \in Roots(Merge(a, b)) :
           \/ \E j \in Roots(a) : Merge(a, b).nodes[i].name = a.nodes[j].name
           \/ \E j \in Roots(b) : Merge(a, b).nodes[i].name = b.nodes[j].name
  BY <1>1, <1>2, <1>3, MergeSound
<1>6. \A i \in Roots(Merge(a, b)) : \E c \in C \cup D :
        Merge(a, b).nodes[i].name = ServiceOf[c]
  BY <1>5 DEF Carries
<1>7. Merge(a, b).unassigned \subseteq a.unassigned \cup b.unassigned
  BY DEF Merge, RemoveAssignedProperties
<1>8. QED
  BY <1>4, <1>5, <1>6, <1>7 DEF Carries

LEMMA MergeCarries ==
    ASSUME DistinctServices, NEW s \in Spans,
           NEW C \in SUBSET Children(s), NEW D \in SUBSET Children(s), C \cap D = {},
           NEW a \in FerriedDataType, NEW b \in FerriedDataType, NEW n,
           Carries(a, C), Carries(b, D), OwnOnly(a, n), OwnOnly(b, n)
    PROVE  Carries(Merge(a, b), C \cup D) /\ OwnOnly(Merge(a, b), n)
<1>1. Owned(a) /\ Owned(b)
  BY OwnIsOwned
<1>2. /\ Carries(Merge(a, b), C \cup D)
      /\ Merge(a, b).unassigned \subseteq a.unassigned \cup b.unassigned
  BY <1>1, MergeOwned
<1>3. QED
  BY <1>2 DEF OwnOnly

(* What the response hook leaves of the properties that waited.            *)
Left(fd, n) == {p \in fd.unassigned : p.entity # n}

LEMMA OwnAssigned ==
    ASSUME NEW fd, NEW n, OwnOnly(fd, n)
    PROVE  Left(fd, n) = {}
BY DEF OwnOnly, Left

(* The response hook makes data about the whole span of what was fetched.  *)
LEMMA AddMeOwned ==
    ASSUME DistinctServices, NEW s \in Spans, NEW C \in SUBSET Children(s),
           NEW fd \in FerriedDataType, Carries(fd, C), Owned(fd)
    PROVE  /\ Carries(AddMe(fd, ServiceOf[s]), {s})
           /\ AddMe(fd, ServiceOf[s]).unassigned \subseteq Left(fd, ServiceOf[s])
<1> DEFINE S == UNION {Below[c] : c \in C}
           g == AddMe(fd, ServiceOf[s])
<1>1. S \in SUBSET Spans /\ s \notin S /\ S \cup {s} \subseteq Below[s]
  BY BelowClosed, BelowChildren DEF Children
<1>2. Sound(fd, S)
  BY DEF Carries
<1>3. \A i \in Roots(fd) : \E c \in Children(s) : fd.nodes[i].name = ServiceOf[c]
  BY DEF Carries
<1> HIDE DEF S
<1>4. /\ Sound(g, S \cup {s})
      /\ \A i \in Roots(g) : g.nodes[i].name = ServiceOf[s]
  BY <1>1, <1>2, <1>3, AddMeSound
<1>5. g.unassigned \subseteq fd.unassigned /\ \A p \in g.unassigned : p.entity # ServiceOf[s]
  <2>1. ServiceOf[s] \in Services
    BY CallerType
  <2>2. QED
    BY <2>1, AddMeNodes, Zenon
<1>6. g.unassigned \subseteq Left(fd, ServiceOf[s])
  BY <1>5 DEF Left
<1>7. UNION {Below[c] : c \in {s}} = Below[s]
  OBVIOUS
<1>8. Sound(g, Below[s])
  BY <1>1, <1>4, SoundMonotone
<1>9. QED
  BY <1>4, <1>6, <1>7, <1>8 DEF Carries

LEMMA AddMeCarries ==
    ASSUME DistinctServices, NEW s \in Spans, NEW C \in SUBSET Children(s),
           NEW fd \in FerriedDataType, Carries(fd, C), OwnOnly(fd, ServiceOf[s])
    PROVE  /\ Carries(AddMe(fd, ServiceOf[s]), {s})
           /\ AddMe(fd, ServiceOf[s]).unassigned = {}
<1>1. Owned(fd)
  BY OwnIsOwned
<1>2. /\ Carries(AddMe(fd, ServiceOf[s]), {s})
      /\ AddMe(fd, ServiceOf[s]).unassigned \subseteq Left(fd, ServiceOf[s])
  BY <1>1, AddMeOwned
<1>3. QED
  BY <1>2, OwnAssigned

(* The properties that wait for a node are of s or of spans it was called   *)
(* during: no callee's data has nodes for them.                            *)
FromAbove(fd, s) ==
    fd.unassigned \subseteq
        {[entity |-> ServiceOf[u], value |-> PropertyOf[ServiceOf[u]]] :
            u \in {x \in Spans : s \in Below[x]}}

LEMMA OwnIsAbove ==
    ASSUME NEW s \in Spans, NEW fd, OwnOnly(fd, ServiceOf[s])
    PROVE  FromAbove(fd, s)
<1>1. s \in {x \in Spans : s \in Below[x]}
  BY BelowClosed
<1>2. QED
  BY <1>1 DEF OwnOnly, FromAbove

LEMMA AboveIsOwned ==
    ASSUME NEW s \in Spans, NEW fd, FromAbove(fd, s)
    PROVE  Owned(fd)
BY DEF FromAbove, Owned

LEMMA AboveHasNoNode ==
    ASSUME DistinctServices, NEW s \in Spans, NEW C \in SUBSET Children(s),
           NEW x, Carries(x, C), NEW fd, FromAbove(fd, s)
    PROVE  \A p \in fd.unassigned : p.entity \notin NamesIn(x.nodes)
<1>1. SUFFICES ASSUME NEW p \in fd.unassigned, p.entity \in NamesIn(x.nodes)
               PROVE  FALSE
  OBVIOUS
<1>2. PICK u \in Spans : s \in Below[u] /\ p.entity = ServiceOf[u]
  BY DEF FromAbove
<1>3. PICK i \in DOMAIN x.nodes : x.nodes[i].name = ServiceOf[u]
  BY <1>1, <1>2 DEF NamesIn
<1>4. PICK c \in C : u \in Below[c]
  <2>1. PICK t \in UNION {Below[c] : c \in C} : ServiceOf[t] = x.nodes[i].name
    BY DEF Carries, Sound
  <2>2. \A c \in C : Below[c] \subseteq Spans
    BY BelowClosed DEF Children
  <2>3. t = u
    BY <1>3, <2>1, <2>2 DEF DistinctServices
  <2>4. QED
    BY <2>1, <2>3
<1>5. s \in Below[c] /\ s \notin Below[c]
  <2>1. c \in Children(s) /\ c \in Spans
    BY DEF Children
  <2>2. QED
    BY <1>2, <1>4, <2>1, BelowTransitive, BelowChildren
<1>6. QED
  BY <1>5

LEMMA ChildrenOfSpans ==
    /\ \A s, c : c \in Children(s) <=> c \in Spans \ {RootSpan} /\ Parent[c] = s
    /\ \A c \in Spans \ {RootSpan} : Parent[c] \in Spans /\ Parent[c] # c
<1>1. \A s, c : c \in Children(s) <=> c \in Spans \ {RootSpan} /\ Parent[c] = s
  BY DEF Children
<1>2. ASSUME NEW c \in Spans \ {RootSpan}
      PROVE  Parent[c] \in Spans /\ Parent[c] # c
  <2>1. Parent[c] \in Spans
    BY TraceAssumption
  <2>2. QED
    BY <1>1, <2>1, BelowChildren, BelowClosed
<1>3. QED
  BY <1>1, <1>2
-----------------------------------------------------------------------------
(* The spans that were called during s and came back. *)
Fetched(s) == {c \in Children(s) : phase[c] = "done"}

(* Nothing is called during a span before its request hook is over.         *)
IdleBelow ==
    \A s \in Spans : phase[s] \in {"idle", "storing"} =>
        \A c \in Children(s) : phase[c] = "idle"

(* A span that is done stays so: what was fetched stays fetched.            *)
DoneStays == \A c \in Spans : phase[c] = "done" => phase'[c] = "done"

LEMMA FetchedGrows ==
    ASSUME DoneStays
    PROVE  \A s : Fetched(s) \subseteq Fetched(s)'
BY DEF DoneStays, Fetched, Children

(* A span is requested only by a service that is at work. *)
LEMMA IdleKept ==
    ASSUME phase \in [Spans -> Phases], IdleBelow, NEW s \in Spans, NEW p,
           phase' = [phase EXCEPT ![s] = p],
           \/ Requested(s)
           \/ phase[s] # "idle" /\ p \notin {"idle", "storing"}
    PROVE  IdleBelow'
<1> SUFFICES ASSUME NEW t \in Spans, phase'[t] \in {"idle", "storing"},
                    NEW c \in Children(t)
             PROVE  phase'[c] = "idle"
  BY DEF IdleBelow, Children
<1>1. c \in Spans /\ c # t /\ Parent[c] = t /\ c # RootSpan
  BY ChildrenOfSpans
<1>2. phase[t] \in {"idle", "storing"}
  BY DEF Requested
<1>3. phase[c] = "idle"
  BY <1>2 DEF IdleBelow
<1>4. CASE c = s
  BY <1>1, <1>2, <1>3, <1>4 DEF Requested
<1>5. CASE c # s
  BY <1>1, <1>3, <1>5
<1>6. QED
  BY <1>4, <1>5

(* A hook of s is between the read and the write of the shared data at At(s). *)
Writing(s) == phase[s] \in {"storing", "merging"}

At(s) == IF phase[s] = "merging" THEN Caller(s) ELSE ServiceOf[s]

(* The response of the root span goes back to whoever asked. *)
RootStays == phase[RootSpan] \notin {"merging", "done"}

(* No two hooks are between the read and the write of the same data. *)
OneWriter == \A s, t \in Spans : Writing(s) /\ Writing(t) /\ At(s) = At(t) => s = t

(* The step is one of s. *)
Moves(s) == \A t \in Spans : t # s => phase'[t] = phase[t]

LEMMA AtType ==
    ASSUME RootStays, NEW s \in Spans
    PROVE  At(s) \in Services
<1>1. phase[s] = "merging" => s # RootSpan
  BY DEF RootStays
<1>2. QED
  BY <1>1, CallerType DEF At

(* With one worker thread, a free worker means that nobody is writing. *)
LEMMA FreeIsIdle ==
    ASSUME Workers = 1, OneWriter, NEW n, WorkerFree(n)
    PROVE  \A s \in Spans : ~ (Writing(s) /\ At(s) = n)
<1> DEFINE Busy == {s \in Spans : \/ phase[s] = "storing" /\ ServiceOf[s] = n
                                  \/ phase[s] = "merging" /\ Caller(s) = n}
<1>1. \A s \in Spans : (Writing(s) /\ At(s) = n) <=> s \in Busy
  BY DEF Writing, At
<1>2. Cardinality(Busy) < 1
  BY DEF WorkerFree
<1> HIDE DEF Busy
<1>3. ASSUME NEW s \in Spans, s \in Busy
      PROVE  FALSE
  <2>1. \A t \in Busy : t = s
    <3>1. Busy \subseteq Spans
      BY DEF Busy
    <3>2. QED
      BY <1>1, <1>3, <3>1 DEF OneWriter
  <2>2. Busy = {s}
    BY <1>3, <2>1
  <2>3. Cardinality(Busy) = 1
    BY <2>2, FS_Singleton
  <2>4. QED
    BY <1>2, <2>3
<1>4. QED
  BY <1>1, <1>3
-----------------------------------------------------------------------------
(* find_root finds a node without an incoming edge wherever there is one.  *)
LEMMA FindRootFinds ==
    ASSUME NEW h, h.nodes \in Seq(PatternNode),
           \E u \in DOMAIN h.nodes : \A e \in h.edges : e[2] # u
    PROVE  FindRoot(h) \in DOMAIN h.nodes /\ \A e \in h.edges : e[2] # FindRoot(h)
<1> DEFINE T == {u \in DOMAIN h.nodes : \A e \in h.edges : e[2] # u}
<1>1. T \in SUBSET Nat /\ T # {} /\ DOMAIN h.nodes = 1 .. Len(h.nodes) /\ Len(h.nodes) \in Nat
  OBVIOUS
<1>2. PICK x \in T : \A y \in T : x <= y
  BY <1>1, LeastPosition, Zenon
<1>3. \A w \in 1 .. x - 1 : w \in DOMAIN h.nodes /\ ~ (x <= w)
  BY <1>1
<1>4. /\ x \in DOMAIN h.nodes
      /\ \A e \in h.edges : e[2] # x
      /\ \A w \in 1 .. x - 1 : \E e \in h.edges : e[2] = w
  BY <1>2, <1>3
<1>5. QED
  BY <1>4 DEF FindRoot

LEMMA TargetRoot ==
    FindRoot(Target) \in DOMAIN Target.nodes /\ \A e \in Target.edges : e[2] # FindRoot(Target)
BY PatternAssumption, FindRootFinds
-----------------------------------------------------------------------------
(* n's own property waits for n's node. *)
OwnWaits(fd, n) == \E p \in fd.unassigned : p.entity = n

(* A property goes on waiting until there is a node for it. *)
LEMMA MergeWaits ==
    ASSUME NEW a \in FerriedDataType, NEW b \in FerriedDataType, NEW n,
           n \notin NamesIn(a.nodes), n \notin NamesIn(b.nodes),
           OwnWaits(a, n) \/ OwnWaits(b, n)
    PROVE  OwnWaits(Merge(a, b), n)
<1> DEFINE both == a.nodes \o b.nodes
<1>1. a.nodes \in Seq(Node) /\ b.nodes \in Seq(Node)
  BY DEF FerriedDataType
<1>2. n \notin NamesIn(both)
  <2>1. /\ \A i \in DOMAIN a.nodes : both[i] = a.nodes[i]
        /\ \A k \in DOMAIN b.nodes : both[k + Len(a.nodes)] = b.nodes[k]
        /\ \A i \in DOMAIN both : i \notin DOMAIN a.nodes =>
              \E k \in DOMAIN b.nodes : i = k + Len(a.nodes)
    BY <1>1, ConcatPositions, Zenon
  <2> HIDE DEF both
  <2>2. \A i \in DOMAIN both : both[i].name # n
    BY <2>1 DEF NamesIn
  <2>3. QED
    BY <2>2 DEF NamesIn
<1>3. Merge(a, b).unassigned = RemoveAssignedProperties(a.unassigned, both)
                               \cup RemoveAssignedProperties(b.unassigned, both)
  BY DEF Merge
<1> HIDE DEF both
<1>4. QED
  BY <1>2, <1>3 DEF OwnWaits, RemoveAssignedProperties

(* What fd, as data of a span s, tells of t: its property, and if t is not  *)
(* s, who called it.                                                       *)
Tells(fd, s, t) ==
    \E j \in DOMAIN fd.nodes :
        /\ fd.nodes[j] = [name |-> ServiceOf[t], value |-> PropertyOf[ServiceOf[t]]]
        /\ t # s => \E i \in DOMAIN fd.nodes :
                        <<i, j>> \in fd.edges /\ fd.nodes[i].name = Caller(t)

(* What one of two graphs tells, their merge tells: its nodes keep the      *)
(* properties they have, and the edges of the second graph, found by name,  *)
(* lead between the same services.                                         *)
LEMMA MergeTells ==
    ASSUME NEW a \in FerriedDataType, NEW b \in FerriedDataType, NEW S,
           Sound(Merge(a, b), S), Owned(a), Owned(b), NEW c, NEW t
    PROVE  Tells(a, c, t) \/ Tells(b, c, t) => Tells(Merge(a, b), c, t)
<1> DEFINE m == Merge(a, b)
           la == Len(a.nodes)
           both == a.nodes \o b.nodes
           Is(node, u) == node = [name |-> ServiceOf[u], value |-> PropertyOf[ServiceOf[u]]]
<1>1. a.nodes \in Seq(Node) /\ b.nodes \in Seq(Node)
  BY DEF FerriedDataType
<1>2. /\ \A i \in DOMAIN a.nodes : i \in DOMAIN both /\ both[i] = a.nodes[i]
      /\ \A k \in DOMAIN b.nodes : k + la \in DOMAIN both /\ both[k + la] = b.nodes[k]
  BY <1>1, ConcatPositions, Zenon
<1>3. /\ m.nodes \in Seq(Node)
      /\ DOMAIN m.nodes = DOMAIN both
      /\ \A i \in DOMAIN both :
            /\ m.nodes[i].name = both[i].name
            /\ \/ m.nodes[i].value = both[i].value
               \/ \E p \in a.unassigned \cup b.unassigned :
                    p.entity = m.nodes[i].name /\ p.value = m.nodes[i].value
  BY MergeNodes, Zenon
<1>4. m.edges = a.edges \cup EdgesByName(both, b) /\ both \in Seq(Node)
  BY <1>1, ConcatPositions DEF Merge
<1> HIDE DEF m, both, la
<1>5. ASSUME NEW i \in DOMAIN both, Is(both[i], t)
      PROVE  Is(m.nodes[i], t)
  <2>1. m.nodes[i] \in Node
    BY <1>3
  <2>2. m.nodes[i].name = ServiceOf[t]
    BY <1>3, <1>5
  <2>3. m.nodes[i].value = PropertyOf[ServiceOf[t]]
    BY <1>3, <1>5, <2>2 DEF Owned
  <2>4. QED
    BY <2>1, <2>2, <2>3 DEF Node
<1>6. ASSUME NEW i \in DOMAIN both, NEW j \in DOMAIN both, both[i].name = both[j].name
      PROVE  i = j
  <2>1. m.nodes[i].name = m.nodes[j].name /\ i \in DOMAIN m.nodes /\ j \in DOMAIN m.nodes
    BY <1>3, <1>6
  <2>2. QED
    BY <2>1 DEF Sound, m
<1>7. ASSUME Tells(a, c, t)
      PROVE  \E j \in DOMAIN m.nodes :
                /\ Is(m.nodes[j], t)
                /\ t # c => \E i \in DOMAIN m.nodes :
                        <<i, j>> \in m.edges /\ m.nodes[i].name = Caller(t)
  <2>1. PICK j \in DOMAIN a.nodes :
          /\ Is(a.nodes[j], t)
          /\ t # c => \E i \in DOMAIN a.nodes :
                <<i, j>> \in a.edges /\ a.nodes[i].name = Caller(t)
    BY <1>7 DEF Tells
  <2>2. j \in DOMAIN m.nodes /\ Is(m.nodes[j], t)
    <3>1. j \in DOMAIN both /\ both[j] = a.nodes[j]
      BY <1>2
    <3>2. Is(both[j], t)
      BY <2>1, <3>1
    <3> HIDE DEF Is
    <3>3. QED
      BY <1>3, <1>5, <3>1, <3>2
  <2>3. ASSUME t # c
        PROVE  \E i \in DOMAIN m.nodes : <<i, j>> \in m.edges /\ m.nodes[i].name = Caller(t)
    BY <1>2, <1>3, <1>4, <2>1, <2>3
  <2>4. QED
    BY <2>2, <2>3
<1>8. ASSUME Tells(b, c, t)
      PROVE  \E j \in DOMAIN m.nodes :
                /\ Is(m.nodes[j], t)
                /\ t # c => \E i \in DOMAIN m.nodes :
                        <<i, j>> \in m.edges /\ m.nodes[i].name = Caller(t)
  <2>1. PICK k \in DOMAIN b.nodes :
          /\ Is(b.nodes[k], t)
          /\ t # c => \E i \in DOMAIN b.nodes :
                <<i, k>> \in b.edges /\ b.nodes[i].name = Caller(t)
    BY <1>8 DEF Tells
  <2>2. k + la \in DOMAIN m.nodes /\ Is(m.nodes[k + la], t)
    <3>1. k + la \in DOMAIN both /\ both[k + la] = b.nodes[k]
      BY <1>2
    <3>2. Is(both[k + la], t)
      BY <2>1, <3>1
    <3> HIDE DEF Is
    <3>3. QED
      BY <1>3, <1>5, <3>1, <3>2
  <2>3. ASSUME t # c
        PROVE  \E i \in DOMAIN m.nodes : <<i, k + la>> \in m.edges /\ m.nodes[i].name = Caller(t)
    <3>1. PICK i \in DOMAIN b.nodes : <<i, k>> \in b.edges /\ b.nodes[i].name = Caller(t)
      BY <2>1, <2>3
    <3>2. ASSUME NEW l \in DOMAIN b.nodes
          PROVE  GetNodeWithId(both, b.nodes[l].name) = l + la
      <4>1. l + la \in DOMAIN both /\ both[l + la].name = b.nodes[l].name
        BY <1>2
      <4>2. b.nodes[l].name \in NamesIn(both)
        BY <4>1 DEF NamesIn
      <4>3. /\ GetNodeWithId(both, b.nodes[l].name) \in DOMAIN both
            /\ both[GetNodeWithId(both, b.nodes[l].name)].name = b.nodes[l].name
        BY <1>4, <4>2, GetNodeWithIdFinds
      <4>4. QED
        BY <1>6, <4>1, <4>3
    <3>3. <<GetNodeWithId(both, b.nodes[i].name), GetNodeWithId(both, b.nodes[k].name)>>
            \in EdgesByName(both, b)
      <4> DEFINE f == <<i, k>>
      <4>1. f \in b.edges /\ f[1] = i /\ f[2] = k
        BY <3>1
      <4> HIDE DEF f
      <4>2. QED
        BY <4>1 DEF EdgesByName
    <3>4. <<i + la, k + la>> \in m.edges
      BY <1>4, <3>2, <3>3
    <3>5. i + la \in DOMAIN m.nodes /\ m.nodes[i + la].name = Caller(t)
      BY <1>2, <1>3, <3>1
    <3>6. QED
      BY <3>4, <3>5
  <2>4. QED
    BY <2>2, <2>3
<1>9. QED
  BY <1>7, <1>8 DEF Tells, m

LEMMA MergeComplete ==
    ASSUME NEW a \in FerriedDataType, NEW b \in FerriedDataType, NEW S,
           Sound(Merge(a, b), S), Owned(a), Owned(b), NEW c \in Spans
    PROVE  /\ Complete(a, c) => Complete(Merge(a, b), c)
           /\ Complete(b, c) => Complete(Merge(a, b), c)
<1>1. \A fd : Complete(fd, c) <=> \A t \in Awaited[c] : Tells(fd, c, t)
  BY DEF Complete, Tells
<1>2. \A t : Tells(a, c, t) \/ Tells(b, c, t) => Tells(Merge(a, b), c, t)
  BY MergeTells
<1>3. QED
  BY <1>1, <1>2

(* What s waits for is below the spans called during s that it waits for.  *)
LEMMA AwaitedSplit ==
    ASSUME NEW s \in Spans, NEW t \in Awaited[s], t # s
    PROVE  \E c \in Children(s) \ Detached : t \in Awaited[c]
<1> DEFINE waited == {<<Parent[c], c>> : c \in Spans \ (Detached \cup {RootSpan})}
           S == {s} \cup UNION {Awaited[c] : c \in Children(s) \ Detached}
<1>1. \A x \in Spans : Awaited[x] = Reachable(Spans, waited, x)
  BY DEF Awaited
<1>2. \A e \in waited : e[1] \in Spans => e[2] \in Spans
  OBVIOUS
<1>3. ASSUME NEW x \in Spans
      PROVE  /\ x \in Awaited[x] /\ Awaited[x] \subseteq Spans
             /\ \A e \in waited : e[1] \in Awaited[x] => e[2] \in Awaited[x]
             /\ \A T \in SUBSET Spans :
                  x \in T /\ (\A e \in waited : e[1] \in T => e[2] \in T)
                      => Awaited[x] \subseteq T
  <2> HIDE DEF waited
  <2>1. /\ x \in Reachable(Spans, waited, x)
        /\ Reachable(Spans, waited, x) \subseteq Spans
        /\ \A e \in waited : e[1] \in Reachable(Spans, waited, x)
                             => e[2] \in Reachable(Spans, waited, x)
        /\ \A T \in SUBSET Spans :
             x \in T /\ (\A e \in waited : e[1] \in T => e[2] \in T)
                 => Reachable(Spans, waited, x) \subseteq T
    BY <1>2, ReachableIsLeast, Zenon
  <2>2. QED
    BY <1>1, <2>1
<1>4. \A c \in Children(s) : c \in Spans
  BY DEF Children
<1>5. S \in SUBSET Spans /\ s \in S
  BY <1>3, <1>4
<1>6. ASSUME NEW e \in waited, e[1] \in S
      PROVE  e[2] \in S
  <2>1. CASE e[1] = s
    <3>1. PICK c \in Spans \ (Detached \cup {RootSpan}) : e = <<Parent[c], c>>
      OBVIOUS
    <3>2. e[2] \in Children(s) \ Detached
      BY <2>1, <3>1 DEF Children
    <3>3. QED
      BY <1>3, <1>4, <3>2
  <2>2. CASE e[1] # s
    <3>1. PICK c \in Children(s) \ Detached : e[1] \in Awaited[c]
      BY <1>6, <2>2
    <3>2. e[2] \in Awaited[c]
      BY <1>3, <1>4, <3>1
    <3>3. QED
      BY <3>1, <3>2
  <2>3. QED
    BY <2>1, <2>2
<1> HIDE DEF waited
<1>7. Awaited[s] \subseteq S
  BY <1>3, <1>5, <1>6
<1>8. QED
  BY <1>7

(* A sidecar's own node, over the roots, tells of its span, and of the calls *)
(* made during it that there were.                                         *)
LEMMA AddMeTells ==
    ASSUME DistinctServices, NEW s \in Spans, NEW t,
           NEW fd \in FerriedDataType,
           Sound(fd, Below[s] \ {s}), Owned(fd),
           \E p \in fd.unassigned : p.entity = ServiceOf[s],
           t = s \/ \E c \in Children(s) : Tells(fd, c, t)
    PROVE  Tells(AddMe(fd, ServiceOf[s]), s, t)
<1>0. PICK me \in Services : me = ServiceOf[s]
  BY CallerType
<1> DEFINE g == AddMe(fd, me)
           n == Len(fd.nodes)
           Is(node, r) == node = [name |-> ServiceOf[r], value |-> PropertyOf[ServiceOf[r]]]
<1>1. /\ g.nodes \in Seq(Node)
      /\ n \in Nat
      /\ DOMAIN fd.nodes = 1 .. n
      /\ DOMAIN g.nodes = 1 .. n + 1
      /\ g.nodes[n + 1].name = me
      /\ g.edges = fd.edges \cup {<<n + 1, r>> : r \in Roots(fd)}
      /\ \A i \in DOMAIN fd.nodes :
            /\ g.nodes[i].name = fd.nodes[i].name
            /\ \/ g.nodes[i].value = fd.nodes[i].value
               \/ \E p \in fd.unassigned :
                    p.entity = g.nodes[i].name /\ p.value = g.nodes[i].value
  BY AddMeNodes
<1>2. me \notin NamesIn(fd.nodes)
  <2>1. ASSUME NEW i \in DOMAIN fd.nodes, fd.nodes[i].name = me
        PROVE  FALSE
    <3>1. PICK r \in Below[s] \ {s} : ServiceOf[r] = fd.nodes[i].name
      BY DEF Sound
    <3>2. r \in Spans
      BY BelowClosed
    <3>3. QED
      BY <1>0, <2>1, <3>1, <3>2 DEF DistinctServices
  <2>2. QED
    BY <2>1 DEF NamesIn
<1>3. g.nodes[n + 1].value = PropertyOf[me]
  <2>1. \E p \in fd.unassigned : p.entity = me /\ g.nodes[n + 1].value = p.value
    BY <1>0, <1>2, AddMeAssigns
  <2>2. QED
    BY <2>1 DEF Owned
<1> HIDE DEF g, n
<1>4. /\ n + 1 \in DOMAIN g.nodes
      /\ \A i \in DOMAIN fd.nodes : i \in DOMAIN g.nodes
  BY <1>1
<1>5. Is(g.nodes[n + 1], s)
  <2>1. g.nodes[n + 1] \in Node
    BY <1>1, <1>4
  <2>2. QED
    BY <1>0, <1>1, <1>3, <2>1 DEF Node
<1>6. ASSUME NEW i \in DOMAIN fd.nodes, Is(fd.nodes[i], t)
      PROVE  Is(g.nodes[i], t)
  <2>1. g.nodes[i] \in Node
    BY <1>1, <1>4
  <2>2. g.nodes[i].name = ServiceOf[t]
    BY <1>1, <1>6
  <2>3. g.nodes[i].value = PropertyOf[ServiceOf[t]]
    BY <1>1, <1>6, <2>2 DEF Owned
  <2>4. QED
    BY <2>1, <2>2, <2>3 DEF Node
<1>7. ASSUME t # s
      PROVE  \E j \in DOMAIN g.nodes :
                /\ Is(g.nodes[j], t)
                /\ \E i \in DOMAIN g.nodes : <<i, j>> \in g.edges /\ g.nodes[i].name = Caller(t)
  <2>1. PICK c \in Children(s) : Tells(fd, c, t)
    BY <1>7
  <2>2. PICK j \in DOMAIN fd.nodes :
          /\ Is(fd.nodes[j], t)
          /\ t # c => \E i \in DOMAIN fd.nodes :
                <<i, j>> \in fd.edges /\ fd.nodes[i].name = Caller(t)
    BY <2>1 DEF Tells
  <2>3. j \in DOMAIN g.nodes /\ Is(g.nodes[j], t)
    <3> HIDE DEF Is
    <3>1. QED
      BY <1>4, <1>6, <2>2
  <2>4. CASE t # c
    <3>1. PICK i \in DOMAIN fd.nodes : <<i, j>> \in fd.edges /\ fd.nodes[i].name = Caller(t)
      BY <2>2, <2>4
    <3>2. i \in DOMAIN g.nodes /\ <<i, j>> \in g.edges /\ g.nodes[i].name = Caller(t)
      BY <1>1, <1>4, <3>1
    <3> HIDE DEF Is
    <3>3. QED
      BY <2>3, <3>2
  <2>5. CASE t = c
    <3>1. c \in Spans \ {RootSpan} /\ Caller(c) = me
      BY <1>0, <2>1 DEF Children, Caller
    <3>2. fd.nodes[j].name = ServiceOf[c]
      BY <2>2, <2>5
    <3>3. ASSUME NEW e \in fd.edges, e[2] = j
          PROVE  FALSE
      <4>1. PICK d \in Spans \ {RootSpan} :
              /\ e[1] \in DOMAIN fd.nodes
              /\ fd.nodes[e[1]].name = Caller(d) /\ fd.nodes[e[2]].name = ServiceOf[d]
        BY DEF Sound
      <4>2. d = c
        BY <3>1, <3>2, <3>3, <4>1 DEF DistinctServices
      <4>3. fd.nodes[e[1]].name = me
        BY <3>1, <4>1, <4>2
      <4>4. QED
        BY <1>2, <4>1, <4>3 DEF NamesIn
    <3>4. j \in Roots(fd)
      BY <3>3 DEF Roots
    <3>5. <<n + 1, j>> \in g.edges /\ g.nodes[n + 1].name = Caller(t)
      BY <1>1, <2>5, <3>1, <3>4
    <3> HIDE DEF Is
    <3>6. QED
      BY <1>4, <2>3, <3>5
  <2>6. QED
    BY <2>4, <2>5
<1>8. Tells(g, s, t)
  BY <1>4, <1>5, <1>7 DEF Tells
<1>9. QED
  BY <1>0, <1>8 DEF g

(* A sidecar that has its own property and what every span it waited for   *)
(* returned has the whole story of its span.                               *)
LEMMA AddMeComplete ==
    ASSUME DistinctServices, NEW s \in Spans, NEW C, Children(s) \ Detached \subseteq C,
           NEW fd \in FerriedDataType,
           Sound(fd, Below[s] \ {s}), Owned(fd),
           \E p \in fd.unassigned : p.entity = ServiceOf[s],
           \A c \in C : Complete(fd, c)
    PROVE  Complete(AddMe(fd, ServiceOf[s]), s)
<1>1. ASSUME NEW t \in Awaited[s]
      PROVE  Tells(AddMe(fd, ServiceOf[s]), s, t)
  <2>1. ASSUME t # s
        PROVE  \E c \in Children(s) : Tells(fd, c, t)
    <3>1. PICK c \in Children(s) \ Detached : t \in Awaited[c]
      BY <2>1, AwaitedSplit
    <3>2. Tells(fd, c, t)
      BY <3>1 DEF Complete, Tells
    <3>3. QED
      BY <3>1, <3>2
  <2>2. QED
    BY <2>1, AddMeTells
<1>2. QED
  BY <1>1 DEF Complete, Tells
-----------------------------------------------------------------------------
(* The trace as far as it was called, and where the pattern matches what    *)
(* was called of it below a span.                                          *)
CalledSpans == {s \in Spans : phase[s] # "idle"}

CalledNames == {ServiceOf[s] : s \in CalledSpans}

Seen(s) == Below[s] \cap CalledSpans

MatchesSeen(s) ==
    {m \in Seen(s) :
        EmbedsAt(Target, [t \in Seen(s) |-> SpanLabel[t]],
                 {<<Parent[c], c>> : c \in Seen(s) \ {s}}, m)}

(* With a called span, its caller was called. *)
CallersCalled == \A c \in CalledSpans \ {RootSpan} : Parent[c] \in CalledSpans

LEMMA NoNamesInDefault == NamesIn(Default.nodes) = {}
BY DEF Default, NamesIn

LEMMA IdleCallers == IdleBelow => CallersCalled
<1> SUFFICES ASSUME IdleBelow, NEW c \in CalledSpans \ {RootSpan}
             PROVE  Parent[c] \in CalledSpans
  BY DEF CallersCalled
<1>1. c \in Spans /\ c \in Children(Parent[c]) /\ Parent[c] \in Spans
  BY ChildrenOfSpans DEF CalledSpans
<1>2. QED
  BY <1>1 DEF IdleBelow, CalledSpans

(* What is reachable from s among the called spans is what was called of    *)
(* the trace below s.                                                      *)
LEMMA SeenBelowIs ==
    ASSUME CallersCalled, NEW s \in CalledSpans
    PROVE  Reachable(CalledSpans, {<<Parent[c], c>> : c \in CalledSpans \ {RootSpan}}, s)
             = Seen(s)
<1> DEFINE edges == {<<Parent[c], c>> : c \in CalledSpans \ {RootSpan}}
           seen == Reachable(CalledSpans, edges, s)
<1>2. CalledSpans \subseteq Spans /\ s \in Spans
  BY DEF CalledSpans
<1>3. \A c \in CalledSpans \ {RootSpan} : Parent[c] \in CalledSpans
  BY DEF CallersCalled
<1>4. \A e \in edges : e[1] \in CalledSpans => e[2] \in CalledSpans
  OBVIOUS
<1>5. /\ s \in seen /\ seen \subseteq CalledSpans
      /\ \A e \in edges : e[1] \in seen => e[2] \in seen
      /\ \A S \in SUBSET CalledSpans :
            s \in S /\ (\A e \in edges : e[1] \in S => e[2] \in S) => seen \subseteq S
  <2> HIDE DEF edges
  <2> QED
    BY <1>4, ReachableIsLeast, Zenon
<1> HIDE DEF seen
<1>6. seen \subseteq Seen(s)
  <2>1. s \in Seen(s) /\ Seen(s) \in SUBSET CalledSpans
    BY <1>2, BelowClosed DEF Seen
  <2>2. \A e \in edges : e[1] \in Seen(s) => e[2] \in Seen(s)
    BY <1>2, BelowClosed DEF Seen
  <2>3. QED
    BY <1>5, <2>1, <2>2
<1>7. Seen(s) \subseteq seen
  <2> DEFINE S == {t \in Spans : t \in CalledSpans => t \in seen}
  <2>1. s \in S /\ S \in SUBSET Spans
    BY <1>2, <1>5
  <2>2. ASSUME NEW c \in Spans \ {RootSpan}, Parent[c] \in S
        PROVE  c \in S
    <3>1. ASSUME c \in CalledSpans
          PROVE  c \in seen
      <4>1. Parent[c] \in seen
        BY <1>3, <2>2, <3>1
      <4>2. <<Parent[c], c>> \in edges
        BY <3>1
      <4>3. QED
        BY <1>5, <4>1, <4>2
    <3>2. QED
      BY <3>1
  <2> HIDE DEF S
  <2>3. Below[s] \subseteq S
    BY <1>2, <2>1, <2>2, BelowWithin
  <2>4. QED
    BY <2>3 DEF S, Seen
<1>8. QED
  BY <1>6, <1>7 DEF seen

(* A match in a graph that is sound about the span s, and has no node of a  *)
(* service that was not called, is a match in the trace below s.           *)
LEMMA MatchIsReal ==
    ASSUME DistinctServices, NEW s \in CalledSpans,
           NEW g, Sound(g, Below[s]), NamesIn(g.nodes) \subseteq CalledNames,
           NEW v \in DOMAIN g.nodes, EmbedsAt(Target, g.nodes, g.edges, v)
    PROVE  \E m \in MatchesSeen(s) : ServiceOf[m] = g.nodes[v].name
<1> DEFINE seen == Seen(s)
           calledges == {<<Parent[c], c>> : c \in seen \ {s}}
           labels == [t \in seen |-> SpanLabel[t]]
           U == DOMAIN Target.nodes
           root == FindRoot(Target)
           spanOf(i) == CHOOSE t \in seen : ServiceOf[t] = g.nodes[i].name
<1>1. s \in Spans /\ CalledSpans \subseteq Spans /\ seen \subseteq Spans
  BY DEF CalledSpans, Seen
<1>2. ASSUME NEW i \in DOMAIN g.nodes
      PROVE  spanOf(i) \in seen /\ ServiceOf[spanOf(i)] = g.nodes[i].name
  <2>1. PICK t \in Below[s] : ServiceOf[t] = g.nodes[i].name
    BY DEF Sound
  <2>2. PICK r \in CalledSpans : ServiceOf[r] = g.nodes[i].name
    BY DEF NamesIn, CalledNames
  <2>3. t = r
    BY <1>1, <2>1, <2>2, BelowClosed DEF DistinctServices
  <2>4. QED
    BY <2>1, <2>2, <2>3 DEF Seen
<1>3. PICK f \in [U -> DOMAIN g.nodes] :
        /\ f[root] = v
        /\ \A u, w \in U : f[u] = f[w] => u = w
        /\ \A e \in Target.edges : <<f[e[1]], f[e[2]]>> \in g.edges
        /\ \A u \in U : HasPropertySubset(g.nodes[f[u]], Target.nodes[u])
  BY DEF EmbedsAt
<1> DEFINE k == [u \in U |-> spanOf(f[u])]
<1> HIDE DEF spanOf
<1>4. \A u \in U : k[u] \in seen /\ ServiceOf[k[u]] = g.nodes[f[u]].name
  BY <1>2, <1>3
<1>5. k \in [U -> DOMAIN labels] /\ DOMAIN labels = seen
  BY <1>4
<1>6. \A u, w \in U : k[u] = k[w] => u = w
  <2> SUFFICES ASSUME NEW u \in U, NEW w \in U, k[u] = k[w]
               PROVE  u = w
    OBVIOUS
  <2>1. g.nodes[f[u]].name = g.nodes[f[w]].name
    BY <1>4
  <2>2. f[u] = f[w]
    BY <1>3, <2>1 DEF Sound
  <2>3. QED
    BY <1>3, <2>2
<1>7. ASSUME NEW e \in Target.edges
      PROVE  <<k[e[1]], k[e[2]]>> \in calledges
  <2>1. e[1] \in U /\ e[2] \in U
    BY PatternAssumption
  <2>2. <<f[e[1]], f[e[2]]>> \in g.edges
    BY <1>3
  <2>3. PICK c \in Spans \ {RootSpan} :
          g.nodes[f[e[1]]].name = Caller(c) /\ g.nodes[f[e[2]]].name = ServiceOf[c]
    <3> DEFINE d == <<f[e[1]], f[e[2]]>>
    <3>1. d[1] = f[e[1]] /\ d[2] = f[e[2]] /\ d \in g.edges
      BY <2>2
    <3> HIDE DEF d
    <3>2. \E c \in Spans \ {RootSpan} :
            g.nodes[d[1]].name = Caller(c) /\ g.nodes[d[2]].name = ServiceOf[c]
      BY <3>1 DEF Sound
    <3>3. QED
      BY <3>1, <3>2
  <2>4. /\ k[e[1]] \in seen /\ ServiceOf[k[e[1]]] = ServiceOf[Parent[c]]
        /\ k[e[2]] \in seen /\ ServiceOf[k[e[2]]] = ServiceOf[c]
    BY <1>4, <2>1, <2>3 DEF Caller
  <2>5. Parent[c] \in Spans
    BY ChildrenOfSpans
  <2>6. k[e[1]] = Parent[c] /\ k[e[2]] = c
    BY <1>1, <2>4, <2>5 DEF DistinctServices
  <2>7. c # s
    <3>1. c \in Children(Parent[c])
      BY ChildrenOfSpans
    <3>2. Parent[c] \notin Below[c]
      BY <2>5, <3>1, BelowChildren
    <3>3. QED
      BY <2>4, <2>6, <3>2 DEF Seen
  <2>8. QED
    BY <2>4, <2>6, <2>7
<1>8. ASSUME NEW u \in U
      PROVE  HasPropertySubset(labels[k[u]], Target.nodes[u])
  <2>1. HasPropertySubset(g.nodes[f[u]], Target.nodes[u])
    BY <1>3
  <2>2. /\ labels[k[u]].name = g.nodes[f[u]].name
        /\ labels[k[u]].value = PropertyOf[g.nodes[f[u]].name]
    BY <1>1, <1>4 DEF SpanLabel
  <2>3. g.nodes[f[u]].value \in {NoValue, PropertyOf[g.nodes[f[u]].name]}
    BY <1>3 DEF Sound
  <2>4. QED
    BY <2>1, <2>2, <2>3 DEF HasPropertySubset
<1>9. root \in U
  BY TargetRoot
<1>10. EmbedsAt(Target, labels, calledges, k[root])
  BY <1>5, <1>6, <1>7, <1>8 DEF EmbedsAt
<1>11. k[root] \in seen /\ ServiceOf[k[root]] = g.nodes[v].name
  BY <1>3, <1>4, <1>9
<1>12. k[root] \in MatchesSeen(s)
  <2> HIDE DEF k
  <2>1. QED
    BY <1>10, <1>11 DEF MatchesSeen
<1>13. QED
  BY <1>11, <1>12
-----------------------------------------------------------------------------
(* Selected takes an element for each position, ...                         *)
Ranked(P) ==
    \A j \in 1 .. Cardinality(P) : \E k \in P : Cardinality({i \in P : i <= k}) = j

LEMMA PositionsAdd ==
    ASSUME NEW n \in Nat, NEW P \in SUBSET (1 .. n)
    PROVE  /\ IsFiniteSet(P) /\ Cardinality(P) \in Nat
           /\ Cardinality(P \cup {n + 1}) = Cardinality(P) + 1
           /\ \A k : Cardinality({i \in P : i <= k}) \in 0 .. Cardinality(P)
           /\ \A k \in P : {i \in P \cup {n + 1} : i <= k} = {i \in P : i <= k}
           /\ {i \in P \cup {n + 1} : i <= n + 1} = P \cup {n + 1}
<1>1. IsFiniteSet(1 .. n)
  BY FS_Interval
<1>2. IsFiniteSet(P) /\ Cardinality(P) \in Nat
  BY <1>1, FS_Subset, FS_CardinalityType
<1>3. Cardinality(P \cup {n + 1}) = Cardinality(P) + 1
  <2>1. n + 1 \notin P
    OBVIOUS
  <2>2. QED
    BY <1>2, <2>1, FS_AddElement
<1>4. ASSUME NEW k
      PROVE  Cardinality({i \in P : i <= k}) \in 0 .. Cardinality(P)
  <2> DEFINE T == {i \in P : i <= k}
  <2>1. T \in SUBSET P
    OBVIOUS
  <2> HIDE DEF T
  <2>2. Cardinality(T) \in Nat /\ Cardinality(T) <= Cardinality(P)
    BY <1>2, <2>1, FS_Subset, FS_CardinalityType
  <2>3. QED
    BY <1>2, <2>2 DEF T
<1>5. \A k \in P : {i \in P \cup {n + 1} : i <= k} = {i \in P : i <= k}
  OBVIOUS
<1>6. {i \in P \cup {n + 1} : i <= n + 1} = P \cup {n + 1}
  <2>1. \A i \in P \cup {n + 1} : i <= n + 1
    OBVIOUS
  <2>2. QED
    BY <2>1
<1>7. QED
  BY <1>2, <1>3, <1>4, <1>5, <1>6

LEMMA RankedAdd ==
    ASSUME NEW n \in Nat, NEW P \in SUBSET (1 .. n), Ranked(P)
    PROVE  Ranked(P \cup {n + 1})
<1> DEFINE Q == P \cup {n + 1}
           c == Cardinality(P)
<1>1. /\ c \in Nat /\ Cardinality(Q) = c + 1
      /\ \A k \in P : {i \in Q : i <= k} = {i \in P : i <= k}
      /\ {i \in Q : i <= n + 1} = Q
  BY PositionsAdd
<1> HIDE DEF Q
<1>2. ASSUME NEW j \in 1 .. c + 1
      PROVE  \E k \in Q : Cardinality({i \in Q : i <= k}) = j
  <2>1. CASE j = c + 1
    <3>1. n + 1 \in Q
      BY DEF Q
    <3>2. QED
      BY <1>1, <2>1, <3>1
  <2>2. CASE j \in 1 .. c
    <3>1. PICK k \in P : Cardinality({i \in P : i <= k}) = j
      BY <2>2 DEF Ranked
    <3>2. k \in Q
      BY DEF Q
    <3>3. QED
      BY <1>1, <3>1, <3>2
  <2>3. QED
    BY <1>1, <2>1, <2>2
<1>3. QED
  BY <1>1, <1>2 DEF Ranked, Q

LEMMA AllRanked ==
    ASSUME NEW n \in Nat, NEW P \in SUBSET (1 .. n)
    PROVE  Ranked(P)
<1> DEFINE Bad == {m \in Nat : \E R \in SUBSET (1 .. m) : ~ Ranked(R)}
<1>1. ASSUME Bad # {}
      PROVE  FALSE
  <2>1. Bad \in SUBSET Nat
    OBVIOUS
  <2>2. PICK m \in Bad : \A k \in Bad : m <= k
    <3> HIDE DEF Bad
    <3>1. QED
      BY <1>1, <2>1, LeastPosition, Zenon
  <2>3. PICK R \in SUBSET (1 .. m) : ~ Ranked(R)
    BY <2>2
  <2>4. m # 0
    <3>1. CASE m = 0
      <4>1. R = {}
        BY <2>3, <3>1
      <4>2. Cardinality(R) = 0
        BY <4>1, FS_EmptySet
      <4>3. QED
        BY <2>3, <4>2 DEF Ranked
    <3>2. QED
      BY <3>1
  <2>5. m - 1 \in Nat /\ m - 1 \notin Bad /\ (m - 1) + 1 = m
    BY <2>1, <2>2, <2>4
  <2> DEFINE k == m - 1
             T == R \ {m}
  <2>6. T \in SUBSET (1 .. k)
    BY <2>3, <2>5
  <2>7. Ranked(T)
    BY <2>5, <2>6
  <2>8. R = T \/ R = T \cup {k + 1}
    BY <2>5
  <2> HIDE DEF T, k
  <2>9. Ranked(T \cup {k + 1})
    <3>1. k \in Nat
      BY <2>5 DEF k
    <3>2. QED
      BY <2>6, <2>7, <3>1, RankedAdd
  <2>10. QED
    BY <2>3, <2>7, <2>8, <2>9
<1>2. QED
  BY <1>1

(* ... and of a longer sequence an element more, if its position is one of  *)
(* those asked for.                                                        *)
LEMMA SelectedAppend ==
    ASSUME NEW S, NEW seq \in Seq(S), NEW x \in S, NEW P \in SUBSET (DOMAIN seq)
    PROVE  /\ Selected(Append(seq, x), P) = Selected(seq, P)
           /\ Selected(Append(seq, x), P \cup {Len(seq) + 1}) = Append(Selected(seq, P), x)
           /\ Selected(seq, P) \in Seq(S)
<1> DEFINE n == Len(seq)
           more == Append(seq, x)
           Q == P \cup {n + 1}
           c == Cardinality(P)
           below(A, k) == {i \in A : i <= k}
           with(A, j) == {i \in A : Cardinality(below(A, i)) = j}
           at(A, j) == CHOOSE k \in with(A, j) : TRUE
<1>1. n \in Nat /\ DOMAIN seq = 1 .. n
  OBVIOUS
<1>2. /\ Len(more) = n + 1 /\ DOMAIN more = 1 .. n + 1 /\ more[n + 1] = x
      /\ \A i \in 1 .. n : more[i] = seq[i]
  OBVIOUS
<1>3. /\ c \in Nat /\ Cardinality(Q) = c + 1
      /\ \A k \in P : Cardinality(below(P, k)) \in 0 .. c
      /\ \A k \in P : below(Q, k) = below(P, k)
      /\ below(Q, n + 1) = Q
  BY <1>1, PositionsAdd
<1>4. \A j \in 1 .. c : at(P, j) \in P
  <2>1. Ranked(P)
    BY <1>1, AllRanked
  <2>2. ASSUME NEW j \in 1 .. c
        PROVE  with(P, j) # {}
    BY <2>1 DEF Ranked
  <2>3. \A j : with(P, j) # {} => at(P, j) \in with(P, j)
    OBVIOUS
  <2>4. QED
    BY <2>2, <2>3
<1>0. \A i : i \in Q <=> i \in P \/ i = n + 1
  OBVIOUS
<1> HIDE DEF below, c, n, more, Q
<1>5. \A j \in 1 .. c : with(Q, j) = with(P, j)
  <2> SUFFICES ASSUME NEW j \in 1 .. c
               PROVE  with(Q, j) = with(P, j)
    OBVIOUS
  <2>1. Cardinality(below(Q, n + 1)) = c + 1 /\ c + 1 # j
    BY <1>3
  <2>2. QED
    BY <1>0, <1>3, <2>1
<1>6. with(Q, c + 1) = {n + 1}
  <2>1. ASSUME NEW k \in P
        PROVE  Cardinality(below(Q, k)) # c + 1
    <3>1. below(Q, k) = below(P, k) /\ Cardinality(below(P, k)) \in 0 .. c /\ c \in Nat
      BY <1>3
    <3>2. \A x0 \in 0 .. c : x0 # c + 1
      BY <3>1
    <3>3. QED
      BY <3>1, <3>2
  <2>2. QED
    BY <1>0, <1>3, <2>1
<1> HIDE DEF with
<1>7. Selected(seq, P) = [j \in 1 .. c |-> seq[at(P, j)]]
  BY DEF Selected, c, with, below
<1>8. Selected(more, P) = [j \in 1 .. c |-> more[at(P, j)]]
  BY DEF Selected, c, with, below
<1>9. Selected(more, Q) = [j \in 1 .. c + 1 |-> more[at(Q, j)]]
  BY <1>3 DEF Selected, with, below
<1>10. \A j \in 1 .. c : at(Q, j) = at(P, j)
  BY <1>5
<1>11. at(Q, c + 1) = n + 1
  <2>1. (CHOOSE k \in {n + 1} : TRUE) = n + 1
    OBVIOUS
  <2>2. QED
    BY <1>6, <2>1
<1> HIDE DEF at
<1>12. Selected(more, P) = Selected(seq, P)
  BY <1>1, <1>2, <1>4, <1>7, <1>8
<1>13. Selected(seq, P) \in Seq(S) /\ Len(Selected(seq, P)) = c
  <2>1. \A j \in 1 .. c : seq[at(P, j)] \in S
    BY <1>1, <1>4
  <2>2. [j \in 1 .. c |-> seq[at(P, j)]] \in [1 .. c -> S]
    BY <2>1
  <2>3. QED
    BY <1>3, <1>7, <2>2
<1>14. Selected(more, Q) = Append(Selected(seq, P), x)
  <2> DEFINE old == Selected(seq, P)
             long == Selected(more, Q)
  <2>1. /\ old \in Seq(S) /\ Len(old) = c /\ c \in Nat
        /\ \A j \in 1 .. c : old[j] = seq[at(P, j)]
    BY <1>3, <1>7, <1>13
  <2>2. /\ Append(old, x) \in Seq(S) /\ Len(Append(old, x)) = c + 1
        /\ Append(old, x)[c + 1] = x
        /\ \A j \in 1 .. c : Append(old, x)[j] = old[j]
    <3> HIDE DEF old
    <3>1. QED
      BY <2>1, AppendProperties
  <2>3. \A j \in 1 .. c : long[j] = seq[at(P, j)] /\ seq[at(P, j)] \in S
    BY <1>1, <1>2, <1>3, <1>4, <1>9, <1>10
  <2>4. long[c + 1] = x
    BY <1>2, <1>3, <1>9, <1>11
  <2>5. long = [j \in 1 .. c + 1 |-> long[j]]
    BY <1>9
  <2> HIDE DEF old, long
  <2>6. \A j \in 1 .. c + 1 : j \in 1 .. c \/ j = c + 1
    BY <2>1
  <2>7. \A j \in 1 .. c + 1 : long[j] \in S /\ Append(old, x)[j] = long[j]
    BY <2>1, <2>2, <2>3, <2>4, <2>6
  <2>8. [j \in 1 .. c + 1 |-> long[j]] \in [1 .. c + 1 -> S]
    BY <2>7
  <2>9. long \in Seq(S) /\ Len(long) = c + 1
    BY <2>1, <2>5, <2>8
  <2>10. long = Append(old, x)
    BY <2>2, <2>7, <2>9, SeqEqual
  <2>11. QED
    BY <2>10 DEF long, old
<1>15. QED
  BY <1>12, <1>13, <1>14 DEF more, Q, n

(* The values of a sequence of records with one record more. *)
LEMMA AppendMapped ==
    ASSUME NEW S, NEW seq \in Seq(S), NEW x \in S
    PROVE  [k \in DOMAIN Append(seq, x) |-> Append(seq, x)[k].value]
             = Append([k \in DOMAIN seq |-> seq[k].value], x.value)
<1> DEFINE T == {r.value : r \in S}
           n == Len(seq)
           values == [k \in DOMAIN seq |-> seq[k].value]
           more == [k \in DOMAIN Append(seq, x) |-> Append(seq, x)[k].value]
<1>1. /\ n \in Nat /\ DOMAIN seq = 1 .. n /\ DOMAIN Append(seq, x) = 1 .. n + 1
      /\ \A k \in 1 .. n : Append(seq, x)[k] = seq[k] /\ seq[k] \in S
      /\ Append(seq, x)[n + 1] = x
  BY AppendProperties
<1> HIDE DEF n
<1>2. values \in [1 .. n -> T]
  BY <1>1
<1>3. values \in Seq(T) /\ Len(values) = n /\ x.value \in T
  BY <1>1, <1>2
<1>4. /\ Append(values, x.value) \in Seq(T) /\ Len(Append(values, x.value)) = n + 1
      /\ \A k \in 1 .. n : Append(values, x.value)[k] = values[k]
      /\ Append(values, x.value)[n + 1] = x.value
  <2> HIDE DEF values, T
  <2>1. QED
    BY <1>3, AppendProperties
<1>5. \A k \in 1 .. n + 1 : k \in 1 .. n \/ k = n + 1
  BY <1>1
<1>6. /\ more = [k \in 1 .. n + 1 |-> more[k]]
      /\ \A k \in 1 .. n + 1 : more[k] \in T /\ more[k] = Append(values, x.value)[k]
  BY <1>1, <1>4, <1>5
<1>7. more \in [1 .. n + 1 -> T]
  BY <1>6
<1> HIDE DEF more, values, T
<1>8. more \in Seq(T) /\ Len(more) = n + 1
  BY <1>1, <1>7
<1>9. more = Append(values, x.value)
  BY <1>4, <1>6, <1>8, SeqEqual
<1>10. QED
  BY <1>9 DEF more, values

-----------------------------------------------------------------------------
(* The data of the distributed filter, and the graph in it. *)
WellFormed(data) ==
    /\ data \in [nodes : Seq(Node), edges : SUBSET (Nat \X Nat),
                 unassigned : SUBSET Property, found_match : BOOLEAN,
                 set_s : {data.set_s}]
    /\ data.edges \subseteq (DOMAIN data.nodes) \X (DOMAIN data.nodes)
    /\ SetSHasEntries(data)

Graph(data) == WithGraph(Default, data)

LEMMA GraphType ==
    ASSUME NEW data, WellFormed(data)
    PROVE  /\ Graph(data) \in FerriedDataType
           /\ Graph(data).nodes = data.nodes
           /\ Graph(data).edges = data.edges
           /\ Graph(data).unassigned = data.unassigned
BY DEF WellFormed, Graph, WithGraph, Default, FerriedDataType

LEMMA WithGraphFields ==
    ASSUME NEW data, WellFormed(data), NEW fd
    PROVE  WithGraph(data, fd) \in
             [nodes : {fd.nodes}, edges : {fd.edges}, unassigned : {fd.unassigned},
              found_match : {data.found_match}, set_s : {data.set_s}]
<1>1. data \in [nodes : {data.nodes}, edges : {data.edges}, unassigned : {data.unassigned},
                found_match : {data.found_match}, set_s : {data.set_s}]
  BY DEF WellFormed
<1>2. QED
  BY <1>1 DEF WithGraph

LEMMA DefaultWellFormed ==
    /\ WellFormed(DefaultDistributed)
    /\ DefaultDistributed.unassigned = {}
    /\ DefaultDistributed.found_match = FALSE
    /\ \A C : Carries(DefaultDistributed, C)
<1>1. DOMAIN DefaultDistributed.nodes = {} /\ DOMAIN DefaultDistributed.set_s = {}
  BY DEF DefaultDistributed
<1>2. SetSHasEntries(DefaultDistributed)
  BY <1>1 DEF SetSHasEntries
<1>3. DefaultDistributed.nodes = <<>> /\ DefaultDistributed.edges = {}
  BY DEF DefaultDistributed
<1>4. WellFormed(DefaultDistributed)
  BY <1>2 DEF WellFormed, DefaultDistributed
<1>5. QED
  BY <1>3, <1>4, EmptyCarries DEF DefaultDistributed

-----------------------------------------------------------------------------
(* merge_set_s: the entries of other move up with its nodes.               *)
LEMMA MergeSetSEntries ==
    ASSUME NEW m \in Nat, NEW n \in Nat, NEW mine, NEW theirs,
           DOMAIN mine = (1 .. m) \X Nodes(Target), DOMAIN theirs = (1 .. n) \X Nodes(Target),
           \A k \in DOMAIN mine : mine[k] \subseteq Nodes(Target),
           \A k \in DOMAIN theirs : theirs[k] \subseteq Nodes(Target)
    PROVE  /\ DOMAIN MergeSetS(mine, theirs, m) = (1 .. m + n) \X Nodes(Target)
           /\ \A k \in DOMAIN MergeSetS(mine, theirs, m) : MergeSetS(mine, theirs, m)[k] \subseteq Nodes(Target)
<1> DEFINE new == {<<e[1] + m, e[2]>> : e \in DOMAIN theirs}
           merged == MergeSetS(mine, theirs, m)
<1>1. DOMAIN merged = new \cup DOMAIN mine
  BY DEF MergeSetS
<1>2. \A k \in new \cup DOMAIN mine :
        merged[k] = IF k \in new THEN theirs[<<k[1] - m, k[2]>>] ELSE mine[k]
  BY DEF MergeSetS
<1>3. ASSUME NEW k
      PROVE  k \in new <=> \E i \in 1 .. n, u \in Nodes(Target) : k = <<i + m, u>>
  <2>1. ASSUME k \in new
        PROVE  \E i \in 1 .. n, u \in Nodes(Target) : k = <<i + m, u>>
    <3>1. PICK e \in (1 .. n) \X Nodes(Target) : k = <<e[1] + m, e[2]>>
      BY <2>1
    <3>2. e[1] \in 1 .. n /\ e[2] \in Nodes(Target)
      OBVIOUS
    <3>3. QED
      BY <3>1, <3>2
  <2>2. ASSUME NEW i \in 1 .. n, NEW u \in Nodes(Target), k = <<i + m, u>>
        PROVE  k \in new
    <3> DEFINE e == <<i, u>>
    <3>1. e \in DOMAIN theirs /\ k = <<e[1] + m, e[2]>>
      BY <2>2
    <3> HIDE DEF e
    <3>2. QED
      BY <3>1
  <2>3. QED
    BY <2>1, <2>2
<1> HIDE DEF new, merged
<1>4. ASSUME NEW k \in (1 .. m + n) \X Nodes(Target)
      PROVE  k \in new \cup DOMAIN mine
  <2>1. PICK i \in 1 .. m + n, u \in Nodes(Target) : k = <<i, u>>
    OBVIOUS
  <2>2. CASE i <= m
    BY <2>1, <2>2
  <2>3. CASE i > m
    <3>1. i - m \in 1 .. n /\ i = (i - m) + m
      BY <2>3
    <3>2. QED
      BY <1>3, <2>1, <3>1
  <2>4. QED
    BY <2>2, <2>3
<1>5. ASSUME NEW k \in new \cup DOMAIN mine
      PROVE  k \in (1 .. m + n) \X Nodes(Target)
  <2>1. CASE k \in new
    <3>1. PICK i \in 1 .. n, u \in Nodes(Target) : k = <<i + m, u>>
      BY <1>3, <2>1
    <3>2. QED
      BY <3>1
  <2>2. CASE k \in DOMAIN mine
    BY <2>2
  <2>3. QED
    BY <2>1, <2>2
<1>6. ASSUME NEW k \in DOMAIN merged
      PROVE  merged[k] \subseteq Nodes(Target)
  <2>1. CASE k \in new
    <3>1. PICK i \in 1 .. n, u \in Nodes(Target) : k = <<i + m, u>>
      BY <1>3, <2>1
    <3>2. <<k[1] - m, k[2]>> = <<i, u>>
      BY <3>1
    <3>3. <<i, u>> \in DOMAIN theirs
      OBVIOUS
    <3>4. merged[k] = theirs[<<i, u>>]
      BY <1>2, <2>1, <3>2
    <3>5. QED
      BY <3>3, <3>4
  <2>2. CASE k \notin new
    BY <1>1, <1>2, <2>2
  <2>3. QED
    BY <2>1, <2>2
<1>7. DOMAIN merged = (1 .. m + n) \X Nodes(Target)
  BY <1>1, <1>4, <1>5
<1>8. QED
  BY <1>6, <1>7 DEF merged

(* merge, edges included: what is merged is well-formed, and its graph is   *)
(* the merge of the graphs.                                                *)
LEMMA MergeEdges ==
    ASSUME NEW a \in FerriedDataType, NEW b \in FerriedDataType,
           a.edges \subseteq (DOMAIN a.nodes) \X (DOMAIN a.nodes),
           b.edges \subseteq (DOMAIN b.nodes) \X (DOMAIN b.nodes)
    PROVE  Merge(a, b).edges \subseteq (DOMAIN Merge(a, b).nodes) \X (DOMAIN Merge(a, b).nodes)
<1> DEFINE an == a.nodes
           bn == b.nodes
           both == an \o bn
<1>1. an \in Seq(Node) /\ bn \in Seq(Node)
  BY DEF FerriedDataType
<1>2. \A i \in DOMAIN an : i \in DOMAIN both
  BY <1>1, ConcatPositions, Zenon
<1>3. DOMAIN Merge(a, b).nodes = DOMAIN both
  BY MergeNodes, Zenon
<1>4. Merge(a, b).edges = a.edges \cup EdgesByName(both, b)
  BY DEF Merge
<1>5. ASSUME NEW e \in EdgesByName(both, b)
      PROVE  e \in (DOMAIN both) \X (DOMAIN both)
  <2>1. PICK f \in b.edges :
          e = <<GetNodeWithId(both, bn[f[1]].name), GetNodeWithId(both, bn[f[2]].name)>>
    BY DEF EdgesByName
  <2>2. f[1] \in DOMAIN bn /\ f[2] \in DOMAIN bn
    OBVIOUS
  <2> HIDE DEF an, bn
  <2>3. e[1] \in DOMAIN both /\ e[2] \in DOMAIN both
    BY <1>1, <2>1, <2>2, EdgesByNameFinds
  <2>4. QED
    BY <2>1, <2>3
<1> HIDE DEF both
<1>6. QED
  BY <1>2, <1>3, <1>4, <1>5

LEMMA MergeDistributedIs ==
    ASSUME NEW a, NEW b, WellFormed(a), WellFormed(b)
    PROVE  LET m == MergeDistributed(a, b)
               g == Merge(Graph(a), Graph(b))
           IN  /\ m.nodes = g.nodes /\ m.edges = g.edges /\ m.unassigned = g.unassigned
               /\ m.found_match = (a.found_match \/ b.found_match)
               /\ m.set_s = IF a.found_match \/ b.found_match THEN <<>>
                            ELSE MergeSetS(a.set_s, b.set_s, Len(a.nodes))
               /\ WellFormed(m)
<1> DEFINE m == MergeDistributed(a, b)
           g == Merge(Graph(a), Graph(b))
           found == a.found_match \/ b.found_match
           s == IF found THEN <<>> ELSE MergeSetS(a.set_s, b.set_s, Len(a.nodes))
<1>1. /\ Graph(a) \in FerriedDataType /\ Graph(b) \in FerriedDataType
      /\ Graph(a).nodes = a.nodes /\ Graph(b).nodes = b.nodes
      /\ Graph(a).edges = a.edges /\ Graph(b).edges = b.edges
      /\ Graph(a).unassigned = a.unassigned /\ Graph(b).unassigned = b.unassigned
  BY GraphType
<1>2. Merge(a, b) = g
  BY <1>1 DEF Merge, EdgesByName
<1>3. g \in FerriedDataType
  BY <1>1, MergeType
<1>4. WithGraph(a, g) \in
        [nodes : {g.nodes}, edges : {g.edges}, unassigned : {g.unassigned},
         found_match : {a.found_match}, set_s : {a.set_s}]
  BY WithGraphFields
<1>5. m \in [nodes : {g.nodes}, edges : {g.edges}, unassigned : {g.unassigned},
             found_match : {found}, set_s : {s}]
  <2> DEFINE w == WithGraph(a, g)
  <2>1. m = [w EXCEPT !.found_match = found,
                      !.set_s = IF found THEN <<>>
                                ELSE MergeSetS(@, b.set_s, Len(a.nodes))]
    BY <1>2 DEF MergeDistributed
  <2>2. w.set_s = a.set_s
    BY <1>4
  <2>3. m = [w EXCEPT !.found_match = found, !.set_s = s]
    BY <2>1, <2>2
  <2> HIDE DEF m, g, found, s, w
  <2>4. w \in [nodes : {g.nodes}, edges : {g.edges}, unassigned : {g.unassigned},
               found_match : {a.found_match}, set_s : {a.set_s}]
    BY <1>4 DEF w
  <2>5. QED
    BY <2>3, <2>4
<1>6. /\ a.found_match \in BOOLEAN /\ b.found_match \in BOOLEAN
      /\ a.nodes \in Seq(Node) /\ b.nodes \in Seq(Node)
      /\ a.edges \subseteq (DOMAIN a.nodes) \X (DOMAIN a.nodes)
      /\ b.edges \subseteq (DOMAIN b.nodes) \X (DOMAIN b.nodes)
  BY DEF WellFormed
<1>7. g.edges \subseteq (DOMAIN g.nodes) \X (DOMAIN g.nodes)
  BY <1>1, <1>6, MergeEdges
<1>8. g \in [nodes : Seq(Node), edges : SUBSET (Nat \X Nat), unassigned : SUBSET Property]
  BY <1>3 DEF FerriedDataType
<1>9. SetSHasEntries(m)
  <2>1. CASE found
    <3>1. m.found_match /\ m.set_s = <<>>
      <4> HIDE DEF m, g
      <4>1. QED
        BY <1>5, <2>1
    <3>2. QED
      BY <3>1 DEF SetSHasEntries
  <2>2. CASE ~ found
    <3>1. /\ DOMAIN a.nodes = 1 .. Len(a.nodes) /\ Len(a.nodes) \in Nat
          /\ DOMAIN b.nodes = 1 .. Len(b.nodes) /\ Len(b.nodes) \in Nat
      BY <1>6
    <3>2. DOMAIN g.nodes = 1 .. Len(a.nodes) + Len(b.nodes)
      <4>1. DOMAIN g.nodes = DOMAIN (Graph(a).nodes \o Graph(b).nodes)
        BY <1>1, MergeNodes, Zenon
      <4>2. DOMAIN (a.nodes \o b.nodes) = 1 .. Len(a.nodes) + Len(b.nodes)
        BY <1>6, <3>1, ConcatProperties, LenProperties
      <4>3. QED
        BY <1>1, <4>1, <4>2
    <3>3. /\ DOMAIN a.set_s = (1 .. Len(a.nodes)) \X Nodes(Target)
          /\ DOMAIN b.set_s = (1 .. Len(b.nodes)) \X Nodes(Target)
          /\ \A k \in DOMAIN a.set_s : a.set_s[k] \subseteq Nodes(Target)
          /\ \A k \in DOMAIN b.set_s : b.set_s[k] \subseteq Nodes(Target)
      BY <2>2, <3>1 DEF WellFormed, SetSHasEntries
    <3>4. m.set_s = MergeSetS(a.set_s, b.set_s, Len(a.nodes)) /\ m.nodes = g.nodes
      BY <1>5, <2>2
    <3>5. /\ DOMAIN m.set_s = (1 .. Len(a.nodes) + Len(b.nodes)) \X Nodes(Target)
          /\ \A k \in DOMAIN m.set_s : m.set_s[k] \subseteq Nodes(Target)
      <4> DEFINE la == Len(a.nodes)
                 lb == Len(b.nodes)
                 mine == a.set_s
                 theirs == b.set_s
      <4>1. /\ la \in Nat /\ lb \in Nat
            /\ DOMAIN mine = (1 .. la) \X Nodes(Target) /\ DOMAIN theirs = (1 .. lb) \X Nodes(Target)
            /\ \A k \in DOMAIN mine : mine[k] \subseteq Nodes(Target)
            /\ \A k \in DOMAIN theirs : theirs[k] \subseteq Nodes(Target)
        BY <3>1, <3>3
      <4> HIDE DEF m, la, lb, mine, theirs
      <4>2. /\ DOMAIN MergeSetS(mine, theirs, la) = (1 .. la + lb) \X Nodes(Target)
            /\ \A k \in DOMAIN MergeSetS(mine, theirs, la) : MergeSetS(mine, theirs, la)[k] \subseteq Nodes(Target)
        BY <4>1, MergeSetSEntries
      <4>3. m.set_s = MergeSetS(mine, theirs, la)
        BY <3>4 DEF la, mine, theirs
      <4>4. QED
        BY <4>2, <4>3 DEF la, lb
    <3>6. QED
      BY <3>2, <3>4, <3>5 DEF SetSHasEntries
  <2>3. QED
    BY <2>1, <2>2
<1> HIDE DEF m, g, s
<1>10. WellFormed(m)
  BY <1>5, <1>6, <1>7, <1>8, <1>9 DEF WellFormed
<1>11. m.set_s = s
  BY <1>5
<1>12. QED
  BY <1>5, <1>10, <1>11 DEF m, g, s

-----------------------------------------------------------------------------
(* The search: set_s keeps an entry for every node of the graph and node of *)
(* the pattern, and its keys are nodes of the pattern.                     *)
LEMMA MaxMatchingKeys ==
    ASSUME NEW graph, NEW keys, NEW v, NEW u \in Nodes(Target)
    PROVE  MaxMatching(graph, Target, keys, v, u) \subseteq Nodes(Target)
BY DEF MaxMatching, Neighbours, Nodes

LEMMA LeafKeysInPattern ==
    ASSUME NEW graph, NEW keys, NEW u \in Nodes(Target)
    PROVE  LeafKeys(Target, u) \subseteq Nodes(Target)
<1>1. \A e \in Target.edges : e[1] \in Nodes(Target)
  BY PatternAssumption DEF Nodes
<1>2. LeafKeys(Target, u) \subseteq {u} \cup {e[1] : e \in Target.edges}
  BY DEF LeafKeys
<1>3. QED
  BY <1>1, <1>2

LEMMA InnerLoopsEntries ==
    ASSUME NEW graph, NEW keys, NEW vs, NEW S, DOMAIN keys = S \X Nodes(Target),
           \A k \in DOMAIN keys : keys[k] \subseteq Nodes(Target)
    PROVE  /\ DOMAIN InnerLoops(graph, keys, vs) = S \X Nodes(Target)
           /\ \A k \in S \X Nodes(Target) : InnerLoops(graph, keys, vs)[k] \subseteq Nodes(Target)
<1>1. DOMAIN InnerLoops(graph, keys, vs) = S \X Nodes(Target)
  BY DEF InnerLoops
<1>2. ASSUME NEW k \in S \X Nodes(Target)
      PROVE  InnerLoops(graph, keys, vs)[k] \subseteq Nodes(Target)
  <2>1. k[2] \in Nodes(Target) /\ k = <<k[1], k[2]>>
    OBVIOUS
  <2>2. AfterRound(graph, keys, k[1], k[2]) \subseteq Nodes(Target)
    <3>1. keys[<<k[1], k[2]>>] \subseteq Nodes(Target)
      BY <2>1
    <3>2. MaxMatching(graph, Target, keys, k[1], k[2]) \subseteq Nodes(Target)
      BY <2>1, MaxMatchingKeys
    <3>3. QED
      BY <3>1, <3>2 DEF AfterRound
  <2>3. \/ InnerLoops(graph, keys, vs)[k] = AfterRound(graph, keys, k[1], k[2])
        \/ InnerLoops(graph, keys, vs)[k] = keys[k]
    BY DEF InnerLoops
  <2>4. QED
    BY <2>2, <2>3
<1>3. QED
  BY <1>1, <1>2

LEMMA SearchEntries ==
    ASSUME NEW data, NEW n \in Nat, DOMAIN data.nodes = 1 .. n + 1,
           DOMAIN data.set_s = (1 .. n) \X Nodes(Target),
           \A k \in DOMAIN data.set_s : data.set_s[k] \subseteq Nodes(Target),
           NEW am_root
    PROVE  /\ DOMAIN Search(data, n + 1, am_root).set_s = (1 .. n + 1) \X Nodes(Target)
           /\ \A k \in (1 .. n + 1) \X Nodes(Target) : Search(data, n + 1, am_root).set_s[k] \subseteq Nodes(Target)
           /\ Search(data, n + 1, am_root).at \subseteq DOMAIN data.nodes
<1> DEFINE entered == Entered(data, n + 1)
           children == ChildrenIn(data, n + 1)
           looped == InnerLoops(data, entered, children)
           S == 1 .. n + 1
<1>1. DOMAIN entered = S \X Nodes(Target)
  <2>1. DOMAIN entered = ({n + 1} \X Nodes(Target)) \cup ((1 .. n) \X Nodes(Target))
    BY DEF Entered
  <2>2. S = {n + 1} \cup (1 .. n)
    OBVIOUS
  <2>3. QED
    BY <2>1, <2>2
<1>2. ASSUME NEW k \in DOMAIN entered
      PROVE  entered[k] \subseteq Nodes(Target)
  <2>1. k[2] \in Nodes(Target)
    BY <1>1
  <2>2. \/ entered[k] = {}
        \/ entered[k] = LeafKeys(Target, k[2])
        \/ k \in DOMAIN data.set_s /\ entered[k] = data.set_s[k]
    BY DEF Entered
  <2>3. QED
    BY <2>1, <2>2, LeafKeysInPattern
<1>3. children \subseteq DOMAIN data.nodes
  BY DEF ChildrenIn
<1> HIDE DEF entered, S, children
<1>4. DOMAIN looped = S \X Nodes(Target) /\ \A k \in S \X Nodes(Target) : looped[k] \subseteq Nodes(Target)
  BY <1>1, <1>2, InnerLoopsEntries
<1> HIDE DEF looped
<1>5. DOMAIN InnerLoops(data, looped, {n + 1}) = S \X Nodes(Target)
      /\ \A k \in S \X Nodes(Target) : InnerLoops(data, looped, {n + 1})[k] \subseteq Nodes(Target)
  BY <1>4, InnerLoopsEntries
<1> DEFINE search == Search(data, n + 1, am_root)
           own == {v \in {n + 1} : FoundAt(data, looped, v)}
           below == {v \in children : FoundAt(data, entered, v)}
<1>6. \/ search = [set_s |-> InnerLoops(data, looped, {n + 1}), at |-> own]
      \/ search = [set_s |-> looped, at |-> below]
  BY DEF Search, looped, entered, children
<1> HIDE DEF search
<1>7. search.at \subseteq DOMAIN data.nodes
  <2>1. n + 1 \in DOMAIN data.nodes
    OBVIOUS
  <2>2. QED
    BY <1>3, <1>6, <2>1
<1>8. search.set_s = InnerLoops(data, looped, {n + 1}) \/ search.set_s = looped
  <2> HIDE DEF own, below
  <2>1. QED
    BY <1>6
<1>9. DOMAIN search.set_s = S \X Nodes(Target) /\ \A k \in S \X Nodes(Target) : search.set_s[k] \subseteq Nodes(Target)
  BY <1>4, <1>5, <1>8
<1>10. QED
  BY <1>7, <1>9 DEF S, search

-----------------------------------------------------------------------------
(* What the response hook makes of the data its sidecar has, the search in  *)
(* it, and what it sends then.                                             *)
Mine(fd, n) == WithGraph(fd, AddMe(fd, n))
SearchIn(fd, n) ==
    Search(Mine(fd, n), GetNodeWithId(Mine(fd, n).nodes, n), n = RootId)
Searched(fd, n) == [Mine(fd, n) EXCEPT !.set_s = SearchIn(fd, n).set_s]
Told(fd, n) == [Searched(fd, n) EXCEPT !.found_match = TRUE]

LEMMA ResponseData ==
    ASSUME DistinctServices, NEW s \in Spans, NEW C \in SUBSET Children(s),
           NEW fd, WellFormed(fd), Carries(fd, C), Owned(fd)
    PROVE  LET n == ServiceOf[s]
           IN  /\ Carries(Mine(fd, n), {s}) /\ Mine(fd, n).unassigned \subseteq Left(fd, n)
               /\ Mine(fd, n).found_match <=> fd.found_match
               /\ Mine(fd, n).nodes \in Seq(Node)
               /\ fd.found_match => WellFormed(Mine(fd, n))
               /\ Carries(Searched(fd, n), {s})
               /\ Searched(fd, n).unassigned \subseteq Left(fd, n)
               /\ Searched(fd, n).found_match <=> fd.found_match
               /\ Searched(fd, n).nodes = Mine(fd, n).nodes
               /\ ~ fd.found_match => WellFormed(Searched(fd, n))
               /\ ~ fd.found_match => SearchIn(fd, n).at \subseteq DOMAIN Mine(fd, n).nodes
               /\ Carries(Told(fd, n), {s}) /\ Told(fd, n).unassigned \subseteq Left(fd, n)
               /\ ~ fd.found_match => WellFormed(Told(fd, n))
<1> DEFINE n == ServiceOf[s]
           g == AddMe(fd, n)
           data == Mine(fd, n)
           search == SearchIn(fd, n)
           searched == Searched(fd, n)
           told == Told(fd, n)
           len == Len(fd.nodes)
<1>1. n \in Services
  BY CallerType
<1>2. /\ Graph(fd) \in FerriedDataType
      /\ Graph(fd).nodes = fd.nodes /\ Graph(fd).edges = fd.edges
      /\ Graph(fd).unassigned = fd.unassigned
  BY GraphType
<1>3. AddMe(Graph(fd), n) = g
  BY <1>2 DEF AddMe, Roots
<1>4. Carries(Graph(fd), C) /\ Owned(Graph(fd)) /\ Left(Graph(fd), n) = Left(fd, n)
  BY <1>2 DEF Carries, Sound, Roots, Owned, Left
<1>5. Carries(g, {s}) /\ g.unassigned \subseteq Left(fd, n) /\ g \in FerriedDataType
  BY <1>1, <1>2, <1>3, <1>4, AddMeOwned, AddMeType
<1>6. /\ g.nodes \in Seq(Node) /\ len \in Nat
      /\ DOMAIN fd.nodes = 1 .. len /\ DOMAIN g.nodes = 1 .. len + 1
      /\ g.nodes[len + 1].name = n
      /\ g.edges = fd.edges \cup {<<len + 1, r>> : r \in Roots(Graph(fd))}
  BY <1>1, <1>2, <1>3, AddMeNodes
<1> HIDE DEF len
<1>7. data \in [nodes : {g.nodes}, edges : {g.edges}, unassigned : {g.unassigned},
                found_match : {fd.found_match}, set_s : {fd.set_s}]
  BY WithGraphFields DEF Mine
<1> HIDE DEF g
<1>8. GetNodeWithId(g.nodes, n) = len + 1
  <2>1. n \in NamesIn(g.nodes) /\ len + 1 \in DOMAIN g.nodes
    BY <1>6 DEF NamesIn
  <2>2. GetNodeWithId(g.nodes, n) \in DOMAIN g.nodes
        /\ g.nodes[GetNodeWithId(g.nodes, n)].name = n
    BY <1>6, <2>1, GetNodeWithIdFinds
  <2>3. QED
    BY <1>5, <1>6, <2>1, <2>2 DEF Carries, Sound
<1> DEFINE am_root == n = RootId
<1> HIDE DEF am_root
<1>9. search = Search(data, len + 1, am_root)
  BY <1>7, <1>8 DEF SearchIn, am_root
<1>a. searched = [data EXCEPT !.set_s = search.set_s] /\ told = [searched EXCEPT !.found_match = TRUE]
  BY DEF Searched, Told
<1> HIDE DEF data, search, searched, told
<1>10. searched \in [nodes : {g.nodes}, edges : {g.edges}, unassigned : {g.unassigned},
                     found_match : {fd.found_match}, set_s : {search.set_s}]
  BY <1>7, <1>a
<1>11. told \in [nodes : {g.nodes}, edges : {g.edges}, unassigned : {g.unassigned},
                 found_match : {TRUE}, set_s : {search.set_s}]
  BY <1>10, <1>a
<1>12. \A x : x.nodes = g.nodes /\ x.edges = g.edges => Carries(x, {s})
  BY <1>5 DEF Carries, Sound, Roots
<1>13. g.edges \subseteq (DOMAIN g.nodes) \X (DOMAIN g.nodes)
  <2>1. fd.edges \subseteq (DOMAIN fd.nodes) \X (DOMAIN fd.nodes)
    BY DEF WellFormed
  <2>2. Roots(Graph(fd)) \subseteq DOMAIN fd.nodes
    BY <1>2 DEF Roots
  <2>3. DOMAIN fd.nodes \subseteq DOMAIN g.nodes /\ len + 1 \in DOMAIN g.nodes
    BY <1>6
  <2>4. QED
    BY <1>6, <2>1, <2>2, <2>3
<1>14. /\ g.nodes \in Seq(Node) /\ g.edges \in SUBSET (Nat \X Nat)
       /\ g.unassigned \in SUBSET Property /\ fd.found_match \in BOOLEAN
  BY <1>5 DEF FerriedDataType, WellFormed
<1>15. \A k \in DOMAIN fd.set_s : fd.set_s[k] \subseteq Nodes(Target)
  BY DEF WellFormed, SetSHasEntries
<1>16. ASSUME fd.found_match
       PROVE  WellFormed(data)
  <2>1. SetSHasEntries(data)
    BY <1>7, <1>15, <1>16 DEF SetSHasEntries
  <2>2. QED
    BY <1>7, <1>13, <1>14, <2>1 DEF WellFormed
<1>17. ASSUME ~ fd.found_match
       PROVE  WellFormed(searched) /\ WellFormed(told) /\ search.at \subseteq DOMAIN g.nodes
  <2>1. DOMAIN fd.set_s = (1 .. len) \X Nodes(Target)
    BY <1>6, <1>17 DEF WellFormed, SetSHasEntries
  <2>2. data.nodes = g.nodes /\ data.set_s = fd.set_s
    BY <1>7
  <2>3. /\ DOMAIN search.set_s = (1 .. len + 1) \X Nodes(Target)
        /\ \A k \in (1 .. len + 1) \X Nodes(Target) : search.set_s[k] \subseteq Nodes(Target)
        /\ search.at \subseteq DOMAIN data.nodes
    BY <1>6, <1>9, <1>15, <2>1, <2>2, SearchEntries
  <2>4. SetSHasEntries(searched) /\ SetSHasEntries(told)
    BY <1>6, <1>10, <1>11, <2>3 DEF SetSHasEntries
  <2>5. QED
    BY <1>10, <1>11, <1>13, <1>14, <2>2, <2>3, <2>4 DEF WellFormed
<1>18. /\ data.nodes = g.nodes /\ data.found_match = fd.found_match
       /\ searched.nodes = g.nodes /\ searched.found_match = fd.found_match
       /\ data.unassigned \subseteq Left(fd, n) /\ searched.unassigned \subseteq Left(fd, n)
       /\ told.unassigned \subseteq Left(fd, n)
       /\ Carries(data, {s}) /\ Carries(searched, {s}) /\ Carries(told, {s})
  BY <1>5, <1>7, <1>10, <1>11, <1>12
<1>19. QED
  BY <1>14, <1>16, <1>17, <1>18 DEF data, search, searched, told

LEMMA MergeDistributedCarries ==
    ASSUME DistinctServices, NEW s \in Spans, NEW C \in SUBSET Children(s),
           NEW D \in SUBSET Children(s), C \cap D = {},
           NEW a, NEW b, WellFormed(a), WellFormed(b),
           Carries(a, C), Carries(b, D),
           Owned(a), Owned(b)
    PROVE  LET m == MergeDistributed(a, b)
           IN  /\ WellFormed(m) /\ Carries(m, C \cup D)
               /\ m.unassigned \subseteq a.unassigned \cup b.unassigned
               /\ \A n : OwnOnly(a, n) /\ OwnOnly(b, n) => OwnOnly(m, n)
<1> DEFINE m == MergeDistributed(a, b)
           ga == Graph(a)
           gb == Graph(b)
           g == Merge(ga, gb)
<1>1. /\ ga \in FerriedDataType /\ gb \in FerriedDataType
      /\ ga.nodes = a.nodes /\ ga.edges = a.edges /\ ga.unassigned = a.unassigned
      /\ gb.nodes = b.nodes /\ gb.edges = b.edges /\ gb.unassigned = b.unassigned
  BY GraphType
<1>2. Carries(ga, C) /\ Carries(gb, D) /\ Owned(ga) /\ Owned(gb)
  <2> HIDE DEF ga, gb
  <2>1. QED
    BY <1>1 DEF Carries, Sound, Roots, Owned
<1>3. m.nodes = g.nodes /\ m.edges = g.edges /\ m.unassigned = g.unassigned /\ WellFormed(m)
  BY MergeDistributedIs
<1> HIDE DEF ga, gb, m
<1>4. Carries(g, C \cup D) /\ g.unassigned \subseteq a.unassigned \cup b.unassigned
  BY <1>1, <1>2, MergeOwned
<1> HIDE DEF g
<1>5. Carries(m, C \cup D) /\ m.unassigned \subseteq a.unassigned \cup b.unassigned
  BY <1>3, <1>4 DEF Carries, Sound, Roots
<1>6. \A n : OwnOnly(a, n) /\ OwnOnly(b, n) => OwnOnly(m, n)
  BY <1>5 DEF OwnOnly
<1>7. QED
  BY <1>3, <1>5, <1>6 DEF m

-----------------------------------------------------------------------------
(* What a response hook sends is a tree: every node but the sidecar's own   *)
(* was called by the service of its one parent.                            *)
LEMMA CarriedTree ==
    ASSUME DistinctServices, NEW s \in Spans, NEW data, data.nodes \in Seq(Node),
           data.edges \subseteq (DOMAIN data.nodes) \X (DOMAIN data.nodes),
           Carries(data, {s}), NEW r \in DOMAIN data.nodes, data.nodes[r].name = ServiceOf[s]
    PROVE  Tree(data) /\ \A e \in data.edges : e[2] # r
<1> DEFINE N == Nodes(data)
           name(i) == data.nodes[i].name
           E == data.edges
           R == Reachable(N, E, r)
<1>1. Sound(data, Below[s]) /\ \A i \in Roots(data) : name(i) = ServiceOf[s]
  BY DEF Carries
<1>2. /\ \A i, j \in N : name(i) = name(j) => i = j
      /\ \A i \in N : \E t \in Below[s] : name(i) = ServiceOf[t]
      /\ \A e \in E : \E c \in Spans \ {RootSpan} :
            name(e[1]) = Caller(c) /\ name(e[2]) = ServiceOf[c]
  BY <1>1 DEF Sound, Nodes
<1>3. /\ E \in SUBSET (N \X N) /\ r \in N /\ name(r) = ServiceOf[s]
      /\ \A e \in E : e[1] \in N /\ e[2] \in N /\ e = <<e[1], e[2]>>
      /\ Below[s] \subseteq Spans /\ s \in Below[s]
  BY BelowClosed DEF Nodes
<1>4. \A i \in N : i # r => \E e \in E : e[2] = i
  BY <1>1, <1>2, <1>3 DEF Roots, Nodes
<1> HIDE DEF N, name, E
<1>5. \A e \in E, c \in Spans : name(e[2]) = ServiceOf[c] =>
            c # RootSpan /\ name(e[1]) = Caller(c)
  BY <1>2 DEF DistinctServices
<1>6. ASSUME NEW d \in E, NEW e \in E, d[2] = e[2]
      PROVE  d = e
  <2>1. PICK c \in Spans \ {RootSpan} : name(d[1]) = Caller(c) /\ name(d[2]) = ServiceOf[c]
    BY <1>2
  <2>2. name(e[1]) = Caller(c)
    BY <1>5, <1>6, <2>1
  <2>3. QED
    BY <1>2, <1>3, <1>6, <2>1, <2>2
<1>7. ASSUME NEW e \in E, e[2] = r
      PROVE  FALSE
  <2>1. s # RootSpan /\ name(e[1]) = ServiceOf[Parent[s]]
    BY <1>3, <1>5, <1>7 DEF Caller
  <2>2. PICK t \in Below[s] : name(e[1]) = ServiceOf[t]
    BY <1>2, <1>3
  <2>3. Parent[s] \in Spans /\ s \in Children(Parent[s])
    BY <2>1, ChildrenOfSpans
  <2>4. t = Parent[s]
    BY <1>3, <2>1, <2>2, <2>3 DEF DistinctServices
  <2>5. QED
    BY <2>2, <2>3, <2>4, BelowChildren
<1> DEFINE S == {t \in Spans : \A i \in N : name(i) = ServiceOf[t] => i \in R}
<1>8. r \in R /\ \A a, b : <<a, b>> \in E /\ a \in R => b \in R
  BY <1>3, ReachableLeast
<1> HIDE DEF R
<1>9. s \in S
  BY <1>2, <1>3, <1>8
<1>10. ASSUME NEW c \in Spans \ {RootSpan}, Parent[c] \in S
       PROVE  c \in S
  <2>1. ASSUME NEW i \in N, name(i) = ServiceOf[c], i # r
        PROVE  i \in R
    <3>1. PICK e \in E : e[2] = i
      BY <1>4, <2>1
    <3>2. e[1] \in N /\ name(e[1]) = ServiceOf[Parent[c]] /\ e = <<e[1], i>>
      BY <1>3, <1>5, <2>1, <3>1 DEF Caller
    <3>3. e[1] \in R
      BY <1>10, <3>2
    <3>4. QED
      BY <1>8, <3>2, <3>3
  <2>2. QED
    BY <1>8, <2>1
<1>11. Below[s] \subseteq S
  <2>1. S \in SUBSET Spans
    OBVIOUS
  <2> HIDE DEF S
  <2>2. QED
    BY <1>9, <1>10, <2>1, BelowWithin
<1>12. N \subseteq R
  BY <1>2, <1>11
<1>13. data.nodes \in Seq(PatternNode)
  <2>1. Node \subseteq PatternNode
    BY DEF Node, PatternNode
  <2>2. QED
    BY <2>1
<1>14. Tree(data)
  BY <1>3, <1>6, <1>7, <1>12, <1>13 DEF Tree, N, E, R
<1>15. QED
  BY <1>7, <1>14 DEF E

(* What keys, a set_s, say of a graph is true of it. *)
KeysTrue(graph, keys) ==
    \A k \in DOMAIN keys : \A w \in keys[k] :
        w # k[2] \/ w = FindRoot(Target) => BranchEmbeds(graph, Target, k[1], k[2], w)

(* A round adds the truth, if the entries of the node's caller are empty.   *)
LEMMA AfterRoundTrue ==
    ASSUME NEW graph, TwoTrees(graph, Target), NEW keys,
           Nodes(graph) \X Nodes(Target) \subseteq DOMAIN keys, KeysTrue(graph, keys),
           NEW v \in Nodes(graph), NEW u \in Nodes(Target),
           \A p \in Nodes(graph) : <<p, v>> \in graph.edges =>
                \A x \in Nodes(Target) : keys[<<p, x>>] = {},
           NEW w \in AfterRound(graph, keys, v, u), w # u \/ w = FindRoot(Target)
    PROVE  BranchEmbeds(graph, Target, v, u, w)
<1>1. CASE w \in keys[<<v, u>>]
  <2> DEFINE k == <<v, u>>
  <2>1. k \in DOMAIN keys /\ k[1] = v /\ k[2] = u
    OBVIOUS
  <2>2. w \in keys[k]
    BY <1>1
  <2> HIDE DEF k
  <2>3. QED
    BY <2>1, <2>2 DEF KeysTrue
<1>2. CASE w \in MaxMatching(graph, Target, keys, v, u)
  <2>1. ASSUME NEW y \in Nodes(graph), NEW x \in Neighbours(Target, u), u \in keys[<<y, x>>]
        PROVE  BranchEmbeds(graph, Target, y, x, u)
    <3> DEFINE k == <<y, x>>
    <3>1. x \in Nodes(Target) /\ <<u, x>> \in Both(Target.edges)
      BY DEF Neighbours
    <3>2. u # x
      <4>1. PICK r : TreeFrom(Nodes(Target), Target.edges, r)
        BY DEF TwoTrees, IsTree
      <4>2. /\ Target.edges \in SUBSET (Nodes(Target) \X Nodes(Target))
            /\ \A a : <<a, a>> \notin Target.edges
        BY <4>1, OneParent
      <4>3. QED
        BY <3>1, <4>2, BothWays
    <3>3. k \in DOMAIN keys /\ k[1] = y /\ k[2] = x
      BY <3>1
    <3>4. u \in keys[k]
      BY <2>1
    <3> HIDE DEF k
    <3>5. QED
      BY <3>2, <3>3, <3>4 DEF KeysTrue
  <2>2. QED
    BY <1>2, <2>1, MaxMatchingSound
<1>3. QED
  BY <1>1, <1>2 DEF AfterRound

(* The inner loops for nodes with such callers leave the truth.             *)
LEMMA InnerLoopsTrue ==
    ASSUME NEW graph, TwoTrees(graph, Target), NEW keys,
           DOMAIN keys = Nodes(graph) \X Nodes(Target), KeysTrue(graph, keys),
           NEW vs \in SUBSET Nodes(graph),
           \A v \in vs : \A p \in Nodes(graph) : <<p, v>> \in graph.edges =>
                \A x \in Nodes(Target) : keys[<<p, x>>] = {}
    PROVE  /\ KeysTrue(graph, InnerLoops(graph, keys, vs))
           /\ \A v \in vs : FoundAt(graph, keys, v) =>
                /\ BranchEmbeds(graph, Target, v, FindRoot(Target), FindRoot(Target))
                /\ HasPropertySubset(graph.nodes[v], Target.nodes[FindRoot(Target)])
<1> DEFINE looped == InnerLoops(graph, keys, vs)
           root == FindRoot(Target)
<1>0. root \in Nodes(Target)
  BY TargetRoot DEF Nodes
<1>1. ASSUME NEW k \in DOMAIN looped, NEW w \in looped[k], w # k[2] \/ w = root
      PROVE  BranchEmbeds(graph, Target, k[1], k[2], w)
  <2>1. k \in DOMAIN keys /\ k[1] \in Nodes(graph) /\ k[2] \in Nodes(Target)
    BY DEF InnerLoops
  <2>2. CASE looped[k] = keys[k]
    BY <1>1, <2>1, <2>2 DEF KeysTrue
  <2>3. CASE k[1] \in vs /\ looped[k] = AfterRound(graph, keys, k[1], k[2])
    <3>1. w \in AfterRound(graph, keys, k[1], k[2])
      BY <1>1, <2>3
    <3> HIDE DEF looped
    <3>2. QED
      BY <1>1, <2>1, <2>3, <3>1, AfterRoundTrue
  <2>4. \/ looped[k] = keys[k]
        \/ k[1] \in vs /\ looped[k] = AfterRound(graph, keys, k[1], k[2])
    BY <2>1 DEF InnerLoops
  <2>5. QED
    BY <2>2, <2>3, <2>4
<1>2. ASSUME NEW v \in vs, FoundAt(graph, keys, v)
      PROVE  /\ BranchEmbeds(graph, Target, v, root, root)
             /\ HasPropertySubset(graph.nodes[v], Target.nodes[root])
  <2> HIDE DEF root
  <2>1. HasPropertySubset(graph.nodes[v], Target.nodes[root])
        /\ (root \in keys[<<v, root>>] \/ root \in AfterRound(graph, keys, v, root))
    BY <1>2 DEF FoundAt, FoundInRound, root
  <2>2. root \in AfterRound(graph, keys, v, root)
    BY <2>1 DEF AfterRound
  <2>3. QED
    BY <1>0, <2>1, <2>2, AfterRoundTrue DEF root
<1>3. QED
  BY <1>1, <1>2 DEF KeysTrue, looped

(* The search, at a node that nobody in the graph has called, leaves the    *)
(* truth, and where it finds the pattern the pattern is.                   *)
LEMMA SearchTrue ==
    ASSUME NEW data, TwoTrees(data, Target), NEW me \in Nodes(data),
           \A e \in data.edges : e[2] # me,
           DOMAIN data.set_s = (Nodes(data) \ {me}) \X Nodes(Target),
           KeysTrue(data, data.set_s), NEW am_root
    PROVE  /\ KeysTrue(data, Search(data, me, am_root).set_s)
           /\ \A v \in Search(data, me, am_root).at :
                /\ v \in Nodes(data)
                /\ BranchEmbeds(data, Target, v, FindRoot(Target), FindRoot(Target))
                /\ HasPropertySubset(data.nodes[v], Target.nodes[FindRoot(Target)])
<1> DEFINE entered == Entered(data, me)
           children == ChildrenIn(data, me)
           looped == InnerLoops(data, entered, children)
           V == Nodes(data)
           U == Nodes(Target)
           Found(v) == /\ BranchEmbeds(data, Target, v, FindRoot(Target), FindRoot(Target))
                       /\ HasPropertySubset(data.nodes[v], Target.nodes[FindRoot(Target)])
<1>1. DOMAIN entered = V \X U
  <2>1. DOMAIN entered = ({me} \X U) \cup ((V \ {me}) \X U)
    BY DEF Entered
  <2>2. QED
    BY <2>1
<1>2. \A u \in U : entered[<<me, u>>] = IF children # {} THEN {} ELSE LeafKeys(Target, u)
  <2>1. ASSUME NEW u \in U
        PROVE  entered[<<me, u>>] = IF children # {} THEN {} ELSE LeafKeys(Target, u)
    <3> DEFINE k == <<me, u>>
    <3>1. k \in {me} \X U /\ k[2] = u
      OBVIOUS
    <3> HIDE DEF k
    <3>2. entered[k] = IF children # {} THEN {} ELSE LeafKeys(Target, u)
      BY <3>1 DEF Entered
    <3>3. QED
      BY <3>2 DEF k
  <2>2. QED
    BY <2>1
<1>3. KeysTrue(data, entered)
  <2>1. ASSUME NEW k \in DOMAIN entered, NEW w \in entered[k],
               w # k[2] \/ w = FindRoot(Target)
        PROVE  BranchEmbeds(data, Target, k[1], k[2], w)
    <3>1. CASE k[1] = me
      <4>1. k[2] \in U /\ k = <<me, k[2]>>
        BY <1>1, <3>1
      <4>2. entered[k] = IF children # {} THEN {} ELSE LeafKeys(Target, k[2])
        BY <1>2, <4>1
      <4>3. w \in LeafKeys(Target, k[2])
        BY <2>1, <4>2
      <4> HIDE DEF entered
      <4>4. QED
        BY <2>1, <3>1, <4>1, <4>3, LeafKeysSound
    <3>2. CASE k[1] # me
      <4>1. k \in DOMAIN data.set_s /\ k \notin {me} \X U
        BY <1>1, <3>2
      <4>2. entered[k] = data.set_s[k]
        BY <4>1 DEF Entered
      <4>3. QED
        BY <2>1, <4>1, <4>2 DEF KeysTrue
    <3>3. QED
      BY <3>1, <3>2
  <2>2. QED
    BY <2>1 DEF KeysTrue
<1>4. children \in SUBSET V /\ \A c \in children : <<me, c>> \in data.edges
  BY DEF ChildrenIn, Nodes
<1>5. ASSUME NEW c \in children, NEW p \in V, <<p, c>> \in data.edges, NEW x \in U
      PROVE  entered[<<p, x>>] = {}
  <2>1. PICK r : TreeFrom(V, data.edges, r)
    BY DEF TwoTrees, IsTree
  <2>2. p = me
    BY <1>4, <1>5, <2>1, OneParent
  <2>3. QED
    BY <1>2, <1>5, <2>2
<1> HIDE DEF entered, children
<1>6. KeysTrue(data, looped) /\ \A v \in children : FoundAt(data, entered, v) => Found(v)
  BY <1>1, <1>3, <1>4, <1>5, InnerLoopsTrue
<1>7. DOMAIN looped = V \X U
  BY <1>1 DEF InnerLoops
<1> HIDE DEF looped
<1>8. /\ KeysTrue(data, InnerLoops(data, looped, {me}))
      /\ \A v \in {me} : FoundAt(data, looped, v) => Found(v)
  <2>1. \A v \in {me}, p \in V : <<p, v>> \notin data.edges
    <3>1. ASSUME NEW p \in V, <<p, me>> \in data.edges
          PROVE  FALSE
      <4>1. <<p, me>>[2] # me
        BY <3>1
      <4>2. QED
        BY <4>1
    <3>2. QED
      BY <3>1
  <2>2. QED
    BY <1>6, <1>7, <2>1, InnerLoopsTrue
<1> DEFINE search == Search(data, me, am_root)
           own == {v \in {me} : FoundAt(data, looped, v)}
           below == {v \in children : FoundAt(data, entered, v)}
<1>9. \/ search = [set_s |-> InnerLoops(data, looped, {me}), at |-> own]
      \/ search = [set_s |-> looped, at |-> below]
  BY DEF Search, looped, entered, children
<1> HIDE DEF search, own, below
<1>10. search.set_s = InnerLoops(data, looped, {me}) \/ search.set_s = looped
  BY <1>9
<1>11. search.at = own \/ search.at = below
  BY <1>9
<1>12. \A v \in own \cup below : v \in V /\ Found(v)
  BY <1>4, <1>6, <1>8 DEF own, below
<1> HIDE DEF Found
<1>13. QED
  BY <1>6, <1>8, <1>10, <1>11, <1>12 DEF search, Found

-----------------------------------------------------------------------------
(* What ferried data claims, and what it says is true of its graph.         *)
Claims(data) ==
    /\ DOMAIN data.set_s \subseteq Nodes(data) \X Nodes(Target)
    /\ SetSTrue(data)

LEMMA DefaultClaims == Claims(DefaultDistributed)
<1>1. DOMAIN DefaultDistributed.set_s = {}
  BY DEF DefaultDistributed
<1>2. QED
  BY <1>1 DEF Claims, SetSTrue

(* A node that merely got its own property satisfies no fewer filters.      *)
LEMMA GrownSatisfies ==
    ASSUME NEW x, NEW y, y.name = x.name, x.value \in {NoValue, PropertyOf[x.name]},
           y.value = x.value \/ y.value = PropertyOf[y.name], NEW wanted,
           HasPropertySubset(x, wanted)
    PROVE  HasPropertySubset(y, wanted)
BY DEF HasPropertySubset

(* The entries after a merge are those of the two sides.                    *)
LEMMA MergeSetSIs ==
    ASSUME NEW m \in Nat, NEW mine, NEW theirs,
           \A e \in DOMAIN mine : e = <<e[1], e[2]>>,
           \A e \in DOMAIN theirs : e = <<e[1], e[2]>> /\ e[1] \in Nat,
           NEW k \in DOMAIN MergeSetS(mine, theirs, m)
    PROVE  \/ k \in DOMAIN mine /\ MergeSetS(mine, theirs, m)[k] = mine[k]
           \/ \E e \in DOMAIN theirs :
                k = <<e[1] + m, e[2]>> /\ MergeSetS(mine, theirs, m)[k] = theirs[e]
<1> DEFINE new == {<<e[1] + m, e[2]>> : e \in DOMAIN theirs}
           merged == MergeSetS(mine, theirs, m)
<1>1. /\ DOMAIN merged = new \cup DOMAIN mine
      /\ \A j \in new \cup DOMAIN mine :
            merged[j] = IF j \in new THEN theirs[<<j[1] - m, j[2]>>] ELSE mine[j]
  BY DEF MergeSetS
<1>2. CASE k \in new
  <2>1. PICK e \in DOMAIN theirs : k = <<e[1] + m, e[2]>>
    BY <1>2
  <2>2. e = <<e[1], e[2]>> /\ e[1] \in Nat
    OBVIOUS
  <2>3. <<k[1] - m, k[2]>> = e
    BY <2>1, <2>2
  <2> HIDE DEF new, merged
  <2>4. merged[k] = theirs[e]
    BY <1>1, <1>2, <2>3
  <2>5. QED
    BY <2>1, <2>4 DEF merged
<1>3. CASE k \notin new
  BY <1>1, <1>3
<1>4. QED
  BY <1>2, <1>3

(* A graph in which another one lies, its nodes elsewhere maybe, and grown. *)
Lies(g, gg, move) ==
    /\ \A i \in Nodes(g) : move[i] \in Nodes(gg)
    /\ \A i, j \in Nodes(g) : move[i] = move[j] => i = j
    /\ \A a, b : <<a, b>> \in g.edges => <<move[a], move[b]>> \in gg.edges
    /\ \A i \in Nodes(g) :
        LET x == g.nodes[i]
            y == gg.nodes[move[i]]
        IN  /\ y.name = x.name
            /\ x.value \in {NoValue, PropertyOf[x.name]}
            /\ y.value = x.value \/ y.value = PropertyOf[y.name]

LEMMA LiesAlike ==
    ASSUME NEW g, NEW gg, NEW x, NEW y, NEW move, Lies(g, gg, move),
           x.nodes = g.nodes, x.edges = g.edges, y.nodes = gg.nodes, y.edges = gg.edges
    PROVE  Lies(x, y, move)
BY DEF Lies, Nodes

LEMMA ClaimMoved ==
    ASSUME NEW g, NEW gg, NEW move, Lies(g, gg, move),
           g.edges \in SUBSET (Nodes(g) \X Nodes(g)),
           gg.edges \in SUBSET (Nodes(gg) \X Nodes(gg)),
           Claims(g), NEW i, NEW u, <<i, u>> \in DOMAIN g.set_s, NEW w \in g.set_s[<<i, u>>],
           w # u \/ w = FindRoot(Target)
    PROVE  BranchEmbeds(gg, Target, move[i], u, w)
<1>1. i \in Nodes(g) /\ u \in Nodes(Target)
  BY DEF Claims
<1>2. BranchEmbeds(g, Target, i, u, w)
  <2> DEFINE k == <<i, u>>
  <2>1. k \in DOMAIN g.set_s /\ w \in g.set_s[k] /\ k[1] = i /\ k[2] = u
    OBVIOUS
  <2> HIDE DEF k
  <2>2. QED
    BY <2>1 DEF Claims, SetSTrue
<1>3. ASSUME NEW j \in Nodes(g), NEW x \in Nodes(Target),
             HasPropertySubset(g.nodes[j], Target.nodes[x])
      PROVE  HasPropertySubset(gg.nodes[move[j]], Target.nodes[x])
  BY <1>3, GrownSatisfies DEF Lies
<1>4. /\ \A j \in Nodes(g) : move[j] \in Nodes(gg)
      /\ \A j, l \in Nodes(g) : move[j] = move[l] => j = l
      /\ \A a, b : <<a, b>> \in g.edges => <<move[a], move[b]>> \in gg.edges
  BY DEF Lies
<1>5. QED
  BY <1>1, <1>2, <1>3, <1>4, EmbedsMoved

(* Both sides of a merge lie in it: the second behind the first.            *)
LEMMA MergeLies ==
    ASSUME NEW a \in FerriedDataType, NEW b \in FerriedDataType, NEW S, NEW A, NEW B,
           a.edges \subseteq (DOMAIN a.nodes) \X (DOMAIN a.nodes),
           b.edges \subseteq (DOMAIN b.nodes) \X (DOMAIN b.nodes),
           Sound(a, A), Sound(b, B), Sound(Merge(a, b), S), Owned(a), Owned(b)
    PROVE  /\ Lies(a, Merge(a, b), [i \in Nodes(a) |-> i])
           /\ Lies(b, Merge(a, b), [i \in Nodes(b) |-> i + Len(a.nodes)])
<1> DEFINE m == Merge(a, b)
           la == Len(a.nodes)
           both == a.nodes \o b.nodes
           up == [i \in Nodes(b) |-> i + la]
           id == [i \in Nodes(a) |-> i]
           Grown(x, y) == /\ y.name = x.name
                          /\ x.value \in {NoValue, PropertyOf[x.name]}
                          /\ y.value = x.value \/ y.value = PropertyOf[y.name]
<1>1. a.nodes \in Seq(Node) /\ b.nodes \in Seq(Node) /\ la \in Nat
  BY DEF FerriedDataType
<1>2. /\ \A i \in DOMAIN a.nodes : i \in DOMAIN both /\ both[i] = a.nodes[i]
      /\ \A k \in DOMAIN b.nodes : k + la \in DOMAIN both /\ both[k + la] = b.nodes[k]
  BY <1>1, ConcatPositions, Zenon
<1>3. /\ DOMAIN m.nodes = DOMAIN both
      /\ \A i \in DOMAIN both :
            /\ m.nodes[i].name = both[i].name
            /\ \/ m.nodes[i].value = both[i].value
               \/ \E p \in a.unassigned \cup b.unassigned :
                    p.entity = m.nodes[i].name /\ p.value = m.nodes[i].value
  BY MergeNodes, Zenon
<1>4. m.edges = a.edges \cup EdgesByName(both, b)
  BY DEF Merge
<1>5. /\ \A i \in DOMAIN a.nodes : a.nodes[i].value \in {NoValue, PropertyOf[a.nodes[i].name]}
      /\ \A i \in DOMAIN b.nodes : b.nodes[i].value \in {NoValue, PropertyOf[b.nodes[i].name]}
      /\ \A i, j \in DOMAIN m.nodes : m.nodes[i].name = m.nodes[j].name => i = j
  BY DEF Sound
<1>6. \A p \in a.unassigned \cup b.unassigned : p.value = PropertyOf[p.entity]
  BY DEF Owned
<1> HIDE DEF m, both, la
<1>7. \A i \in DOMAIN a.nodes : i \in DOMAIN m.nodes /\ Grown(a.nodes[i], m.nodes[i])
  BY <1>2, <1>3, <1>5, <1>6
<1>8. \A i \in DOMAIN b.nodes : i + la \in DOMAIN m.nodes /\ Grown(b.nodes[i], m.nodes[i + la])
  BY <1>2, <1>3, <1>5, <1>6
<1>9. ASSUME NEW x, NEW y, <<x, y>> \in b.edges
      PROVE  <<x + la, y + la>> \in m.edges
  <2> DEFINE f == <<x, y>>
             e == <<GetNodeWithId(both, b.nodes[x].name), GetNodeWithId(both, b.nodes[y].name)>>
  <2>1. f[1] \in DOMAIN b.nodes /\ f[2] \in DOMAIN b.nodes /\ f \in b.edges
    BY <1>9
  <2>2. e \in EdgesByName(both, b)
    BY <2>1 DEF EdgesByName
  <2> DEFINE bn == b.nodes
             an == a.nodes
  <2>3. /\ e[1] \in DOMAIN both /\ both[e[1]].name = bn[x].name
        /\ e[2] \in DOMAIN both /\ both[e[2]].name = bn[y].name
    <3>1. e = <<GetNodeWithId(an \o bn, bn[f[1]].name), GetNodeWithId(an \o bn, bn[f[2]].name)>>
      BY DEF both
    <3>2. an \in Seq(Node) /\ bn \in Seq(Node) /\ f[1] \in DOMAIN bn /\ f[2] \in DOMAIN bn
      BY <1>1, <2>1
    <3>3. f[1] = x /\ f[2] = y /\ both = an \o bn
      BY DEF both
    <3> HIDE DEF e, f, an, bn
    <3>4. /\ e[1] \in DOMAIN (an \o bn) /\ (an \o bn)[e[1]].name = bn[f[1]].name
          /\ e[2] \in DOMAIN (an \o bn) /\ (an \o bn)[e[2]].name = bn[f[2]].name
      BY <3>1, <3>2, EdgesByNameFinds
    <3>5. QED
      BY <3>3, <3>4
  <2>4. e[1] = x + la /\ e[2] = y + la
    <3>1. /\ x + la \in DOMAIN both /\ both[x + la].name = bn[x].name
          /\ y + la \in DOMAIN both /\ both[y + la].name = bn[y].name
      BY <1>2, <2>1
    <3>2. \A i, j \in DOMAIN both : both[i].name = both[j].name => i = j
      BY <1>3, <1>5
    <3> HIDE DEF e, bn
    <3>3. QED
      BY <2>3, <3>1, <3>2
  <2>5. e = <<x + la, y + la>>
    <3>1. e = <<e[1], e[2]>>
      OBVIOUS
    <3> HIDE DEF e
    <3>2. QED
      BY <2>4, <3>1
  <2>6. QED
    BY <1>4, <2>2, <2>5
<1>10. \A i \in Nodes(b) : up[i] = i + la
  OBVIOUS
<1>11. \A i \in Nodes(a) : id[i] = i
  OBVIOUS
<1> HIDE DEF up, id
<1>12. Lies(a, m, id)
  <2>1. \A x, y : <<x, y>> \in a.edges => <<id[x], id[y]>> \in m.edges
    BY <1>4, <1>11 DEF Nodes
  <2>2. QED
    BY <1>7, <1>11, <2>1 DEF Lies, Nodes
<1>13. Lies(b, m, up)
  <2>1. \A x, y : <<x, y>> \in b.edges => <<up[x], up[y]>> \in m.edges
    BY <1>9, <1>10 DEF Nodes
  <2>2. \A i \in DOMAIN b.nodes : i \in Nat
    BY <1>1
  <2>3. \A i, j \in Nodes(b) : up[i] = up[j] => i = j
    BY <1>1, <1>10, <2>2 DEF Nodes
  <2>4. QED
    BY <1>8, <1>10, <2>1, <2>3 DEF Lies, Nodes
<1>14. QED
  BY <1>12, <1>13 DEF m, up, id, la

LEMMA MergeClaims ==
    ASSUME DistinctServices, NEW s \in Spans, NEW C \in SUBSET Children(s),
           NEW D \in SUBSET Children(s), C \cap D = {},
           NEW a, NEW b, WellFormed(a), WellFormed(b),
           Carries(a, C), Carries(b, D),
           Owned(a), Owned(b), Claims(a), Claims(b)
    PROVE  Claims(MergeDistributed(a, b))
<1> DEFINE m == MergeDistributed(a, b)
           ga == Graph(a)
           gb == Graph(b)
           g == Merge(ga, gb)
           A == UNION {Below[c] : c \in C}
           B == UNION {Below[c] : c \in D}
           AB == UNION {Below[c] : c \in C \cup D}
           la == Len(a.nodes)
           lb == Len(b.nodes)
           U == Nodes(Target)
           id == [i \in Nodes(a) |-> i]
           up == [i \in Nodes(b) |-> i + la]
<1>1. /\ ga \in FerriedDataType /\ gb \in FerriedDataType
      /\ ga.nodes = a.nodes /\ ga.edges = a.edges /\ ga.unassigned = a.unassigned
      /\ gb.nodes = b.nodes /\ gb.edges = b.edges /\ gb.unassigned = b.unassigned
  BY GraphType
<1>2. /\ m.nodes = g.nodes /\ m.edges = g.edges /\ WellFormed(m)
      /\ m.set_s = IF a.found_match \/ b.found_match THEN <<>> ELSE MergeSetS(a.set_s, b.set_s, la)
  BY MergeDistributedIs
<1>3. Carries(m, C \cup D)
  BY MergeDistributedCarries
<1>4. /\ a.edges \in SUBSET (Nodes(a) \X Nodes(a)) /\ b.edges \in SUBSET (Nodes(b) \X Nodes(b))
      /\ a.nodes \in Seq(Node) /\ b.nodes \in Seq(Node)
  BY DEF WellFormed, Nodes
<1> HIDE DEF ga, gb, m
<1>5. m.edges \in SUBSET (Nodes(m) \X Nodes(m))
  BY <1>2 DEF WellFormed, Nodes
<1>6. Lies(a, m, id) /\ Lies(b, m, up)
  <2>1. Sound(ga, A) /\ Sound(gb, B) /\ Owned(ga) /\ Owned(gb)
    <3>1. Sound(a, A) /\ Sound(b, B)
      BY DEF Carries
    <3> HIDE DEF A, B
    <3>2. QED
      BY <1>1, <3>1 DEF Sound, Owned
  <2>2. Sound(g, AB)
    BY <1>2, <1>3 DEF Carries, Sound
  <2>3. /\ ga.edges \subseteq (DOMAIN ga.nodes) \X (DOMAIN ga.nodes)
        /\ gb.edges \subseteq (DOMAIN gb.nodes) \X (DOMAIN gb.nodes)
    BY <1>1, <1>4 DEF Nodes
  <2>4. /\ Lies(ga, g, [i \in Nodes(ga) |-> i])
        /\ Lies(gb, g, [i \in Nodes(gb) |-> i + Len(ga.nodes)])
    BY <1>1, <2>1, <2>2, <2>3, MergeLies
  <2>5. Nodes(ga) = Nodes(a) /\ Nodes(gb) = Nodes(b) /\ Nodes(g) = Nodes(m)
    BY <1>1, <1>2 DEF Nodes
  <2> HIDE DEF g
  <2>6. /\ Lies(ga, g, id) /\ Lies(gb, g, up)
    BY <1>1, <2>4, <2>5
  <2>7. QED
    BY <1>1, <1>2, <2>6, LiesAlike
<1> HIDE DEF g
<1>7. CASE a.found_match \/ b.found_match
  <2>1. DOMAIN m.set_s = {}
    BY <1>2, <1>7
  <2>2. QED
    BY <2>1 DEF Claims, SetSTrue, m
<1>8. CASE ~ (a.found_match \/ b.found_match)
  <2>1. /\ la \in Nat /\ lb \in Nat /\ Nodes(a) = 1 .. la /\ Nodes(b) = 1 .. lb
        /\ \A i \in 1 .. la : id[i] = i
        /\ \A i \in 1 .. lb : up[i] = i + la
    BY <1>4 DEF Nodes
  <2>2. DOMAIN a.set_s = (1 .. la) \X U /\ DOMAIN b.set_s = (1 .. lb) \X U
    BY <1>8, <2>1 DEF WellFormed, SetSHasEntries, Nodes
  <2>3. m.set_s = MergeSetS(a.set_s, b.set_s, la)
    BY <1>2, <1>8
  <2>4. ~ m.found_match
    BY <1>8, MergeDistributedIs DEF m
  <2>5. DOMAIN m.set_s = Nodes(m) \X U
    BY <1>2, <2>4 DEF WellFormed, SetSHasEntries, Nodes
  <2> HIDE DEF la, lb, id, up, U
  <2>6. ASSUME NEW k \in DOMAIN m.set_s, NEW w \in m.set_s[k], w # k[2] \/ w = FindRoot(Target)
        PROVE  BranchEmbeds(m, Target, k[1], k[2], w)
    <3>1. CASE k \in DOMAIN a.set_s /\ m.set_s[k] = a.set_s[k]
      <4>1. PICK i \in 1 .. la, u \in U : k = <<i, u>>
        BY <2>2, <3>1
      <4>2. <<i, u>> \in DOMAIN a.set_s /\ w \in a.set_s[<<i, u>>]
            /\ (w # u \/ w = FindRoot(Target)) /\ k[1] = id[i] /\ k[2] = u
        BY <2>1, <2>6, <3>1, <4>1
      <4>3. BranchEmbeds(m, Target, id[i], u, w)
        BY <1>4, <1>5, <1>6, <4>2, ClaimMoved
      <4>4. QED
        BY <4>2, <4>3
    <3>2. ASSUME NEW e \in DOMAIN b.set_s, k = <<e[1] + la, e[2]>>, m.set_s[k] = b.set_s[e]
          PROVE  BranchEmbeds(m, Target, k[1], k[2], w)
      <4>1. PICK i \in 1 .. lb, u \in U : e = <<i, u>>
        BY <2>2
      <4>2. <<i, u>> \in DOMAIN b.set_s /\ w \in b.set_s[<<i, u>>]
            /\ (w # u \/ w = FindRoot(Target)) /\ k[1] = up[i] /\ k[2] = u
        BY <2>1, <2>6, <3>2, <4>1
      <4>3. BranchEmbeds(m, Target, up[i], u, w)
        BY <1>4, <1>5, <1>6, <4>2, ClaimMoved
      <4>4. QED
        BY <4>2, <4>3
    <3>3. \/ k \in DOMAIN a.set_s /\ m.set_s[k] = a.set_s[k]
          \/ \E e \in DOMAIN b.set_s : k = <<e[1] + la, e[2]>> /\ m.set_s[k] = b.set_s[e]
      <4> DEFINE mine == a.set_s
                 theirs == b.set_s
      <4>1. k \in DOMAIN MergeSetS(mine, theirs, la) /\ la \in Nat
        BY <2>1, <2>3
      <4>2. /\ \A e \in DOMAIN mine : e = <<e[1], e[2]>>
            /\ \A e \in DOMAIN theirs : e = <<e[1], e[2]>> /\ e[1] \in Nat
        BY <2>1, <2>2
      <4> HIDE DEF mine, theirs
      <4>3. \/ k \in DOMAIN mine /\ MergeSetS(mine, theirs, la)[k] = mine[k]
            \/ \E e \in DOMAIN theirs :
                  k = <<e[1] + la, e[2]>> /\ MergeSetS(mine, theirs, la)[k] = theirs[e]
        BY <4>1, <4>2, MergeSetSIs
      <4>4. QED
        BY <2>3, <4>3 DEF mine, theirs
    <3>4. QED
      BY <3>1, <3>2, <3>3
  <2>7. QED
    BY <2>5, <2>6 DEF Claims, SetSTrue, m, U
<1>9. QED
  BY <1>7, <1>8

(* What a response hook sends claims nothing but the truth either, and it   *)
(* finds the pattern only where it is.                                     *)
LEMMA ResponseClaims ==
    ASSUME DistinctServices, Tree(Target), NEW s \in Spans, NEW C \in SUBSET Children(s),
           NEW fd, WellFormed(fd), Carries(fd, C), Owned(fd), Claims(fd)
    PROVE  LET n == ServiceOf[s]
           IN  /\ Claims(Mine(fd, n))
               /\ ~ fd.found_match => Claims(Searched(fd, n)) /\ Claims(Told(fd, n))
               /\ ~ fd.found_match => \A v \in SearchIn(fd, n).at :
                    EmbedsAt(Target, Mine(fd, n).nodes, Mine(fd, n).edges, v)
<1> DEFINE n == ServiceOf[s]
           gf == Graph(fd)
           g == AddMe(fd, n)
           data == Mine(fd, n)
           search == SearchIn(fd, n)
           searched == Searched(fd, n)
           told == Told(fd, n)
           len == Len(fd.nodes)
           id == [i \in Nodes(fd) |-> i]
           root == FindRoot(Target)
<1>1. n \in Services
  BY CallerType
<1>2. /\ gf \in FerriedDataType
      /\ gf.nodes = fd.nodes /\ gf.edges = fd.edges /\ gf.unassigned = fd.unassigned
  BY GraphType
<1>3. AddMe(gf, n) = g
  BY <1>2 DEF AddMe, Roots
<1> HIDE DEF gf
<1>4. /\ g.nodes \in Seq(Node) /\ len \in Nat
      /\ DOMAIN fd.nodes = 1 .. len /\ DOMAIN g.nodes = 1 .. len + 1
      /\ g.nodes[len + 1].name = n
      /\ g.edges = fd.edges \cup {<<len + 1, r>> : r \in Roots(gf)}
      /\ \A i \in DOMAIN fd.nodes :
            /\ g.nodes[i].name = fd.nodes[i].name
            /\ \/ g.nodes[i].value = fd.nodes[i].value
               \/ \E p \in fd.unassigned : p.entity = g.nodes[i].name /\ p.value = g.nodes[i].value
  BY <1>1, <1>2, <1>3, AddMeNodes
<1>5. data \in [nodes : {g.nodes}, edges : {g.edges}, unassigned : {g.unassigned},
                found_match : {fd.found_match}, set_s : {fd.set_s}]
  BY WithGraphFields DEF Mine
<1>6. Carries(data, {s})
  BY ResponseData
<1>7. fd.edges \in SUBSET (Nodes(fd) \X Nodes(fd))
  BY DEF WellFormed, Nodes
<1> HIDE DEF g, len, data
<1>8. data.edges \in SUBSET (Nodes(data) \X Nodes(data))
  <2>1. Roots(gf) \subseteq DOMAIN fd.nodes
    BY <1>2 DEF Roots
  <2>2. DOMAIN fd.nodes \subseteq DOMAIN g.nodes /\ len + 1 \in DOMAIN g.nodes
    BY <1>4
  <2>3. g.edges \in SUBSET ((DOMAIN g.nodes) \X (DOMAIN g.nodes))
    BY <1>4, <1>7, <2>1, <2>2 DEF Nodes
  <2>4. QED
    BY <1>5, <2>3 DEF Nodes
<1>9. Lies(fd, data, id)
  <2>1. \A i \in DOMAIN fd.nodes : fd.nodes[i].value \in {NoValue, PropertyOf[fd.nodes[i].name]}
    BY DEF Carries, Sound
  <2>2. \A p \in fd.unassigned : p.value = PropertyOf[p.entity]
    BY DEF Owned
  <2>3. \A i \in Nodes(fd) : id[i] = i
    OBVIOUS
  <2> HIDE DEF id
  <2>4. \A a, b : <<a, b>> \in fd.edges => <<id[a], id[b]>> \in data.edges
    BY <1>4, <1>5, <1>7, <2>3
  <2>5. data.nodes = g.nodes
    BY <1>5
  <2>6. ASSUME NEW i \in DOMAIN fd.nodes
        PROVE  /\ i \in DOMAIN g.nodes
               /\ g.nodes[i].name = fd.nodes[i].name
               /\ g.nodes[i].value = fd.nodes[i].value
                  \/ g.nodes[i].value = PropertyOf[g.nodes[i].name]
    BY <1>4, <2>2
  <2>7. QED
    BY <2>1, <2>3, <2>4, <2>5, <2>6 DEF Lies, Nodes
<1>10. data.set_s = fd.set_s /\ data.nodes = g.nodes /\ data.found_match = fd.found_match
  BY <1>5
<1>11. Claims(data)
  <2>1. DOMAIN data.set_s \subseteq Nodes(data) \X Nodes(Target)
    <3>1. Nodes(fd) \subseteq Nodes(data)
      BY <1>4, <1>10 DEF Nodes
    <3>2. QED
      BY <1>10, <3>1 DEF Claims
  <2>2. ASSUME NEW k \in DOMAIN data.set_s, NEW w \in data.set_s[k], w # k[2] \/ w = root
        PROVE  BranchEmbeds(data, Target, k[1], k[2], w)
    <3>1. PICK i \in Nodes(fd), u \in Nodes(Target) : k = <<i, u>>
      BY <1>10 DEF Claims
    <3>2. <<i, u>> \in DOMAIN fd.set_s /\ w \in fd.set_s[<<i, u>>] /\ (w # u \/ w = root)
          /\ k[1] = i /\ k[2] = u /\ id[i] = i
      BY <1>10, <2>2, <3>1
    <3> HIDE DEF id
    <3>3. BranchEmbeds(data, Target, id[i], u, w)
      BY <1>7, <1>8, <1>9, <3>2, ClaimMoved
    <3>4. QED
      BY <3>2, <3>3
  <2>3. QED
    BY <2>1, <2>2 DEF Claims, SetSTrue
<1>12. ASSUME ~ fd.found_match
       PROVE  /\ Claims(searched) /\ Claims(told)
              /\ \A v \in search.at : EmbedsAt(Target, data.nodes, data.edges, v)
  <2> DEFINE me == len + 1
             am_root == n = RootId
  <2>1. /\ data.nodes \in Seq(Node) /\ me \in DOMAIN data.nodes /\ data.nodes[me].name = n
        /\ data.edges \subseteq (DOMAIN data.nodes) \X (DOMAIN data.nodes)
    BY <1>4, <1>8, <1>10 DEF Nodes
  <2>2. Tree(data) /\ \A e \in data.edges : e[2] # me
    <3> HIDE DEF me
    <3>1. QED
      BY <1>6, <2>1, CarriedTree
  <2>3. TwoTrees(data, Target)
    BY <2>2, TreePair
  <2>4. GetNodeWithId(data.nodes, n) = me
    <3>1. n \in NamesIn(data.nodes)
      BY <2>1 DEF NamesIn
    <3>2. GetNodeWithId(data.nodes, n) \in DOMAIN data.nodes
          /\ data.nodes[GetNodeWithId(data.nodes, n)].name = n
      BY <2>1, <3>1, GetNodeWithIdFinds
    <3>3. \A i, j \in DOMAIN data.nodes : data.nodes[i].name = data.nodes[j].name => i = j
      BY <1>6 DEF Carries, Sound
    <3>4. QED
      BY <2>1, <3>2, <3>3
  <2> HIDE DEF am_root
  <2>5. search = Search(data, me, am_root)
    BY <2>4 DEF SearchIn, am_root, data
  <2>6. DOMAIN data.set_s = (Nodes(data) \ {me}) \X Nodes(Target)
    <3>1. DOMAIN data.set_s = (1 .. len) \X Nodes(Target)
      BY <1>4, <1>10, <1>12 DEF WellFormed, SetSHasEntries
    <3>2. 1 .. len = Nodes(data) \ {me}
      BY <1>4, <1>10 DEF Nodes
    <3>3. QED
      BY <3>1, <3>2
  <2>7. KeysTrue(data, data.set_s) /\ me \in Nodes(data)
    BY <1>11, <2>1 DEF Claims, SetSTrue, KeysTrue, Nodes
  <2> HIDE DEF me, search, searched, told
  <2>8. /\ KeysTrue(data, search.set_s)
        /\ \A v \in search.at :
                /\ v \in Nodes(data)
                /\ BranchEmbeds(data, Target, v, FindRoot(Target), FindRoot(Target))
                /\ HasPropertySubset(data.nodes[v], Target.nodes[FindRoot(Target)])
    BY <2>2, <2>3, <2>5, <2>6, <2>7, SearchTrue
  <2>9. \A v \in search.at : EmbedsAt(Target, data.nodes, data.edges, v)
    BY <2>3, <2>8, WholeEmbeds
  <2>10. /\ searched = [data EXCEPT !.set_s = search.set_s]
         /\ told = [searched EXCEPT !.found_match = TRUE]
    BY DEF searched, told, search, Searched, Told, data
  <2>11. /\ searched.nodes = data.nodes /\ searched.edges = data.edges
         /\ searched.set_s = search.set_s
         /\ told.nodes = data.nodes /\ told.edges = data.edges /\ told.set_s = search.set_s
    BY <1>5, <2>10
  <2>12. DOMAIN search.set_s = Nodes(data) \X Nodes(Target)
    <3>1. WellFormed(searched) /\ ~ searched.found_match
      BY <1>12, ResponseData DEF searched
    <3>2. QED
      BY <2>11, <3>1 DEF WellFormed, SetSHasEntries, Nodes
  <2>13. ASSUME NEW x, x.nodes = data.nodes, x.edges = data.edges, x.set_s = search.set_s
         PROVE  Claims(x)
    <3>1. \A v, u, w : BranchEmbeds(x, Target, v, u, w) <=> BranchEmbeds(data, Target, v, u, w)
      BY <2>13 DEF BranchEmbeds, Nodes
    <3>2. Nodes(x) = Nodes(data)
      BY <2>13 DEF Nodes
    <3>3. QED
      BY <2>8, <2>12, <2>13, <3>1, <3>2 DEF Claims, SetSTrue, KeysTrue
  <2>14. QED
    BY <2>9, <2>11, <2>13
<1>13. QED
  BY <1>11, <1>12 DEF data

-----------------------------------------------------------------------------
(* What can be laid over a graph at v is in keys, a set_s: the converse of  *)
(* KeysTrue, at one node.                                                  *)
FullAt(graph, keys, v) ==
    \A u \in Nodes(Target) : \A w \in Neighbours(Target, u) \cup {u} :
        BranchEmbeds(graph, Target, v, u, w) => w \in keys[<<v, u>>]

LEMMA FullAlike ==
    ASSUME NEW g, NEW gg, NEW keys, NEW kk, NEW v, FullAt(g, keys, v),
           g.nodes = gg.nodes, g.edges = gg.edges,
           \A u \in Nodes(Target) : kk[<<v, u>>] = keys[<<v, u>>]
    PROVE  FullAt(gg, kk, v)
<1>1. \A u, w : BranchEmbeds(gg, Target, v, u, w) <=> BranchEmbeds(g, Target, v, u, w)
  BY DEF BranchEmbeds, Nodes
<1>2. QED
  BY <1>1 DEF FullAt

(* A round for u makes its entry full, if those of the node's callees are.  *)
LEMMA AfterRoundFull ==
    ASSUME NEW graph, TwoTrees(graph, Target), NEW keys, NEW v \in Nodes(graph),
           \A y \in Nodes(graph) : <<v, y>> \in graph.edges => FullAt(graph, keys, y),
           NEW u \in Nodes(Target), NEW w \in Neighbours(Target, u) \cup {u},
           BranchEmbeds(graph, Target, v, u, w)
    PROVE  DegreeFits(graph, Target, v, u) /\ w \in AfterRound(graph, keys, v, u)
<1>1. ASSUME NEW y \in Nodes(graph), <<v, y>> \in graph.edges,
             NEW x \in Neighbours(Target, u), BranchEmbeds(graph, Target, y, x, u)
      PROVE  u \in keys[<<y, x>>]
  <2>1. x \in Nodes(Target) /\ u \in Neighbours(Target, x)
    <3>1. x \in Nodes(Target) /\ <<u, x>> \in Both(Target.edges)
      BY DEF Neighbours
    <3>2. Target.edges \in SUBSET (Nodes(Target) \X Nodes(Target))
      BY PatternAssumption DEF Nodes
    <3>3. <<x, u>> \in Both(Target.edges)
      BY <3>1, <3>2, BothWays
    <3>4. QED
      BY <3>1, <3>3 DEF Neighbours
  <2>2. QED
    BY <1>1, <2>1 DEF FullAt
<1>2. w \in MaxMatching(graph, Target, keys, v, u) /\ DegreeFits(graph, Target, v, u)
  BY <1>1, MaxMatchingComplete
<1>3. QED
  BY <1>2 DEF AfterRound

(* The pattern is then found where it is, ...                               *)
LEMMA FoundWhereItIs ==
    ASSUME NEW graph, TwoTrees(graph, Target), NEW keys, NEW v \in Nodes(graph),
           \A y \in Nodes(graph) : <<v, y>> \in graph.edges => FullAt(graph, keys, y),
           EmbedsAt(Target, graph.nodes, graph.edges, v)
    PROVE  FoundAt(graph, keys, v)
<1> DEFINE root == FindRoot(Target)
<1>1. root \in Nodes(Target) /\ root \in Nat
  <2>1. Target.nodes \in Seq(PatternNode)
    BY PatternAssumption
  <2>2. QED
    BY <2>1, TargetRoot DEF Nodes
<1>2. BranchEmbeds(graph, Target, v, root, root)
      /\ HasPropertySubset(graph.nodes[v], Target.nodes[root])
  BY WholeEmbeds
<1> HIDE DEF root
<1>3. DegreeFits(graph, Target, v, root) /\ root \in AfterRound(graph, keys, v, root)
  BY <1>1, <1>2, AfterRoundFull
<1>4. root >= root
  BY <1>1
<1>5. FoundInRound(graph, keys, v, root)
  BY <1>2, <1>3, <1>4 DEF FoundInRound, root
<1>6. QED
  BY <1>1, <1>5 DEF FoundAt

(* The inner loops leave the other nodes as they are, ...                   *)
LEMMA InnerLoopsApart ==
    ASSUME NEW graph, NEW keys, NEW vs, NEW v, v \notin vs, NEW u, <<v, u>> \in DOMAIN keys
    PROVE  InnerLoops(graph, keys, vs)[<<v, u>>] = keys[<<v, u>>]
<1> DEFINE k == <<v, u>>
<1>1. k \in DOMAIN keys /\ k[1] = v
  OBVIOUS
<1> HIDE DEF k
<1>2. InnerLoops(graph, keys, vs)[k] = keys[k]
  BY <1>1 DEF InnerLoops
<1>3. QED
  BY <1>2 DEF k

(* ... and the one for a node at which nothing is found runs to its end.    *)
LEMMA InnerLoopsFull ==
    ASSUME NEW graph, TwoTrees(graph, Target), NEW keys,
           DOMAIN keys = Nodes(graph) \X Nodes(Target), NEW vs,
           NEW v \in Nodes(graph), v \in vs, ~ FoundAt(graph, keys, v),
           \A y \in Nodes(graph) : <<v, y>> \in graph.edges => FullAt(graph, keys, y)
    PROVE  FullAt(graph, InnerLoops(graph, keys, vs), v)
<1> DEFINE looped == InnerLoops(graph, keys, vs)
<1> SUFFICES ASSUME NEW u \in Nodes(Target), NEW w \in Neighbours(Target, u) \cup {u},
                    BranchEmbeds(graph, Target, v, u, w)
             PROVE  w \in looped[<<v, u>>]
  BY DEF FullAt
<1>1. \A x \in 1 .. u - 1 : x \in Nodes(Target)
  <2>1. Nodes(Target) = 1 .. Len(Target.nodes) /\ Len(Target.nodes) \in Nat
    BY PatternAssumption DEF Nodes
  <2>2. QED
    BY <2>1
<1>2. \A x \in 1 .. u - 1 : ~ FoundInRound(graph, keys, v, x)
  BY <1>1 DEF FoundAt
<1>3. looped[<<v, u>>] = AfterRound(graph, keys, v, u)
  <2> DEFINE k == <<v, u>>
  <2>1. k \in DOMAIN keys /\ k[1] = v /\ k[2] = u
    OBVIOUS
  <2> HIDE DEF k
  <2>2. looped[k] =
            IF k[1] \in vs /\ \A x \in 1 .. k[2] - 1 : ~ FoundInRound(graph, keys, k[1], x)
            THEN AfterRound(graph, keys, k[1], k[2])
            ELSE keys[k]
    BY <2>1 DEF InnerLoops
  <2>3. QED
    BY <1>2, <2>1, <2>2 DEF k
<1>4. w \in AfterRound(graph, keys, v, u)
  BY AfterRoundFull
<1>5. QED
  BY <1>3, <1>4

(* The search at a node that nobody in the graph has called, when what is   *)
(* deeper than its callees is full: a callee's sidecar did that search      *)
(* before.                                                                 *)
LEMMA SearchFull ==
    ASSUME NEW data, TwoTrees(data, Target), NEW me \in Nodes(data),
           \A e \in data.edges : e[2] # me,
           DOMAIN data.set_s = (Nodes(data) \ {me}) \X Nodes(Target),
           KeysTrue(data, data.set_s),
           \A v \in Nodes(data) \ {me} :
                v \notin ChildrenIn(data, me) => FullAt(data, data.set_s, v)
    PROVE  LET low == {v \in ChildrenIn(data, me) : EmbedsAt(Target, data.nodes, data.edges, v)}
           IN  /\ Search(data, me, FALSE).at = {} =>
                    /\ low = {}
                    /\ \A v \in Nodes(data) \ {me} : FullAt(data, Search(data, me, FALSE).set_s, v)
               /\ low = {} /\ EmbedsAt(Target, data.nodes, data.edges, me) =>
                    Search(data, me, TRUE).at # {}
<1> DEFINE entered == Entered(data, me)
           children == ChildrenIn(data, me)
           looped == InnerLoops(data, entered, children)
           V == Nodes(data)
           U == Nodes(Target)
           Here(v) == EmbedsAt(Target, data.nodes, data.edges, v)
<1>1. DOMAIN entered = V \X U
  <2>1. DOMAIN entered = ({me} \X U) \cup ((V \ {me}) \X U)
    BY DEF Entered
  <2>2. QED
    BY <2>1
<1>2. ASSUME NEW v \in V \ {me}, NEW u \in U
      PROVE  entered[<<v, u>>] = data.set_s[<<v, u>>]
  <2> DEFINE k == <<v, u>>
  <2>1. k \in DOMAIN entered /\ k \notin {me} \X U
    BY <1>1
  <2> HIDE DEF k
  <2>2. entered[k] = data.set_s[k]
    BY <2>1 DEF Entered
  <2>3. QED
    BY <2>2 DEF k
<1>3. children \in SUBSET V /\ \A c : c \in children <=> c \in V /\ <<me, c>> \in data.edges
  BY DEF ChildrenIn, Nodes
<1>4. PICK r : TreeFrom(V, data.edges, r)
  BY DEF TwoTrees, IsTree
<1> HIDE DEF entered, children
<1>5. \A v \in V \ {me} : v \notin children => FullAt(data, entered, v)
  <2>1. \A v \in V \ {me} : v \notin children => FullAt(data, data.set_s, v)
    BY DEF children
  <2>2. QED
    BY <1>2, <2>1, FullAlike
<1>6. ASSUME NEW v \in children
      PROVE  /\ v \in V \ {me}
             /\ \A y \in V : <<v, y>> \in data.edges => y # me /\ y \notin children
  <2>1. v \in V /\ <<me, v>> \in data.edges
    BY <1>3
  <2>2. v # me
    BY <1>4, <2>1, OneParent
  <2>3. ASSUME NEW y \in V, <<v, y>> \in data.edges
        PROVE  y # me /\ y \notin children
    <3>1. y # me
      <4> DEFINE e == <<v, y>>
      <4>1. e \in data.edges /\ e[2] = y
        BY <2>3
      <4> HIDE DEF e
      <4>2. QED
        BY <4>1
    <3>2. y \notin children
      BY <1>3, <1>4, <2>2, <2>3, OneParent
    <3>3. QED
      BY <3>1, <3>2
  <2>4. QED
    BY <2>1, <2>2, <2>3
<1>7. \A v \in children : \A y \in V : <<v, y>> \in data.edges => FullAt(data, entered, y)
  BY <1>5, <1>6
<1>8. ASSUME NEW v \in children, Here(v)
      PROVE  FoundAt(data, entered, v)
  <2>1. v \in V
    BY <1>6
  <2>2. QED
    BY <1>7, <1>8, <2>1, FoundWhereItIs
<1>9. ASSUME NEW v \in children, ~ FoundAt(data, entered, v)
      PROVE  FullAt(data, looped, v)
  <2>1. \A y \in V : <<v, y>> \in data.edges => FullAt(data, entered, y)
    BY <1>7
  <2>2. v \in V /\ DOMAIN entered = V \X U
    BY <1>1, <1>6
  <2>3. QED
    BY <1>9, <2>1, <2>2, InnerLoopsFull
<1> HIDE DEF looped
<1>10. ASSUME \A v \in children : ~ FoundAt(data, entered, v), NEW v \in V \ {me}
       PROVE  FullAt(data, looped, v)
  <2>1. CASE v \in children
    BY <1>9, <1>10, <2>1
  <2>2. CASE v \notin children
    <3>1. FullAt(data, entered, v)
      BY <1>5, <2>2
    <3>2. \A u \in U : looped[<<v, u>>] = entered[<<v, u>>]
      BY <1>1, <2>2, InnerLoopsApart DEF looped
    <3>3. QED
      BY <3>1, <3>2, FullAlike
  <2>3. QED
    BY <2>1, <2>2
<1>11. ASSUME Search(data, me, FALSE).at = {}
       PROVE  /\ \A v \in children : ~ Here(v)
              /\ \A v \in V \ {me} : FullAt(data, Search(data, me, FALSE).set_s, v)
  <2> DEFINE search == Search(data, me, FALSE)
             below == {v \in children : FoundAt(data, entered, v)}
  <2>1. search = [set_s |-> looped, at |-> below]
    BY DEF Search, looped, entered, children
  <2> HIDE DEF search, below
  <2>2. search.at = below /\ search.set_s = looped
    BY <2>1
  <2>3. \A v \in children : ~ FoundAt(data, entered, v)
    BY <1>11, <2>2 DEF search, below
  <2>4. QED
    BY <1>8, <1>10, <2>2, <2>3 DEF search
<1>12. ASSUME \A v \in children : ~ Here(v), Here(me)
       PROVE  Search(data, me, TRUE).at # {}
  <2>1. Search(data, me, TRUE).at = {v \in {me} : FoundAt(data, looped, v)}
    BY DEF Search, looped, entered, children
  <2>2. \A v \in children : ~ FoundAt(data, entered, v)
    <3>1. Search(data, me, FALSE).at = {v \in children : FoundAt(data, entered, v)}
      BY DEF Search, entered, children
    <3>2. \A v \in Search(data, me, FALSE).at : Here(v)
      BY SearchTrue, WholeEmbeds
    <3>3. QED
      BY <1>12, <3>1, <3>2
  <2>3. \A y \in V : <<me, y>> \in data.edges => FullAt(data, looped, y)
    <3>1. \A y \in V : <<me, y>> \in data.edges => y # me
      BY <1>4, OneParent
    <3>2. QED
      BY <1>10, <2>2, <3>1
  <2>4. FoundAt(data, looped, me)
    BY <1>12, <2>3, FoundWhereItIs
  <2>5. QED
    BY <2>1, <2>4
<1>13. QED
  BY <1>11, <1>12 DEF children

-----------------------------------------------------------------------------
(* g lies in gg, moved, and gg adds nothing below its nodes.                *)
LiesApart(g, gg, move) ==
    /\ \A i \in Nodes(g) :
        /\ move[i] \in Nodes(gg)
        /\ gg.nodes[move[i]].name = g.nodes[i].name
        /\ gg.nodes[move[i]].value = g.nodes[i].value
    /\ \A i, j \in Nodes(g) : move[i] = move[j] => i = j
    /\ \A i \in Nodes(g) : \A b : <<move[i], b>> \in gg.edges =>
        \E j \in Nodes(g) : b = move[j] /\ <<i, j>> \in g.edges

LEMMA LiesApartAlike ==
    ASSUME NEW g, NEW gg, NEW x, NEW y, NEW move, LiesApart(g, gg, move),
           x.nodes = g.nodes, x.edges = g.edges, y.nodes = gg.nodes, y.edges = gg.edges
    PROVE  LiesApart(x, y, move)
BY DEF LiesApart, Nodes

LEMMA FullMoved ==
    ASSUME NEW g, NEW gg, NEW move, LiesApart(g, gg, move),
           g.edges \in SUBSET (Nodes(g) \X Nodes(g)),
           gg.edges \in SUBSET (Nodes(gg) \X Nodes(gg)),
           NEW v \in Nodes(g), NEW keys, FullAt(g, keys, v), NEW kk,
           \A u \in Nodes(Target) : kk[<<move[v], u>>] = keys[<<v, u>>]
    PROVE  FullAt(gg, kk, move[v])
<1> SUFFICES ASSUME NEW u \in Nodes(Target), NEW w \in Neighbours(Target, u) \cup {u},
                    BranchEmbeds(gg, Target, move[v], u, w)
             PROVE  w \in kk[<<move[v], u>>]
  BY DEF FullAt
<1>1. ASSUME NEW i \in Nodes(g), NEW x \in Nodes(Target),
             HasPropertySubset(gg.nodes[move[i]], Target.nodes[x])
      PROVE  HasPropertySubset(g.nodes[i], Target.nodes[x])
  BY <1>1 DEF LiesApart, HasPropertySubset
<1>2. /\ \A i \in Nodes(g) : move[i] \in Nodes(gg)
      /\ \A i, j \in Nodes(g) : move[i] = move[j] => i = j
      /\ \A i \in Nodes(g) : \A b : <<move[i], b>> \in gg.edges =>
            \E j \in Nodes(g) : b = move[j] /\ <<i, j>> \in g.edges
  BY DEF LiesApart
<1>3. BranchEmbeds(g, Target, v, u, w)
  BY <1>1, <1>2, EmbedsBack
<1>4. w \in keys[<<v, u>>]
  BY <1>3 DEF FullAt
<1>5. QED
  BY <1>4

(* Where no name comes twice, an edge of the second graph of a merge has    *)
(* moved with its nodes.                                                   *)
LEMMA EdgesByNameMove ==
    ASSUME NEW a \in Seq(Node), NEW b \in FerriedDataType,
           b.edges \subseteq (DOMAIN b.nodes) \X (DOMAIN b.nodes),
           \A i, j \in DOMAIN (a \o b.nodes) :
                (a \o b.nodes)[i].name = (a \o b.nodes)[j].name => i = j,
           NEW e \in EdgesByName(a \o b.nodes, b)
    PROVE  \E x, y \in DOMAIN b.nodes :
               <<x, y>> \in b.edges /\ e = <<x + Len(a), y + Len(a)>>
<1> DEFINE both == a \o b.nodes
           bn == b.nodes
<1>1. bn \in Seq(Node)
  BY DEF FerriedDataType
<1>2. PICK f \in b.edges : e = <<GetNodeWithId(both, bn[f[1]].name), GetNodeWithId(both, bn[f[2]].name)>>
  BY DEF EdgesByName
<1>3. f = <<f[1], f[2]>> /\ f[1] \in DOMAIN bn /\ f[2] \in DOMAIN bn
  OBVIOUS
<1>4. /\ both \in Seq(Node)
      /\ \A k \in DOMAIN bn : k + Len(a) \in DOMAIN both /\ both[k + Len(a)] = bn[k]
  BY <1>1, ConcatPositions
<1> HIDE DEF bn, both
<1>5. /\ e[1] \in DOMAIN both /\ both[e[1]].name = bn[f[1]].name
      /\ e[2] \in DOMAIN both /\ both[e[2]].name = bn[f[2]].name
  <2>1. ASSUME NEW x \in DOMAIN bn
        PROVE  LET k == GetNodeWithId(both, bn[x].name)
               IN  k \in DOMAIN both /\ both[k].name = bn[x].name
    <3>1. bn[x].name \in NamesIn(both)
      BY <1>4 DEF NamesIn
    <3>2. QED
      BY <1>4, <3>1, GetNodeWithIdFinds
  <2>2. QED
    BY <1>2, <1>3, <2>1
<1>6. e[1] = f[1] + Len(a) /\ e[2] = f[2] + Len(a)
  <2>1. \A i, j \in DOMAIN both : both[i].name = both[j].name => i = j
    BY DEF both
  <2>2. QED
    BY <1>3, <1>4, <1>5, <2>1
<1>7. e = <<e[1], e[2]>>
  BY <1>2
<1>8. QED
  BY <1>3, <1>6, <1>7 DEF bn

LEMMA MergeLiesApart ==
    ASSUME NEW a \in FerriedDataType, NEW b \in FerriedDataType, NEW S,
           a.edges \subseteq (DOMAIN a.nodes) \X (DOMAIN a.nodes),
           b.edges \subseteq (DOMAIN b.nodes) \X (DOMAIN b.nodes),
           Sound(Merge(a, b), S),
           \A p \in a.unassigned \cup b.unassigned :
                p.entity \notin NamesIn(a.nodes) \cup NamesIn(b.nodes)
    PROVE  /\ LiesApart(a, Merge(a, b), [i \in Nodes(a) |-> i])
           /\ LiesApart(b, Merge(a, b), [i \in Nodes(b) |-> i + Len(a.nodes)])
<1> DEFINE m == Merge(a, b)
           la == Len(a.nodes)
           both == a.nodes \o b.nodes
           up == [i \in Nodes(b) |-> i + la]
           id == [i \in Nodes(a) |-> i]
<1>1. /\ a.nodes \in Seq(Node) /\ b.nodes \in Seq(Node) /\ la \in Nat
      /\ DOMAIN a.nodes = 1 .. la /\ \A i \in DOMAIN b.nodes : i \in Nat \ {0}
  BY DEF FerriedDataType
<1>2. /\ \A i \in DOMAIN a.nodes : i \in DOMAIN both /\ both[i] = a.nodes[i]
      /\ \A k \in DOMAIN b.nodes : k + la \in DOMAIN both /\ both[k + la] = b.nodes[k]
  BY <1>1, ConcatPositions, Zenon
<1>3. /\ DOMAIN m.nodes = DOMAIN both
      /\ \A i \in DOMAIN both :
            /\ m.nodes[i].name = both[i].name
            /\ \/ m.nodes[i].value = both[i].value
               \/ \E p \in a.unassigned \cup b.unassigned :
                    p.entity = m.nodes[i].name /\ p.value = m.nodes[i].value
  BY MergeNodes, Zenon
<1>4. m.edges = a.edges \cup EdgesByName(both, b)
  BY DEF Merge
<1>5. \A i, j \in DOMAIN m.nodes : m.nodes[i].name = m.nodes[j].name => i = j
  BY DEF Sound
<1>6. \A e \in EdgesByName(both, b) : \E x, y \in DOMAIN b.nodes :
            <<x, y>> \in b.edges /\ e = <<x + la, y + la>>
  <2>1. \A i, j \in DOMAIN both : both[i].name = both[j].name => i = j
    BY <1>3, <1>5
  <2>2. QED
    BY <1>1, <2>1, EdgesByNameMove
<1> HIDE DEF m, both, la
<1>7. ASSUME NEW i \in DOMAIN both, both[i].name \in NamesIn(a.nodes) \cup NamesIn(b.nodes)
      PROVE  /\ i \in DOMAIN m.nodes
             /\ m.nodes[i].name = both[i].name /\ m.nodes[i].value = both[i].value
  BY <1>3, <1>7
<1>8. \A i \in DOMAIN a.nodes :
        /\ i \in DOMAIN m.nodes
        /\ m.nodes[i].name = a.nodes[i].name /\ m.nodes[i].value = a.nodes[i].value
  BY <1>2, <1>7 DEF NamesIn
<1>9. \A i \in DOMAIN b.nodes :
        /\ i + la \in DOMAIN m.nodes
        /\ m.nodes[i + la].name = b.nodes[i].name /\ m.nodes[i + la].value = b.nodes[i].value
  BY <1>2, <1>7 DEF NamesIn
<1>10. ASSUME NEW i \in DOMAIN a.nodes, NEW y, <<i, y>> \in m.edges
       PROVE  <<i, y>> \in a.edges /\ y \in DOMAIN a.nodes
  <2>1. <<i, y>> \in a.edges
    <3>1. ASSUME <<i, y>> \in EdgesByName(both, b)
          PROVE  FALSE
      <4>1. PICK x, z \in DOMAIN b.nodes : <<i, y>> = <<x + la, z + la>>
        BY <1>6, <3>1
      <4>2. i = x + la /\ i \in 1 .. la /\ x \in Nat \ {0}
        BY <1>1, <4>1
      <4>3. QED
        BY <1>1, <4>2
    <3>2. QED
      BY <1>4, <1>10, <3>1
  <2>2. QED
    BY <2>1
<1>11. ASSUME NEW i \in DOMAIN b.nodes, NEW y, <<i + la, y>> \in m.edges
       PROVE  \E j \in DOMAIN b.nodes : y = j + la /\ <<i, j>> \in b.edges
  <2>1. <<i + la, y>> \notin a.edges
    <3>1. i + la \notin 1 .. la
      BY <1>1
    <3>2. QED
      BY <1>1, <3>1
  <2>2. PICK x, z \in DOMAIN b.nodes :
            <<x, z>> \in b.edges /\ <<i + la, y>> = <<x + la, z + la>>
    BY <1>4, <1>6, <1>11, <2>1
  <2>3. i = x /\ y = z + la
    BY <1>1, <2>2
  <2>4. QED
    BY <2>2, <2>3
<1>12. (\A i \in Nodes(b) : up[i] = i + la) /\ (\A i \in Nodes(a) : id[i] = i)
  OBVIOUS
<1> HIDE DEF up, id
<1>13. LiesApart(a, m, id)
  <2>1. \A i \in Nodes(a) : \A y : <<id[i], y>> \in m.edges =>
            \E j \in Nodes(a) : y = id[j] /\ <<i, j>> \in a.edges
    BY <1>10, <1>12 DEF Nodes
  <2>2. QED
    BY <1>8, <1>12, <2>1 DEF LiesApart, Nodes
<1>14. LiesApart(b, m, up)
  <2>1. \A i \in Nodes(b) : \A y : <<up[i], y>> \in m.edges =>
            \E j \in Nodes(b) : y = up[j] /\ <<i, j>> \in b.edges
    BY <1>11, <1>12 DEF Nodes
  <2>2. \A i, j \in Nodes(b) : up[i] = up[j] => i = j
    BY <1>1, <1>12 DEF Nodes
  <2>3. QED
    BY <1>9, <1>12, <2>1, <2>2 DEF LiesApart, Nodes
<1>15. QED
  BY <1>13, <1>14 DEF m, up, id, la

LEMMA NotAmongCallees ==
    ASSUME DistinctServices, NEW s \in Spans, NEW C \in SUBSET Children(s), NEW fd, Carries(fd, C)
    PROVE  ServiceOf[s] \notin NamesIn(fd.nodes)
<1> SUFFICES ASSUME NEW i \in DOMAIN fd.nodes, fd.nodes[i].name = ServiceOf[s]
             PROVE  FALSE
  BY DEF NamesIn
<1>1. PICK c \in C : \E t \in Below[c] : ServiceOf[t] = fd.nodes[i].name
  <2>1. \E t \in UNION {Below[c] : c \in C} : ServiceOf[t] = fd.nodes[i].name
    BY DEF Carries, Sound
  <2>2. QED
    BY <2>1
<1>2. c \in Children(s) /\ c \in Spans /\ s \notin Below[c] /\ Below[c] \subseteq Spans
  BY BelowChildren, BelowClosed DEF Children
<1>3. QED
  BY <1>1, <1>2 DEF DistinctServices

LEMMA MergeSetSMine ==
    ASSUME NEW m \in Nat, NEW mine, NEW theirs,
           \A e \in DOMAIN theirs : e[1] \in Nat \ {0},
           NEW k \in DOMAIN mine, k[1] \in 1 .. m
    PROVE  MergeSetS(mine, theirs, m)[k] = mine[k]
<1> DEFINE moved == {<<e[1] + m, e[2]>> : e \in DOMAIN theirs}
<1>1. ASSUME NEW e \in DOMAIN theirs, k = <<e[1] + m, e[2]>>
      PROVE  FALSE
  <2>1. k[1] = e[1] + m /\ e[1] \in Nat \ {0}
    BY <1>1
  <2>2. QED
    BY <2>1
<1>2. k \notin moved
  BY <1>1
<1> HIDE DEF moved
<1>3. QED
  BY <1>2 DEF MergeSetS, moved

LEMMA MergeSetSTheirs ==
    ASSUME NEW m \in Nat, NEW mine, NEW theirs, NEW e \in DOMAIN theirs,
           e = <<e[1], e[2]>>, e[1] \in Nat, NEW k, k = <<e[1] + m, e[2]>>
    PROVE  MergeSetS(mine, theirs, m)[k] = theirs[e]
<1> DEFINE moved == {<<d[1] + m, d[2]>> : d \in DOMAIN theirs}
<1>1. k \in moved
  OBVIOUS
<1>2. <<k[1] - m, k[2]>> = e
  OBVIOUS
<1> HIDE DEF moved
<1>3. MergeSetS(mine, theirs, m)[k] = theirs[<<k[1] - m, k[2]>>]
  BY <1>1 DEF MergeSetS, moved
<1>4. QED
  BY <1>2, <1>3

(* While nothing was found, what can be laid over the graph of data is in   *)
(* its set_s, but for the nodes of the services in heads.                  *)
FullBut(data, heads) ==
    ~ data.found_match =>
        \A v \in Nodes(data) : data.nodes[v].name \notin heads => FullAt(data, data.set_s, v)

LEMMA EmptyFull ==
    ASSUME NEW data, data.nodes = <<>>
    PROVE  \A heads : FullBut(data, heads)
BY DEF FullBut, Nodes

LEMMA MergeFull ==
    ASSUME DistinctServices, NEW s \in Spans, NEW C \in SUBSET Children(s),
           NEW D \in SUBSET Children(s), C \cap D = {},
           NEW a, NEW b, WellFormed(a), WellFormed(b),
           Carries(a, C), Carries(b, D),
           FromAbove(a, s), FromAbove(b, s),
           NEW heads, FullBut(a, heads), FullBut(b, heads)
    PROVE  FullBut(MergeDistributed(a, b), heads)
<1> DEFINE m == MergeDistributed(a, b)
           ga == Graph(a)
           gb == Graph(b)
           g == Merge(ga, gb)
           AB == UNION {Below[c] : c \in C \cup D}
           la == Len(a.nodes)
           lb == Len(b.nodes)
           U == Nodes(Target)
           id == [i \in Nodes(a) |-> i]
           up == [i \in Nodes(b) |-> i + la]
<1>1. /\ ga \in FerriedDataType /\ gb \in FerriedDataType
      /\ ga.nodes = a.nodes /\ ga.edges = a.edges /\ ga.unassigned = a.unassigned
      /\ gb.nodes = b.nodes /\ gb.edges = b.edges /\ gb.unassigned = b.unassigned
  BY GraphType
<1>2. /\ m.nodes = g.nodes /\ m.edges = g.edges /\ WellFormed(m)
      /\ m.found_match = (a.found_match \/ b.found_match)
      /\ m.set_s = IF a.found_match \/ b.found_match THEN <<>> ELSE MergeSetS(a.set_s, b.set_s, la)
  BY MergeDistributedIs
<1>3. Carries(m, C \cup D)
  BY AboveIsOwned, MergeDistributedCarries
<1>4. /\ a.edges \in SUBSET (Nodes(a) \X Nodes(a)) /\ b.edges \in SUBSET (Nodes(b) \X Nodes(b))
      /\ a.nodes \in Seq(Node) /\ b.nodes \in Seq(Node)
  BY DEF WellFormed, Nodes
<1> HIDE DEF ga, gb, m
<1>5. m.edges \in SUBSET (Nodes(m) \X Nodes(m))
  BY <1>2 DEF WellFormed, Nodes
<1>6. LiesApart(a, m, id) /\ LiesApart(b, m, up)
  <2>1. \A p \in ga.unassigned \cup gb.unassigned :
            p.entity \notin NamesIn(ga.nodes) \cup NamesIn(gb.nodes)
    <3>1. \A p \in a.unassigned \cup b.unassigned :
            p.entity \notin NamesIn(a.nodes) \cup NamesIn(b.nodes)
      BY AboveHasNoNode
    <3>2. QED
      BY <1>1, <3>1
  <2>2. Sound(g, AB)
    BY <1>2, <1>3 DEF Carries, Sound
  <2>3. /\ ga.edges \subseteq (DOMAIN ga.nodes) \X (DOMAIN ga.nodes)
        /\ gb.edges \subseteq (DOMAIN gb.nodes) \X (DOMAIN gb.nodes)
    BY <1>1, <1>4 DEF Nodes
  <2>4. /\ LiesApart(ga, g, [i \in Nodes(ga) |-> i])
        /\ LiesApart(gb, g, [i \in Nodes(gb) |-> i + Len(ga.nodes)])
    BY <1>1, <2>1, <2>2, <2>3, MergeLiesApart
  <2>5. Nodes(ga) = Nodes(a) /\ Nodes(gb) = Nodes(b)
    BY <1>1 DEF Nodes
  <2> HIDE DEF g
  <2>6. /\ LiesApart(ga, g, id) /\ LiesApart(gb, g, up)
    BY <1>1, <2>4, <2>5
  <2>7. QED
    BY <1>1, <1>2, <2>6, LiesApartAlike
<1> HIDE DEF g
<1>7. SUFFICES ASSUME ~ m.found_match, NEW v \in Nodes(m), m.nodes[v].name \notin heads
               PROVE  FullAt(m, m.set_s, v)
  BY DEF FullBut, m
<1>8. ~ a.found_match /\ ~ b.found_match /\ m.set_s = MergeSetS(a.set_s, b.set_s, la)
  BY <1>2, <1>7 DEF WellFormed
<1>9. /\ la \in Nat /\ lb \in Nat /\ Nodes(a) = 1 .. la /\ Nodes(b) = 1 .. lb
      /\ \A i \in 1 .. la : id[i] = i
      /\ \A i \in 1 .. lb : up[i] = i + la
  BY <1>4 DEF Nodes
<1>10. DOMAIN a.set_s = (1 .. la) \X U /\ DOMAIN b.set_s = (1 .. lb) \X U
  BY <1>8, <1>9 DEF WellFormed, SetSHasEntries, Nodes
<1>11. /\ \A i \in 1 .. la, u \in U : m.set_s[<<i, u>>] = a.set_s[<<i, u>>]
       /\ \A i \in 1 .. lb, u \in U : m.set_s[<<i + la, u>>] = b.set_s[<<i, u>>]
  <2> DEFINE mine == a.set_s
             theirs == b.set_s
  <2>1. /\ DOMAIN mine = (1 .. la) \X U /\ DOMAIN theirs = (1 .. lb) \X U
        /\ la \in Nat /\ lb \in Nat /\ m.set_s = MergeSetS(mine, theirs, la)
    BY <1>8, <1>9, <1>10
  <2> HIDE DEF mine, theirs, la, lb, U
  <2>2. \A e \in DOMAIN theirs : e[1] \in Nat \ {0}
    BY <2>1
  <2>3. ASSUME NEW i \in 1 .. la, NEW u \in U
        PROVE  m.set_s[<<i, u>>] = mine[<<i, u>>]
    <3> DEFINE k == <<i, u>>
    <3>1. k \in DOMAIN mine /\ k[1] \in 1 .. la
      BY <2>1
    <3> HIDE DEF k
    <3>2. m.set_s[k] = mine[k]
      BY <2>1, <2>2, <3>1, MergeSetSMine
    <3>3. QED
      BY <3>2 DEF k
  <2>4. ASSUME NEW i \in 1 .. lb, NEW u \in U
        PROVE  m.set_s[<<i + la, u>>] = theirs[<<i, u>>]
    <3> DEFINE e == <<i, u>>
               k == <<i + la, u>>
    <3>1. e \in DOMAIN theirs /\ e = <<e[1], e[2]>> /\ e[1] \in Nat /\ k = <<e[1] + la, e[2]>>
      BY <2>1
    <3> HIDE DEF e, k
    <3>2. m.set_s[k] = theirs[e]
      BY <2>1, <3>1, MergeSetSTheirs
    <3>3. QED
      BY <3>2 DEF e, k
  <2>5. QED
    BY <2>3, <2>4 DEF mine, theirs
<1>12. v \in 1 .. la \/ \E i \in 1 .. lb : v = i + la
  <2>1. DOMAIN m.set_s = Nodes(m) \X U
    BY <1>2, <1>7 DEF WellFormed, SetSHasEntries, Nodes
  <2>2. Nodes(m) = 1 .. la + lb
    <3>1. m.nodes \in Seq(Node) /\ DOMAIN m.nodes = DOMAIN (a.nodes \o b.nodes)
      <4>1. DOMAIN g.nodes = DOMAIN (ga.nodes \o gb.nodes) /\ g.nodes \in Seq(Node)
        BY <1>1, MergeNodes DEF g
      <4>2. QED
        BY <1>1, <1>2, <4>1
    <3>2. DOMAIN (a.nodes \o b.nodes) = 1 .. la + lb
      BY <1>4
    <3>3. QED
      BY <3>1, <3>2 DEF Nodes
  <2> HIDE DEF la, lb
  <2>3. v - la \in 1 .. lb \/ v \in 1 .. la
    BY <1>7, <1>9, <2>2
  <2>4. v - la \in 1 .. lb => v = (v - la) + la
    BY <1>7, <1>9, <2>2
  <2>5. QED
    BY <2>3, <2>4
<1> HIDE DEF la, lb, id, up, U
<1>13. CASE v \in 1 .. la
  <2>1. v \in Nodes(a) /\ id[v] = v
    BY <1>9, <1>13
  <2>2. a.nodes[v].name \notin heads
    BY <1>6, <1>7, <2>1 DEF LiesApart
  <2>3. FullAt(a, a.set_s, v)
    BY <1>8, <2>1, <2>2 DEF FullBut
  <2>4. \A u \in Nodes(Target) : m.set_s[<<id[v], u>>] = a.set_s[<<v, u>>]
    BY <1>11, <1>13, <2>1 DEF U
  <2>5. FullAt(m, m.set_s, id[v])
    BY <1>4, <1>5, <1>6, <2>1, <2>3, <2>4, FullMoved
  <2>6. QED
    BY <2>1, <2>5
<1>14. ASSUME NEW i \in 1 .. lb, v = i + la
       PROVE  FullAt(m, m.set_s, v)
  <2>1. i \in Nodes(b) /\ up[i] = v
    BY <1>9, <1>14
  <2>2. b.nodes[i].name \notin heads
    BY <1>6, <1>7, <2>1 DEF LiesApart
  <2>3. FullAt(b, b.set_s, i)
    BY <1>8, <2>1, <2>2 DEF FullBut
  <2>4. \A u \in Nodes(Target) : m.set_s[<<up[i], u>>] = b.set_s[<<i, u>>]
    BY <1>11, <1>14, <2>1 DEF U
  <2>5. FullAt(m, m.set_s, up[i])
    BY <1>4, <1>5, <1>6, <2>1, <2>3, <2>4, FullMoved
  <2>6. QED
    BY <2>1, <2>5
<1>15. QED
  BY <1>12, <1>13, <1>14

-----------------------------------------------------------------------------
(* What a response hook has in hand: fd, and over its roots the node of its *)
(* service, behind the others.                                             *)
IsMine(data, fd, s, me) ==
    /\ data.nodes \in Seq(Node) /\ Len(fd.nodes) \in Nat /\ me = Len(fd.nodes) + 1
    /\ Nodes(fd) = 1 .. Len(fd.nodes) /\ Nodes(data) = 1 .. me
    /\ data.edges = fd.edges \cup {<<me, r>> : r \in Roots(fd)}
    /\ data.edges \in SUBSET (Nodes(data) \X Nodes(data))
    /\ data.set_s = fd.set_s /\ data.found_match = fd.found_match
    /\ data.nodes[me].name = ServiceOf[s] /\ Carries(data, {s})
    /\ \A i \in Nodes(fd) : /\ data.nodes[i].name = fd.nodes[i].name
                            /\ data.nodes[i].value = fd.nodes[i].value
    /\ TwoTrees(data, Target) /\ \A e \in data.edges : e[2] # me
    /\ GetNodeWithId(data.nodes, ServiceOf[s]) = me

LEMMA MineIs ==
    ASSUME DistinctServices, Tree(Target), NEW s \in Spans, NEW C \in SUBSET Children(s),
           NEW fd, WellFormed(fd), Carries(fd, C), FromAbove(fd, s)
    PROVE  IsMine(Mine(fd, ServiceOf[s]), fd, s, Len(fd.nodes) + 1)
<1> DEFINE n == ServiceOf[s]
           gf == Graph(fd)
           g == AddMe(fd, n)
           data == Mine(fd, n)
           len == Len(fd.nodes)
           me == len + 1
<1>1. n \in Services
  BY CallerType
<1>2. /\ gf \in FerriedDataType
      /\ gf.nodes = fd.nodes /\ gf.edges = fd.edges /\ gf.unassigned = fd.unassigned
  BY GraphType
<1>3. AddMe(gf, n) = g /\ Roots(gf) = Roots(fd)
  BY <1>2 DEF AddMe, Roots
<1> HIDE DEF gf
<1>4. /\ g.nodes \in Seq(Node) /\ len \in Nat
      /\ DOMAIN fd.nodes = 1 .. len /\ DOMAIN g.nodes = 1 .. len + 1
      /\ g.nodes[len + 1].name = n
      /\ g.edges = fd.edges \cup {<<len + 1, r>> : r \in Roots(gf)}
      /\ \A i \in DOMAIN fd.nodes :
            /\ g.nodes[i].name = fd.nodes[i].name
            /\ \/ g.nodes[i].value = fd.nodes[i].value
               \/ \E p \in fd.unassigned : p.entity = g.nodes[i].name /\ p.value = g.nodes[i].value
  BY <1>1, <1>2, <1>3, AddMeNodes
<1>5. data \in [nodes : {g.nodes}, edges : {g.edges}, unassigned : {g.unassigned},
                found_match : {fd.found_match}, set_s : {fd.set_s}]
  BY WithGraphFields DEF Mine
<1>6. Carries(data, {s})
  BY AboveIsOwned, ResponseData
<1>7. fd.edges \in SUBSET (Nodes(fd) \X Nodes(fd))
  BY DEF WellFormed, Nodes
<1>8. \A p \in fd.unassigned : p.entity \notin NamesIn(fd.nodes)
  BY AboveHasNoNode
<1> HIDE DEF g, len, data
<1>9. /\ data.nodes = g.nodes /\ data.edges = g.edges
      /\ data.set_s = fd.set_s /\ data.found_match = fd.found_match
  BY <1>5
<1>10. data.edges \in SUBSET (Nodes(data) \X Nodes(data))
  <2>1. Roots(fd) \subseteq DOMAIN fd.nodes
    BY DEF Roots
  <2>2. DOMAIN fd.nodes \subseteq DOMAIN g.nodes /\ len + 1 \in DOMAIN g.nodes
    BY <1>4
  <2>3. g.edges \in SUBSET ((DOMAIN g.nodes) \X (DOMAIN g.nodes))
    BY <1>3, <1>4, <1>7, <2>1, <2>2 DEF Nodes
  <2>4. QED
    BY <1>9, <2>3 DEF Nodes
<1>11. ASSUME NEW i \in DOMAIN fd.nodes
       PROVE  data.nodes[i].name = fd.nodes[i].name /\ data.nodes[i].value = fd.nodes[i].value
  <2>1. fd.nodes[i].name \in NamesIn(fd.nodes)
    BY DEF NamesIn
  <2>2. QED
    BY <1>4, <1>8, <1>9, <2>1
<1>12. /\ me \in DOMAIN data.nodes /\ data.nodes[me].name = n /\ data.nodes \in Seq(Node)
       /\ data.edges \subseteq (DOMAIN data.nodes) \X (DOMAIN data.nodes)
  BY <1>4, <1>9, <1>10 DEF Nodes
<1>13. Tree(data) /\ \A e \in data.edges : e[2] # me
  <2> HIDE DEF me
  <2>1. QED
    BY <1>6, <1>12, CarriedTree
<1>14. GetNodeWithId(data.nodes, n) = me
  <2>1. n \in NamesIn(data.nodes)
    BY <1>12 DEF NamesIn
  <2>2. GetNodeWithId(data.nodes, n) \in DOMAIN data.nodes
        /\ data.nodes[GetNodeWithId(data.nodes, n)].name = n
    BY <1>12, <2>1, GetNodeWithIdFinds
  <2>3. \A i, j \in DOMAIN data.nodes : data.nodes[i].name = data.nodes[j].name => i = j
    BY <1>6 DEF Carries, Sound
  <2>4. QED
    BY <1>12, <2>2, <2>3
<1>15. TwoTrees(data, Target)
  BY <1>13, TreePair
<1>16. Nodes(fd) = 1 .. len /\ Nodes(data) = 1 .. me /\ len \in Nat
  BY <1>4, <1>9 DEF Nodes
<1>17. data.edges = fd.edges \cup {<<me, r>> : r \in Roots(fd)}
  BY <1>3, <1>4, <1>9
<1>18. \A i \in Nodes(fd) : /\ data.nodes[i].name = fd.nodes[i].name
                            /\ data.nodes[i].value = fd.nodes[i].value
  BY <1>11 DEF Nodes
<1> HIDE DEF me
<1>19. QED
  BY <1>6, <1>9, <1>10, <1>12, <1>13, <1>14, <1>15, <1>16, <1>17, <1>18
  DEF IsMine, data, me, len

LEMMA MineLiesApart ==
    ASSUME DistinctServices, Tree(Target), NEW s \in Spans, NEW C \in SUBSET Children(s),
           NEW fd, WellFormed(fd), Carries(fd, C), FromAbove(fd, s)
    PROVE  LiesApart(fd, Mine(fd, ServiceOf[s]), [i \in Nodes(fd) |-> i])
<1> DEFINE data == Mine(fd, ServiceOf[s])
           me == Len(fd.nodes) + 1
           id == [i \in Nodes(fd) |-> i]
<1> HIDE DEF data, me
<1>1. /\ Nodes(fd) = 1 .. Len(fd.nodes) /\ Nodes(data) = 1 .. me /\ Len(fd.nodes) \in Nat
      /\ data.edges = fd.edges \cup {<<me, r>> : r \in Roots(fd)}
      /\ me = Len(fd.nodes) + 1
      /\ \A i \in Nodes(fd) : /\ data.nodes[i].name = fd.nodes[i].name
                              /\ data.nodes[i].value = fd.nodes[i].value
  <2>1. IsMine(data, fd, s, me)
    BY MineIs DEF data, me
  <2>2. QED
    BY <2>1 DEF IsMine
<1>2. fd.edges \in SUBSET (Nodes(fd) \X Nodes(fd))
  BY DEF WellFormed, Nodes
<1>3. me \notin Nodes(fd) /\ Nodes(fd) \subseteq Nodes(data)
  BY <1>1
<1>4. ASSUME NEW i \in Nodes(fd), NEW b, <<i, b>> \in data.edges
      PROVE  b \in Nodes(fd) /\ <<i, b>> \in fd.edges
  <2>1. <<i, b>> \in fd.edges
    BY <1>1, <1>3, <1>4
  <2>2. QED
    BY <1>2, <2>1
<1>5. \A i \in Nodes(fd) : id[i] = i
  OBVIOUS
<1> HIDE DEF id
<1>6. LiesApart(fd, data, id)
  BY <1>1, <1>3, <1>4, <1>5 DEF LiesApart
<1>7. QED
  BY <1>6 DEF data, id

(* The pattern matches at a callee of s, or at s itself, as far as data     *)
(* tells.                                                                  *)
CalleeNames(s) == {ServiceOf[c] : c \in Children(s)}

MatchLow(data, s) ==
    \E v \in DOMAIN data.nodes :
        data.nodes[v].name \in CalleeNames(s) /\ EmbedsAt(Target, data.nodes, data.edges, v)

MatchHere(data, s) ==
    \E v \in DOMAIN data.nodes :
        data.nodes[v] = SpanLabel[s] /\ EmbedsAt(Target, data.nodes, data.edges, v)

(* The nodes right below the new one are those of callees, and no others.   *)
LEMMA CalleesBelowMine ==
    ASSUME DistinctServices, Tree(Target), NEW s \in Spans, NEW C \in SUBSET Children(s),
           NEW fd, WellFormed(fd), Carries(fd, C), FromAbove(fd, s),
           NEW v \in Nodes(Mine(fd, ServiceOf[s]))
    PROVE  v \in ChildrenIn(Mine(fd, ServiceOf[s]), Len(fd.nodes) + 1)
             <=> Mine(fd, ServiceOf[s]).nodes[v].name \in CalleeNames(s)
<1> DEFINE n == ServiceOf[s]
           data == Mine(fd, n)
           me == Len(fd.nodes) + 1
<1> HIDE DEF data, me
<1>1. /\ Nodes(fd) = 1 .. Len(fd.nodes) /\ Nodes(data) = 1 .. me /\ Len(fd.nodes) \in Nat
      /\ data.edges = fd.edges \cup {<<me, r>> : r \in Roots(fd)}
      /\ data.nodes[me].name = n /\ me = Len(fd.nodes) + 1
      /\ \A i \in Nodes(fd) : data.nodes[i].name = fd.nodes[i].name
  <2>1. IsMine(data, fd, s, me)
    BY MineIs DEF data, me
  <2>2. QED
    BY <2>1 DEF IsMine
<1>2. /\ fd.edges \in SUBSET (Nodes(fd) \X Nodes(fd)) /\ n \notin NamesIn(fd.nodes)
      /\ Roots(fd) \subseteq Nodes(fd)
  BY NotAmongCallees DEF WellFormed, Nodes, Roots
<1>3. /\ \A i \in Roots(fd) : \E c \in C : fd.nodes[i].name = ServiceOf[c]
      /\ \A e \in fd.edges : \E c \in Spans \ {RootSpan} :
            fd.nodes[e[1]].name = Caller(c) /\ fd.nodes[e[2]].name = ServiceOf[c]
  BY DEF Carries, Sound
<1>4. v \in ChildrenIn(data, me) <=> <<me, v>> \in data.edges
  BY DEF ChildrenIn, Nodes, data, n
<1>5. me \notin Nodes(fd) /\ (v \in Nodes(fd) \/ v = me)
  <2>1. v \in Nodes(data)
    BY DEF data, n
  <2>2. QED
    BY <1>1, <2>1
<1>6. ASSUME <<me, v>> \in data.edges
      PROVE  data.nodes[v].name \in CalleeNames(s)
  <2>1. v \in Roots(fd)
    BY <1>1, <1>2, <1>5, <1>6
  <2>2. QED
    BY <1>1, <1>2, <1>3, <2>1 DEF CalleeNames
<1>7. ASSUME data.nodes[v].name \in CalleeNames(s)
      PROVE  <<me, v>> \in data.edges
  <2>1. PICK c \in Children(s) : data.nodes[v].name = ServiceOf[c]
    BY <1>7 DEF CalleeNames
  <2>2. c \in Spans \ {RootSpan} /\ Parent[c] = s /\ c # s
    BY ChildrenOfSpans
  <2>3. v \in Nodes(fd)
    BY <1>1, <1>5, <2>1, <2>2 DEF DistinctServices
  <2>4. v \in Roots(fd)
    <3>1. ASSUME NEW e \in fd.edges, e[2] = v
          PROVE  FALSE
      <4>1. PICK d \in Spans \ {RootSpan} :
                fd.nodes[e[1]].name = Caller(d) /\ fd.nodes[e[2]].name = ServiceOf[d]
        BY <1>3
      <4>2. d = c
        BY <1>1, <2>1, <2>2, <2>3, <3>1, <4>1 DEF DistinctServices
      <4>3. fd.nodes[e[1]].name = n /\ e[1] \in Nodes(fd)
        BY <1>2, <2>2, <4>1, <4>2 DEF Caller
      <4>4. QED
        BY <1>2, <4>3 DEF NamesIn, Nodes
    <3>2. QED
      BY <2>3, <3>1 DEF Roots, Nodes
  <2>5. QED
    BY <1>1, <2>4
<1>8. QED
  BY <1>4, <1>6, <1>7 DEF data, me

(* What a response hook sends when its search finds nothing: for all nodes  *)
(* but its own, set_s is full, and no callee is missed; at the root, its    *)
(* own node is only missed for a callee's.                                 *)
LEMMA ResponseFull ==
    ASSUME DistinctServices, Tree(Target), NEW s \in Spans, NEW C \in SUBSET Children(s),
           NEW fd, WellFormed(fd), Carries(fd, C), FromAbove(fd, s), Claims(fd),
           ~ fd.found_match, FullBut(fd, CalleeNames(s)), SearchIn(fd, ServiceOf[s]).at = {},
           NEW sent, sent = Searched(fd, ServiceOf[s])
    PROVE  /\ ServiceOf[s] # RootId => FullBut(sent, {ServiceOf[s]}) /\ ~ MatchLow(sent, s)
           /\ ServiceOf[s] = RootId => (MatchHere(sent, s) => MatchLow(sent, s))
<1> DEFINE n == ServiceOf[s]
           data == Mine(fd, n)
           search == SearchIn(fd, n)
           me == Len(fd.nodes) + 1
           id == [i \in Nodes(fd) |-> i]
           low == {v \in ChildrenIn(data, me) : EmbedsAt(Target, data.nodes, data.edges, v)}
<1>1. IsMine(data, fd, s, me) /\ LiesApart(fd, data, id)
  BY MineIs, MineLiesApart
<1>2. \A v \in Nodes(data) : v \in ChildrenIn(data, me) <=> data.nodes[v].name \in CalleeNames(s)
  BY CalleesBelowMine
<1>3. Claims(data)
  BY AboveIsOwned, ResponseClaims
<1>4. sent.nodes = data.nodes /\ sent.edges = data.edges /\ sent.set_s = search.set_s
  <2>1. data \in [nodes : {AddMe(fd, n).nodes}, edges : {AddMe(fd, n).edges},
                  unassigned : {AddMe(fd, n).unassigned},
                  found_match : {fd.found_match}, set_s : {fd.set_s}]
    BY WithGraphFields DEF Mine
  <2>2. sent = [data EXCEPT !.set_s = search.set_s]
    BY DEF Searched
  <2> HIDE DEF data, search
  <2>3. QED
    BY <2>1, <2>2
<1> HIDE DEF data, me
<1>5. /\ Nodes(fd) = 1 .. Len(fd.nodes) /\ Nodes(data) = 1 .. me /\ Len(fd.nodes) \in Nat
      /\ me = Len(fd.nodes) + 1 /\ data.set_s = fd.set_s
      /\ data.edges \in SUBSET (Nodes(data) \X Nodes(data))
      /\ \A i \in Nodes(fd) : data.nodes[i].name = fd.nodes[i].name
      /\ TwoTrees(data, Target) /\ \A e \in data.edges : e[2] # me
      /\ GetNodeWithId(data.nodes, n) = me /\ data.nodes[me].name = n /\ Carries(data, {s})
  BY <1>1 DEF IsMine
<1>6. Nodes(fd) = Nodes(data) \ {me} /\ me \in Nodes(data)
  BY <1>5
<1>7. DOMAIN data.set_s = (Nodes(data) \ {me}) \X Nodes(Target)
  BY <1>5, <1>6 DEF WellFormed, SetSHasEntries, Nodes
<1>8. KeysTrue(data, data.set_s)
  BY <1>3 DEF Claims, SetSTrue, KeysTrue
<1>9. ASSUME NEW v \in Nodes(data) \ {me}, v \notin ChildrenIn(data, me)
      PROVE  FullAt(data, data.set_s, v)
  <2>1. v \in Nodes(fd) /\ fd.nodes[v].name \notin CalleeNames(s) /\ id[v] = v
    BY <1>2, <1>5, <1>6, <1>9
  <2>2. FullAt(fd, fd.set_s, v)
    BY <2>1 DEF FullBut
  <2>3. fd.edges \in SUBSET (Nodes(fd) \X Nodes(fd))
    BY DEF WellFormed, Nodes
  <2> HIDE DEF id
  <2>4. \A u \in Nodes(Target) : data.set_s[<<id[v], u>>] = fd.set_s[<<v, u>>]
    BY <1>5, <2>1
  <2>5. FullAt(data, data.set_s, id[v])
    BY <1>1, <1>5, <2>1, <2>2, <2>3, <2>4, FullMoved
  <2>6. QED
    BY <2>1, <2>5
<1>10. search = Search(data, me, n = RootId)
  BY <1>5 DEF SearchIn, data
<1>11. /\ Search(data, me, FALSE).at = {} =>
            /\ low = {}
            /\ \A v \in Nodes(data) \ {me} : FullAt(data, Search(data, me, FALSE).set_s, v)
       /\ low = {} /\ EmbedsAt(Target, data.nodes, data.edges, me) => Search(data, me, TRUE).at # {}
  BY <1>5, <1>6, <1>7, <1>8, <1>9, SearchFull
<1>12. \A v \in Nodes(data) : data.nodes[v].name = n => v = me
  BY <1>5, <1>6 DEF Carries, Sound, Nodes
<1>13. ASSUME n # RootId
       PROVE  FullBut(sent, {n}) /\ ~ MatchLow(sent, s)
  <2>1. search = Search(data, me, FALSE) /\ search.at = {}
    BY <1>10, <1>13
  <2> HIDE DEF search
  <2>2. low = {} /\ \A v \in Nodes(data) \ {me} : FullAt(data, search.set_s, v)
    BY <1>11, <2>1
  <2>3. \A v \in Nodes(data) : data.nodes[v].name \notin {n} => FullAt(sent, sent.set_s, v)
    <3>1. ASSUME NEW v \in Nodes(data), data.nodes[v].name # n
          PROVE  FullAt(sent, sent.set_s, v)
      <4>1. FullAt(data, search.set_s, v)
        BY <1>5, <2>2, <3>1
      <4>2. QED
        BY <1>4, <4>1, FullAlike
    <3>2. QED
      BY <3>1
  <2>4. FullBut(sent, {n})
    BY <1>4, <2>3 DEF FullBut, Nodes
  <2>5. ~ MatchLow(sent, s)
    BY <1>2, <1>4, <2>2 DEF MatchLow, Nodes
  <2>6. QED
    BY <2>4, <2>5
<1>14. ASSUME n = RootId, MatchHere(sent, s)
       PROVE  MatchLow(sent, s)
  <2>1. search = Search(data, me, TRUE) /\ search.at = {}
    BY <1>10, <1>14
  <2>2. PICK v \in Nodes(data) :
            data.nodes[v] = SpanLabel[s] /\ EmbedsAt(Target, data.nodes, data.edges, v)
    BY <1>4, <1>14 DEF MatchHere, Nodes
  <2>3. v = me
    BY <1>12, <2>2 DEF SpanLabel
  <2>4. PICK c \in ChildrenIn(data, me) : EmbedsAt(Target, data.nodes, data.edges, c)
    BY <1>11, <2>1, <2>2, <2>3
  <2>5. c \in Nodes(data)
    BY <2>4 DEF ChildrenIn, Nodes
  <2>6. QED
    BY <1>2, <1>4, <2>4, <2>5 DEF MatchLow, Nodes
<1>15. QED
  BY <1>13, <1>14

-----------------------------------------------------------------------------
LEMMA AwaitedIsBelow ==
    ASSUME Detached = {}, NEW s \in Spans
    PROVE  Awaited[s] = Below[s]
BY DEF Awaited, Below, CallEdges

(* A match in the trace below s is one in a graph that is complete about s. *)
LEMMA MatchInComplete ==
    ASSUME DistinctServices, Detached = {}, Tree(Target), NEW s \in Spans, NEW g,
           Complete(g, s), Sound(g, Below[s]), NEW m \in Below[s],
           EmbedsAt(Target, SpanLabel, CallEdges, m)
    PROVE  \E v \in DOMAIN g.nodes :
               g.nodes[v] = SpanLabel[m] /\ EmbedsAt(Target, g.nodes, g.edges, v)
<1> DEFINE U == Nodes(Target)
           root == FindRoot(Target)
           at(t) == CHOOSE j \in DOMAIN g.nodes : g.nodes[j] = SpanLabel[t]
<1>1. Awaited[s] = Below[s] /\ Below[m] \subseteq Below[s] /\ m \in Spans
      /\ Below[s] \subseteq Spans /\ m \in Below[m]
  BY AwaitedIsBelow, BelowTransitive, BelowClosed
<1>2. \A i, j \in DOMAIN g.nodes : g.nodes[i].name = g.nodes[j].name => i = j
  BY DEF Sound
<1>3. ASSUME NEW t \in Below[s]
      PROVE  at(t) \in DOMAIN g.nodes /\ g.nodes[at(t)] = SpanLabel[t]
             /\ SpanLabel[t].name = ServiceOf[t]
  <2>1. SpanLabel[t] = [name |-> ServiceOf[t], value |-> PropertyOf[ServiceOf[t]]]
    BY <1>1 DEF SpanLabel
  <2>2. \E j \in DOMAIN g.nodes : g.nodes[j] = SpanLabel[t]
    BY <1>1, <2>1 DEF Complete
  <2>3. QED
    BY <2>1, <2>2
<1> HIDE DEF at
<1>4. ASSUME NEW c \in Spans \ {RootSpan}, c \in Below[s], Parent[c] \in Below[s]
      PROVE  <<at(Parent[c]), at(c)>> \in g.edges
  <2>1. c # s
    <3>1. c \in Children(Parent[c]) /\ Parent[c] \in Spans
      BY ChildrenOfSpans
    <3>2. Parent[c] \notin Below[c]
      BY <3>1, BelowChildren
    <3>3. QED
      BY <1>4, <3>2
  <2>2. PICK j \in DOMAIN g.nodes :
          /\ g.nodes[j] = [name |-> ServiceOf[c], value |-> PropertyOf[ServiceOf[c]]]
          /\ \E i \in DOMAIN g.nodes : <<i, j>> \in g.edges /\ g.nodes[i].name = Caller(c)
    BY <1>1, <1>4, <2>1 DEF Complete
  <2>3. PICK i \in DOMAIN g.nodes : <<i, j>> \in g.edges /\ g.nodes[i].name = Caller(c)
    BY <2>2
  <2>4. g.nodes[j].name = ServiceOf[c]
    BY <2>2
  <2>5. j = at(c) /\ i = at(Parent[c])
    BY <1>2, <1>3, <1>4, <2>3, <2>4 DEF Caller
  <2>6. QED
    BY <2>3, <2>5
<1>5. DOMAIN SpanLabel = Spans /\ DOMAIN Target.nodes = U
  BY DEF SpanLabel, Nodes
<1>6. PICK f \in [U -> Spans] :
        /\ f[root] = m
        /\ \A u, w \in U : f[u] = f[w] => u = w
        /\ \A e \in Target.edges : <<f[e[1]], f[e[2]]>> \in CallEdges
        /\ \A u \in U : HasPropertySubset(SpanLabel[f[u]], Target.nodes[u])
  BY <1>5 DEF EmbedsAt
<1>7. ASSUME NEW a, NEW b, <<a, b>> \in Target.edges
      PROVE  f[b] \in Spans \ {RootSpan} /\ Parent[f[b]] = f[a]
  <2>1. <<f[a], f[b]>> \in CallEdges
    <3> DEFINE e == <<a, b>>
    <3>1. e \in Target.edges /\ e[1] = a /\ e[2] = b
      BY <1>7
    <3> HIDE DEF e
    <3>2. QED
      BY <1>6, <3>1
  <2>2. QED
    BY <2>1 DEF CallEdges
<1>8. \A u \in U : f[u] \in Below[m]
  <2> DEFINE Z == {u \in U : f[u] \in Below[m]}
  <2>1. TreeFrom(U, Target.edges, root) /\ root \in U
    BY TreePair
  <2>2. root \in Z /\ Z \in SUBSET U
    BY <1>1, <1>6, <2>1
  <2>3. ASSUME NEW a, NEW b, <<a, b>> \in Target.edges, a \in Z
        PROVE  b \in Z
    <3>1. b \in U
      BY <2>3, PatternAssumption DEF Nodes
    <3>2. Parent[f[b]] \in Below[m] /\ f[b] \in Spans \ {RootSpan}
      BY <1>7, <2>3
    <3>3. f[b] \in Below[m]
      BY <1>1, <3>2, BelowClosed
    <3>4. QED
      BY <3>1, <3>3
  <2> HIDE DEF Z, U, root
  <2>4. Z = U
    BY <2>1, <2>2, <2>3, TreeInduction
  <2>5. QED
    BY <2>4 DEF Z
<1> DEFINE k == [u \in U |-> at(f[u])]
<1>9. ASSUME NEW u \in U
      PROVE  /\ f[u] \in Below[s] /\ k[u] = at(f[u]) /\ k[u] \in DOMAIN g.nodes
             /\ g.nodes[k[u]] = SpanLabel[f[u]] /\ g.nodes[k[u]].name = ServiceOf[f[u]]
  BY <1>1, <1>3, <1>8
<1>10. k \in [DOMAIN Target.nodes -> DOMAIN g.nodes]
  BY <1>5, <1>9
<1> HIDE DEF k
<1>11. \A u, w \in U : k[u] = k[w] => u = w
  BY <1>1, <1>6, <1>9 DEF DistinctServices
<1>12. ASSUME NEW e \in Target.edges
       PROVE  <<k[e[1]], k[e[2]]>> \in g.edges
  <2>1. e[1] \in U /\ e[2] \in U /\ <<e[1], e[2]>> \in Target.edges
    <3>1. Target.edges \subseteq U \X U
      BY PatternAssumption DEF Nodes
    <3> HIDE DEF U
    <3>2. QED
      BY <3>1
  <2>2. f[e[2]] \in Spans \ {RootSpan} /\ Parent[f[e[2]]] = f[e[1]]
    BY <1>7, <2>1
  <2>3. QED
    BY <1>4, <1>9, <2>1, <2>2
<1>13. \A u \in U : HasPropertySubset(g.nodes[k[u]], Target.nodes[u])
  BY <1>6, <1>9
<1>14. root \in U
  BY TreePair
<1>15. EmbedsAt(Target, g.nodes, g.edges, k[root])
  BY <1>5, <1>10, <1>11, <1>12, <1>13 DEF EmbedsAt
<1>16. QED
  BY <1>6, <1>9, <1>14, <1>15

(* A trace level filter that the trace satisfies does not hold up a root's  *)
(* sidecar that has its own node with its property.                        *)
LEMMA HeldUpMisses ==
    ASSUME DistinctServices, Tree(Target), NEW s \in Spans, NEW C \in SUBSET Children(s),
           TraceWanted \in {NoValue, PropertyOf[RootId]},
           NEW fd, WellFormed(fd), Carries(fd, C), FromAbove(fd, s),
           ~ TraceLevelPropertyHolds(ServiceOf[s], Mine(fd, ServiceOf[s])),
           NEW sent, sent.nodes = Mine(fd, ServiceOf[s]).nodes
    PROVE  ServiceOf[s] = RootId /\ ~ MatchHere(sent, s)
<1> DEFINE n == ServiceOf[s]
           data == Mine(fd, n)
           me == Len(fd.nodes) + 1
<1>1. IsMine(data, fd, s, me)
  BY MineIs
<1>2. n = RootId /\ data.nodes[GetNodeWithId(data.nodes, n)].value # PropertyOf[n]
  BY DEF TraceLevelPropertyHolds
<1>3. sent.nodes = data.nodes
  OBVIOUS
<1> HIDE DEF data, me
<1>4. /\ Nodes(data) = 1 .. me /\ me \in Nodes(data) /\ data.nodes[me].name = n
      /\ GetNodeWithId(data.nodes, n) = me /\ Carries(data, {s})
  <2>1. Nodes(data) = 1 .. me /\ me \in Nat \ {0}
    BY <1>1 DEF IsMine
  <2>2. me \in Nodes(data)
    BY <2>1
  <2>3. QED
    BY <1>1, <2>1, <2>2 DEF IsMine
<1>5. ASSUME MatchHere(sent, s)
      PROVE  FALSE
  <2>1. PICK v \in Nodes(data) : data.nodes[v] = SpanLabel[s]
    BY <1>3, <1>5 DEF MatchHere, Nodes
  <2>2. data.nodes[v].name = n /\ data.nodes[v].value = PropertyOf[n]
    BY <2>1 DEF SpanLabel
  <2>3. v = me
    BY <1>4, <2>2 DEF Carries, Sound, Nodes
  <2>4. QED
    BY <1>2, <1>4, <2>2, <2>3
<1>6. QED
  BY <1>2, <1>5

LEMMA ToldFound ==
    ASSUME NEW fd, WellFormed(fd), NEW n
    PROVE  Told(fd, n).found_match /\ Mine(fd, n).found_match = fd.found_match
           /\ Searched(fd, n).nodes = Mine(fd, n).nodes
<1> DEFINE data == Mine(fd, n)
           search == SearchIn(fd, n)
<1>1. data \in [nodes : {AddMe(fd, n).nodes}, edges : {AddMe(fd, n).edges},
                unassigned : {AddMe(fd, n).unassigned},
                found_match : {fd.found_match}, set_s : {fd.set_s}]
  BY WithGraphFields DEF Mine
<1>2. Told(fd, n) = [[data EXCEPT !.set_s = search.set_s] EXCEPT !.found_match = TRUE]
  BY DEF Told, Searched
<1>3. Searched(fd, n) = [data EXCEPT !.set_s = search.set_s]
  BY DEF Searched
<1> HIDE DEF data, search
<1>4. QED
  BY <1>1, <1>2, <1>3 DEF data

NothingLeft(data, s) ==
    IF s = RootSpan THEN MatchHere(data, s) => MatchLow(data, s) ELSE ~ MatchLow(data, s)

LEMMA FullButMonotone ==
    ASSUME NEW data, NEW heads, NEW more, heads \subseteq more, FullBut(data, heads)
    PROVE  FullBut(data, more)
BY DEF FullBut

LEMMA DefaultFull ==
    /\ \A heads : FullBut(DefaultDistributed, heads)
    /\ \A s : NothingLeft(DefaultDistributed, s)
<1>1. DefaultDistributed.nodes = <<>> /\ DOMAIN DefaultDistributed.nodes = {}
  BY DEF DefaultDistributed
<1>2. QED
  BY <1>1, EmptyFull DEF NothingLeft, MatchHere, MatchLow
=============================================================================

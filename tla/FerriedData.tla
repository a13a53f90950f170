----------------------------- MODULE FerriedData -----------------------------
(***************************************************************************)
(* The data a Snicket filter ferries between sidecars: the part of the     *)
(* trace seen so far, as a directed graph of services, and the properties  *)
(* that were collected for services that have no node in the graph yet     *)
(* (libs/utils/graph/serde.rs, libs/utils/graph/graph_utils.rs).           *)
(*                                                                         *)
(* A graph is the sequence of its nodes, in the order add_node made them,  *)
(* and the set of its edges, as pairs of positions.  petgraph also keeps   *)
(* the order and the multiplicity of edges; nothing modelled here depends  *)
(* on them.  A node carries its name, which is also its property 0         *)
(* (WORKLOAD_NAME), and one further property, the one the query collects.  *)
(***************************************************************************)
EXTENDS Naturals, Sequences

CONSTANTS
    Services,   \* the workload names
    Values,     \* the values of the collected property
    NoValue     \* the property is not in the node's property map

ASSUME NoValueAssumption == NoValue \notin Values

(* A weight of the graph: (String, IndexMap<u64, String>). *)
Node == [name : Services, value : Values \cup {NoValue}]

(* struct Property; the property's number is the collected one's. *)
Property == [entity : Services, value : Values]

(* struct FerriedData, without the two fields of the distributed filter. *)
FerriedDataType ==
    [nodes      : Seq(Node),
     edges      : SUBSET (Nat \X Nat),
     unassigned : SUBSET Property]

(* FerriedData::default() *)
Default == [nodes |-> <<>>, edges |-> {}, unassigned |-> {}]

(* The graph of fd with the properties that wait for it, in data, which has *)
(* further fields. *)
WithGraph(data, fd) ==
    [data EXCEPT !.nodes = fd.nodes, !.edges = fd.edges,
                 !.unassigned = fd.unassigned]

NamesIn(nodes) == {nodes[i].name : i \in DOMAIN nodes}

(* The position of the first node with this name; 0 stands for None. *)
GetNodeWithId(nodes, id) ==
    IF id \in NamesIn(nodes)
    THEN CHOOSE i \in DOMAIN nodes :
            /\ nodes[i].name = id
            /\ \A j \in 1 .. i - 1 : nodes[j].name # id
    ELSE 0

(* Mutant: the entity is inserted in place of the value. *)
InsertEntities(nodes, properties) ==
    [i \in DOMAIN nodes |->
        LET mine == {p \in properties : GetNodeWithId(nodes, p.entity) = i}
        IN  IF mine = {} THEN nodes[i]
            ELSE [nodes[i] EXCEPT !.value = (CHOOSE p \in mine : TRUE).entity]]

(* The loop of assign_properties: each property whose entity has a node    *)
(* is put on the first node of that name.                                  *)
InsertProperties(nodes, properties) ==
    [i \in DOMAIN nodes |->
        LET mine == {p \in properties : GetNodeWithId(nodes, p.entity) = i}
        IN  IF mine = {} THEN nodes[i]
            ELSE [nodes[i] EXCEPT !.value = (CHOOSE p \in mine : TRUE).value]]

RemoveAssignedProperties(properties, nodes) ==
    {p \in properties : p.entity \notin NamesIn(nodes)}

AssignProperties(fd) ==
    [nodes      |-> InsertProperties(fd.nodes, fd.unassigned),
     edges      |-> fd.edges,
     unassigned |-> RemoveAssignedProperties(fd.unassigned, fd.nodes)]

(* Mutant: the positions are kept, as if self had been empty. *)
EdgesByPosition(nodes, other) == other.edges

(* The edges of other, between the nodes that carry the names of their     *)
(* ends in the merged graph: an end is found by name, not by the position  *)
(* its node was given.                                                     *)
EdgesByName(nodes, other) ==
    {<<GetNodeWithId(nodes, other.nodes[e[1]].name),
       GetNodeWithId(nodes, other.nodes[e[2]].name)>> : e \in other.edges}

(* Mutant: step 2b is missing. *)
MergeForgetsOther(self, other) ==
    LET nodes == self.nodes \o other.nodes
        own   == InsertProperties(nodes, self.unassigned)
    IN  [nodes      |-> own,
         edges      |-> self.edges \cup EdgesByName(nodes, other),
         unassigned |-> RemoveAssignedProperties(self.unassigned, nodes)]

(* self.merge(other): other's nodes behind self's, other's edges, then the *)
(* properties of self (2a) and of other (2b) that now have a node.         *)
Merge(self, other) ==
    LET nodes == self.nodes \o other.nodes
        own   == InsertProperties(nodes, self.unassigned)
    IN  [nodes      |-> InsertProperties(own, other.unassigned),
         edges      |-> self.edges \cup EdgesByName(nodes, other),
         unassigned |-> RemoveAssignedProperties(self.unassigned, nodes)
                        \cup RemoveAssignedProperties(other.unassigned, nodes)]

(* The nodes without an incoming edge. *)
Roots(fd) ==
    {i \in DOMAIN fd.nodes : \A e \in fd.edges : e[2] # i}

(* Mutant: add_edge with its arguments swapped. *)
AddMeBelow(fd, me) ==
    AssignProperties(
        [nodes      |-> Append(fd.nodes, [name |-> me, value |-> NoValue]),
         edges      |-> fd.edges \cup {<<r, Len(fd.nodes) + 1>> : r \in Roots(fd)},
         unassigned |-> fd.unassigned])

(* A sidecar puts its own service over the roots of what its callees       *)
(* returned and assigns the properties that were waiting for the node.     *)
AddMe(fd, me) ==
    AssignProperties(
        [nodes      |-> Append(fd.nodes, [name |-> me, value |-> NoValue]),
         edges      |-> fd.edges \cup {<<Len(fd.nodes) + 1, r>> : r \in Roots(fd)},
         unassigned |-> fd.unassigned])
=============================================================================

---------------------------- MODULE SimMeshProofs ----------------------------
(***************************************************************************)
(* Theorems about the filters of the simulator, for every trace that       *)
(* calls no service twice, every query, and both ways of compiling it:     *)
(* nothing becomes two nodes, the heights are right, the centralized       *)
(* filters send what matches, the distributed ones one value on a way,     *)
(* either implement TraceCollection, and what storage answers is the       *)
(* average of what it was sent.                                            *)
(***************************************************************************)
EXTENDS SimMesh, MeshProofs

(* The data the filters keep and ferry.  Of a property that waits for its  *)
(* node it is only known that its entity has it: requests carry those of   *)
(* the callers.                                                            *)
IsData(data) ==
    data \in [nodes : Seq(Node), edges : SUBSET (Nat \X Nat),
              unassigned : SUBSET Property, height : {data.height},
              found_match : {data.found_match}, set_s : {data.set_s}]

Kept(data) == IsData(data) /\ Owned(data)

(* NoValue stands for None, which is no ferried data. *)
NoneIsNoData == \A data : IsData(data) => data # NoValue

SameGraph(a, b) ==
    a.nodes = b.nodes /\ a.edges = b.edges /\ a.unassigned = b.unassigned

LEMMA SameGraphCarries ==
    ASSUME NEW a, NEW b, SameGraph(a, b), NEW C
    PROVE  (Carries(a, C) <=> Carries(b, C)) /\ (Owned(a) <=> Owned(b))
BY DEF SameGraph, Carries, Sound, Roots, Owned

LEMMA GraphIs ==
    ASSUME NEW data, IsData(data)
    PROVE  Graph(data) \in FerriedDataType /\ SameGraph(Graph(data), data)
BY DEF IsData, Graph, WithGraph, Default, FerriedDataType, SameGraph

LEMMA WithGraphIs ==
    ASSUME NEW data, IsData(data), NEW fd
    PROVE  WithGraph(data, fd) \in
             [nodes : {fd.nodes}, edges : {fd.edges}, unassigned : {fd.unassigned},
              height : {data.height}, found_match : {data.found_match}, set_s : {data.set_s}]
<1>1. data \in [nodes : {data.nodes}, edges : {data.edges}, unassigned : {data.unassigned},
                height : {data.height}, found_match : {data.found_match}, set_s : {data.set_s}]
  BY DEF IsData
<1>2. QED
  BY <1>1 DEF WithGraph

LEMMA IsDataFields ==
    ASSUME NEW data, NEW fd \in FerriedDataType, NEW x, NEW y, NEW z,
           data \in [nodes : {fd.nodes}, edges : {fd.edges}, unassigned : {fd.unassigned},
                     height : {x}, found_match : {y}, set_s : {z}]
    PROVE  IsData(data) /\ SameGraph(data, fd)
<1>1. fd.nodes \in Seq(Node) /\ fd.edges \in SUBSET (Nat \X Nat) /\ fd.unassigned \in SUBSET Property
  BY DEF FerriedDataType
<1>2. QED
  BY <1>1 DEF IsData, SameGraph

-----------------------------------------------------------------------------
LEMMA MergeDataIs ==
    ASSUME NEW a, NEW b, IsData(a), IsData(b)
    PROVE  /\ IsData(MergeData(a, b))
           /\ SameGraph(MergeData(a, b), Merge(Graph(a), Graph(b)))
           /\ MergeData(a, b).height = a.height \o b.height
<1> DEFINE g == Merge(Graph(a), Graph(b))
           w == WithGraph(a, g)
           found == a.found_match \/ b.found_match
           s == IF found THEN <<>> ELSE MergeSetS(w.set_s, b.set_s, Len(a.nodes))
           m == MergeDistributed(a, b)
           full == MergeData(a, b)
<1>1. /\ Graph(a) \in FerriedDataType /\ SameGraph(Graph(a), a)
      /\ Graph(b) \in FerriedDataType /\ SameGraph(Graph(b), b)
  BY GraphIs
<1>2. Merge(a, b) = g
  BY <1>1 DEF Merge, EdgesByName, SameGraph
<1>3. g \in FerriedDataType
  BY <1>1, MergeType
<1>4. w \in [nodes : {g.nodes}, edges : {g.edges}, unassigned : {g.unassigned},
             height : {a.height}, found_match : {a.found_match}, set_s : {a.set_s}]
  BY WithGraphIs
<1> HIDE DEF g
<1>5. m = [w EXCEPT !.found_match = found, !.set_s = s]
  <2>1. m = [w EXCEPT !.found_match = found,
                      !.set_s = IF found THEN <<>>
                                ELSE MergeSetS(@, b.set_s, Len(a.nodes))]
    BY <1>2 DEF MergeDistributed
  <2> HIDE DEF m, w
  <2>2. QED
    BY <1>4, <2>1
<1> HIDE DEF w, found, s, m
<1>6. m \in [nodes : {g.nodes}, edges : {g.edges}, unassigned : {g.unassigned},
             height : {a.height}, found_match : {found}, set_s : {s}]
  BY <1>4, <1>5
<1>7. full = [m EXCEPT !.height = @ \o b.height]
  BY DEF MergeData, m
<1> HIDE DEF full
<1>8. full \in [nodes : {g.nodes}, edges : {g.edges}, unassigned : {g.unassigned},
                height : {m.height \o b.height}, found_match : {found}, set_s : {s}]
  BY <1>6, <1>7
<1>9. IsData(full) /\ SameGraph(full, g) /\ full.height = a.height \o b.height
  BY <1>3, <1>6, <1>8, IsDataFields
<1>10. QED
  BY <1>9 DEF full, g

(* store_headers brings together what is known of different callees. *)
LEMMA MergeDataCarries ==
    ASSUME DistinctServices, NEW s \in Spans,
           NEW C \in SUBSET Children(s), NEW D \in SUBSET Children(s), C \cap D = {},
           NEW a, NEW b, Kept(a), Kept(b), Carries(a, C), Carries(b, D)
    PROVE  Kept(MergeData(a, b)) /\ Carries(MergeData(a, b), C \cup D)
<1> DEFINE S == UNION {Below[c] : c \in C}
           T == UNION {Below[c] : c \in D}
           ga == Graph(a)
           gb == Graph(b)
           g == Merge(ga, gb)
<1>1. S \in SUBSET Spans /\ T \in SUBSET Spans
  BY BelowClosed DEF Children
<1>2. S \cap T = {}
  <2>1. \A c \in C, d \in D : Below[c] \cap Below[d] = {}
    BY BelowChildren
  <2>2. QED
    BY <2>1
<1>3. ga \in FerriedDataType /\ gb \in FerriedDataType /\ SameGraph(ga, a) /\ SameGraph(gb, b)
  BY GraphIs DEF Kept
<1> HIDE DEF ga, gb
<1>4. Carries(ga, C) /\ Carries(gb, D) /\ Owned(ga) /\ Owned(gb)
  BY <1>3, SameGraphCarries DEF Kept
<1>5. Sound(ga, S) /\ Sound(gb, T)
  BY <1>4 DEF Carries
<1>6. UNION {Below[c] : c \in C \cup D} = S \cup T
  OBVIOUS
<1> HIDE DEF S, T
<1>7. /\ Sound(g, S \cup T)
      /\ \A i \in Roots(g) : \/ \E j \in Roots(ga) : g.nodes[i].name = ga.nodes[j].name
                             \/ \E j \in Roots(gb) : g.nodes[i].name = gb.nodes[j].name
  BY <1>1, <1>2, <1>3, <1>4, <1>5, MergeSound
<1>8. \A i \in Roots(g) : \E c \in C \cup D : g.nodes[i].name = ServiceOf[c]
  BY <1>4, <1>7 DEF Carries
<1>9. Carries(g, C \cup D)
  BY <1>6, <1>7, <1>8 DEF Carries
<1>10. Owned(g)
  BY <1>4 DEF Owned, Merge, RemoveAssignedProperties
<1>11. IsData(MergeData(a, b)) /\ SameGraph(MergeData(a, b), g)
  BY MergeDataIs DEF Kept, ga, gb
<1> HIDE DEF g
<1>12. QED
  BY <1>9, <1>10, <1>11, SameGraphCarries DEF Kept

-----------------------------------------------------------------------------
(* The response hook: the service's node over what it has fetched, ...     *)
LEMMA AddMyNodeCarries ==
    ASSUME DistinctServices, NEW s \in Spans, NEW C \in SUBSET Children(s),
           NEW data, Kept(data), Carries(data, C)
    PROVE  Kept(AddMyNode(ServiceOf[s], data)) /\ Carries(AddMyNode(ServiceOf[s], data), {s})
<1>0. PICK n \in Services : n = ServiceOf[s]
  BY CallerType
<1> DEFINE S == UNION {Below[c] : c \in C}
           fd == Graph(data)
           g == AddMe(fd, n)
           w == WithGraph(data, g)
           full == AddMyNode(n, data)
<1>1. S \in SUBSET Spans /\ s \notin S /\ S \cup {s} \subseteq Below[s]
  BY BelowClosed, BelowChildren DEF Children
<1>2. fd \in FerriedDataType /\ SameGraph(fd, data)
  BY GraphIs DEF Kept
<1>3. AddMe(data, n) = g
  BY <1>2 DEF AddMe, Roots, SameGraph
<1> HIDE DEF fd
<1>4. Carries(fd, C) /\ Owned(fd)
  BY <1>2, SameGraphCarries DEF Kept
<1>5. Sound(fd, S)
  BY <1>4 DEF Carries
<1>6. \A i \in Roots(fd) : \E c \in Children(s) : fd.nodes[i].name = ServiceOf[c]
  BY <1>4 DEF Carries
<1> HIDE DEF S
<1>7. Sound(g, S \cup {s}) /\ \A i \in Roots(g) : g.nodes[i].name = ServiceOf[s]
  BY <1>0, <1>1, <1>2, <1>4, <1>5, <1>6, AddMeSound
<1>8. g \in FerriedDataType /\ g.unassigned \subseteq fd.unassigned
  <2>1. g \in FerriedDataType
    BY <1>2, AddMeType
  <2>2. g.unassigned \subseteq fd.unassigned
    BY <1>2, AddMeNodes, Zenon
  <2>3. QED
    BY <2>1, <2>2
<1> HIDE DEF g
<1>9. Sound(g, Below[s])
  BY <1>1, <1>7, SoundMonotone
<1>10. Below[s] = UNION {Below[c] : c \in {s}}
  OBVIOUS
<1>11. Carries(g, {s}) /\ Owned(g)
  BY <1>4, <1>7, <1>8, <1>9, <1>10 DEF Carries, Owned
<1>12. w \in [nodes : {g.nodes}, edges : {g.edges}, unassigned : {g.unassigned},
              height : {data.height}, found_match : {data.found_match}, set_s : {data.set_s}]
  BY WithGraphIs DEF Kept
<1>13. full = [w EXCEPT !.height = Append(@, NoValue)]
  BY <1>3 DEF AddMyNode
<1> HIDE DEF w, full
<1>14. full \in [nodes : {g.nodes}, edges : {g.edges}, unassigned : {g.unassigned},
                 height : {Append(w.height, NoValue)}, found_match : {data.found_match},
                 set_s : {data.set_s}]
  BY <1>12, <1>13
<1>15. IsData(full) /\ SameGraph(full, g)
  BY <1>8, <1>14, IsDataFields
<1>16. Kept(full) /\ Carries(full, {s})
  BY <1>11, <1>15, SameGraphCarries DEF Kept
<1>17. QED
  BY <1>0, <1>16 DEF full

(* ... its UDF's value, and what the search leaves in set_s and found_match. *)
LEMMA FieldsKept ==
    ASSUME NEW data, IsData(data), NEW x
    PROVE  /\ IsData([data EXCEPT !.height = x]) /\ SameGraph([data EXCEPT !.height = x], data)
           /\ IsData([data EXCEPT !.set_s = x]) /\ SameGraph([data EXCEPT !.set_s = x], data)
           /\ IsData([data EXCEPT !.found_match = x])
           /\ SameGraph([data EXCEPT !.found_match = x], data)
           /\ [data EXCEPT !.height = x].height = x
           /\ [data EXCEPT !.set_s = x].height = data.height
           /\ [data EXCEPT !.found_match = x].height = data.height
BY DEF IsData, SameGraph

LEMMA ExecuteUdfsKeeps ==
    ASSUME NEW data, IsData(data), NEW n
    PROVE  IsData(ExecuteUdfs(n, data)) /\ SameGraph(ExecuteUdfs(n, data), data)
<1> DEFINE me == GetNodeWithId(data.nodes, n)
           child_values == {data.height[e[2]] : e \in {x \in data.edges : x[1] = me}}
           x == [data.height EXCEPT ![me] = Height(child_values)]
<1>1. ExecuteUdfs(n, data) = [data EXCEPT !.height = x]
  BY DEF ExecuteUdfs, IsData
<1> HIDE DEF x
<1>2. IsData([data EXCEPT !.height = x]) /\ SameGraph([data EXCEPT !.height = x], data)
  BY FieldsKept, Zenon
<1> DEFINE full == [data EXCEPT !.height = x]
<1> HIDE DEF full
<1>3. QED
  BY <1>1, <1>2 DEF full

LEMMA ResponseSends ==
    ASSUME NEW s \in Spans, OnOutgoingResponses(s), NEW mine,
           mine = MergeHeaders(ServiceOf[s], "response", header[s]), IsData(mine)
    PROVE  \E data : /\ header' = [header EXCEPT ![s] = data]
                     /\ IsData(data) /\ SameGraph(data, mine)
                     /\ data.height = ExecuteUdfs(ServiceOf[s], mine).height
<1> DEFINE n == ServiceOf[s]
           data == ExecuteUdfs(n, mine)
           search == Search(data, GetNodeWithId(data.nodes, n), n = RootId)
           x == search.set_s
           searched == [data EXCEPT !.set_s = x]
           told == [searched EXCEPT !.found_match = TRUE]
<1>1. IsData(data) /\ SameGraph(data, mine)
  BY ExecuteUdfsKeeps
<1>2. (distributed /\ MatchDistributed(s, data)) \/ Match(s, data)
  BY DEF OnOutgoingResponses
<1> HIDE DEF data
<1>3. Match(s, data) => header' = [header EXCEPT ![s] = data]
  BY DEF Match, Respond, RespondAndSend
<1>4. MatchDistributed(s, data) =>
        \E y \in {data, searched, told} : header' = [header EXCEPT ![s] = y]
  BY DEF MatchDistributed, Respond, RespondAndSend
<1> HIDE DEF x
<1>5. IsData(searched) /\ SameGraph(searched, data) /\ searched.height = data.height
  BY <1>1, FieldsKept
<1> HIDE DEF searched
<1>6. IsData(told) /\ SameGraph(told, searched) /\ told.height = searched.height
  BY <1>5, FieldsKept
<1> HIDE DEF told
<1>7. \A y \in {data, searched, told} :
        IsData(y) /\ SameGraph(y, mine) /\ y.height = data.height
  BY <1>1, <1>5, <1>6 DEF SameGraph
<1>8. QED
  BY <1>1, <1>2, <1>3, <1>4, <1>7 DEF data

(* The request hook: nothing but properties. *)
Bare(data) == data.nodes = <<>> /\ data.edges = {}

LEMMA CollectedIsBare ==
    ASSUME NEW n \in Services, NEW data, Kept(data), Bare(data)
    PROVE  Kept(CollectEnvoyProperties(n, data)) /\ Bare(CollectEnvoyProperties(n, data))
<1> DEFINE p == [entity |-> n, value |-> PropertyOf[n]]
           x == data.unassigned \cup {p}
           full == CollectEnvoyProperties(n, data)
<1>1. p \in Property /\ p.value = PropertyOf[p.entity]
  BY TraceAssumption DEF Property
<1>2. full = [data EXCEPT !.unassigned = x]
  BY DEF CollectEnvoyProperties, Kept, IsData
<1> HIDE DEF p
<1>3. x \in SUBSET Property /\ \A q \in x : q.value = PropertyOf[q.entity]
  BY <1>1 DEF Kept, IsData, Owned
<1> HIDE DEF x, full
<1>4. QED
  BY <1>2, <1>3 DEF Kept, IsData, Owned, Bare, full

LEMMA DefaultIsBare == Kept(DefaultData) /\ Bare(DefaultData)
<1>1. <<>> \in Seq(Node)
  OBVIOUS
<1>2. QED
  BY <1>1 DEF DefaultData, Kept, IsData, Owned, Bare

-----------------------------------------------------------------------------
(* The inductive invariant behind NothingTwice.  A service has stored       *)
(* nothing before its own request arrives, so what it merges with itself    *)
(* has no node; requests carry no nodes; and what it stores then is about   *)
(* exactly the calls that have come back.                                   *)
Shape ==
    /\ phase \in [Spans -> SimPhases] /\ phase[RootSpan] # "done"
    /\ DOMAIN shared = Services /\ DOMAIN header = Spans
    /\ \A n \in Services : shared[n] # NoValue => Kept(shared[n])
    /\ \A s \in Spans : header[s] # NoValue => Kept(header[s])

Unserved(s) == phase[s] \in {"idle", "called"}

StoredOnceServed ==
    \A s \in Spans :
        /\ Unserved(s) <=> shared[ServiceOf[s]] = NoValue
        /\ Unserved(s) => \A c \in Children(s) : phase[c] = "idle"

RequestsBare ==
    \A s \in Spans :
        phase[s] \in {"idle", "called", "serving"} /\ header[s] # NoValue => Bare(header[s])

ResponsesCarry ==
    \A s \in Spans : phase[s] \in {"responded", "done"} =>
        header[s] # NoValue /\ Carries(header[s], {s})

SharedCarry ==
    \A s \in Spans : shared[ServiceOf[s]] # NoValue =>
        Carries(shared[ServiceOf[s]], Fetched(s))

SimInv == Shape /\ StoredOnceServed /\ RequestsBare /\ ResponsesCarry /\ SharedCarry

LEMMA InvGivesNothingTwice ==
    ASSUME SimInv
    PROVE  NothingTwice
<1> SUFFICES ASSUME NEW s \in Spans
             PROVE  /\ header[s] # NoValue => Sound(header[s], Below[s])
                    /\ shared[ServiceOf[s]] # NoValue =>
                         Sound(shared[ServiceOf[s]], Below[s] \ {s})
  BY DEF NothingTwice
<1>1. ASSUME NEW C, NEW data, Carries(data, C), NEW S, UNION {Below[c] : c \in C} \subseteq S
      PROVE  Sound(data, S)
  BY <1>1, SoundMonotone DEF Carries
<1>2. ASSUME header[s] # NoValue
      PROVE  Sound(header[s], Below[s])
  <2>1. Carries(header[s], {s})
    BY <1>2, EmptyCarries DEF SimInv, Shape, SimPhases, RequestsBare, ResponsesCarry, Bare
  <2>2. QED
    BY <1>1, <2>1
<1>3. ASSUME shared[ServiceOf[s]] # NoValue
      PROVE  Sound(shared[ServiceOf[s]], Below[s] \ {s})
  <2>1. Carries(shared[ServiceOf[s]], Fetched(s))
    BY <1>3 DEF SimInv, SharedCarry
  <2>2. UNION {Below[c] : c \in Fetched(s)} \subseteq Below[s] \ {s}
    BY BelowChildren DEF Fetched
  <2>3. QED
    BY <1>1, <2>1, <2>2
<1>4. QED
  BY <1>2, <1>3

LEMMA FetchedKept ==
    ASSUME NEW s \in Spans, NEW p, phase \in [Spans -> SimPhases],
           phase' = [phase EXCEPT ![s] = p], phase[s] # "done", p # "done"
    PROVE  \A t : Fetched(t)' = Fetched(t)
BY DEF Fetched, Children

(* Stages before a service has a request. *)
LEMMA EarlyKept ==
    ASSUME SimInv, NEW s \in Spans,
           phase[s] = "idle", s # RootSpan => phase[Parent[s]] = "serving",
           phase' = [phase EXCEPT ![s] = "called"],
           DOMAIN header' = Spans, \A t \in Spans : t # s => header'[t] = header[t],
           header'[s] # NoValue => Kept(header'[s]) /\ Bare(header'[s]),
           shared' = shared
    PROVE  SimInv'
<1>1. /\ phase \in [Spans -> SimPhases]
      /\ phase'[s] = "called"
      /\ \A t \in Spans : t # s => phase'[t] = phase[t] /\ header'[t] = header[t]
  BY DEF SimInv, Shape
<1>2. Shape'
  <2>1. phase' \in [Spans -> SimPhases] /\ phase'[RootSpan] # "done"
    BY <1>1, TraceAssumption DEF SimPhases, SimInv, Shape
  <2>2. QED
    BY <1>1, <2>1 DEF SimInv, Shape
<1>3. StoredOnceServed'
  <2> SUFFICES ASSUME NEW t \in Spans
               PROVE  /\ Unserved(t)' <=> shared[ServiceOf[t]] = NoValue
                      /\ Unserved(t)' => \A c \in Children(t) : phase'[c] = "idle"
    BY DEF StoredOnceServed, Children, Unserved
  <2>1. Unserved(t)' <=> Unserved(t)
    BY <1>1 DEF Unserved
  <2>2. ASSUME Unserved(t), NEW c \in Children(t)
        PROVE  phase'[c] = "idle"
    <3>1. c \in Spans \ {RootSpan} /\ Parent[c] = t
      BY ChildrenOfSpans
    <3>2. c # s
      BY <2>2, <3>1 DEF Unserved
    <3>3. QED
      BY <1>1, <2>2, <3>1, <3>2 DEF SimInv, StoredOnceServed
  <2>3. QED
    BY <2>1, <2>2 DEF SimInv, StoredOnceServed
<1>4. RequestsBare' /\ ResponsesCarry'
  BY <1>1 DEF SimInv, RequestsBare, ResponsesCarry
<1>5. SharedCarry'
  <2>1. \A t : Fetched(t)' = Fetched(t)
    BY <1>1 DEF Fetched, Children
  <2>2. QED
    BY <2>1 DEF SimInv, SharedCarry
<1>6. QED
  BY <1>2, <1>3, <1>4, <1>5 DEF SimInv

LEMMA OnOutgoingRequestsKeeps ==
    ASSUME Detached = {}, SimInv, NEW s \in Spans, OnOutgoingRequests(s)
    PROVE  SimInv'
<1>1. /\ s # RootSpan /\ phase[s] = "idle" /\ phase[Parent[s]] = "serving"
      /\ phase' = [phase EXCEPT ![s] = "called"] /\ shared' = shared
  BY DEF OnOutgoingRequests, Requested
<1>2. Parent[s] \in Spans /\ Caller(s) = ServiceOf[Parent[s]]
  BY <1>1, ChildrenOfSpans DEF Caller
<1>3. shared[Caller(s)] # NoValue
  BY <1>1, <1>2 DEF SimInv, StoredOnceServed, Unserved
<1>4. PICK x \in {NoValue, header[Parent[s]]} : header' = [header EXCEPT ![s] = x]
  BY <1>3 DEF OnOutgoingRequests, MergeHeaders
<1>5. x # NoValue => Kept(x) /\ Bare(x)
  BY <1>1, <1>2, <1>4 DEF SimInv, Shape, RequestsBare
<1>6. /\ DOMAIN header' = Spans /\ header'[s] = x
      /\ \A t \in Spans : t # s => header'[t] = header[t]
  BY <1>4 DEF SimInv, Shape
<1>7. QED
  BY <1>1, <1>5, <1>6, EarlyKept

LEMMA EnterKeeps ==
    ASSUME SimInv, Enter
    PROVE  SimInv'
<1>1. RootSpan \in Spans /\ phase[RootSpan] = "idle"
      /\ phase' = [phase EXCEPT ![RootSpan] = "called"] /\ shared' = shared
  BY TraceAssumption DEF Enter
<1>2. header' = header /\ DOMAIN header = Spans
  BY DEF Enter, SimInv, Shape
<1>3. header[RootSpan] # NoValue => Kept(header[RootSpan]) /\ Bare(header[RootSpan])
  BY <1>1 DEF SimInv, Shape, RequestsBare
<1>4. QED
  BY <1>1, <1>2, <1>3, EarlyKept

(* The first data of a service is merged with itself. *)
LEMMA OnIncomingRequestsKeeps ==
    ASSUME DistinctServices, NoneIsNoData, SimInv, NEW s \in Spans, OnIncomingRequests(s)
    PROVE  SimInv'
<1> DEFINE n == ServiceOf[s]
           fetched == IF header[s] = NoValue THEN DefaultData ELSE header[s]
           x == CollectEnvoyProperties(n, fetched)
           m == MergeData(x, x)
<1>1. /\ phase[s] = "called" /\ n \in Services
      /\ phase \in [Spans -> SimPhases] /\ DOMAIN header = Spans /\ DOMAIN shared = Services
      /\ shared[n] = NoValue /\ \A c \in Children(s) : phase[c] = "idle"
  BY CallerType DEF OnIncomingRequests, SimInv, Shape, StoredOnceServed, Unserved
<1>2. Kept(fetched) /\ Bare(fetched)
  BY <1>1, DefaultIsBare DEF SimInv, Shape, RequestsBare
<1> HIDE DEF fetched
<1>3. Kept(x) /\ Bare(x) /\ x # NoValue
  <2>1. Kept(x) /\ Bare(x)
    BY <1>1, <1>2, CollectedIsBare
  <2>2. QED
    BY <2>1 DEF Kept, NoneIsNoData
<1>4. Kept(m) /\ Carries(m, {} \cup {}) /\ m # NoValue
  <2>1. Carries(x, {})
    BY <1>3, EmptyCarries DEF Bare
  <2> HIDE DEF x
  <2>2. Kept(m) /\ Carries(m, {} \cup {})
    BY <1>3, <2>1, MergeDataCarries
  <2>3. QED
    BY <2>2 DEF Kept, NoneIsNoData
<1>5. /\ header' = [header EXCEPT ![s] = x] /\ shared' = [shared EXCEPT ![n] = m]
      /\ phase' = [phase EXCEPT ![s] = "serving"]
  <2>1. header' = [header EXCEPT ![s] = x] /\ StoreHeaders(n, header'[s])
        /\ phase' = [phase EXCEPT ![s] = "serving"]
    BY DEF OnIncomingRequests, fetched
  <2>2. header'[s] = x
    BY <1>1, <2>1
  <2> HIDE DEF x
  <2>3. StoreHeaders(n, x)
    BY <2>1, <2>2
  <2>4. QED
    BY <1>1, <1>3, <2>1, <2>3 DEF StoreHeaders
<1> HIDE DEF x, m
<1>6. /\ phase'[s] = "serving" /\ header'[s] = x /\ shared'[n] = m
      /\ \A t \in Spans : t # s => phase'[t] = phase[t] /\ header'[t] = header[t]
                                   /\ shared'[ServiceOf[t]] = shared[ServiceOf[t]]
  BY <1>1, <1>5, CallerType DEF DistinctServices
<1>7. Shape'
  <2>1. phase' \in [Spans -> SimPhases] /\ phase'[RootSpan] # "done" /\ DOMAIN header' = Spans
        /\ DOMAIN shared' = Services
    BY <1>1, <1>5, TraceAssumption DEF SimPhases, SimInv, Shape
  <2>2. \A k \in Services : shared'[k] # NoValue => Kept(shared'[k])
    BY <1>1, <1>4, <1>5 DEF SimInv, Shape
  <2>3. \A t \in Spans : header'[t] # NoValue => Kept(header'[t])
    BY <1>3, <1>6 DEF SimInv, Shape
  <2>4. QED
    BY <2>1, <2>2, <2>3 DEF Shape
<1>8. StoredOnceServed'
  <2> SUFFICES ASSUME NEW t \in Spans
               PROVE  /\ Unserved(t)' <=> shared'[ServiceOf[t]] = NoValue
                      /\ Unserved(t)' => \A c \in Children(t) : phase'[c] = "idle"
    BY DEF StoredOnceServed, Children, Unserved
  <2>1. CASE t = s
    BY <1>4, <1>6, <2>1 DEF Unserved
  <2>2. CASE t # s
    <3>1. Unserved(t)' <=> Unserved(t)
      BY <1>6, <2>2 DEF Unserved
    <3>2. ASSUME Unserved(t), NEW c \in Children(t)
          PROVE  phase'[c] = "idle"
      <4>1. phase[c] = "idle" /\ c \in Spans
        BY <3>2, ChildrenOfSpans DEF SimInv, StoredOnceServed
      <4>2. QED
        BY <1>1, <1>6, <4>1
    <3>3. QED
      BY <1>6, <2>2, <3>1, <3>2 DEF SimInv, StoredOnceServed
  <2>3. QED
    BY <2>1, <2>2
<1>9. RequestsBare' /\ ResponsesCarry'
  BY <1>3, <1>6 DEF SimInv, RequestsBare, ResponsesCarry
<1>10. SharedCarry'
  <2>1. \A t : Fetched(t)' = Fetched(t)
    BY <1>1, <1>5, FetchedKept
  <2>2. \A C : Carries(m, C)
    BY <1>4, CarriesMonotone
  <2>3. QED
    BY <1>6, <2>1, <2>2 DEF SimInv, SharedCarry
<1>11. QED
  BY <1>7, <1>8, <1>9, <1>10 DEF SimInv

LEMMA OnOutgoingResponsesKeeps ==
    ASSUME DistinctServices, NoneIsNoData, SimInv, NEW s \in Spans, OnOutgoingResponses(s)
    PROVE  SimInv'
<1> DEFINE n == ServiceOf[s]
           mine == MergeHeaders(n, "response", header[s])
<1>1. /\ phase[s] = "serving" /\ phase' = [phase EXCEPT ![s] = "responded"]
      /\ phase \in [Spans -> SimPhases] /\ DOMAIN header = Spans
      /\ shared' = shared /\ n \in Services
  BY CallerType DEF OnOutgoingResponses, SimInv, Shape
<1>2. Kept(shared[n]) /\ Carries(shared[n], Fetched(s)) /\ mine = AddMyNode(n, shared[n])
  BY <1>1 DEF SimInv, Shape, StoredOnceServed, Unserved, SharedCarry, MergeHeaders
<1> HIDE DEF mine
<1>3. Kept(mine) /\ Carries(mine, {s})
  <2>1. Fetched(s) \in SUBSET Children(s)
    BY DEF Fetched
  <2>2. QED
    BY <1>2, <2>1, AddMyNodeCarries
<1>4. PICK data : /\ header' = [header EXCEPT ![s] = data]
                  /\ IsData(data) /\ SameGraph(data, mine)
  BY <1>3, ResponseSends DEF mine, Kept
<1>5. Kept(data) /\ Carries(data, {s}) /\ data # NoValue
  BY <1>3, <1>4, SameGraphCarries DEF Kept, NoneIsNoData
<1>6. /\ phase'[s] = "responded" /\ header'[s] = data
      /\ \A t \in Spans : t # s => phase'[t] = phase[t] /\ header'[t] = header[t]
  BY <1>1, <1>4
<1>7. Shape'
  <2>1. phase' \in [Spans -> SimPhases] /\ phase'[RootSpan] # "done" /\ DOMAIN header' = Spans
    BY <1>1, <1>4, TraceAssumption DEF SimPhases, SimInv, Shape
  <2>2. \A t \in Spans : header'[t] # NoValue => Kept(header'[t])
    BY <1>5, <1>6 DEF SimInv, Shape
  <2>3. QED
    BY <1>1, <2>1, <2>2 DEF SimInv, Shape
<1>8. StoredOnceServed'
  <2> SUFFICES ASSUME NEW t \in Spans
               PROVE  /\ Unserved(t)' <=> shared[ServiceOf[t]] = NoValue
                      /\ Unserved(t)' => \A c \in Children(t) : phase'[c] = "idle"
    BY <1>1 DEF StoredOnceServed, Children, Unserved
  <2>1. Unserved(t)' <=> Unserved(t)
    BY <1>1, <1>6 DEF Unserved
  <2>2. ASSUME Unserved(t), NEW c \in Children(t)
        PROVE  phase'[c] = "idle"
    <3>1. phase[c] = "idle" /\ c \in Spans
      BY <2>2, ChildrenOfSpans DEF SimInv, StoredOnceServed
    <3>2. QED
      BY <1>1, <1>6, <3>1
  <2>3. QED
    BY <2>1, <2>2 DEF SimInv, StoredOnceServed
<1>9. RequestsBare' /\ ResponsesCarry'
  BY <1>5, <1>6 DEF SimInv, RequestsBare, ResponsesCarry
<1>10. SharedCarry'
  <2>1. \A t : Fetched(t)' = Fetched(t)
    BY <1>1 DEF Fetched, Children
  <2>2. QED
    BY <1>1, <2>1 DEF SimInv, SharedCarry
<1>11. QED
  BY <1>7, <1>8, <1>9, <1>10 DEF SimInv

LEMMA OnIncomingResponsesKeeps ==
    ASSUME DistinctServices, NoneIsNoData, SimInv, NEW s \in Spans, OnIncomingResponses(s)
    PROVE  SimInv'
<1> DEFINE r == Parent[s]
           n == Caller(s)
           m == MergeData(shared[n], header[s])
<1>1. /\ s # RootSpan /\ phase[s] = "responded" /\ phase' = [phase EXCEPT ![s] = "done"]
      /\ phase \in [Spans -> SimPhases] /\ DOMAIN shared = Services
      /\ header' = header
  BY DEF OnIncomingResponses, SimInv, Shape
<1>2. r \in Spans /\ s \in Children(r) /\ n = ServiceOf[r] /\ n \in Services
  BY <1>1, ChildrenOfSpans, CallerType DEF Caller
<1>3. ~ Unserved(r) /\ shared[n] # NoValue /\ header[s] # NoValue
  BY <1>1, <1>2 DEF SimInv, StoredOnceServed, ResponsesCarry
<1>4. Kept(shared[n]) /\ Kept(header[s]) /\ Carries(shared[n], Fetched(r)) /\ Carries(header[s], {s})
  BY <1>1, <1>2, <1>3 DEF SimInv, Shape, SharedCarry, ResponsesCarry
<1>5. Kept(m) /\ Carries(m, Fetched(r) \cup {s}) /\ m # NoValue
  <2>1. /\ Fetched(r) \in SUBSET Children(r) /\ {s} \in SUBSET Children(r)
        /\ Fetched(r) \cap {s} = {}
    BY <1>1, <1>2 DEF Fetched
  <2>2. Kept(m) /\ Carries(m, Fetched(r) \cup {s})
    BY <1>2, <1>4, <2>1, MergeDataCarries
  <2>3. QED
    BY <2>2 DEF Kept, NoneIsNoData
<1>6. shared' = [shared EXCEPT ![n] = m]
  BY <1>3 DEF OnIncomingResponses, StoreHeaders
<1> HIDE DEF m
<1>7. /\ phase'[s] = "done" /\ shared'[n] = m
      /\ \A t \in Spans : t # s => phase'[t] = phase[t]
      /\ \A t \in Spans : t # r => shared'[ServiceOf[t]] = shared[ServiceOf[t]]
  BY <1>1, <1>2, <1>6, CallerType DEF DistinctServices
<1>8. Shape'
  <2>1. phase' \in [Spans -> SimPhases] /\ phase'[RootSpan] # "done" /\ DOMAIN shared' = Services
    BY <1>1, <1>6, TraceAssumption DEF SimPhases, SimInv, Shape
  <2>2. \A k \in Services : shared'[k] # NoValue => Kept(shared'[k])
    BY <1>1, <1>2, <1>5, <1>6 DEF SimInv, Shape
  <2>3. QED
    BY <1>1, <2>1, <2>2 DEF SimInv, Shape
<1>9. StoredOnceServed'
  <2> SUFFICES ASSUME NEW t \in Spans
               PROVE  /\ Unserved(t)' <=> shared'[ServiceOf[t]] = NoValue
                      /\ Unserved(t)' => \A c \in Children(t) : phase'[c] = "idle"
    BY DEF StoredOnceServed, Children, Unserved
  <2>1. Unserved(t)' <=> Unserved(t)
    BY <1>1, <1>7 DEF Unserved
  <2>2. shared'[ServiceOf[t]] = NoValue <=> shared[ServiceOf[t]] = NoValue
    BY <1>2, <1>3, <1>5, <1>7
  <2>3. ASSUME Unserved(t), NEW c \in Children(t)
        PROVE  phase'[c] = "idle"
    <3>1. phase[c] = "idle" /\ c \in Spans
      BY <2>3, ChildrenOfSpans DEF SimInv, StoredOnceServed
    <3>2. QED
      BY <1>1, <1>7, <3>1
  <2>4. QED
    BY <2>1, <2>2, <2>3 DEF SimInv, StoredOnceServed
<1>10. RequestsBare' /\ ResponsesCarry'
  BY <1>1, <1>7 DEF SimInv, RequestsBare, ResponsesCarry
<1>11. SharedCarry'
  <2> SUFFICES ASSUME NEW t \in Spans, shared'[ServiceOf[t]] # NoValue
               PROVE  Carries(shared'[ServiceOf[t]], Fetched(t)')
    BY DEF SharedCarry
  <2>1. CASE t = r
    <3>1. Fetched(r) \cup {s} \subseteq Fetched(r)'
      BY <1>1, <1>2, <1>7, ChildrenOfSpans DEF Fetched, Children
    <3>2. QED
      BY <1>2, <1>5, <1>7, <2>1, <3>1, CarriesMonotone
  <2>2. CASE t # r
    <3>1. Fetched(t) \subseteq Fetched(t)'
      BY <1>1, <1>7, ChildrenOfSpans DEF Fetched, Children
    <3>2. Carries(shared[ServiceOf[t]], Fetched(t)) /\ shared'[ServiceOf[t]] = shared[ServiceOf[t]]
      BY <1>7, <2>2 DEF SimInv, SharedCarry
    <3>3. QED
      BY <3>1, <3>2, CarriesMonotone
  <2>3. QED
    BY <2>1, <2>2
<1>12. QED
  BY <1>8, <1>9, <1>10, <1>11 DEF SimInv

(* The state of a new trace. *)
Fresh ==
    /\ phase = [s \in Spans |-> "idle"]
    /\ shared = [n \in Services |-> NoValue]
    /\ header = [s \in Spans |-> NoValue]

LEMMA FreshIs ==
    ASSUME Fresh
    PROVE  SimInv
BY CallerType, TraceAssumption
   DEF Fresh, SimInv, Shape, SimPhases, StoredOnceServed, Unserved, Children, RequestsBare,
       ResponsesCarry, SharedCarry

LEMMA SimStep ==
    ASSUME DistinctServices, Detached = {}, NoneIsNoData, SimInv, [Next]_vars
    PROVE  SimInv'
<1>1. ASSUME NextTrace
      PROVE  SimInv'
  <2>1. Fresh'
    BY <1>1 DEF NextTrace, Fresh
  <2>2. Fresh' => SimInv'
    BY FreshIs, PTL
  <2>3. QED
    BY <2>1, <2>2
<1>2. ASSUME UNCHANGED vars
      PROVE  SimInv'
  BY <1>2 DEF vars, SimInv, Shape, StoredOnceServed, Unserved, RequestsBare, ResponsesCarry,
              SharedCarry, Fetched
<1>3. QED
  BY <1>1, <1>2, EnterKeeps, OnOutgoingRequestsKeeps, OnIncomingRequestsKeeps,
     OnOutgoingResponsesKeeps, OnIncomingResponsesKeeps DEF Next

(* Requests carry properties down and responses carry them up again, and    *)
(* the data that is the first of its trace at a service is merged with      *)
(* itself.  All the same no service becomes two nodes, no call is made up   *)
(* and no node has another's property, in any headers and in any filter's   *)
(* storage.                                                                *)
THEOREM NothingIsTwice ==
    ASSUME DistinctServices, Detached = {}, NoneIsNoData
    PROVE  MeshSpec => []NothingTwice
<1>1. MeshInit => SimInv
  BY FreshIs DEF MeshInit, Init, Fresh
<1>2. SimInv /\ [MeshNext]_<<vars, avg, answer>> => SimInv'
  <2>1. [MeshNext]_<<vars, avg, answer>> => [Next]_vars
    BY DEF MeshNext, Hooks, Receives, Over
  <2>2. QED
    BY <2>1, SimStep
<1>3. SimInv => NothingTwice
  BY InvGivesNothingTwice
<1>4. QED
  BY <1>1, <1>2, <1>3, PTL DEF MeshSpec

-----------------------------------------------------------------------------
(* Heights: the most of some numbers, ...                                   *)
LEMMA MaxIs ==
    ASSUME NEW T \in SUBSET Nat, NEW m \in T, \A y \in T : y <= m
    PROVE  Max(T) = m
<1>1. \A y \in T : m >= y /\ y \in Nat
  OBVIOUS
<1>2. PICK x : x = Max(T)
  OBVIOUS
<1>3. x \in T /\ \A y \in T : x >= y
  BY <1>1, <1>2 DEF Max
<1>4. QED
  BY <1>1, <1>2, <1>3

LEMMA MaxFinds ==
    ASSUME NEW n \in Nat, NEW T \in SUBSET (0 .. n), T # {}
    PROVE  Max(T) \in T /\ \A y \in T : y <= Max(T)
<1> DEFINE R == {n - x : x \in T}
<1>1. R \in SUBSET Nat /\ R # {}
  <2>1. \A x \in T : n - x \in Nat
    OBVIOUS
  <2>2. QED
    BY <2>1
<1>2. PICK r \in R : \A y \in R : r <= y
  BY <1>1, LeastPosition, Zenon
<1>3. PICK m \in T : r = n - m
  BY <1>2
<1>4. \A y \in T : y <= m
  <2> SUFFICES ASSUME NEW y \in T
               PROVE  y <= m
    OBVIOUS
  <2>1. n - m <= n - y
    BY <1>2, <1>3
  <2>2. QED
    BY <2>1
<1>5. Max(T) = m
  BY <1>4, MaxIs
<1>6. QED
  BY <1>4, <1>5

(* ... how far down a span is, and how far down the trace goes from one.    *)
FewSpans == IsFiniteSet(Spans)

LEMMA DepthIs ==
    ASSUME FewSpans, NEW s \in Spans
    PROVE  /\ Cardinality(Spans) \in Nat
           /\ \A t : Depth(s, t) \in 0 .. Cardinality(Spans)
           /\ Depth(s, s) = 0
           /\ \A c \in Children(s) : \A t \in Below[c] : Depth(s, t) = Depth(c, t) + 1
<1>1. Cardinality(Spans) \in Nat
  BY FS_CardinalityType DEF FewSpans
<1>2. ASSUME NEW r \in Spans, NEW t
      PROVE  /\ IsFiniteSet({u \in Below[r] \ {r} : t \in Below[u]})
             /\ Depth(r, t) \in 0 .. Cardinality(Spans)
  <2> DEFINE T == {u \in Below[r] \ {r} : t \in Below[u]}
  <2>1. T \in SUBSET Spans
    BY BelowClosed
  <2> HIDE DEF T
  <2>2. IsFiniteSet(T) /\ Cardinality(T) <= Cardinality(Spans) /\ Cardinality(T) \in Nat
    BY <2>1, FS_Subset, FS_CardinalityType DEF FewSpans
  <2>3. QED
    BY <1>1, <2>2 DEF T, Depth
<1>3. Depth(s, s) = 0
  <2>1. {u \in Below[s] \ {s} : s \in Below[u]} = {}
    BY BelowOneWay
  <2>2. QED
    BY <2>1, FS_EmptySet DEF Depth
<1>4. ASSUME NEW c \in Children(s), NEW t \in Below[c]
      PROVE  Depth(s, t) = Depth(c, t) + 1
  <2> DEFINE T == {u \in Below[c] \ {c} : t \in Below[u]}
             S == {u \in Below[s] \ {s} : t \in Below[u]}
  <2>1. c \in Spans /\ s \notin Below[c] /\ Below[c] \subseteq Below[s] /\ c \in Below[c]
    BY BelowChildren, BelowClosed DEF Children
  <2>2. ASSUME NEW u \in S
        PROVE  u \in T \cup {c}
    <3>1. PICK d \in Children(s) : u \in Below[d]
      BY BelowSplit
    <3>2. d \in Spans
      BY DEF Children
    <3>3. t \in Below[d]
      BY <3>1, <3>2, BelowTransitive
    <3>4. d = c
      BY <3>3, BelowChildren
    <3>5. QED
      BY <3>1, <3>4
  <2>3. S = T \cup {c} /\ c \notin T
    BY <2>1, <2>2
  <2>4. IsFiniteSet(T)
    BY <1>2, <2>1
  <2> HIDE DEF S, T
  <2>5. Cardinality(S) = Cardinality(T) + 1
    BY <2>3, <2>4, FS_AddElement
  <2>6. QED
    BY <2>5 DEF S, T, Depth
<1>5. QED
  BY <1>1, <1>2, <1>3, <1>4

(* The height of a span is the UDF's value for those of its callees.       *)
LEMMA HeightStep ==
    ASSUME FewSpans, NEW S \in SUBSET Spans, NEW s \in S,
           \A c \in S \ {RootSpan} : Parent[c] \in S
    PROVE  /\ HeightIn(S, s) \in 0 .. Cardinality(Spans)
           /\ HeightIn(S, s) = Height({HeightIn(S, c) : c \in Children(s) \cap S})
<1> DEFINE H(r) == {Depth(r, t) : t \in Below[r] \cap S}
           D == Children(s) \cap S
           heights == {HeightIn(S, c) : c \in D}
           N == Cardinality(Spans)
<1>1. N \in Nat /\ s \in Spans
  BY DepthIs
<1>2. ASSUME NEW r \in S
      PROVE  /\ H(r) \in SUBSET (0 .. N) /\ 0 \in H(r)
             /\ HeightIn(S, r) \in H(r) /\ \A y \in H(r) : y <= HeightIn(S, r)
             /\ HeightIn(S, r) \in 0 .. N
  <2>1. r \in Below[r] \cap S /\ r \in Spans
    BY BelowClosed
  <2>2. H(r) \in SUBSET (0 .. N) /\ 0 \in H(r)
    BY <2>1, DepthIs
  <2>3. HeightIn(S, r) = Max(H(r))
    BY DEF HeightIn
  <2> HIDE DEF H, N
  <2>4. QED
    BY <1>1, <2>2, <2>3, MaxFinds
<1>3. ASSUME NEW c \in D, NEW y \in H(c)
      PROVE  y + 1 \in H(s)
  <2>1. PICK t \in Below[c] \cap S : y = Depth(c, t)
    OBVIOUS
  <2>2. Depth(s, t) = y + 1 /\ t \in Below[s]
    BY <1>1, <2>1, DepthIs, BelowChildren
  <2>3. QED
    BY <2>1, <2>2
<1>4. ASSUME NEW y \in H(s), y # 0
      PROVE  \E c \in D : \E z \in H(c) : y = z + 1
  <2>1. PICK t \in Below[s] \cap S : y = Depth(s, t)
    OBVIOUS
  <2>2. t # s
    BY <1>1, <1>4, <2>1, DepthIs
  <2>3. PICK c \in Children(s) : t \in Below[c]
    BY <1>1, <2>1, <2>2, BelowSplit
  <2>4. c \in S
    <3> DEFINE T == {x \in Spans : c \notin S => x \notin S}
    <3>1. c \in T /\ T \in SUBSET Spans /\ c \in Spans
      BY DEF Children
    <3>2. \A e \in Spans \ {RootSpan} : Parent[e] \in T => e \in T
      BY TraceAssumption
    <3> HIDE DEF T
    <3>3. Below[c] \subseteq T
      BY <3>1, <3>2, BelowWithin
    <3>4. QED
      BY <2>1, <2>3, <3>3 DEF T
  <2>5. y = Depth(c, t) + 1 /\ Depth(c, t) \in H(c)
    BY <1>1, <2>1, <2>3, DepthIs
  <2>6. QED
    BY <2>3, <2>4, <2>5
<1>5. D \subseteq S
  OBVIOUS
<1> HIDE DEF H, N, D
<1>6. CASE D = {}
  <2>1. HeightIn(S, s) = 0
    BY <1>2, <1>4, <1>6
  <2>2. heights = {}
    BY <1>6
  <2> HIDE DEF heights
  <2>3. Height(heights) = 0
    BY <2>2 DEF Height
  <2>4. QED
    BY <1>2, <2>1, <2>3 DEF heights, D, N
<1>7. CASE D # {}
  <2>1. heights \in SUBSET (0 .. N) /\ heights # {}
    BY <1>2, <1>5, <1>7
  <2> DEFINE m == Max(heights)
  <2>2. m \in heights /\ (\A y \in heights : y <= m) /\ Height(heights) = m + 1
    <3> HIDE DEF heights
    <3>1. QED
      BY <1>1, <2>1, MaxFinds DEF Height
  <2> HIDE DEF m
  <2>3. PICK c \in D : m = HeightIn(S, c)
    BY <2>2
  <2>4. m + 1 \in H(s) /\ m \in Nat
    BY <1>1, <1>2, <1>3, <1>5, <2>1, <2>2, <2>3
  <2>5. ASSUME NEW y \in H(s)
        PROVE  y <= m + 1
    <3>1. CASE y = 0
      BY <2>4, <3>1
    <3>2. CASE y # 0
      <4>1. PICK d \in D : \E z \in H(d) : y = z + 1
        BY <1>4, <3>2
      <4>2. PICK z \in H(d) : y = z + 1
        BY <4>1
      <4>3. z <= HeightIn(S, d) /\ HeightIn(S, d) <= m /\ z \in Nat /\ HeightIn(S, d) \in Nat
        BY <1>1, <1>2, <1>5, <2>2
      <4>4. QED
        BY <2>4, <4>2, <4>3
    <3>3. QED
      BY <3>1, <3>2
  <2>6. HeightIn(S, s) = m + 1
    <3>1. HeightIn(S, s) \in H(s) /\ m + 1 <= HeightIn(S, s) /\ HeightIn(S, s) \in Nat
      BY <1>1, <1>2, <2>4
    <3>2. QED
      BY <2>4, <2>5, <3>1
  <2> HIDE DEF heights
  <2>7. HeightIn(S, s) = Height(heights)
    BY <2>2, <2>6
  <2>8. QED
    BY <1>2, <2>7 DEF heights, D, N
<1>8. QED
  BY <1>6, <1>7

-----------------------------------------------------------------------------
(* What data x about the calls C knows of a trace of which S was called: all *)
(* that was called during C, and nothing else; and its heights are right.   *)
Knows(x, C, S) ==
    /\ NamesIn(x.nodes) \subseteq {ServiceOf[t] : t \in S}
    /\ \A c \in C : \A t \in Below[c] \cap S : Tells(x, c, t)
    /\ x.height \in Seq(Nat) /\ Len(x.height) = Len(x.nodes)
    /\ \A i \in DOMAIN x.nodes : \A t \in Spans :
            ServiceOf[t] = x.nodes[i].name => x.height[i] = HeightIn(S, t)

LEMMA SameTells ==
    ASSUME NEW a, NEW b, SameGraph(a, b)
    PROVE  /\ \A c, t : Tells(a, c, t) <=> Tells(b, c, t)
           /\ \A n : OwnWaits(a, n) <=> OwnWaits(b, n)
           /\ NamesIn(a.nodes) = NamesIn(b.nodes)
BY DEF SameGraph, Tells, OwnWaits, NamesIn

LEMMA SameKnows ==
    ASSUME NEW a, NEW b, SameGraph(a, b), a.height = b.height, NEW C, NEW S, Knows(a, C, S)
    PROVE  Knows(b, C, S)
<1>1. NamesIn(a.nodes) = NamesIn(b.nodes) /\ \A c, t : Tells(a, c, t) <=> Tells(b, c, t)
  BY SameTells
<1>2. a.nodes = b.nodes
  BY DEF SameGraph
<1>3. QED
  BY <1>1, <1>2 DEF Knows

(* Calls elsewhere change nothing. *)
LEMMA KnowsKept ==
    ASSUME DistinctServices, NEW x, NEW C \in SUBSET Spans, Carries(x, C), NEW S, NEW T,
           S \subseteq T, \A c \in C : Below[c] \cap T \subseteq S, Knows(x, C, S)
    PROVE  Knows(x, C, T)
<1>1. ASSUME NEW c \in C, NEW u \in Below[c]
      PROVE  Below[u] \cap S = Below[u] \cap T
  BY BelowTransitive
<1>2. ASSUME NEW i \in DOMAIN x.nodes, NEW t \in Spans, ServiceOf[t] = x.nodes[i].name
      PROVE  HeightIn(S, t) = HeightIn(T, t)
  <2>1. PICK u \in UNION {Below[c] : c \in C} : ServiceOf[u] = x.nodes[i].name
    BY DEF Carries, Sound
  <2>2. PICK c \in C : u \in Below[c]
    BY <2>1
  <2>3. u = t
    BY <1>2, <2>1, <2>2, BelowClosed DEF DistinctServices
  <2>4. QED
    BY <1>1, <2>2, <2>3 DEF HeightIn
<1>3. QED
  BY <1>2 DEF Knows

LEMMA ConcatHeights ==
    ASSUME NEW a \in Seq(Nat), NEW b \in Seq(Nat)
    PROVE  /\ a \o b \in Seq(Nat) /\ Len(a \o b) = Len(a) + Len(b)
           /\ \A i \in 1 .. Len(a) : (a \o b)[i] = a[i]
           /\ \A k \in 1 .. Len(b) : (a \o b)[k + Len(a)] = b[k]
<1>1. /\ a \o b \in Seq(Nat) /\ Len(a \o b) = Len(a) + Len(b)
      /\ Len(a) \in Nat /\ Len(b) \in Nat
      /\ \A i \in 1 .. Len(a) + Len(b) :
            (a \o b)[i] = IF i <= Len(a) THEN a[i] ELSE b[i - Len(a)]
  BY ConcatProperties, LenProperties
<1>2. ASSUME NEW k \in 1 .. Len(b)
      PROVE  (a \o b)[k + Len(a)] = b[k]
  <2>1. k + Len(a) \in 1 .. Len(a) + Len(b) /\ ~ (k + Len(a) <= Len(a))
        /\ (k + Len(a)) - Len(a) = k
    BY <1>1
  <2>2. QED
    BY <1>1, <2>1
<1>3. QED
  BY <1>1, <1>2

LEMMA SameInterval ==
    ASSUME NEW m \in Nat, NEW n \in Nat, 1 .. m = 1 .. n
    PROVE  m = n
<1>1. ASSUME NEW k \in Nat, NEW l \in Nat, k < l
      PROVE  k + 1 \in 1 .. l /\ k + 1 \notin 1 .. k
  BY <1>1
<1>2. CASE m < n
  BY <1>1, <1>2
<1>3. CASE n < m
  BY <1>1, <1>3
<1>4. QED
  BY <1>2, <1>3

LEMMA LengthOfBoth ==
    ASSUME NEW a \in Seq(Node), NEW b \in Seq(Node), NEW nodes \in Seq(Node),
           DOMAIN nodes = DOMAIN (a \o b)
    PROVE  Len(nodes) = Len(a) + Len(b)
<1> DEFINE m == Len(nodes)
           n == Len(a) + Len(b)
<1>1. m \in Nat /\ n \in Nat
  BY LenProperties
<1>2. DOMAIN nodes = 1 .. m /\ DOMAIN (a \o b) = 1 .. n
  BY ConcatProperties, LenProperties
<1>3. 1 .. m = 1 .. n
  BY <1>2, Zenon
<1> HIDE DEF m, n
<1>4. m = n
  BY <1>1, <1>3, SameInterval
<1>5. QED
  BY <1>4 DEF m, n

LEMMA MergeDataKnows ==
    ASSUME DistinctServices, NEW s \in Spans,
           NEW C \in SUBSET Children(s), NEW D \in SUBSET Children(s), C \cap D = {},
           NEW a, NEW b, Kept(a), Kept(b), Carries(a, C), Carries(b, D), NEW S,
           Knows(a, C, S), Knows(b, D, S)
    PROVE  Knows(MergeData(a, b), C \cup D, S)
<1> DEFINE full == MergeData(a, b)
           ga == Graph(a)
           gb == Graph(b)
           g == Merge(ga, gb)
           both == a.nodes \o b.nodes
           la == Len(a.nodes)
<1>1. ga \in FerriedDataType /\ gb \in FerriedDataType /\ SameGraph(ga, a) /\ SameGraph(gb, b)
      /\ Owned(ga) /\ Owned(gb)
  BY GraphIs, SameGraphCarries DEF Kept
<1>2. SameGraph(full, g) /\ full.height = a.height \o b.height
  BY MergeDataIs DEF Kept
<1>3. PICK U : Sound(g, U)
  <2>1. Carries(full, C \cup D)
    BY MergeDataCarries
  <2>2. QED
    BY <1>2, <2>1, SameGraphCarries DEF Carries
<1> HIDE DEF full, ga, gb
<1>4. ASSUME NEW c \in C \cup D, NEW t \in Below[c] \cap S
      PROVE  Tells(full, c, t)
  <2>1. Tells(ga, c, t) \/ Tells(gb, c, t)
    BY <1>1, SameTells DEF Knows
  <2>2. Tells(g, c, t)
    BY <1>1, <1>3, <2>1, MergeTells
  <2>3. QED
    BY <1>2, <2>2, SameTells
<1>5. NamesIn(full.nodes) = NamesIn(a.nodes) \cup NamesIn(b.nodes)
  BY <1>1, <1>2, MergeNames, SameTells
<1>6. /\ a.nodes \in Seq(Node) /\ b.nodes \in Seq(Node)
      /\ ga.nodes = a.nodes /\ gb.nodes = b.nodes
  BY <1>1 DEF Kept, IsData, SameGraph
<1>7. /\ full.nodes \in Seq(Node) /\ DOMAIN full.nodes = DOMAIN both
      /\ \A i \in DOMAIN both : full.nodes[i].name = both[i].name
  <2> DEFINE gaboth == ga.nodes \o gb.nodes
  <2>1. /\ g.nodes \in Seq(Node) /\ DOMAIN g.nodes = DOMAIN gaboth
        /\ \A i \in DOMAIN gaboth : g.nodes[i].name = gaboth[i].name
    BY <1>1, MergeNodes, Zenon
  <2>2. gaboth = both
    BY <1>6
  <2> HIDE DEF gaboth, both, g
  <2>3. QED
    BY <1>2, <2>1, <2>2 DEF SameGraph
<1> HIDE DEF g
<1>8. /\ a.height \in Seq(Nat) /\ b.height \in Seq(Nat)
      /\ Len(a.height) = la /\ Len(b.height) = Len(b.nodes)
  BY DEF Knows
<1>9. /\ full.height \in Seq(Nat) /\ Len(full.height) = Len(full.nodes)
      /\ \A i \in DOMAIN a.nodes : both[i] = a.nodes[i] /\ full.height[i] = a.height[i]
      /\ \A k \in DOMAIN b.nodes : both[k + la] = b.nodes[k] /\ full.height[k + la] = b.height[k]
      /\ \A i \in DOMAIN full.nodes : i \notin DOMAIN a.nodes =>
            \E k \in DOMAIN b.nodes : i = k + la
  <2> DEFINE an == a.nodes
             bn == b.nodes
             fn == full.nodes
             x == a.height
             y == b.height
  <2>1. /\ an \in Seq(Node) /\ bn \in Seq(Node) /\ fn \in Seq(Node)
        /\ DOMAIN fn = DOMAIN (an \o bn)
        /\ x \in Seq(Nat) /\ y \in Seq(Nat) /\ Len(x) = Len(an) /\ Len(y) = Len(bn)
    BY <1>6, <1>7, <1>8
  <2> HIDE DEF an, bn, fn, x, y
  <2>2. /\ x \o y \in Seq(Nat) /\ Len(x \o y) = Len(fn)
        /\ \A i \in DOMAIN an : (an \o bn)[i] = an[i] /\ (x \o y)[i] = x[i]
        /\ \A k \in DOMAIN bn : (an \o bn)[k + Len(an)] = bn[k] /\ (x \o y)[k + Len(an)] = y[k]
        /\ \A i \in DOMAIN fn : i \notin DOMAIN an => \E k \in DOMAIN bn : i = k + Len(an)
    <3>1. Len(fn) = Len(an) + Len(bn)
      BY <2>1, LengthOfBoth
    <3>2. /\ x \o y \in Seq(Nat) /\ Len(x \o y) = Len(x) + Len(y)
          /\ \A i \in 1 .. Len(x) : (x \o y)[i] = x[i]
          /\ \A k \in 1 .. Len(y) : (x \o y)[k + Len(x)] = y[k]
      BY <2>1, ConcatHeights
    <3>3. /\ \A i \in DOMAIN an : (an \o bn)[i] = an[i]
          /\ \A k \in DOMAIN bn : (an \o bn)[k + Len(an)] = bn[k]
          /\ \A i \in DOMAIN (an \o bn) : i \notin DOMAIN an =>
                \E k \in DOMAIN bn : i = k + Len(an)
      BY <2>1, ConcatPositions
    <3>4. DOMAIN an = 1 .. Len(an) /\ DOMAIN bn = 1 .. Len(bn)
      BY <2>1, LenProperties
    <3>5. QED
      BY <2>1, <3>1, <3>2, <3>3, <3>4
  <2>3. full.height = x \o y
    BY <1>2 DEF x, y
  <2>4. QED
    BY <2>2, <2>3, Zenon DEF an, bn, fn, x, y
<1> HIDE DEF both, la
<1>12. ASSUME NEW i \in DOMAIN full.nodes, NEW t \in Spans, ServiceOf[t] = full.nodes[i].name
       PROVE  full.height[i] = HeightIn(S, t)
  <2>1. CASE i \in DOMAIN a.nodes
    <3>1. ServiceOf[t] = a.nodes[i].name /\ full.height[i] = a.height[i]
      BY <1>7, <1>9, <1>12, <2>1
    <3>2. QED
      BY <2>1, <3>1 DEF Knows
  <2>2. CASE i \notin DOMAIN a.nodes
    <3>1. PICK k \in DOMAIN b.nodes : i = k + la
      BY <1>7, <1>9, <2>2
    <3>2. ServiceOf[t] = b.nodes[k].name /\ full.height[i] = b.height[k]
      BY <1>7, <1>9, <1>12, <3>1
    <3>3. QED
      BY <3>2 DEF Knows
  <2>3. QED
    BY <2>1, <2>2
<1>13. NamesIn(full.nodes) \subseteq {ServiceOf[t] : t \in S}
  BY <1>5 DEF Knows
<1>14. Knows(full, C \cup D, S)
  BY <1>4, <1>9, <1>12, <1>13 DEF Knows
<1>15. QED
  BY <1>14 DEF full

(* What the response hook leaves of the graph and the heights. *)
LEMMA AddMyNodeIs ==
    ASSUME NEW data, IsData(data), NEW n \in Services
    PROVE  /\ IsData(AddMyNode(n, data))
           /\ SameGraph(AddMyNode(n, data), AddMe(Graph(data), n))
           /\ AddMyNode(n, data).height = Append(data.height, NoValue)
           /\ AddMyNode(n, data).set_s = data.set_s
           /\ AddMyNode(n, data).found_match = data.found_match
<1> DEFINE g == AddMe(Graph(data), n)
           w == WithGraph(data, g)
           full == AddMyNode(n, data)
<1>1. Graph(data) \in FerriedDataType /\ SameGraph(Graph(data), data)
  BY GraphIs
<1>2. AddMe(data, n) = g
  BY <1>1 DEF AddMe, Roots, SameGraph
<1>3. g \in FerriedDataType
  BY <1>1, AddMeType
<1> HIDE DEF g
<1>4. w \in [nodes : {g.nodes}, edges : {g.edges}, unassigned : {g.unassigned},
             height : {data.height}, found_match : {data.found_match}, set_s : {data.set_s}]
  BY WithGraphIs
<1>5. full = [w EXCEPT !.height = Append(@, NoValue)]
  BY <1>2 DEF AddMyNode
<1> HIDE DEF w, full
<1>6. full \in [nodes : {g.nodes}, edges : {g.edges}, unassigned : {g.unassigned},
                height : {Append(data.height, NoValue)}, found_match : {data.found_match},
                set_s : {data.set_s}]
  BY <1>4, <1>5
<1>7. IsData(full) /\ SameGraph(full, g)
  BY <1>3, <1>6, IsDataFields
<1>8. QED
  BY <1>6, <1>7 DEF full, g

LEMMA AppendHeight ==
    ASSUME NEW hs \in Seq(Nat), NEW h \in Nat, NEW m, m = Len(hs) + 1
    PROVE  /\ [Append(hs, NoValue) EXCEPT ![m] = h] \in Seq(Nat)
           /\ Len([Append(hs, NoValue) EXCEPT ![m] = h]) = m
           /\ \A i \in 1 .. Len(hs) : [Append(hs, NoValue) EXCEPT ![m] = h][i] = hs[i]
           /\ [Append(hs, NoValue) EXCEPT ![m] = h][m] = h
           /\ \A i \in 1 .. Len(hs) : Append(hs, NoValue)[i] = hs[i]
<1> DEFINE T == Nat \cup {NoValue}
           longer == Append(hs, NoValue)
           new == [longer EXCEPT ![m] = h]
<1>1. hs \in Seq(T) /\ NoValue \in T
  <2>1. Nat \subseteq T
    OBVIOUS
  <2> HIDE DEF T
  <2>2. hs \in Seq(T)
    BY <2>1
  <2>3. QED
    BY <2>2 DEF T
<1> HIDE DEF T
<1>2. /\ longer \in Seq(T) /\ Len(longer) = m /\ Len(hs) \in Nat
      /\ \A i \in 1 .. Len(hs) : longer[i] = hs[i]
      /\ DOMAIN longer = 1 .. m
  BY <1>1, AppendProperties
<1>3. \A i \in 1 .. Len(hs) : hs[i] \in Nat
  OBVIOUS
<1> HIDE DEF longer
<1>4. /\ new = [i \in 1 .. m |-> new[i]] /\ new[m] = h
      /\ \A i \in 1 .. m : i # m => i \in 1 .. Len(hs) /\ new[i] = longer[i]
  <2>1. m \in 1 .. m /\ \A i \in 1 .. m : i # m => i \in 1 .. Len(hs)
    BY <1>2
  <2>2. new = [i \in 1 .. m |-> IF i = m THEN h ELSE longer[i]]
    BY <1>2
  <2> HIDE DEF new
  <2>3. QED
    BY <2>1, <2>2
<1> HIDE DEF new
<1>5. \A i \in 1 .. m : new[i] \in Nat
  BY <1>2, <1>3, <1>4
<1>6. m \in Nat /\ new \in [1 .. m -> Nat]
  BY <1>2, <1>4, <1>5
<1>7. new \in Seq(Nat) /\ Len(new) = m
  BY <1>6
<1>8. \A i \in 1 .. Len(hs) : i \in 1 .. m /\ i # m
  BY <1>2
<1>9. QED
  BY <1>2, <1>4, <1>7, <1>8 DEF new, longer

(* A service's response knows of its whole call: its node gets its property *)
(* and its height, from those of the nodes of its callees.                 *)
LEMMA ResponseKnows ==
    ASSUME DistinctServices, FewSpans, NEW S \in SUBSET Spans, NEW s \in S,
           \A c \in S \ {RootSpan} : Parent[c] \in S,
           NEW data, Kept(data), Carries(data, Children(s) \cap S),
           Knows(data, Children(s) \cap S, S), OwnWaits(data, ServiceOf[s])
    PROVE  Knows(ExecuteUdfs(ServiceOf[s], AddMyNode(ServiceOf[s], data)), {s}, S)
<1> DEFINE C == Children(s) \cap S
           n == ServiceOf[s]
           fd == Graph(data)
           g == AddMe(fd, n)
           mine == AddMyNode(n, data)
           k == Len(fd.nodes)
           me == GetNodeWithId(mine.nodes, n)
           child_values == {mine.height[e[2]] : e \in {x \in mine.edges : x[1] = me}}
           full == ExecuteUdfs(n, mine)
<1>1. s \in Spans /\ n \in Services /\ \A c \in C : c \in Spans
  BY CallerType
<1>2. /\ fd \in FerriedDataType /\ SameGraph(fd, data) /\ Owned(fd) /\ Carries(fd, C)
      /\ \A c, t : Tells(fd, c, t) <=> Tells(data, c, t)
      /\ OwnWaits(fd, n) /\ NamesIn(fd.nodes) = NamesIn(data.nodes)
  <2>1. fd \in FerriedDataType /\ SameGraph(fd, data)
    BY GraphIs DEF Kept
  <2>2. QED
    BY <2>1, SameGraphCarries, SameTells DEF Kept
<1>3. /\ IsData(mine) /\ SameGraph(mine, g) /\ mine.height = Append(data.height, NoValue)
      /\ g \in FerriedDataType
  BY <1>1, <1>2, AddMyNodeIs, AddMeType DEF Kept
<1>4. IsData(full) /\ SameGraph(full, mine) /\ Kept(mine) /\ Carries(mine, {s})
  BY <1>1, <1>3, ExecuteUdfsKeeps, AddMyNodeCarries
<1>5. full.height = [mine.height EXCEPT ![me] = Height(child_values)]
  <2> DEFINE x == [mine.height EXCEPT ![me] = Height(child_values)]
  <2>1. full = [mine EXCEPT !.height = x]
    BY <1>3 DEF ExecuteUdfs, IsData
  <2> HIDE DEF x, full, mine
  <2>2. QED
    BY <1>3, <2>1 DEF IsData, x
<1> HIDE DEF fd, mine, child_values, full
<1>6. /\ k \in Nat /\ DOMAIN fd.nodes = 1 .. k /\ DOMAIN g.nodes = 1 .. k + 1
      /\ g.nodes \in Seq(Node) /\ g.nodes[k + 1].name = n
      /\ \A i \in DOMAIN fd.nodes : g.nodes[i].name = fd.nodes[i].name
      /\ g.edges = fd.edges \cup {<<k + 1, r>> : r \in Roots(fd)}
  BY <1>1, <1>2, AddMeNodes
<1>7. NamesIn(g.nodes) = NamesIn(fd.nodes) \cup {n}
  BY <1>1, <1>2, AddMeNames
<1>8. Sound(fd, Below[s] \ {s})
  <2>1. UNION {Below[c] : c \in C} \subseteq Below[s] \ {s}
    BY <1>1, BelowChildren
  <2>2. QED
    BY <1>2, <2>1, SoundMonotone DEF Carries
<1>9. ASSUME NEW t \in Below[s] \cap S
      PROVE  Tells(g, s, t)
  <2>1. ASSUME t # s
        PROVE  \E c \in Children(s) : Tells(fd, c, t)
    <3>1. PICK c \in Children(s) : t \in Below[c]
      BY <1>1, <2>1, BelowSplit
    <3>2. c \in S
      <4> DEFINE T == {x \in Spans : c \notin S => x \notin S}
      <4>1. c \in T /\ T \in SUBSET Spans /\ c \in Spans
        BY DEF Children
      <4>2. \A e \in Spans \ {RootSpan} : Parent[e] \in T => e \in T
        BY TraceAssumption
      <4> HIDE DEF T
      <4>3. Below[c] \subseteq T
        BY <4>1, <4>2, BelowWithin
      <4>4. QED
        BY <3>1, <4>3 DEF T
    <3>3. QED
      BY <1>2, <3>1, <3>2 DEF Knows
  <2>2. QED
    BY <1>1, <1>2, <1>8, <2>1, AddMeTells DEF OwnWaits
<1> HIDE DEF g
<1>10. \A i \in DOMAIN fd.nodes : fd.nodes[i].name # n
  <2> SUFFICES ASSUME NEW i \in DOMAIN fd.nodes, fd.nodes[i].name = n
               PROVE  FALSE
    OBVIOUS
  <2>1. PICK t \in Below[s] \ {s} : ServiceOf[t] = fd.nodes[i].name
    BY <1>8 DEF Sound
  <2>2. QED
    BY <1>1, <2>1, BelowClosed DEF DistinctServices
<1>11. me = k + 1 /\ mine.nodes = g.nodes /\ mine.edges = g.edges
  <2>1. mine.nodes = g.nodes /\ mine.edges = g.edges
    BY <1>3 DEF SameGraph
  <2>2. me \in DOMAIN g.nodes /\ g.nodes[me].name = n
    BY <1>6, <1>7, <2>1, GetNodeWithIdFinds
  <2>3. me \in DOMAIN fd.nodes \/ me = k + 1
    BY <1>6, <2>2
  <2>4. QED
    BY <1>6, <1>10, <2>1, <2>2, <2>3
<1> HIDE DEF me
<1>12. /\ data.height \in Seq(Nat) /\ Len(data.height) = k
       /\ \A i \in 1 .. k : mine.height[i] = data.height[i]
       /\ \A i \in DOMAIN fd.nodes : \A t \in Spans :
            ServiceOf[t] = fd.nodes[i].name => data.height[i] = HeightIn(S, t)
  <2>1. fd.nodes = data.nodes
    BY <1>2 DEF SameGraph
  <2>2. /\ data.height \in Seq(Nat) /\ Len(data.height) = k
        /\ \A i \in DOMAIN fd.nodes : \A t \in Spans :
             ServiceOf[t] = fd.nodes[i].name => data.height[i] = HeightIn(S, t)
    BY <2>1 DEF Knows
  <2>3. \A i \in 1 .. k : mine.height[i] = data.height[i]
    BY <1>3, <2>2, AppendHeight
  <2>4. QED
    BY <2>2, <2>3
<1>13. child_values = {HeightIn(S, c) : c \in C}
  <2>1. ASSUME NEW e \in mine.edges, e[1] = me
        PROVE  \E c \in C : mine.height[e[2]] = HeightIn(S, c)
    <3>1. e \notin fd.edges
      BY <1>6, <1>8, <1>11, <2>1 DEF Sound
    <3>2. PICK r \in Roots(fd) : e = <<k + 1, r>>
      BY <1>6, <1>11, <3>1
    <3>3. PICK c \in C : fd.nodes[r].name = ServiceOf[c]
      BY <1>2 DEF Carries
    <3>4. r \in DOMAIN fd.nodes /\ e[2] = r
      BY <3>2 DEF Roots
    <3>5. mine.height[e[2]] = HeightIn(S, c)
      BY <1>1, <1>6, <1>12, <3>3, <3>4
    <3>6. QED
      BY <3>5
  <2>2. ASSUME NEW c \in C
        PROVE  \E e \in mine.edges : e[1] = me /\ mine.height[e[2]] = HeightIn(S, c)
    <3>1. c \in Below[c] /\ c \in Spans
      BY <1>1, BelowClosed
    <3>2. PICK j \in DOMAIN fd.nodes : fd.nodes[j].name = ServiceOf[c]
      <4>1. Tells(fd, c, c)
        BY <1>2, <3>1 DEF Knows
      <4>2. QED
        BY <4>1 DEF Tells
    <3>3. ASSUME NEW e \in fd.edges, e[2] = j
          PROVE  FALSE
      <4>1. PICK d \in Spans \ {RootSpan} :
              /\ e[1] \in DOMAIN fd.nodes
              /\ fd.nodes[e[1]].name = Caller(d) /\ fd.nodes[e[2]].name = ServiceOf[d]
        BY <1>8 DEF Sound
      <4>2. d = c
        BY <3>1, <3>2, <3>3, <4>1 DEF DistinctServices
      <4>3. fd.nodes[e[1]].name = n
        BY <4>1, <4>2 DEF Children, Caller
      <4>4. QED
        BY <1>10, <4>1, <4>3
    <3>4. j \in Roots(fd)
      BY <3>3 DEF Roots
    <3> DEFINE e == <<k + 1, j>>
    <3>5. e \in mine.edges /\ e[1] = me /\ e[2] = j
      BY <1>6, <1>11, <3>4
    <3> HIDE DEF e
    <3>6. mine.height[j] = HeightIn(S, c)
      BY <1>6, <1>12, <3>1, <3>2
    <3>7. QED
      BY <3>5, <3>6
  <2>3. QED
    BY <2>1, <2>2 DEF child_values
<1> DEFINE h == HeightIn(S, s)
<1>14. Height(child_values) = h /\ h \in Nat
  <2>1. h \in 0 .. Cardinality(Spans) /\ h = Height({HeightIn(S, c) : c \in Children(s) \cap S})
    BY HeightStep
  <2>2. Cardinality(Spans) \in Nat
    BY <1>1, DepthIs
  <2> HIDE DEF h
  <2>3. QED
    BY <1>13, <2>1, <2>2
<1> HIDE DEF h
<1>15. /\ full.height \in Seq(Nat) /\ Len(full.height) = k + 1 /\ full.height[k + 1] = h
       /\ \A i \in 1 .. k : full.height[i] = data.height[i]
  <2>1. full.height = [Append(data.height, NoValue) EXCEPT ![k + 1] = h]
    BY <1>3, <1>5, <1>11, <1>14
  <2>2. QED
    BY <1>12, <1>14, <2>1, AppendHeight
<1>16. full.nodes = g.nodes /\ SameGraph(full, g)
  BY <1>3, <1>4 DEF SameGraph
<1>17. ASSUME NEW i \in DOMAIN full.nodes, NEW t \in Spans, ServiceOf[t] = full.nodes[i].name
       PROVE  full.height[i] = HeightIn(S, t)
  <2>1. CASE i = k + 1
    <3>1. t = s
      BY <1>1, <1>6, <1>16, <1>17, <2>1 DEF DistinctServices
    <3>2. QED
      BY <1>15, <2>1, <3>1 DEF h
  <2>2. CASE i # k + 1
    <3>1. i \in DOMAIN fd.nodes /\ i \in 1 .. k
      BY <1>6, <1>16, <2>2
    <3>2. ServiceOf[t] = fd.nodes[i].name
      BY <1>6, <1>16, <1>17, <3>1
    <3>3. QED
      BY <1>12, <1>15, <3>1, <3>2
  <2>3. QED
    BY <2>1, <2>2
<1>18. Len(full.nodes) = k + 1
  BY <1>6, <1>16
<1>19. NamesIn(full.nodes) \subseteq {ServiceOf[t] : t \in S}
  BY <1>2, <1>7, <1>16 DEF Knows
<1>20. \A t \in Below[s] \cap S : Tells(full, s, t)
  BY <1>9, <1>16, SameTells
<1>21. Knows(full, {s}, S)
  BY <1>15, <1>17, <1>18, <1>19, <1>20 DEF Knows
<1>22. QED
  BY <1>21 DEF full, mine

-----------------------------------------------------------------------------
(* The inductive invariant behind HeightsRight: nothing more is called       *)
(* during a call that was answered, so a response, and what was stored of    *)
(* responses, goes on to know all there is to it.                           *)
Answered(s) == phase[s] \in {"responded", "done"}

Settled == \A s \in Spans : Answered(s) => \A c \in Children(s) : phase[c] \in {"idle", "done"}

RequestsLow ==
    \A s \in Spans : ~ Answered(s) /\ header[s] # NoValue => header[s].height = <<>>

ResponsesKnow == \A s \in Spans : Answered(s) => Knows(header[s], {s}, CalledSpans)

SharedKnow ==
    \A s \in Spans : shared[ServiceOf[s]] # NoValue =>
        /\ Knows(shared[ServiceOf[s]], Fetched(s), CalledSpans)
        /\ OwnWaits(shared[ServiceOf[s]], ServiceOf[s])

KnowInv == SimInv /\ Settled /\ RequestsLow /\ ResponsesKnow /\ SharedKnow

LEMMA AnsweredCalled == \A s \in Spans : Answered(s) => s \in CalledSpans
BY DEF Answered, CalledSpans

LEMMA SimCallers == SimInv => CallersCalled
<1> SUFFICES ASSUME SimInv, NEW c \in CalledSpans \ {RootSpan}
             PROVE  Parent[c] \in CalledSpans
  BY DEF CallersCalled
<1>1. c \in Spans /\ c \in Children(Parent[c]) /\ Parent[c] \in Spans
  BY ChildrenOfSpans DEF CalledSpans
<1>2. QED
  BY <1>1 DEF SimInv, StoredOnceServed, Unserved, CalledSpans

LEMMA BelowSettled ==
    ASSUME SimInv, Settled, NEW s \in Spans, Answered(s), NEW t \in Below[s]
    PROVE  phase[t] \in {"idle", "responded", "done"}
<1> DEFINE S == {x \in Spans : phase[x] \in {"idle", "responded", "done"}}
<1>1. S \in SUBSET Spans /\ s \in S
  BY DEF Answered
<1>2. ASSUME NEW e \in Spans \ {RootSpan}, Parent[e] \in S
      PROVE  e \in S
  <2>1. e \in Children(Parent[e]) /\ Parent[e] \in Spans
    BY ChildrenOfSpans
  <2>2. QED
    BY <1>2, <2>1 DEF SimInv, StoredOnceServed, Unserved, Settled, Answered
<1> HIDE DEF S
<1>3. Below[s] \subseteq S
  BY <1>1, <1>2, BelowWithin
<1>4. QED
  BY <1>3 DEF S

(* A call is made during one that is served, so none that was answered has  *)
(* more below it.                                                          *)
LEMMA CallsElsewhere ==
    ASSUME SimInv, Settled, NEW s \in Spans, phase[s] = "idle",
           s # RootSpan => phase[Parent[s]] = "serving",
           phase' = [phase EXCEPT ![s] = "called"]
    PROVE  /\ CalledSpans' = CalledSpans \cup {s}
           /\ \A c \in Spans : Answered(c) => Below[c] \cap CalledSpans' \subseteq CalledSpans
           /\ \A t \in Spans : Answered(t)' <=> Answered(t)
           /\ \A t \in Spans : Fetched(t)' = Fetched(t)
<1>1. phase \in [Spans -> SimPhases]
  BY DEF SimInv, Shape
<1>2. CalledSpans' = CalledSpans \cup {s}
  BY <1>1 DEF CalledSpans
<1>3. ASSUME NEW c \in Spans, Answered(c), s \in Below[c]
      PROVE  FALSE
  <2>1. s # c
    BY <1>3 DEF Answered
  <2>2. s # RootSpan /\ Parent[s] \in Below[c]
    BY <1>3, <2>1, ParentBelow
  <2>3. phase[Parent[s]] \in {"idle", "responded", "done"}
    BY <1>3, <2>2, BelowSettled
  <2>4. QED
    BY <2>2, <2>3
<1>4. \A t \in Spans : Answered(t)' <=> Answered(t)
  BY <1>1 DEF Answered
<1>5. \A t \in Spans : Fetched(t)' = Fetched(t)
  BY <1>1 DEF Fetched, Children
<1>6. QED
  BY <1>2, <1>3, <1>4, <1>5

LEMMA FetchedAnswered ==
    ASSUME NEW s \in Spans
    PROVE  Fetched(s) \in SUBSET Spans /\ \A c \in Fetched(s) : Answered(c)
BY DEF Fetched, Answered, Children

LEMMA EarlyKnows ==
    ASSUME DistinctServices, KnowInv, NEW s \in Spans,
           phase[s] = "idle", s # RootSpan => phase[Parent[s]] = "serving",
           phase' = [phase EXCEPT ![s] = "called"],
           \A t \in Spans : t # s => header'[t] = header[t],
           header'[s] # NoValue => header'[s].height = <<>>,
           shared' = shared, SimInv'
    PROVE  KnowInv'
<1>1. /\ CalledSpans' = CalledSpans \cup {s}
      /\ \A c \in Spans : Answered(c) => Below[c] \cap CalledSpans' \subseteq CalledSpans
      /\ \A t \in Spans : Answered(t)' <=> Answered(t)
      /\ \A t \in Spans : Fetched(t)' = Fetched(t)
      /\ SimInv /\ Settled /\ phase \in [Spans -> SimPhases]
  BY CallsElsewhere DEF KnowInv, SimInv, Shape
<1>2. ~ Answered(s)
  BY DEF Answered
<1>3. Settled'
  <2> SUFFICES ASSUME NEW t \in Spans, Answered(t), NEW c \in Children(t)
               PROVE  phase'[c] \in {"idle", "done"}
    BY <1>1 DEF Settled, Children
  <2>1. phase[c] \in {"idle", "done"} /\ c \in Spans \ {RootSpan} /\ Parent[c] = t
    BY <1>1, ChildrenOfSpans DEF Settled
  <2>2. c # s
    BY <2>1 DEF Answered
  <2>3. QED
    BY <1>1, <2>1, <2>2
<1>4. RequestsLow'
  <2> SUFFICES ASSUME NEW t \in Spans, ~ Answered(t)', header'[t] # NoValue
               PROVE  header'[t].height = <<>>
    BY DEF RequestsLow
  <2>1. QED
    BY <1>1 DEF KnowInv, RequestsLow
<1>5. ResponsesKnow'
  <2> SUFFICES ASSUME NEW t \in Spans, Answered(t)
               PROVE  Knows(header[t], {t}, CalledSpans')
    BY <1>1, <1>2 DEF ResponsesKnow
  <2>1. Knows(header[t], {t}, CalledSpans) /\ Carries(header[t], {t})
    BY DEF KnowInv, ResponsesKnow, SimInv, ResponsesCarry, Answered
  <2>2. CalledSpans \subseteq CalledSpans' /\ {t} \in SUBSET Spans
        /\ \A c \in {t} : Below[c] \cap CalledSpans' \subseteq CalledSpans
    BY <1>1
  <2>3. QED
    BY <2>1, <2>2, KnowsKept
<1>6. SharedKnow'
  <2> SUFFICES ASSUME NEW t \in Spans, shared[ServiceOf[t]] # NoValue
               PROVE  /\ Knows(shared[ServiceOf[t]], Fetched(t), CalledSpans')
                      /\ OwnWaits(shared[ServiceOf[t]], ServiceOf[t])
    BY <1>1 DEF SharedKnow
  <2>1. /\ Knows(shared[ServiceOf[t]], Fetched(t), CalledSpans)
        /\ Carries(shared[ServiceOf[t]], Fetched(t))
        /\ OwnWaits(shared[ServiceOf[t]], ServiceOf[t])
    BY DEF KnowInv, SharedKnow, SimInv, SharedCarry
  <2>2. CalledSpans \subseteq CalledSpans' /\ Fetched(t) \in SUBSET Spans
        /\ \A c \in Fetched(t) : Below[c] \cap CalledSpans' \subseteq CalledSpans
    BY <1>1, FetchedAnswered
  <2>3. QED
    BY <2>1, <2>2, KnowsKept
<1>7. QED
  BY <1>3, <1>4, <1>5, <1>6 DEF KnowInv

LEMMA OnOutgoingRequestsKnows ==
    ASSUME DistinctServices, Detached = {}, KnowInv, NEW s \in Spans, OnOutgoingRequests(s), SimInv'
    PROVE  KnowInv'
<1>1. /\ s # RootSpan /\ phase[s] = "idle" /\ phase[Parent[s]] = "serving"
      /\ phase' = [phase EXCEPT ![s] = "called"] /\ shared' = shared /\ DOMAIN header = Spans
  BY DEF OnOutgoingRequests, Requested, KnowInv, SimInv, Shape
<1>2. Parent[s] \in Spans /\ Caller(s) = ServiceOf[Parent[s]]
  BY <1>1, ChildrenOfSpans DEF Caller
<1>3. shared[Caller(s)] # NoValue
  BY <1>1, <1>2 DEF KnowInv, SimInv, StoredOnceServed, Unserved
<1>4. PICK x \in {NoValue, header[Parent[s]]} : header' = [header EXCEPT ![s] = x]
  BY <1>3 DEF OnOutgoingRequests, MergeHeaders
<1>5. x # NoValue => x.height = <<>>
  BY <1>1, <1>2, <1>4 DEF KnowInv, RequestsLow, Answered
<1>6. header'[s] = x /\ \A t \in Spans : t # s => header'[t] = header[t]
  BY <1>1, <1>4
<1>7. QED
  BY <1>1, <1>5, <1>6, EarlyKnows

LEMMA EnterKnows ==
    ASSUME DistinctServices, KnowInv, Enter, SimInv'
    PROVE  KnowInv'
<1>1. RootSpan \in Spans /\ phase[RootSpan] = "idle"
      /\ phase' = [phase EXCEPT ![RootSpan] = "called"] /\ shared' = shared /\ header' = header
  BY TraceAssumption DEF Enter
<1>2. header[RootSpan] # NoValue => header[RootSpan].height = <<>>
  BY <1>1 DEF KnowInv, RequestsLow, Answered
<1>3. QED
  BY <1>1, <1>2, EarlyKnows

LEMMA MergeDataWaits ==
    ASSUME NEW a, NEW b, IsData(a), IsData(b), NEW n,
           n \notin NamesIn(a.nodes), n \notin NamesIn(b.nodes), OwnWaits(a, n)
    PROVE  OwnWaits(MergeData(a, b), n)
<1>1. /\ Graph(a) \in FerriedDataType /\ SameGraph(Graph(a), a)
      /\ Graph(b) \in FerriedDataType /\ SameGraph(Graph(b), b)
  BY GraphIs
<1>2. OwnWaits(Merge(Graph(a), Graph(b)), n)
  BY <1>1, SameTells, MergeWaits
<1>3. QED
  BY <1>2, MergeDataIs, SameTells

LEMMA OnIncomingRequestsKnows ==
    ASSUME DistinctServices, NoneIsNoData, KnowInv, NEW s \in Spans, OnIncomingRequests(s), SimInv'
    PROVE  KnowInv'
<1> DEFINE n == ServiceOf[s]
           fetched == IF header[s] = NoValue THEN DefaultData ELSE header[s]
           x == CollectEnvoyProperties(n, fetched)
           m == MergeData(x, x)
<1>1. /\ phase[s] = "called" /\ n \in Services
      /\ phase \in [Spans -> SimPhases] /\ DOMAIN header = Spans /\ DOMAIN shared = Services
      /\ shared[n] = NoValue /\ \A c \in Children(s) : phase[c] = "idle"
  BY CallerType DEF OnIncomingRequests, KnowInv, SimInv, Shape, StoredOnceServed, Unserved
<1>2. Kept(fetched) /\ Bare(fetched) /\ fetched.height = <<>>
  <2>1. header[s] # NoValue => Kept(header[s]) /\ Bare(header[s]) /\ header[s].height = <<>>
    BY <1>1 DEF KnowInv, SimInv, Shape, RequestsBare, RequestsLow, Answered
  <2>2. DefaultData.height = <<>>
    BY DEF DefaultData
  <2>3. QED
    BY <2>1, <2>2, DefaultIsBare
<1> HIDE DEF fetched
<1>3. Kept(x) /\ Bare(x) /\ x # NoValue /\ x.height = <<>> /\ OwnWaits(x, n)
  <2>1. Kept(x) /\ Bare(x)
    BY <1>1, <1>2, CollectedIsBare
  <2>2. x.height = fetched.height
        /\ x.unassigned = fetched.unassigned \cup {[entity |-> n, value |-> PropertyOf[n]]}
    BY <1>2 DEF CollectEnvoyProperties, Kept, IsData
  <2>3. OwnWaits(x, n)
    <3> DEFINE p == [entity |-> n, value |-> PropertyOf[n]]
    <3>1. p \in x.unassigned /\ p.entity = n
      BY <2>2
    <3> HIDE DEF p, x
    <3>2. QED
      BY <3>1 DEF OwnWaits
  <2> HIDE DEF x
  <2>4. QED
    BY <1>2, <2>1, <2>2, <2>3 DEF Kept, NoneIsNoData
<1>4. /\ header' = [header EXCEPT ![s] = x] /\ shared' = [shared EXCEPT ![n] = m]
      /\ phase' = [phase EXCEPT ![s] = "serving"]
  <2>1. header' = [header EXCEPT ![s] = x] /\ StoreHeaders(n, header'[s])
        /\ phase' = [phase EXCEPT ![s] = "serving"]
    BY DEF OnIncomingRequests, fetched
  <2>2. header'[s] = x
    BY <1>1, <2>1
  <2> HIDE DEF x
  <2>3. StoreHeaders(n, x)
    BY <2>1, <2>2
  <2>4. QED
    BY <1>1, <1>3, <2>1, <2>3 DEF StoreHeaders
<1> HIDE DEF x
<1>5. /\ phase'[s] = "serving" /\ header'[s] = x /\ shared'[n] = m
      /\ \A t \in Spans : t # s => phase'[t] = phase[t] /\ header'[t] = header[t]
                                   /\ shared'[ServiceOf[t]] = shared[ServiceOf[t]]
  BY <1>1, <1>4, CallerType DEF DistinctServices
<1>6. \A S : Knows(m, {}, S)
  <2> SUFFICES ASSUME NEW S
               PROVE  Knows(m, {}, S)
    OBVIOUS
  <2>1. Carries(x, {})
    BY <1>3, EmptyCarries DEF Bare
  <2>2. Knows(x, {}, S)
    <3>1. NamesIn(x.nodes) = {} /\ DOMAIN x.nodes = {} /\ x.height \in Seq(Nat)
          /\ Len(x.height) = Len(x.nodes)
      BY <1>3 DEF Bare, NamesIn
    <3>2. QED
      BY <3>1 DEF Knows
  <2>3. Knows(m, {} \cup {}, S)
    BY <1>3, <2>1, <2>2, MergeDataKnows
  <2>4. QED
    BY <2>3
<1>7. OwnWaits(m, n)
  <2>1. n \notin NamesIn(x.nodes)
    BY <1>3 DEF Bare, NamesIn
  <2>2. QED
    BY <1>3, <2>1, MergeDataWaits DEF Kept
<1> HIDE DEF m
<1>8. /\ CalledSpans' = CalledSpans
      /\ \A t \in Spans : Answered(t)' <=> Answered(t)
      /\ \A t \in Spans : Fetched(t)' = Fetched(t)
      /\ Fetched(s) = {}
  BY <1>1, <1>4 DEF CalledSpans, Answered, Fetched, Children
<1>9. Settled'
  <2> SUFFICES ASSUME NEW t \in Spans, Answered(t), NEW c \in Children(t)
               PROVE  phase'[c] \in {"idle", "done"}
    BY <1>8 DEF Settled, Children
  <2>1. phase[c] \in {"idle", "done"} /\ c \in Spans
    BY ChildrenOfSpans DEF KnowInv, Settled
  <2>2. QED
    BY <1>1, <1>5, <2>1
<1>10. RequestsLow'
  BY <1>3, <1>5, <1>8 DEF KnowInv, RequestsLow
<1>11. ResponsesKnow'
  <2>1. ~ Answered(s)
    BY <1>1 DEF Answered
  <2>2. QED
    BY <1>5, <1>8, <2>1 DEF KnowInv, ResponsesKnow
<1>12. SharedKnow'
  BY <1>5, <1>6, <1>7, <1>8 DEF KnowInv, SharedKnow
<1>13. QED
  BY <1>9, <1>10, <1>11, <1>12 DEF KnowInv

(* The response hook: all calls of the service have come back.             *)
LEMMA AnswersKnow ==
    ASSUME DistinctServices, FewSpans, KnowInv, NEW s \in Spans, OnOutgoingResponses(s)
    PROVE  LET mine == MergeHeaders(ServiceOf[s], "response", header[s])
               full == ExecuteUdfs(ServiceOf[s], mine)
           IN  /\ IsData(mine) /\ Kept(full) /\ Carries(full, {s}) /\ Knows(full, {s}, CalledSpans)
               /\ s \in CalledSpans /\ \A c \in CalledSpans \ {RootSpan} : Parent[c] \in CalledSpans
<1> DEFINE n == ServiceOf[s]
           stored == shared[n]
           mine == AddMyNode(n, stored)
           full == ExecuteUdfs(n, mine)
           S == CalledSpans
<1>1. /\ phase[s] = "serving" /\ phase \in [Spans -> SimPhases] /\ n \in Services
      /\ \A c \in Children(s) : phase[c] \in {"idle", "done"}
  BY CallerType DEF OnOutgoingResponses, KnowInv, SimInv, Shape
<1>2. /\ Kept(stored) /\ Carries(stored, Fetched(s)) /\ Knows(stored, Fetched(s), S)
      /\ OwnWaits(stored, n) /\ mine = MergeHeaders(n, "response", header[s])
  BY <1>1 DEF KnowInv, SimInv, Shape, StoredOnceServed, Unserved, SharedCarry, SharedKnow,
              MergeHeaders
<1> HIDE DEF stored
<1>3. /\ S \in SUBSET Spans /\ s \in S
      /\ \A c \in S \ {RootSpan} : Parent[c] \in S
      /\ Fetched(s) = Children(s) \cap S
  <2>1. S \in SUBSET Spans /\ s \in S /\ Fetched(s) = Children(s) \cap S
    BY <1>1, ChildrenOfSpans DEF CalledSpans, Fetched
  <2>2. QED
    BY <2>1, SimCallers DEF KnowInv, CallersCalled
<1> HIDE DEF S
<1>4. Knows(full, {s}, S)
  BY <1>2, <1>3, ResponseKnows
<1>5. IsData(mine) /\ Kept(mine) /\ Carries(mine, {s})
  <2>1. Fetched(s) \in SUBSET Children(s)
    BY DEF Fetched
  <2>2. Kept(mine) /\ Carries(mine, {s})
    BY <1>2, <2>1, AddMyNodeCarries
  <2>3. QED
    BY <2>2 DEF Kept
<1> HIDE DEF mine
<1>6. IsData(full) /\ SameGraph(full, mine)
  BY <1>5, ExecuteUdfsKeeps
<1> HIDE DEF full
<1>7. Kept(full) /\ Carries(full, {s})
  BY <1>5, <1>6, SameGraphCarries DEF Kept
<1>8. QED
  BY <1>2, <1>3, <1>4, <1>5, <1>7 DEF full, S

LEMMA OnOutgoingResponsesKnows ==
    ASSUME DistinctServices, NoneIsNoData, FewSpans, KnowInv, NEW s \in Spans,
           OnOutgoingResponses(s), SimInv'
    PROVE  KnowInv'
<1> DEFINE n == ServiceOf[s]
           mine == MergeHeaders(n, "response", header[s])
           full == ExecuteUdfs(n, mine)
<1>1. /\ phase[s] = "serving" /\ phase' = [phase EXCEPT ![s] = "responded"]
      /\ phase \in [Spans -> SimPhases] /\ DOMAIN header = Spans
      /\ shared' = shared
      /\ \A c \in Children(s) : phase[c] \in {"idle", "done"}
  BY DEF OnOutgoingResponses, KnowInv, SimInv, Shape
<1>2. IsData(mine) /\ Knows(full, {s}, CalledSpans)
  BY AnswersKnow
<1>3. SameGraph(full, mine)
  BY <1>2, ExecuteUdfsKeeps
<1>4. PICK data : /\ header' = [header EXCEPT ![s] = data]
                  /\ IsData(data) /\ SameGraph(data, mine)
                  /\ data.height = full.height
  BY <1>2, ResponseSends
<1> HIDE DEF full, mine
<1>5. Knows(data, {s}, CalledSpans)
  <2>1. SameGraph(full, data) /\ full.height = data.height
    BY <1>3, <1>4 DEF SameGraph
  <2>2. QED
    BY <1>2, <2>1, SameKnows
<1>6. /\ phase'[s] = "responded" /\ header'[s] = data
      /\ \A t \in Spans : t # s => phase'[t] = phase[t] /\ header'[t] = header[t]
  BY <1>1, <1>4
<1>7. /\ CalledSpans' = CalledSpans
      /\ \A t \in Spans : t # s => (Answered(t)' <=> Answered(t))
      /\ Answered(s)'
      /\ \A t \in Spans : Fetched(t)' = Fetched(t)
  <2>1. CalledSpans' = CalledSpans
    BY <1>1 DEF CalledSpans
  <2>2. \A t \in Spans : Fetched(t)' = Fetched(t)
    BY <1>1 DEF Fetched, Children
  <2>3. /\ \A t \in Spans : t # s => (Answered(t)' <=> Answered(t))
        /\ Answered(s)'
    BY <1>6 DEF Answered
  <2>4. QED
    BY <2>1, <2>2, <2>3
<1>8. Settled'
  <2> SUFFICES ASSUME NEW t \in Spans, Answered(t)', NEW c \in Children(t)
               PROVE  phase'[c] \in {"idle", "done"}
    BY DEF Settled, Children
  <2>1. phase[c] \in {"idle", "done"} /\ c \in Spans
    BY <1>1, <1>7, ChildrenOfSpans DEF KnowInv, Settled
  <2>2. QED
    BY <1>1, <1>6, <2>1
<1>9. RequestsLow'
  <2> SUFFICES ASSUME NEW t \in Spans, ~ Answered(t)', header'[t] # NoValue
               PROVE  header'[t].height = <<>>
    BY DEF RequestsLow
  <2>1. QED
    BY <1>6, <1>7 DEF KnowInv, RequestsLow
<1>10. ResponsesKnow'
  BY <1>5, <1>6, <1>7 DEF KnowInv, ResponsesKnow
<1>11. SharedKnow'
  <2> SUFFICES ASSUME NEW t \in Spans, shared[ServiceOf[t]] # NoValue
               PROVE  /\ Knows(shared[ServiceOf[t]], Fetched(t)', CalledSpans)
                      /\ OwnWaits(shared[ServiceOf[t]], ServiceOf[t])
    BY <1>1, <1>7 DEF SharedKnow
  <2>1. QED
    BY <1>7 DEF KnowInv, SharedKnow
<1>12. QED
  BY <1>8, <1>9, <1>10, <1>11 DEF KnowInv

(* The caller's filter stores what the response brings.                    *)
LEMMA OnIncomingResponsesKnows ==
    ASSUME DistinctServices, KnowInv, NEW s \in Spans, OnIncomingResponses(s), SimInv'
    PROVE  KnowInv'
<1> DEFINE r == Parent[s]
           n == Caller(s)
           m == MergeData(shared[n], header[s])
           S == CalledSpans
<1>1. /\ s # RootSpan /\ phase[s] = "responded" /\ phase' = [phase EXCEPT ![s] = "done"]
      /\ phase \in [Spans -> SimPhases] /\ DOMAIN shared = Services
      /\ header' = header
  BY DEF OnIncomingResponses, KnowInv, SimInv, Shape
<1>2. r \in Spans /\ s \in Children(r) /\ n = ServiceOf[r] /\ n \in Services
  BY <1>1, ChildrenOfSpans, CallerType DEF Caller
<1>3. ~ Unserved(r) /\ shared[n] # NoValue /\ header[s] # NoValue
  BY <1>1, <1>2 DEF KnowInv, SimInv, StoredOnceServed, ResponsesCarry
<1>4. /\ Kept(shared[n]) /\ Kept(header[s])
      /\ Carries(shared[n], Fetched(r)) /\ Carries(header[s], {s})
      /\ Knows(shared[n], Fetched(r), S) /\ Knows(header[s], {s}, S) /\ OwnWaits(shared[n], n)
  BY <1>1, <1>2, <1>3
     DEF KnowInv, SimInv, Shape, SharedCarry, ResponsesCarry, SharedKnow, ResponsesKnow, Answered
<1>5. /\ Fetched(r) \in SUBSET Children(r) /\ {s} \in SUBSET Children(r)
      /\ Fetched(r) \cap {s} = {}
  BY <1>1, <1>2 DEF Fetched
<1> HIDE DEF S
<1>6. Knows(m, Fetched(r) \cup {s}, S)
  BY <1>2, <1>4, <1>5, MergeDataKnows
<1>7. OwnWaits(m, n)
  <2>1. ASSUME NEW C \in SUBSET Children(r), NEW data, Carries(data, C)
        PROVE  n \notin NamesIn(data.nodes)
    <3> SUFFICES ASSUME NEW i \in DOMAIN data.nodes, data.nodes[i].name = n
                 PROVE  FALSE
      BY DEF NamesIn
    <3>1. PICK u \in UNION {Below[c] : c \in C} : ServiceOf[u] = n
      BY <2>1 DEF Carries, Sound
    <3>2. u \in Below[r] \ {r}
      BY <1>2, <3>1, BelowChildren
    <3>3. u \in Spans
      BY <1>2, <3>2, BelowClosed
    <3>4. QED
      BY <1>2, <3>1, <3>2, <3>3 DEF DistinctServices
  <2>2. n \notin NamesIn(shared[n].nodes) /\ n \notin NamesIn(header[s].nodes)
    BY <1>4, <1>5, <2>1
  <2>3. QED
    BY <1>4, <2>2, MergeDataWaits DEF Kept
<1>8. shared' = [shared EXCEPT ![n] = m]
  BY <1>3 DEF OnIncomingResponses, StoreHeaders
<1> HIDE DEF m
<1>9. /\ phase'[s] = "done" /\ shared'[n] = m
      /\ \A t \in Spans : t # s => phase'[t] = phase[t]
      /\ \A t \in Spans : t # r => shared'[ServiceOf[t]] = shared[ServiceOf[t]]
  BY <1>1, <1>2, <1>8, CallerType DEF DistinctServices
<1>10. /\ CalledSpans' = S /\ S = CalledSpans
       /\ \A t \in Spans : Answered(t)' <=> Answered(t)
       /\ Fetched(r)' = Fetched(r) \cup {s}
       /\ \A t \in Spans : t # r => Fetched(t)' = Fetched(t)
  <2>1. CalledSpans' = CalledSpans
    BY <1>1 DEF CalledSpans
  <2>2. \A t \in Spans : Answered(t)' <=> Answered(t)
    BY <1>1, <1>9 DEF Answered
  <2>3. \A t : \A c : c \in Fetched(t)' <=> (c \in Fetched(t) \/ (c = s /\ t = r))
    BY <1>1, <1>2, <1>9, ChildrenOfSpans DEF Fetched, Children
  <2>4. \A t : t # r => Fetched(t)' = Fetched(t)
    BY <2>3
  <2>5. Fetched(r)' = Fetched(r) \cup {s}
    BY <2>3
  <2>6. QED
    BY <2>1, <2>2, <2>4, <2>5 DEF S
<1>11. Settled'
  <2> SUFFICES ASSUME NEW t \in Spans, Answered(t), NEW c \in Children(t)
               PROVE  phase'[c] \in {"idle", "done"}
    BY <1>10 DEF Settled, Children
  <2>1. phase[c] \in {"idle", "done"} /\ c \in Spans
    BY ChildrenOfSpans DEF KnowInv, Settled
  <2>2. QED
    BY <1>9, <2>1
<1>12. RequestsLow'
  BY <1>1, <1>10 DEF KnowInv, RequestsLow
<1>13. ResponsesKnow'
  BY <1>1, <1>10 DEF KnowInv, ResponsesKnow
<1>14. SharedKnow'
  <2> SUFFICES ASSUME NEW t \in Spans, shared'[ServiceOf[t]] # NoValue
               PROVE  /\ Knows(shared'[ServiceOf[t]], Fetched(t)', S)
                      /\ OwnWaits(shared'[ServiceOf[t]], ServiceOf[t])
    BY <1>10 DEF SharedKnow
  <2>1. CASE t = r
    <3>1. shared'[ServiceOf[t]] = m /\ Fetched(t)' = Fetched(r) \cup {s} /\ ServiceOf[t] = n
      BY <1>2, <1>9, <1>10, <2>1
    <3>2. QED
      BY <1>6, <1>7, <3>1
  <2>2. CASE t # r
    <3>1. shared'[ServiceOf[t]] = shared[ServiceOf[t]] /\ Fetched(t)' = Fetched(t)
      BY <1>9, <1>10, <2>2
    <3>2. QED
      BY <1>10, <3>1 DEF KnowInv, SharedKnow
  <2>3. QED
    BY <2>1, <2>2
<1>15. QED
  BY <1>11, <1>12, <1>13, <1>14 DEF KnowInv

LEMMA FreshKnows ==
    ASSUME Fresh
    PROVE  KnowInv
<1>1. \A s \in Spans : ~ Answered(s) /\ header[s] = NoValue /\ shared[ServiceOf[s]] = NoValue
  BY CallerType DEF Fresh, Answered
<1>2. QED
  BY <1>1, FreshIs DEF KnowInv, Settled, RequestsLow, ResponsesKnow, SharedKnow

LEMMA KnowStep ==
    ASSUME DistinctServices, Detached = {}, NoneIsNoData, FewSpans, KnowInv, [Next]_vars
    PROVE  KnowInv'
<1>1. SimInv'
  BY SimStep DEF KnowInv
<1>2. ASSUME NextTrace
      PROVE  KnowInv'
  <2>1. Fresh'
    BY <1>2 DEF NextTrace, Fresh
  <2>2. Fresh' => KnowInv'
    BY FreshKnows, PTL
  <2>3. QED
    BY <2>1, <2>2
<1>3. ASSUME UNCHANGED vars
      PROVE  KnowInv'
  <2>1. /\ \A s : Answered(s)' <=> Answered(s)
        /\ \A s : Fetched(s)' = Fetched(s) /\ CalledSpans' = CalledSpans
        /\ phase' = phase /\ header' = header /\ shared' = shared
    BY <1>3 DEF vars, Answered, Fetched, CalledSpans
  <2>2. Settled' /\ RequestsLow'
    BY <2>1 DEF KnowInv, Settled, RequestsLow, Children
  <2>3. ResponsesKnow' /\ SharedKnow'
    BY <2>1 DEF KnowInv, ResponsesKnow, SharedKnow
  <2>4. QED
    BY <1>1, <2>2, <2>3 DEF KnowInv
<1>4. QED
  BY <1>1, <1>2, <1>3, EnterKnows, OnOutgoingRequestsKnows, OnIncomingRequestsKnows,
     OnOutgoingResponsesKnows, OnIncomingResponsesKnows DEF Next

(* The UDF of a service reads its own value off the nodes of its callees    *)
(* and does not ask if it is there.  It always is: in every response, each  *)
(* node has the height that its call has in the trace as far as it was      *)
(* made, in whatever order the responses came in.                          *)
THEOREM EveryHeightIsRight ==
    ASSUME DistinctServices, Detached = {}, NoneIsNoData, FewSpans
    PROVE  MeshSpec => []HeightsRight
<1>1. MeshInit => KnowInv
  BY FreshKnows DEF MeshInit, Init, Fresh
<1>2. KnowInv /\ [MeshNext]_<<vars, avg, answer>> => KnowInv'
  <2>1. [MeshNext]_<<vars, avg, answer>> => [Next]_vars
    BY DEF MeshNext, Hooks, Receives, Over
  <2>2. QED
    BY <2>1, KnowStep
<1>3. KnowInv => HeightsRight
  <2>1. Called = CalledSpans
    BY DEF Called, CalledSpans
  <2>2. QED
    BY <2>1 DEF KnowInv, ResponsesKnow, Answered, Knows, HeightsRight
<1>4. QED
  BY <1>1, <1>2, <1>3, PTL DEF MeshSpec

-----------------------------------------------------------------------------
(* What the centralized filter of the root's service has in the end is the  *)
(* whole trace: k says of which span each node of g is.                     *)
Pictures(g, k, S) ==
    /\ k \in [DOMAIN g.nodes -> S]
    /\ \A i, j \in DOMAIN g.nodes : k[i] = k[j] => i = j
    /\ \A t \in S : \E i \in DOMAIN g.nodes : k[i] = t
    /\ \A i \in DOMAIN g.nodes : g.nodes[i] = SpanLabel[k[i]]
    /\ \A e \in g.edges :
         e[1] \in DOMAIN g.nodes /\ e[2] \in DOMAIN g.nodes
         /\ k[e[2]] # RootSpan /\ Parent[k[e[2]]] = k[e[1]]
    /\ \A i, j \in DOMAIN g.nodes :
         k[j] # RootSpan /\ Parent[k[j]] = k[i] => <<i, j>> \in g.edges

LEMMA WholeTrace ==
    ASSUME DistinctServices, NEW S \in SUBSET Spans,
           \A c \in S \ {RootSpan} : Parent[c] \in S,
           NEW g, g.edges \subseteq Nat \X Nat, Sound(g, Spans),
           NamesIn(g.nodes) \subseteq {ServiceOf[t] : t \in S},
           \A t \in S : Tells(g, RootSpan, t)
    PROVE  \E k : Pictures(g, k, S)
<1> DEFINE D == DOMAIN g.nodes
           spanOf(i) == CHOOSE t \in S : ServiceOf[t] = g.nodes[i].name
           k == [i \in D |-> spanOf(i)]
<1>1. ASSUME NEW i \in D
      PROVE  spanOf(i) \in S /\ ServiceOf[spanOf(i)] = g.nodes[i].name
  <2>1. \E t \in S : ServiceOf[t] = g.nodes[i].name
    BY DEF NamesIn
  <2>2. QED
    BY <2>1
<1> HIDE DEF spanOf
<1>2. k \in [D -> S] /\ \A i \in D : ServiceOf[k[i]] = g.nodes[i].name
  BY <1>1
<1> HIDE DEF k
<1>3. \A i, j \in D : k[i] = k[j] => i = j
  BY <1>2 DEF Sound
<1>4. ASSUME NEW t \in S
      PROVE  \E i \in D : k[i] = t /\ g.nodes[i] = SpanLabel[t]
  <2>1. PICK j \in D : g.nodes[j] = [name |-> ServiceOf[t], value |-> PropertyOf[ServiceOf[t]]]
    BY DEF Tells
  <2>2. g.nodes[j] = SpanLabel[t] /\ g.nodes[j].name = ServiceOf[t]
    BY <2>1 DEF SpanLabel
  <2>3. k[j] = t
    BY <1>2, <2>2 DEF DistinctServices
  <2>4. QED
    BY <2>2, <2>3
<1>5. \A i \in D : g.nodes[i] = SpanLabel[k[i]]
  BY <1>2, <1>3, <1>4
<1>6. ASSUME NEW e \in g.edges
      PROVE  e[1] \in D /\ e[2] \in D /\ k[e[2]] # RootSpan /\ Parent[k[e[2]]] = k[e[1]]
  <2>1. PICK c \in Spans \ {RootSpan} :
          /\ e[1] \in D /\ e[2] \in D
          /\ g.nodes[e[1]].name = Caller(c) /\ g.nodes[e[2]].name = ServiceOf[c]
    BY DEF Sound
  <2>2. k[e[2]] = c
    BY <1>2, <2>1 DEF DistinctServices
  <2>3. Parent[c] \in Spans
    BY ChildrenOfSpans
  <2>4. k[e[1]] = Parent[c]
    BY <1>2, <2>1, <2>3 DEF DistinctServices, Caller
  <2>5. QED
    BY <2>1, <2>2, <2>4
<1>7. ASSUME NEW i \in D, NEW j \in D, k[j] # RootSpan, Parent[k[j]] = k[i]
      PROVE  <<i, j>> \in g.edges
  <2> DEFINE t == k[j]
  <2>1. t \in S /\ t # RootSpan /\ t \in Spans
    BY <1>2, <1>7
  <2>2. PICK b \in D :
          /\ g.nodes[b] = [name |-> ServiceOf[t], value |-> PropertyOf[ServiceOf[t]]]
          /\ \E a \in D : <<a, b>> \in g.edges /\ g.nodes[a].name = Caller(t)
    BY <2>1 DEF Tells
  <2>3. PICK a \in D : <<a, b>> \in g.edges /\ g.nodes[a].name = Caller(t)
    BY <2>2
  <2>4. g.nodes[b].name = g.nodes[j].name
    BY <1>2, <2>2
  <2>5. b = j
    BY <2>4 DEF Sound
  <2>6. g.nodes[a].name = g.nodes[i].name
    BY <1>2, <1>7, <2>3 DEF Caller
  <2>7. a = i
    BY <2>6 DEF Sound
  <2>8. QED
    BY <2>3, <2>5, <2>7
<1>8. QED
  BY <1>2, <1>3, <1>4, <1>5, <1>6, <1>7 DEF Pictures

(* A pattern that lies over one graph lies over another where there is a   *)
(* picture of the first in it.                                             *)
LEMMA LiesOver ==
    ASSUME NEW label1, NEW edges1, NEW label2, NEW edges2,
           NEW k \in [DOMAIN label1 -> DOMAIN label2],
           \A i, j \in DOMAIN label1 : k[i] = k[j] => i = j,
           \A i \in DOMAIN label1 : label2[k[i]] = label1[i],
           \A i, j \in DOMAIN label1 : <<i, j>> \in edges1 => <<k[i], k[j]>> \in edges2,
           NEW v, EmbedsAt(Target, label1, edges1, v)
    PROVE  v \in DOMAIN label1 /\ EmbedsAt(Target, label2, edges2, k[v])
<1> DEFINE U == DOMAIN Target.nodes
           root == FindRoot(Target)
<1>1. PICK f \in [U -> DOMAIN label1] :
        /\ f[root] = v
        /\ \A u, w \in U : f[u] = f[w] => u = w
        /\ \A e \in Target.edges : <<f[e[1]], f[e[2]]>> \in edges1
        /\ \A u \in U : HasPropertySubset(label1[f[u]], Target.nodes[u])
  BY DEF EmbedsAt
<1> DEFINE h == [u \in U |-> k[f[u]]]
<1>2. h \in [U -> DOMAIN label2] /\ root \in U
  BY <1>1, TargetRoot
<1>3. \A u \in U : h[u] = k[f[u]] /\ f[u] \in DOMAIN label1
  BY <1>1
<1> HIDE DEF h
<1>4. \A u, w \in U : h[u] = h[w] => u = w
  BY <1>1, <1>3
<1>5. \A e \in Target.edges : <<h[e[1]], h[e[2]]>> \in edges2
  <2> SUFFICES ASSUME NEW e \in Target.edges
               PROVE  <<h[e[1]], h[e[2]]>> \in edges2
    OBVIOUS
  <2>1. e[1] \in U /\ e[2] \in U
    BY PatternAssumption
  <2>2. <<f[e[1]], f[e[2]]>> \in edges1
    BY <1>1
  <2>3. h[e[1]] = k[f[e[1]]] /\ h[e[2]] = k[f[e[2]]]
        /\ f[e[1]] \in DOMAIN label1 /\ f[e[2]] \in DOMAIN label1
    BY <1>3, <2>1
  <2>4. QED
    BY <2>2, <2>3
<1>6. \A u \in U : HasPropertySubset(label2[h[u]], Target.nodes[u])
  <2> SUFFICES ASSUME NEW u \in U
               PROVE  HasPropertySubset(label2[h[u]], Target.nodes[u])
    OBVIOUS
  <2>1. label2[h[u]] = label1[f[u]] /\ HasPropertySubset(label1[f[u]], Target.nodes[u])
    BY <1>1, <1>3
  <2>2. QED
    BY <2>1
<1>7. h[root] = k[v] /\ v \in DOMAIN label1
  BY <1>1, <1>2, <1>3
<1>8. QED
  BY <1>2, <1>4, <1>5, <1>6, <1>7 DEF EmbedsAt

(* Where the pattern matches the calls in S. *)
MatchesOf(S) ==
    {m \in S : EmbedsAt(Target, [s \in S |-> SpanLabel[s]], {e \in CallEdges : e[2] \in S}, m)}

LEMMA PictureMatches ==
    ASSUME NEW S \in SUBSET Spans, \A c \in S \ {RootSpan} : Parent[c] \in S,
           NEW g, NEW k, Pictures(g, k, S)
    PROVE  \A v \in DOMAIN g.nodes :
               EmbedsAt(Target, g.nodes, g.edges, v) <=> k[v] \in MatchesOf(S)
<1> DEFINE D == DOMAIN g.nodes
           labels == [s \in S |-> SpanLabel[s]]
           calls == {e \in CallEdges : e[2] \in S}
           back == [t \in S |-> CHOOSE i \in D : k[i] = t]
<1>1. k \in [D -> S] /\ (\A t \in S : \E i \in D : k[i] = t) /\ DOMAIN labels = S
  BY DEF Pictures
<1>2. back \in [S -> D] /\ \A t \in S : k[back[t]] = t
  BY <1>1
<1> HIDE DEF back
<1>3. \A i \in D : back[k[i]] = i
  BY <1>1, <1>2 DEF Pictures
<1>4. \A i, j \in D : <<i, j>> \in g.edges <=> <<k[i], k[j]>> \in calls
  <2> SUFFICES ASSUME NEW i \in D, NEW j \in D
               PROVE  <<i, j>> \in g.edges <=> <<k[i], k[j]>> \in calls
    OBVIOUS
  <2>1. ASSUME <<i, j>> \in g.edges
        PROVE  <<k[i], k[j]>> \in calls
    <3> DEFINE e == <<i, j>>
    <3>1. e \in g.edges /\ e[1] = i /\ e[2] = j
      BY <2>1
    <3> HIDE DEF e
    <3>2. k[j] # RootSpan /\ Parent[k[j]] = k[i] /\ k[j] \in S
      BY <1>1, <3>1 DEF Pictures
    <3>3. QED
      BY <3>2 DEF CallEdges
  <2>2. ASSUME <<k[i], k[j]>> \in calls
        PROVE  <<i, j>> \in g.edges
    <3>1. k[j] # RootSpan /\ Parent[k[j]] = k[i]
      BY <2>2 DEF CallEdges
    <3>2. QED
      BY <3>1 DEF Pictures
  <2>3. QED
    BY <2>1, <2>2
<1>5. \A i \in D : labels[k[i]] = g.nodes[i]
  BY <1>1 DEF Pictures
<1>6. ASSUME NEW v \in D, EmbedsAt(Target, g.nodes, g.edges, v)
      PROVE  k[v] \in MatchesOf(S)
  <2>1. \A i, j \in D : k[i] = k[j] => i = j
    BY DEF Pictures
  <2> HIDE DEF labels, calls
  <2>2. EmbedsAt(Target, labels, calls, k[v])
    BY <1>1, <1>4, <1>5, <1>6, <2>1, LiesOver
  <2>3. k[v] \in S
    BY <1>1
  <2>4. QED
    BY <2>2, <2>3 DEF MatchesOf, labels, calls
<1>7. ASSUME NEW v \in D, k[v] \in MatchesOf(S)
      PROVE  EmbedsAt(Target, g.nodes, g.edges, v)
  <2>1. EmbedsAt(Target, labels, calls, k[v])
    BY <1>7 DEF MatchesOf
  <2> HIDE DEF labels, calls
  <2>2. back \in [DOMAIN labels -> DOMAIN g.nodes]
        /\ \A s, t \in DOMAIN labels : back[s] = back[t] => s = t
    BY <1>1, <1>2
  <2>3. \A t \in DOMAIN labels : g.nodes[back[t]] = labels[t]
    BY <1>1, <1>2, <1>5
  <2>4. \A s, t \in DOMAIN labels : <<s, t>> \in calls => <<back[s], back[t]>> \in g.edges
    BY <1>1, <1>2, <1>4
  <2>5. EmbedsAt(Target, g.nodes, g.edges, back[k[v]])
    BY <2>1, <2>2, <2>3, <2>4, LiesOver
  <2>6. QED
    BY <1>3, <2>5
<1>8. QED
  BY <1>6, <1>7

(* The node of the root span is the root of the picture, ...               *)
LEMMA PictureRoot ==
    ASSUME NEW S, RootSpan \in S, NEW g, g.nodes \in Seq(Node), NEW k, Pictures(g, k, S),
           \A c \in S \ {RootSpan} : Parent[c] \in S
    PROVE  FindRoot(g) \in DOMAIN g.nodes /\ k[FindRoot(g)] = RootSpan
<1> DEFINE D == DOMAIN g.nodes
           r == FindRoot(g)
<1>1. g.nodes \in Seq(PatternNode)
  <2>1. Node \subseteq PatternNode
    BY DEF Node, PatternNode
  <2> HIDE DEF Node
  <2>2. \A i \in D : g.nodes[i] \in Node
    OBVIOUS
  <2>3. g.nodes \in [1 .. Len(g.nodes) -> PatternNode] /\ Len(g.nodes) \in Nat
    BY <2>1, <2>2
  <2> HIDE DEF PatternNode
  <2>4. QED
    BY <2>3
<1>2. PICK i \in D : k[i] = RootSpan
  BY DEF Pictures
<1>3. \A e \in g.edges : e[2] # i
  BY <1>2 DEF Pictures
<1>4. r \in D /\ \A e \in g.edges : e[2] # r
  BY <1>1, <1>2, <1>3, FindRootFinds
<1> HIDE DEF r
<1>5. ASSUME k[r] # RootSpan
      PROVE  FALSE
  <2>1. k[r] \in S
    BY <1>4 DEF Pictures
  <2>2. PICK j \in D : k[j] = Parent[k[r]]
    BY <1>5, <2>1 DEF Pictures
  <2> DEFINE e == <<j, r>>
  <2>3. e \in g.edges /\ e[2] = r
    BY <1>4, <1>5, <2>2 DEF Pictures
  <2> HIDE DEF e
  <2>4. QED
    BY <1>4, <2>3
<1>6. QED
  BY <1>4, <1>5 DEF r

(* ... its edges lead down the trace, and from its root to every node.     *)
LEMMA PictureReaches ==
    ASSUME NEW S \in SUBSET Spans, RootSpan \in S, NEW g, g.nodes \in Seq(Node),
           NEW k, Pictures(g, k, S), \A c \in S \ {RootSpan} : Parent[c] \in S
    PROVE  /\ Reachable(DOMAIN g.nodes, g.edges, FindRoot(g)) = DOMAIN g.nodes
           /\ \A v \in DOMAIN g.nodes : \A w \in Reachable(DOMAIN g.nodes, g.edges, v) :
                w \in DOMAIN g.nodes /\ k[w] \in Below[k[v]]
           /\ \A v \in DOMAIN g.nodes : v \in Reachable(DOMAIN g.nodes, g.edges, v)
<1> DEFINE D == DOMAIN g.nodes
           r == FindRoot(g)
<1>1. /\ \A v \in D : k[v] \in S /\ k[v] \in Spans
      /\ \A e \in g.edges : e[1] \in D => e[2] \in D
  BY DEF Pictures
<1>2. ASSUME NEW v \in D
      PROVE  /\ v \in Reachable(D, g.edges, v) /\ Reachable(D, g.edges, v) \subseteq D
             /\ \A e \in g.edges : e[1] \in Reachable(D, g.edges, v)
                                     => e[2] \in Reachable(D, g.edges, v)
             /\ \A T \in SUBSET D : v \in T /\ (\A e \in g.edges : e[1] \in T => e[2] \in T)
                                      => Reachable(D, g.edges, v) \subseteq T
  BY <1>1, ReachableIsLeast, Zenon
<1>3. ASSUME NEW v \in D
      PROVE  \A w \in Reachable(D, g.edges, v) : w \in D /\ k[w] \in Below[k[v]]
  <2> DEFINE T == {w \in D : k[w] \in Below[k[v]]}
  <2>1. T \in SUBSET D /\ v \in T
    BY <1>1, BelowClosed
  <2>2. ASSUME NEW e \in g.edges, e[1] \in T
        PROVE  e[2] \in T
    <3>1. e[2] \in D /\ k[e[2]] # RootSpan /\ Parent[k[e[2]]] = k[e[1]]
      BY DEF Pictures
    <3>2. k[e[2]] \in Spans \ {RootSpan} /\ Parent[k[e[2]]] \in Below[k[v]] /\ k[v] \in Spans
      BY <1>1, <2>2, <3>1
    <3>3. k[e[2]] \in Below[k[v]]
      BY <3>2, BelowClosed
    <3>4. QED
      BY <3>1, <3>3
  <2> HIDE DEF T
  <2>3. Reachable(D, g.edges, v) \subseteq T
    BY <1>2, <2>1, <2>2
  <2>4. QED
    BY <2>3 DEF T
<1>4. r \in D /\ k[r] = RootSpan
  BY PictureRoot
<1> HIDE DEF r
<1>5. D \subseteq Reachable(D, g.edges, r)
  <2> DEFINE R == Reachable(D, g.edges, r)
             T == {t \in Spans : t \in S => \E i \in R : k[i] = t}
  <2>0. r \in R /\ R \subseteq D /\ \A e \in g.edges : e[1] \in R => e[2] \in R
    BY <1>2, <1>4
  <2> HIDE DEF R
  <2>1. T \in SUBSET Spans /\ RootSpan \in T
    BY <1>1, <1>4, <2>0
  <2>2. ASSUME NEW c \in Spans \ {RootSpan}, Parent[c] \in T
        PROVE  c \in T
    <3> SUFFICES ASSUME c \in S
                 PROVE  \E i \in R : k[i] = c
      OBVIOUS
    <3>1. PICK i \in R : k[i] = Parent[c]
      BY <2>2
    <3>2. PICK j \in D : k[j] = c
      BY DEF Pictures
    <3> DEFINE e == <<i, j>>
    <3>3. e \in g.edges /\ e[1] = i /\ e[2] = j
      BY <2>0, <3>1, <3>2 DEF Pictures
    <3> HIDE DEF e
    <3>4. j \in R
      BY <2>0, <3>3
    <3>5. QED
      BY <3>2, <3>4
  <2> HIDE DEF T
  <2>3. Below[RootSpan] \subseteq T /\ Below[RootSpan] = Spans
    BY <2>1, <2>2, BelowWithin, BelowRoot
  <2> SUFFICES ASSUME NEW i \in D
               PROVE  i \in R
    BY DEF R
  <2>4. PICK j \in R : k[j] = k[i]
    BY <1>1, <2>3 DEF T
  <2>5. j = i
    BY <2>0, <2>4 DEF Pictures
  <2>6. QED
    BY <2>4, <2>5
<1>6. QED
  BY <1>2, <1>3, <1>4, <1>5 DEF r

(* Of some spans one has no other of them below it.                        *)
LEMMA LowestSpan ==
    ASSUME FewSpans, NEW M \in SUBSET Spans, M # {}
    PROVE  \E m \in M : \A w \in M \cap Below[m] : w = m
<1> DEFINE sizes == {Cardinality(Below[m]) : m \in M}
<1>1. ASSUME NEW m \in Spans
      PROVE  /\ Cardinality(Below[m]) \in Nat
             /\ \A w \in Below[m] : w # m => Cardinality(Below[w]) < Cardinality(Below[m])
  <2>1. Below[m] \in SUBSET Spans /\ m \in Below[m]
    BY BelowClosed
  <2>2. IsFiniteSet(Below[m]) /\ Cardinality(Below[m]) \in Nat
    BY <2>1, FS_Subset, FS_CardinalityType DEF FewSpans
  <2>3. ASSUME NEW w \in Below[m], w # m
        PROVE  Cardinality(Below[w]) < Cardinality(Below[m])
    <3>1. Below[w] \in SUBSET Below[m] /\ m \notin Below[w]
      BY <2>3, BelowTransitive, BelowOneWay
    <3>2. /\ Cardinality(Below[w]) \in Nat /\ Cardinality(Below[w]) <= Cardinality(Below[m])
          /\ Cardinality(Below[w]) # Cardinality(Below[m])
      BY <2>1, <2>2, <3>1, FS_Subset, FS_CardinalityType
    <3>3. QED
      BY <2>2, <3>2
  <2>4. QED
    BY <2>2, <2>3
<1>2. sizes \in SUBSET Nat /\ sizes # {}
  BY <1>1
<1>3. PICK x \in sizes : \A y \in sizes : x <= y
  BY <1>2, LeastPosition, Zenon
<1>4. PICK m \in M : x = Cardinality(Below[m])
  BY <1>3
<1>5. ASSUME NEW w \in M \cap Below[m], w # m
      PROVE  FALSE
  <2>1. Cardinality(Below[w]) < Cardinality(Below[m])
    BY <1>1, <1>5
  <2>2. Cardinality(Below[m]) <= Cardinality(Below[w])
    BY <1>3, <1>4
  <2>3. Cardinality(Below[w]) \in Nat /\ Cardinality(Below[m]) \in Nat
    BY <1>1
  <2>4. QED
    BY <2>1, <2>2, <2>3
<1>6. QED
  BY <1>5

(* A match that is there is found.                                         *)
LEMMA FirstIsFound ==
    ASSUME FewSpans, NEW S \in SUBSET Spans, RootSpan \in S,
           \A c \in S \ {RootSpan} : Parent[c] \in S,
           NEW g, g.nodes \in Seq(Node), NEW k, Pictures(g, k, S)
    PROVE  /\ FirstMatches(g, Target) \subseteq DOMAIN g.nodes
           /\ FirstMatches(g, Target) # {} <=> MatchesOf(S) # {}
<1> DEFINE D == DOMAIN g.nodes
           below(v) == Reachable(D, g.edges, v)
           all == {v \in below(FindRoot(g)) : EmbedsAt(Target, g.nodes, g.edges, v)}
           first == {v \in all : \A w \in all \cap below(v) : v \in below(w)}
<1>1. /\ below(FindRoot(g)) = D
      /\ \A v \in D : v \in below(v) /\ \A w \in below(v) : w \in D /\ k[w] \in Below[k[v]]
  BY PictureReaches
<1> HIDE DEF below
<1>2. \A v \in D : v \in all <=> k[v] \in MatchesOf(S)
  BY <1>1, PictureMatches
<1>3. all \subseteq D
  BY <1>1
<1> HIDE DEF all
<1>4. FirstMatches(g, Target) = first
  BY DEF FirstMatches, all, below
<1>5. first \subseteq all
  OBVIOUS
<1>6. /\ \A t \in S : \E i \in D : k[i] = t
      /\ \A i, j \in D : k[i] = k[j] => i = j
      /\ MatchesOf(S) \subseteq S
  BY DEF Pictures, MatchesOf
<1>7. ASSUME MatchesOf(S) # {}
      PROVE  first # {}
  <2>1. MatchesOf(S) \in SUBSET Spans
    BY <1>6
  <2>2. PICK m \in MatchesOf(S) : \A w \in MatchesOf(S) \cap Below[m] : w = m
    BY <1>7, <2>1, LowestSpan
  <2>3. PICK v \in D : k[v] = m
    BY <1>6
  <2>4. v \in all
    BY <1>2, <2>3
  <2>5. ASSUME NEW w \in all \cap below(v)
        PROVE  v \in below(w)
    <3>1. w \in D /\ k[w] \in Below[m] /\ k[w] \in MatchesOf(S)
      BY <1>1, <1>2, <1>3, <2>3
    <3>2. w = v
      BY <1>6, <2>2, <2>3, <3>1
    <3>3. QED
      BY <1>1, <2>3, <3>2
  <2>6. QED
    BY <2>4, <2>5
<1>8. ASSUME first # {}
      PROVE  MatchesOf(S) # {}
  BY <1>2, <1>3, <1>5, <1>8
<1> HIDE DEF first
<1>9. QED
  BY <1>3, <1>4, <1>5, <1>7, <1>8

LEMMA ToldHeight ==
    ASSUME NEW data, IsData(data), NEW x
    PROVE  [[data EXCEPT !.set_s = x] EXCEPT !.found_match = TRUE].height = data.height
<1> DEFINE searched == [data EXCEPT !.set_s = x]
<1>1. IsData(searched) /\ searched.height = data.height
  BY FieldsKept
<1> HIDE DEF searched
<1>2. [searched EXCEPT !.found_match = TRUE].height = searched.height
  BY <1>1, FieldsKept
<1>3. QED
  BY <1>1, <1>2 DEF searched

(* Whatever a filter sends to storage is the height of a node it has.      *)
LEMMA SendsHeight ==
    ASSUME DistinctServices, FewSpans, KnowInv, NEW s \in Spans, OnOutgoingResponses(s),
           NEW full, full = ExecuteUdfs(ServiceOf[s], MergeHeaders(ServiceOf[s], "response", header[s])),
           Kept(full), Carries(full, {s}), Knows(full, {s}, CalledSpans)
    PROVE  \/ sent' = sent
           \/ \E v \in DOMAIN full.nodes :
                sent' = Append(sent, [uid |-> uid, src |-> ServiceOf[s], data |-> full.height[v]])
<1> DEFINE n == ServiceOf[s]
           me == GetNodeWithId(full.nodes, n)
           search == Search(full, me, n = RootId)
           x == search.set_s
           searched == [full EXCEPT !.set_s = x]
           told == [searched EXCEPT !.found_match = TRUE]
           Sends == \E v \in DOMAIN full.nodes :
                      sent' = Append(sent, [uid |-> uid, src |-> n, data |-> full.height[v]])
<1>1. IsData(full)
  BY DEF Kept
<1>2. me \in DOMAIN full.nodes
  <2>1. s \in Below[s] \cap CalledSpans
    BY BelowClosed DEF OnOutgoingResponses, CalledSpans
  <2>0. Tells(full, s, s)
    BY <2>1 DEF Knows
  <2>2. PICK j \in DOMAIN full.nodes : full.nodes[j].name = n
    BY <2>0 DEF Tells
  <2>3. full.nodes \in Seq(Node) /\ n \in NamesIn(full.nodes)
    BY <1>1, <2>2 DEF IsData, NamesIn
  <2>4. QED
    BY <2>3, GetNodeWithIdFinds
<1> HIDE DEF me
<1>3. search.at \subseteq DOMAIN full.nodes
  <2>1. ChildrenIn(full, me) \subseteq DOMAIN full.nodes
    BY DEF ChildrenIn
  <2>2. CASE n = RootId
    BY <1>2, <2>2 DEF Search
  <2>3. CASE n # RootId
    BY <2>1, <2>3 DEF Search
  <2>4. QED
    BY <2>2, <2>3
<1>4. FirstMatches(full, Target) \subseteq DOMAIN full.nodes
  BY DEF FirstMatches, Reachable
<1>5. (distributed /\ MatchDistributed(s, full)) \/ Match(s, full)
  BY DEF OnOutgoingResponses
<1>6. Match(s, full) => sent' = sent \/ Sends
  BY <1>4 DEF Match, Respond, RespondAndSend
<1> HIDE DEF x
<1>7. told.height = full.height
  BY <1>1, ToldHeight
<1>8. MatchDistributed(s, full) =>
        sent' = sent \/ \E v \in search.at :
            sent' = Append(sent, [uid |-> uid, src |-> n, data |-> told.height[v]])
  BY DEF MatchDistributed, Respond, RespondAndSend, x, me
<1> HIDE DEF told
<1>9. QED
  BY <1>3, <1>5, <1>6, <1>7, <1>8

(* Centralized, the root's filter sends just when the pattern matches, and  *)
(* no other filter does.                                                   *)
LEMMA CentralSends ==
    ASSUME DistinctServices, FewSpans, NoValue \notin Nat, ServiceOf[RootSpan] = RootId,
           KnowInv, NEW s \in Spans, OnOutgoingResponses(s), ~ distributed,
           NEW full, full = ExecuteUdfs(ServiceOf[s], MergeHeaders(ServiceOf[s], "response", header[s])),
           Kept(full), Carries(full, {s}), Knows(full, {s}, CalledSpans),
           s \in CalledSpans, \A c \in CalledSpans \ {RootSpan} : Parent[c] \in CalledSpans
    PROVE  IF s = RootSpan /\ WantedOfTrace /\ CalledMatches # {}
           THEN \E h : sent' = Append(sent, [uid |-> uid, src |-> ServiceOf[s], data |-> h])
           ELSE sent' = sent
<1> DEFINE n == ServiceOf[s]
           found == {v \in FirstMatches(full, Target) : full.height[v] # NoValue}
           at == IF n = RootId /\ TraceLevelPropertyHolds(n, full) THEN found ELSE {}
           S == CalledSpans
<1>1. RootSpan \in Spans /\ (n = RootId <=> s = RootSpan) /\ S \subseteq Spans
  BY TraceAssumption DEF DistinctServices, CalledSpans
<1>2. Match(s, full)
  BY DEF OnOutgoingResponses
<1>3. at = {} => sent' = sent
  BY <1>2 DEF Match, Respond
<1>4. at # {} => \E h : sent' = Append(sent, [uid |-> uid, src |-> n, data |-> h])
  BY <1>2 DEF Match, RespondAndSend
<1>5. ASSUME s = RootSpan
      PROVE  at # {} <=> WantedOfTrace /\ CalledMatches # {}
  <2>1. Below[s] = Spans
    BY <1>1, <1>5, BelowRoot
  <2>2. full.nodes \in Seq(Node) /\ full.edges \subseteq Nat \X Nat
    BY DEF Kept, IsData
  <2>3. Sound(full, Spans) /\ NamesIn(full.nodes) \subseteq {ServiceOf[t] : t \in S}
        /\ \A t \in S : Tells(full, RootSpan, t)
    <3>1. UNION {Below[c] : c \in {s}} = Spans
      BY <2>1
    <3>2. Sound(full, Spans)
      BY <3>1 DEF Carries
    <3>3. \A t \in S : t \in Below[s] \cap S
      BY <1>1, <2>1
    <3>4. QED
      BY <1>5, <3>2, <3>3 DEF Knows
  <2>4. PICK k : Pictures(full, k, S)
    BY <1>1, <2>2, <2>3, WholeTrace
  <2>5. /\ FirstMatches(full, Target) \subseteq DOMAIN full.nodes
        /\ FirstMatches(full, Target) # {} <=> MatchesOf(S) # {}
    BY <1>1, <1>5, <2>2, <2>4, FirstIsFound
  <2>6. MatchesOf(S) = CalledMatches
    BY DEF MatchesOf, CalledMatches, CalledEdges, Called, CalledSpans
  <2>7. found = FirstMatches(full, Target)
    <3>1. \A v \in DOMAIN full.nodes : full.height[v] \in Nat
      <4>1. full.height \in Seq(Nat) /\ Len(full.height) = Len(full.nodes)
        BY DEF Knows
      <4>2. QED
        BY <2>2, <4>1
    <3>2. QED
      BY <2>5, <3>1
  <2>8. TraceLevelPropertyHolds(n, full) <=> WantedOfTrace
    <3> DEFINE i == GetNodeWithId(full.nodes, RootId)
    <3>1. Tells(full, RootSpan, RootSpan)
      BY <1>5, <2>3
    <3>2. PICK j \in DOMAIN full.nodes :
            full.nodes[j] = [name |-> RootId, value |-> PropertyOf[RootId]]
      BY <3>1 DEF Tells
    <3>3. RootId \in NamesIn(full.nodes) /\ full.nodes[j].name = RootId
      BY <3>2 DEF NamesIn
    <3>4. i \in DOMAIN full.nodes /\ full.nodes[i].name = RootId
      BY <2>2, <3>3, GetNodeWithIdFinds
    <3> HIDE DEF i
    <3>5. i = j
      BY <2>3, <3>3, <3>4 DEF Sound
    <3>6. full.nodes[i].value = PropertyOf[RootId]
      BY <3>2, <3>5
    <3>7. QED
      BY <1>1, <1>5, <3>6 DEF TraceLevelPropertyHolds, WantedOfTrace, i
  <2>9. QED
    BY <1>1, <1>5, <2>5, <2>6, <2>7, <2>8
<1>6. s # RootSpan => at = {}
  BY <1>1
<1> HIDE DEF at
<1>7. QED
  BY <1>3, <1>4, <1>5, <1>6

(* Everything sent is a height, sent in this trace or an earlier one; and   *)
(* the centralized filters have sent a value of this trace just when the   *)
(* root's filter has answered, and the pattern matched.                    *)
SentRpc == [uid : 1 .. MaxTraces, src : Services, data : 0 .. Cardinality(Spans)]

SentOfTrace == \E k \in DOMAIN sent : sent[k].uid = uid

SentInv ==
    /\ KnowInv
    /\ distributed \in BOOLEAN /\ uid \in 1 .. MaxTraces /\ sent \in Seq(SentRpc)
    /\ \A k \in DOMAIN sent : sent[k].uid <= uid
    /\ ~ distributed /\ phase[RootSpan] # "responded" => ~ SentOfTrace
    /\ ~ distributed /\ phase[RootSpan] = "responded" =>
         (WantedOfTrace /\ CalledMatches # {} <=> SentOfTrace)

LEMMA SendsIs ==
    ASSUME NEW u \in 1 .. MaxTraces, NEW r \in SentRpc, r.uid = u, NEW old \in Seq(SentRpc),
           \A k \in DOMAIN old : old[k].uid <= u
    PROVE  /\ Append(old, r) \in Seq(SentRpc)
           /\ \A k \in DOMAIN Append(old, r) : Append(old, r)[k].uid <= u
           /\ \E k \in DOMAIN Append(old, r) : Append(old, r)[k].uid = u
<1> DEFINE n == Len(old)
           more == Append(old, r)
<1> USE TracesAssumption
<1>1. /\ more \in Seq(SentRpc) /\ n \in Nat /\ DOMAIN more = 1 .. n + 1 /\ DOMAIN old = 1 .. n
      /\ more[n + 1] = r /\ \A k \in 1 .. n : more[k] = old[k]
  <2> HIDE DEF SentRpc
  <2>1. QED
    BY AppendProperties
<1> HIDE DEF more, n
<1>2. n + 1 \in 1 .. n + 1 /\ \A k \in 1 .. n + 1 : k \in 1 .. n \/ k = n + 1
  BY <1>1
<1>3. \A k \in 1 .. n + 1 : more[k].uid <= u
  BY <1>1, <1>2
<1>4. QED
  BY <1>1, <1>2, <1>3 DEF more

(* A stage that sends nothing, and does not answer the root's call.        *)
LEMMA QuietKept ==
    ASSUME SentInv, KnowInv', UNCHANGED <<distributed, uid, sent>>,
           phase'[RootSpan] = "responded" <=> phase[RootSpan] = "responded",
           phase[RootSpan] = "responded" => CalledSpans' = CalledSpans
    PROVE  SentInv'
<1>1. SentOfTrace' <=> SentOfTrace
  BY DEF SentOfTrace
<1>2. CalledMatches = MatchesOf(CalledSpans) /\ CalledMatches' = MatchesOf(CalledSpans')
  BY DEF CalledMatches, MatchesOf, CalledEdges, Called, CalledSpans
<1>3. phase[RootSpan] = "responded" => CalledMatches' = CalledMatches
  BY <1>2
<1>4. QED
  BY <1>1, <1>3 DEF SentInv

LEMMA CallsSent ==
    ASSUME SentInv, KnowInv', NEW s \in Spans, phase[s] = "idle",
           s # RootSpan => phase[Parent[s]] = "serving",
           phase' = [phase EXCEPT ![s] = "called"], UNCHANGED <<distributed, uid, sent>>
    PROVE  SentInv'
<1>1. SimInv /\ Settled /\ phase \in [Spans -> SimPhases] /\ RootSpan \in Spans
  BY TraceAssumption DEF SentInv, KnowInv, SimInv, Shape
<1>2. phase'[RootSpan] = "responded" <=> phase[RootSpan] = "responded"
  BY <1>1
<1>3. ASSUME phase[RootSpan] = "responded"
      PROVE  CalledSpans' = CalledSpans
  <2>1. /\ CalledSpans' = CalledSpans \cup {s}
        /\ Below[RootSpan] \cap CalledSpans' \subseteq CalledSpans
    BY <1>1, <1>3, CallsElsewhere DEF Answered
  <2>2. Below[RootSpan] = Spans
    BY <1>1, BelowRoot
  <2>3. QED
    BY <2>1, <2>2
<1>4. QED
  BY <1>2, <1>3, QuietKept

LEMMA OnOutgoingResponsesSent ==
    ASSUME DistinctServices, FewSpans, NoValue \notin Nat, ServiceOf[RootSpan] = RootId,
           SentInv, KnowInv', NEW s \in Spans, OnOutgoingResponses(s)
    PROVE  SentInv'
<1> DEFINE n == ServiceOf[s]
           full == ExecuteUdfs(n, MergeHeaders(n, "response", header[s]))
           rpc(h) == [uid |-> uid, src |-> n, data |-> h]
<1>1. /\ KnowInv /\ phase[s] = "serving" /\ phase' = [phase EXCEPT ![s] = "responded"]
      /\ phase \in [Spans -> SimPhases] /\ n \in Services /\ RootSpan \in Spans
      /\ UNCHANGED <<distributed, uid>> /\ uid \in 1 .. MaxTraces /\ sent \in Seq(SentRpc)
      /\ \A k \in DOMAIN sent : sent[k].uid <= uid
  BY CallerType, TraceAssumption DEF OnOutgoingResponses, SentInv, KnowInv, SimInv, Shape
<1>2. /\ Kept(full) /\ Carries(full, {s}) /\ Knows(full, {s}, CalledSpans) /\ s \in CalledSpans
      /\ \A c \in CalledSpans \ {RootSpan} : Parent[c] \in CalledSpans
  BY <1>1, AnswersKnow
<1>3. \/ sent' = sent
      \/ \E v \in DOMAIN full.nodes : sent' = Append(sent, rpc(full.height[v]))
  <2> DEFINE x == full
  <2>1. x = full
    OBVIOUS
  <2> HIDE DEF x
  <2>2. \/ sent' = sent
        \/ \E v \in DOMAIN x.nodes : sent' = Append(sent, rpc(x.height[v]))
    BY <1>1, <1>2, <2>1, SendsHeight
  <2>3. QED
    BY <2>1, <2>2
<1>4. ~ distributed => IF s = RootSpan /\ WantedOfTrace /\ CalledMatches # {}
                       THEN \E h : sent' = Append(sent, rpc(h))
                       ELSE sent' = sent
  <2> DEFINE x == full
  <2>1. x = full
    OBVIOUS
  <2> HIDE DEF x
  <2>2. QED
    BY <1>1, <1>2, <2>1, CentralSends
<1>5. ASSUME NEW v \in DOMAIN full.nodes
      PROVE  full.height[v] \in 0 .. Cardinality(Spans)
  <2> HIDE DEF full
  <2>1. PICK t \in CalledSpans : ServiceOf[t] = full.nodes[v].name
    BY <1>2 DEF Knows, NamesIn
  <2>2. t \in Spans /\ CalledSpans \in SUBSET Spans
    BY <2>1 DEF CalledSpans
  <2>3. full.height[v] = HeightIn(CalledSpans, t)
    BY <1>2, <2>1, <2>2 DEF Knows
  <2>4. QED
    BY <1>2, <2>1, <2>2, <2>3, HeightStep
<1> HIDE DEF full
<1>6. sent' # sent => \E h \in 0 .. Cardinality(Spans) : sent' = Append(sent, rpc(h))
  BY <1>3, <1>5
<1>7. ASSUME NEW h \in 0 .. Cardinality(Spans)
      PROVE  /\ Append(sent, rpc(h)) \in Seq(SentRpc)
             /\ \A k \in DOMAIN Append(sent, rpc(h)) : Append(sent, rpc(h))[k].uid <= uid
             /\ \E k \in DOMAIN Append(sent, rpc(h)) : Append(sent, rpc(h))[k].uid = uid
  <2>1. rpc(h) \in SentRpc /\ rpc(h).uid = uid
    BY <1>1 DEF SentRpc
  <2> HIDE DEF rpc
  <2>2. QED
    BY <1>1, <2>1, SendsIs
<1>8. sent' \in Seq(SentRpc) /\ \A k \in DOMAIN sent' : sent'[k].uid <= uid
  BY <1>1, <1>6, <1>7
<1>9. CalledMatches' = CalledMatches
  <2>1. CalledMatches = MatchesOf(CalledSpans) /\ CalledMatches' = MatchesOf(CalledSpans')
    BY DEF CalledMatches, MatchesOf, CalledEdges, Called, CalledSpans
  <2>2. CalledSpans' = CalledSpans
    BY <1>1 DEF CalledSpans
  <2>3. QED
    BY <2>1, <2>2
<1>10. sent' # sent => SentOfTrace'
  BY <1>1, <1>6, <1>7 DEF SentOfTrace
<1>11. sent' = sent => (SentOfTrace' <=> SentOfTrace)
  BY <1>1 DEF SentOfTrace
<1>12. \A h : Append(sent, rpc(h)) # sent
  <2> SUFFICES ASSUME NEW h, Append(sent, rpc(h)) = sent
               PROVE  FALSE
    OBVIOUS
  <2>1. Len(sent) \in Nat /\ Len(Append(sent, rpc(h))) = Len(sent) + 1
    BY <1>1
  <2>2. QED
    BY <2>1
<1>13. phase'[RootSpan] = "responded" <=> s = RootSpan \/ phase[RootSpan] = "responded"
  BY <1>1
<1>14. ASSUME ~ distributed, s = RootSpan
       PROVE  WantedOfTrace /\ CalledMatches # {} <=> SentOfTrace'
  <2>1. ~ SentOfTrace
    BY <1>1, <1>14 DEF SentInv
  <2>2. QED
    BY <1>4, <1>10, <1>11, <1>12, <1>14, <2>1
<1>15. ASSUME ~ distributed, s # RootSpan
       PROVE  sent' = sent
  BY <1>4, <1>15
<1>16. /\ ~ distributed' /\ phase'[RootSpan] # "responded" => ~ SentOfTrace'
       /\ ~ distributed' /\ phase'[RootSpan] = "responded" =>
            (WantedOfTrace /\ CalledMatches' # {} <=> SentOfTrace')
  BY <1>1, <1>9, <1>11, <1>13, <1>14, <1>15 DEF SentInv
<1>17. QED
  BY <1>1, <1>8, <1>16 DEF SentInv, WantedOfTrace

LEMMA SentStep ==
    ASSUME DistinctServices, Detached = {}, NoneIsNoData, FewSpans, NoValue \notin Nat,
           ServiceOf[RootSpan] = RootId, SentInv, [Next]_vars
    PROVE  SentInv'
<1>1. KnowInv' /\ KnowInv /\ RootSpan \in Spans /\ phase \in [Spans -> SimPhases]
      /\ phase[RootSpan] # "done"
  BY KnowStep, TraceAssumption DEF SentInv, KnowInv, SimInv, Shape
<1>2. ASSUME Enter
      PROVE  SentInv'
  BY <1>1, <1>2, CallsSent DEF Enter
<1>3. ASSUME NEW s \in Spans, OnOutgoingRequests(s)
      PROVE  SentInv'
  BY <1>1, <1>3, CallsSent DEF OnOutgoingRequests, Requested
<1>4. ASSUME NEW s \in Spans, OnIncomingRequests(s)
      PROVE  SentInv'
  <2>1. /\ phase[s] = "called" /\ phase' = [phase EXCEPT ![s] = "serving"]
        /\ UNCHANGED <<distributed, uid, sent>>
    BY <1>4 DEF OnIncomingRequests
  <2>2. CalledSpans' = CalledSpans
    BY <1>1, <2>1 DEF CalledSpans
  <2>3. phase'[RootSpan] = "responded" <=> phase[RootSpan] = "responded"
    BY <1>1, <2>1
  <2>4. QED
    BY <1>1, <2>1, <2>2, <2>3, QuietKept
<1>5. ASSUME NEW s \in Spans, OnIncomingResponses(s)
      PROVE  SentInv'
  <2>1. /\ s # RootSpan /\ phase[s] = "responded" /\ phase' = [phase EXCEPT ![s] = "done"]
        /\ UNCHANGED <<distributed, uid, sent>>
    BY <1>5 DEF OnIncomingResponses
  <2>2. CalledSpans' = CalledSpans
    BY <1>1, <2>1 DEF CalledSpans
  <2>3. phase'[RootSpan] = "responded" <=> phase[RootSpan] = "responded"
    BY <1>1, <2>1
  <2>4. QED
    BY <1>1, <2>1, <2>2, <2>3, QuietKept
<1>6. ASSUME NextTrace
      PROVE  SentInv'
  <2>1. /\ uid < MaxTraces /\ uid' = uid + 1 /\ UNCHANGED <<distributed, sent>>
        /\ phase'[RootSpan] # "responded"
    BY <1>1, <1>6 DEF NextTrace
  <2>2. uid \in 1 .. MaxTraces /\ sent \in Seq(SentRpc) /\ \A k \in DOMAIN sent : sent[k].uid <= uid
    BY DEF SentInv
  <2>3. \A k \in DOMAIN sent : sent[k].uid \in Nat
    <3>1. \A k \in DOMAIN sent : sent[k] \in SentRpc
      <4> HIDE DEF SentRpc
      <4>1. QED
        BY <2>2
    <3>2. QED
      BY <3>1, TracesAssumption DEF SentRpc
  <2>4. uid' \in 1 .. MaxTraces /\ \A k \in DOMAIN sent : sent[k].uid <= uid' /\ sent[k].uid # uid'
    BY <2>1, <2>2, <2>3, TracesAssumption
  <2>5. ~ SentOfTrace'
    BY <2>1, <2>4 DEF SentOfTrace
  <2>6. QED
    BY <1>1, <2>1, <2>4, <2>5 DEF SentInv
<1>7. ASSUME UNCHANGED vars
      PROVE  SentInv'
  <2>1. UNCHANGED <<distributed, uid, sent, phase>>
    BY <1>7 DEF vars
  <2>2. CalledSpans' = CalledSpans
    BY <2>1 DEF CalledSpans
  <2>3. QED
    BY <1>1, <2>1, <2>2, QuietKept
<1>8. QED
  BY <1>1, <1>2, <1>3, <1>4, <1>5, <1>6, <1>7, OnOutgoingResponsesSent DEF Next, SentInv

(* What was sent in this trace.                                            *)
LEMMA SentNowIs ==
    ASSUME NEW S, sent \in Seq(S)
    PROVE  SentNow # <<>> <=> SentOfTrace
<1> DEFINE P == {k \in DOMAIN sent : sent[k].uid = uid}
           c == Cardinality(P)
<1>1. P \in SUBSET (1 .. Len(sent)) /\ Len(sent) \in Nat
  OBVIOUS
<1> HIDE DEF P
<1>2. IsFiniteSet(P) /\ c \in Nat
  BY <1>1, PositionsAdd
<1>3. c = 0 <=> P = {}
  BY <1>2, FS_EmptySet
<1>4. DOMAIN SentNow = 1 .. c
  BY DEF SentNow, Selected, P
<1> DEFINE T == S \cup {0}
<1>5. SentNow \in Seq(T)
  <2>1. S \subseteq T /\ 0 \in T
    OBVIOUS
  <2> HIDE DEF T
  <2>2. sent \in Seq(T) /\ P \in SUBSET (DOMAIN sent)
    BY <1>1, <2>1
  <2>3. QED
    BY <2>1, <2>2, SelectedAppend DEF SentNow, P
<1> HIDE DEF T
<1>6. SentNow = <<>> <=> c = 0
  BY <1>2, <1>4, <1>5
<1>7. QED
  BY <1>3, <1>6 DEF SentOfTrace, P

(* The centralized filters answer the query: with the response to the       *)
(* mesh's caller the root's filter sends a value just when the pattern      *)
(* matches the calls that were made, whichever these were and in whatever   *)
(* order their responses came.                                             *)
THEOREM CentralizedAnswers ==
    ASSUME DistinctServices, Detached = {}, NoneIsNoData, FewSpans, NoValue \notin Nat,
           ServiceOf[RootSpan] = RootId
    PROVE  MeshSpec => []MatchesAreSent
<1>1. MeshInit => SentInv
  <2> SUFFICES ASSUME MeshInit
               PROVE  SentInv
    OBVIOUS
  <2>1. Fresh /\ distributed \in BOOLEAN /\ uid = 1 /\ sent = <<>> /\ RootSpan \in Spans
    BY TraceAssumption DEF MeshInit, Init, Fresh
  <2>2. KnowInv /\ phase[RootSpan] # "responded" /\ uid \in 1 .. MaxTraces
    BY <2>1, FreshKnows, TracesAssumption DEF Fresh
  <2>3. sent \in Seq(SentRpc) /\ DOMAIN sent = {}
    BY <2>1
  <2>4. QED
    BY <2>1, <2>2, <2>3 DEF SentInv, SentOfTrace
<1>2. SentInv /\ [MeshNext]_<<vars, avg, answer>> => SentInv'
  <2>1. [MeshNext]_<<vars, avg, answer>> => [Next]_vars
    BY DEF MeshNext, Hooks, Receives, Over
  <2>2. QED
    BY <2>1, SentStep
<1>3. SentInv => MatchesAreSent
  BY SentNowIs DEF SentInv, MatchesAreSent
<1>4. QED
  BY <1>1, <1>2, <1>3, PTL DEF MeshSpec

-----------------------------------------------------------------------------
(* The data without the heights is that of the distributed filter of Envoy. *)
Plain(data) ==
    [nodes |-> data.nodes, edges |-> data.edges, unassigned |-> data.unassigned,
     found_match |-> data.found_match, set_s |-> data.set_s]

LEMMA PlainFields ==
    ASSUME NEW data
    PROVE  /\ Plain(data).nodes = data.nodes
           /\ Plain(data).edges = data.edges
           /\ Plain(data).unassigned = data.unassigned
           /\ Plain(data).found_match = data.found_match
           /\ Plain(data).set_s = data.set_s
BY DEF Plain

LEMMA PlainGraph ==
    ASSUME NEW data
    PROVE  /\ SameGraph(Plain(data), data)
           /\ \A C : Carries(Plain(data), C) <=> Carries(data, C)
           /\ Owned(Plain(data)) <=> Owned(data)
           /\ \A s : FromAbove(Plain(data), s) <=> FromAbove(data, s)
           /\ SetSHasEntries(Plain(data)) <=> SetSHasEntries(data)
<1>1. SameGraph(Plain(data), data)
  BY PlainFields DEF SameGraph
<1>2. \A s : FromAbove(Plain(data), s) <=> FromAbove(data, s)
  BY PlainFields DEF FromAbove
<1>3. SetSHasEntries(Plain(data)) <=> SetSHasEntries(data)
  BY PlainFields DEF SetSHasEntries
<1>4. QED
  BY <1>1, <1>2, <1>3, SameGraphCarries

LEMMA WithGraphPlain ==
    ASSUME NEW data, NEW g
    PROVE  WithGraph(Plain(data), g) =
             [nodes |-> g.nodes, edges |-> g.edges, unassigned |-> g.unassigned,
              found_match |-> data.found_match, set_s |-> data.set_s]
<1> DEFINE p == Plain(data)
<1>1. p \in [nodes : {data.nodes}, edges : {data.edges}, unassigned : {data.unassigned},
             found_match : {data.found_match}, set_s : {data.set_s}]
  BY DEF Plain
<1> HIDE DEF p
<1>2. WithGraph(p, g) \in
        [nodes : {g.nodes}, edges : {g.edges}, unassigned : {g.unassigned},
         found_match : {data.found_match}, set_s : {data.set_s}]
  BY <1>1 DEF WithGraph
<1> DEFINE w == WithGraph(p, g)
<1> HIDE DEF w
<1>3. w = [nodes |-> g.nodes, edges |-> g.edges, unassigned |-> g.unassigned,
           found_match |-> data.found_match, set_s |-> data.set_s]
  BY <1>2 DEF w
<1>4. QED
  BY <1>3 DEF w, p

LEMMA PlainMerge ==
    ASSUME NEW a, NEW b, IsData(a), IsData(b)
    PROVE  Plain(MergeData(a, b)) = MergeDistributed(Plain(a), Plain(b))
<1> DEFINE g == Merge(a, b)
           found == a.found_match \/ b.found_match
           keys == IF found THEN <<>> ELSE MergeSetS(a.set_s, b.set_s, Len(a.nodes))
<1>1. Merge(Plain(a), Plain(b)) = g
  BY PlainFields DEF Merge, EdgesByName
<1> HIDE DEF g
<1>2. MergeDistributed(Plain(a), Plain(b)) =
        [nodes |-> g.nodes, edges |-> g.edges, unassigned |-> g.unassigned,
         found_match |-> found, set_s |-> keys]
  <2> DEFINE w == WithGraph(Plain(a), g)
  <2>1. w = [nodes |-> g.nodes, edges |-> g.edges, unassigned |-> g.unassigned,
             found_match |-> a.found_match, set_s |-> a.set_s]
    BY WithGraphPlain
  <2>2. MergeDistributed(Plain(a), Plain(b)) = [w EXCEPT !.found_match = found, !.set_s = keys]
    <3> HIDE DEF w
    <3>1. w.set_s = a.set_s
      BY <2>1
    <3>2. QED
      BY <1>1, <3>1, PlainFields DEF MergeDistributed, w
  <2> HIDE DEF w, keys, found
  <2>3. QED
    BY <2>1, <2>2
<1>3. WithGraph(a, g) \in
        [nodes : {g.nodes}, edges : {g.edges}, unassigned : {g.unassigned},
         height : {a.height}, found_match : {a.found_match}, set_s : {a.set_s}]
  BY WithGraphIs
<1> DEFINE w == WithGraph(a, g)
<1>4. w.set_s = a.set_s
  BY <1>3
<1>5. MergeData(a, b) =
        [[w EXCEPT !.found_match = found, !.set_s = keys] EXCEPT !.height = @ \o b.height]
  BY <1>4 DEF MergeData, MergeDistributed, g
<1> HIDE DEF w
<1>6. /\ MergeData(a, b).nodes = g.nodes /\ MergeData(a, b).edges = g.edges
      /\ MergeData(a, b).unassigned = g.unassigned /\ MergeData(a, b).found_match = found
      /\ MergeData(a, b).set_s = keys
  <2> HIDE DEF keys, found
  <2>1. QED
    BY <1>3, <1>5 DEF w
<1>7. QED
  BY <1>2, <1>6 DEF Plain

LEMMA PlainMine ==
    ASSUME NEW data, IsData(data), NEW n
    PROVE  Plain(AddMyNode(n, data)) = Mine(Plain(data), n)
<1> DEFINE g == AddMe(data, n)
<1>1. AddMe(Plain(data), n) = g
  BY PlainFields DEF AddMe, Roots
<1> HIDE DEF g
<1>2. Mine(Plain(data), n) =
        [nodes |-> g.nodes, edges |-> g.edges, unassigned |-> g.unassigned,
         found_match |-> data.found_match, set_s |-> data.set_s]
  BY <1>1, WithGraphPlain DEF Mine
<1>3. WithGraph(data, g) \in
        [nodes : {g.nodes}, edges : {g.edges}, unassigned : {g.unassigned},
         height : {data.height}, found_match : {data.found_match}, set_s : {data.set_s}]
  BY WithGraphIs
<1> DEFINE w == WithGraph(data, g)
           m == AddMyNode(n, data)
<1>4. m = [w EXCEPT !.height = Append(@, NoValue)]
  BY DEF AddMyNode, g
<1> HIDE DEF w
<1>5. /\ m.nodes = g.nodes /\ m.edges = g.edges /\ m.unassigned = g.unassigned
      /\ m.found_match = data.found_match /\ m.set_s = data.set_s
  BY <1>3, <1>4 DEF w
<1>6. QED
  BY <1>2, <1>5 DEF Plain

LEMMA PlainUdfs ==
    ASSUME NEW data, IsData(data), NEW n
    PROVE  Plain(ExecuteUdfs(n, data)) = Plain(data)
<1> DEFINE h == ExecuteUdfs(n, data)
<1>1. /\ h.nodes = data.nodes /\ h.edges = data.edges /\ h.unassigned = data.unassigned
      /\ h.found_match = data.found_match /\ h.set_s = data.set_s
  BY DEF ExecuteUdfs, IsData
<1>2. QED
  BY <1>1 DEF Plain

(* The search looks at nothing else. *)
LEMMA SameRounds ==
    ASSUME NEW a, NEW b, a.nodes = b.nodes, a.edges = b.edges
    PROVE  \A keys, v, u : /\ AfterRound(a, keys, v, u) = AfterRound(b, keys, v, u)
                           /\ FoundInRound(a, keys, v, u) <=> FoundInRound(b, keys, v, u)
<1>1. \A v : Neighbours(a, v) = Neighbours(b, v)
  BY DEF Neighbours, Nodes
<1>2. \A v, u : DegreeFits(a, Target, v, u) <=> DegreeFits(b, Target, v, u)
  BY <1>1 DEF DegreeFits
<1>3. \A keys, v, u : MatchEdges(a, Target, keys, v, u) = MatchEdges(b, Target, keys, v, u)
  BY <1>1 DEF MatchEdges
<1>4. \A keys, v, u : MaxMatching(a, Target, keys, v, u) = MaxMatching(b, Target, keys, v, u)
  BY <1>3 DEF MaxMatching
<1>5. \A keys, v, u : AfterRound(a, keys, v, u) = AfterRound(b, keys, v, u)
  BY <1>2, <1>4 DEF AfterRound
<1>6. QED
  BY <1>2, <1>5 DEF FoundInRound

LEMMA SameSearch ==
    ASSUME NEW a, NEW b, a.nodes = b.nodes, a.edges = b.edges, a.set_s = b.set_s
    PROVE  \A me, r : Search(a, me, r) = Search(b, me, r)
<1>1. \A keys, v, u : /\ AfterRound(a, keys, v, u) = AfterRound(b, keys, v, u)
                      /\ FoundInRound(a, keys, v, u) <=> FoundInRound(b, keys, v, u)
  BY SameRounds
<1>2. \A keys, v : FoundAt(a, keys, v) <=> FoundAt(b, keys, v)
  BY <1>1 DEF FoundAt
<1>3. \A keys, vs : InnerLoops(a, keys, vs) = InnerLoops(b, keys, vs)
  BY <1>1 DEF InnerLoops
<1>4. \A me : ChildrenIn(a, me) = ChildrenIn(b, me)
  BY DEF ChildrenIn
<1>5. \A me : Entered(a, me) = Entered(b, me)
  BY <1>4 DEF Entered
<1>6. QED
  BY <1>2, <1>3, <1>4, <1>5 DEF Search

LEMMA PlainTold ==
    ASSUME NEW data, IsData(data), NEW x
    PROVE  /\ Plain([data EXCEPT !.set_s = x]) = [Plain(data) EXCEPT !.set_s = x]
           /\ Plain([[data EXCEPT !.set_s = x] EXCEPT !.found_match = TRUE])
                = [[Plain(data) EXCEPT !.set_s = x] EXCEPT !.found_match = TRUE]
<1> DEFINE p == Plain(data)
           a == [data EXCEPT !.set_s = x]
           b == [p EXCEPT !.set_s = x]
<1>1. p \in [nodes : {data.nodes}, edges : {data.edges}, unassigned : {data.unassigned},
             found_match : {data.found_match}, set_s : {data.set_s}]
  BY DEF Plain
<1> HIDE DEF p
<1>2. b \in [nodes : {data.nodes}, edges : {data.edges}, unassigned : {data.unassigned},
             found_match : {data.found_match}, set_s : {x}]
  BY <1>1
<1>3. IsData(a) /\ a.nodes = data.nodes /\ a.edges = data.edges /\ a.unassigned = data.unassigned
      /\ a.found_match = data.found_match /\ a.set_s = x
  BY DEF IsData
<1> HIDE DEF a, b
<1> DEFINE c == [a EXCEPT !.found_match = TRUE]
           d == [b EXCEPT !.found_match = TRUE]
<1>4. d \in [nodes : {data.nodes}, edges : {data.edges}, unassigned : {data.unassigned},
             found_match : {TRUE}, set_s : {x}]
  BY <1>2
<1>5. c.nodes = data.nodes /\ c.edges = data.edges /\ c.unassigned = data.unassigned
      /\ c.found_match = TRUE /\ c.set_s = x
  BY <1>3 DEF IsData
<1> HIDE DEF c, d
<1>6. Plain(a) = b
  BY <1>2, <1>3 DEF Plain
<1>7. Plain(c) = d
  BY <1>4, <1>5 DEF Plain
<1>8. QED
  BY <1>6, <1>7 DEF a, b, c, d, p

(* What a distributed filter answers and sends: it hands on what was found, *)
(* or it searches, and finds nothing it may send, or it tells.             *)
AnswerIs(s, full) ==
    LET n == ServiceOf[s]
        fd == Plain(shared[n])
    IN  \/ fd.found_match /\ Plain(header'[s]) = Mine(fd, n) /\ sent' = sent
        \/ /\ ~ fd.found_match /\ Plain(header'[s]) = Searched(fd, n) /\ sent' = sent
           /\ SearchIn(fd, n).at = {} \/ ~ TraceLevelPropertyHolds(n, Mine(fd, n))
        \/ /\ ~ fd.found_match /\ Plain(header'[s]) = Told(fd, n)
           /\ \E v \in SearchIn(fd, n).at :
                sent' = Append(sent, [uid |-> uid, src |-> n, data |-> full.height[v]])

LEMMA DistributedAnswers ==
    ASSUME DistinctServices, FewSpans, NoValue \notin Nat, KnowInv, NEW s \in Spans,
           OnOutgoingResponses(s), distributed, WellFormed(Plain(shared[ServiceOf[s]])),
           NEW full, full = ExecuteUdfs(ServiceOf[s], MergeHeaders(ServiceOf[s], "response", header[s]))
    PROVE  AnswerIs(s, full)
<1> DEFINE n == ServiceOf[s]
           fd == Plain(shared[n])
           x == SearchIn(fd, n).set_s
           me == GetNodeWithId(full.nodes, n)
           search == Search(full, me, n = RootId)
           searched == [full EXCEPT !.set_s = x]
           told == [searched EXCEPT !.found_match = TRUE]
           at == IF TraceLevelPropertyHolds(n, full) THEN search.at ELSE {}
<1>1. /\ n \in Services /\ DOMAIN header = Spans
      /\ Kept(shared[n]) /\ Carries(shared[n], Fetched(s))
      /\ full = ExecuteUdfs(n, AddMyNode(n, shared[n]))
  BY CallerType DEF OnOutgoingResponses, KnowInv, SimInv, Shape, StoredOnceServed, Unserved,
                    SharedCarry, MergeHeaders
<1>2. IsData(full) /\ Plain(full) = Mine(fd, n)
  <2> DEFINE mine == AddMyNode(n, shared[n])
  <2>1. IsData(mine) /\ Plain(mine) = Mine(fd, n)
    BY <1>1, AddMyNodeIs, PlainMine DEF Kept
  <2> HIDE DEF mine, fd
  <2>2. IsData(ExecuteUdfs(n, mine)) /\ Plain(ExecuteUdfs(n, mine)) = Plain(mine)
    BY <2>1, ExecuteUdfsKeeps, PlainUdfs
  <2>3. QED
    BY <1>1, <2>1, <2>2 DEF mine
<1>3. /\ Mine(fd, n).nodes = full.nodes /\ Mine(fd, n).edges = full.edges
      /\ Mine(fd, n).set_s = full.set_s /\ Mine(fd, n).found_match = full.found_match
  BY <1>2, PlainFields
<1>4. fd.found_match = full.found_match
  BY <1>3, ToldFound
<1>5. search = SearchIn(fd, n)
  BY <1>3, SameSearch DEF SearchIn
<1>6. TraceLevelPropertyHolds(n, full) <=> TraceLevelPropertyHolds(n, Mine(fd, n))
  BY <1>3 DEF TraceLevelPropertyHolds
<1>7. Plain(searched) = Searched(fd, n) /\ Plain(told) = Told(fd, n) /\ told.height = full.height
  <2>1. Plain(searched) = [Plain(full) EXCEPT !.set_s = x]
        /\ Plain(told) = [[Plain(full) EXCEPT !.set_s = x] EXCEPT !.found_match = TRUE]
    <3> HIDE DEF x
    <3>1. QED
      BY <1>2, PlainTold
  <2>2. told.height = full.height
    <3> HIDE DEF x
    <3>1. QED
      BY <1>2, ToldHeight
  <2>3. QED
    BY <1>2, <2>1, <2>2 DEF Searched, Told
<1>8. ~ full.found_match => search.at \subseteq DOMAIN full.nodes
  <2>1. Fetched(s) \in SUBSET Children(s) /\ Carries(fd, Fetched(s)) /\ Owned(fd)
    BY <1>1, PlainGraph DEF Fetched, Kept
  <2>2. QED
    BY <1>3, <1>4, <1>5, <2>1, ResponseData
<1>9. ~ full.found_match => \A v \in search.at : full.height[v] # NoValue
  <2>1. Knows(full, {s}, CalledSpans)
    BY AnswersKnow
  <2>2. full.height \in Seq(Nat) /\ Len(full.height) = Len(full.nodes) /\ full.nodes \in Seq(Node)
    BY <1>2, <2>1 DEF Knows, IsData
  <2>3. \A v \in DOMAIN full.nodes : full.height[v] \in Nat
    BY <2>2
  <2>4. QED
    BY <1>8, <2>3
<1>10. MatchDistributed(s, full)
  BY DEF OnOutgoingResponses
<1>11. \/ full.found_match /\ header' = [header EXCEPT ![s] = full] /\ sent' = sent
       \/ /\ ~ full.found_match
          /\ at = {} \/ \E v \in at : full.height[v] = NoValue
          /\ header' = [header EXCEPT ![s] = searched] /\ sent' = sent
       \/ /\ ~ full.found_match /\ header' = [header EXCEPT ![s] = told]
          /\ \E v \in at :
               sent' = Append(sent, [uid |-> uid, src |-> n, data |-> told.height[v]])
  <2> DEFINE y == search.set_s
             a == [full EXCEPT !.set_s = y]
  <2>1. y = x
    BY <1>5
  <2>2. \/ full.found_match /\ header' = [header EXCEPT ![s] = full] /\ sent' = sent
        \/ /\ ~ full.found_match
           /\ at = {} \/ \E v \in at : full.height[v] = NoValue
           /\ header' = [header EXCEPT ![s] = a] /\ sent' = sent
        \/ /\ ~ full.found_match
           /\ \E v \in at :
                /\ header' = [header EXCEPT ![s] = [a EXCEPT !.found_match = TRUE]]
                /\ sent' = Append(sent, [uid |-> uid, src |-> n, data |-> [a EXCEPT !.found_match = TRUE].height[v]])
    BY <1>10 DEF MatchDistributed, Respond, RespondAndSend
  <2> HIDE DEF x, y
  <2>3. a = searched
    BY <2>1
  <2> HIDE DEF a, at
  <2>4. QED
    BY <2>2, <2>3
<1> HIDE DEF searched, told
<1>12. /\ header' = [header EXCEPT ![s] = full] => header'[s] = full
       /\ header' = [header EXCEPT ![s] = searched] => header'[s] = searched
       /\ header' = [header EXCEPT ![s] = told] => header'[s] = told
  BY <1>1
<1>13. at \subseteq SearchIn(fd, n).at
       /\ (at = {} => SearchIn(fd, n).at = {} \/ ~ TraceLevelPropertyHolds(n, Mine(fd, n)))
  BY <1>5, <1>6
<1>14. ~ full.found_match => \A v \in at : full.height[v] # NoValue
  BY <1>9
<1>15. CASE full.found_match
  BY <1>2, <1>4, <1>11, <1>12, <1>15 DEF AnswerIs
<1>16. CASE ~ full.found_match
  <2> HIDE DEF at, search
  <2>1. \/ Plain(header'[s]) = Searched(fd, n) /\ at = {} /\ sent' = sent
        \/ /\ Plain(header'[s]) = Told(fd, n)
           /\ \E v \in at :
                sent' = Append(sent, [uid |-> uid, src |-> n, data |-> full.height[v]])
    BY <1>7, <1>11, <1>12, <1>14, <1>16
  <2>2. CASE Plain(header'[s]) = Searched(fd, n) /\ at = {} /\ sent' = sent
    BY <1>4, <1>13, <1>16, <2>2 DEF AnswerIs
  <2>3. CASE /\ Plain(header'[s]) = Told(fd, n)
             /\ \E v \in at :
                  sent' = Append(sent, [uid |-> uid, src |-> n, data |-> full.height[v]])
    BY <1>4, <1>13, <1>16, <2>3 DEF AnswerIs
  <2>4. QED
    BY <2>1, <2>2, <2>3
<1>17. QED
  BY <1>15, <1>16

-----------------------------------------------------------------------------
(* What the hooks leave in the variables: the request hook ...             *)
RequestData(s) ==
    CollectEnvoyProperties(ServiceOf[s], IF header[s] = NoValue THEN DefaultData ELSE header[s])

LEMMA RequestHook ==
    ASSUME DistinctServices, NoneIsNoData, KnowInv, NEW s \in Spans, OnIncomingRequests(s)
    PROVE  LET x == RequestData(s)
           IN  /\ Kept(x) /\ Bare(x)
               /\ header'[s] = x /\ shared'[ServiceOf[s]] = MergeData(x, x)
               /\ \A t \in Spans : t # s =>
                    header'[t] = header[t] /\ shared'[ServiceOf[t]] = shared[ServiceOf[t]]
               /\ \A n \in Services : n # ServiceOf[s] => shared'[n] = shared[n]
               /\ CalledSpans' = CalledSpans
               /\ \A t \in Spans : Answered(t)' <=> Answered(t)
               /\ \A t \in Spans : Fetched(t)' = Fetched(t)
               /\ ~ Answered(s) /\ Fetched(s) = {}
<1> DEFINE n == ServiceOf[s]
           fetched == IF header[s] = NoValue THEN DefaultData ELSE header[s]
           x == RequestData(s)
           m == MergeData(x, x)
<1>1. /\ phase[s] = "called" /\ phase' = [phase EXCEPT ![s] = "serving"] /\ n \in Services
      /\ phase \in [Spans -> SimPhases] /\ DOMAIN header = Spans /\ DOMAIN shared = Services
      /\ shared[n] = NoValue /\ \A c \in Children(s) : phase[c] = "idle"
  BY CallerType DEF OnIncomingRequests, KnowInv, SimInv, Shape, StoredOnceServed, Unserved
<1>2. Kept(fetched) /\ Bare(fetched)
  BY <1>1, DefaultIsBare DEF KnowInv, SimInv, Shape, RequestsBare
<1> HIDE DEF fetched
<1>3. Kept(x) /\ Bare(x) /\ x # NoValue
  <2> DEFINE y == CollectEnvoyProperties(n, fetched)
  <2>1. Kept(y) /\ Bare(y)
    BY <1>1, <1>2, CollectedIsBare
  <2>2. y = x
    BY DEF RequestData, fetched
  <2> HIDE DEF y, x
  <2>3. QED
    BY <2>1, <2>2 DEF Kept, NoneIsNoData
<1>4. header' = [header EXCEPT ![s] = x] /\ StoreHeaders(n, header'[s])
  BY DEF OnIncomingRequests, RequestData
<1>5. header'[s] = x
  BY <1>1, <1>4
<1> HIDE DEF x
<1>6. shared' = [shared EXCEPT ![n] = m]
  BY <1>1, <1>3, <1>4, <1>5 DEF StoreHeaders
<1> HIDE DEF m
<1>7. /\ shared'[n] = m
      /\ \A t \in Spans : t # s =>
           header'[t] = header[t] /\ shared'[ServiceOf[t]] = shared[ServiceOf[t]]
      /\ \A k \in Services : k # n => shared'[k] = shared[k]
  BY <1>1, <1>4, <1>6, CallerType DEF DistinctServices
<1>8. /\ CalledSpans' = CalledSpans
      /\ \A t \in Spans : Answered(t)' <=> Answered(t)
      /\ \A t \in Spans : Fetched(t)' = Fetched(t)
      /\ ~ Answered(s) /\ Fetched(s) = {}
  BY <1>1 DEF CalledSpans, Answered, Fetched, Children
<1>9. QED
  BY <1>3, <1>5, <1>7, <1>8 DEF x, m

(* ... the response hook of the service, ...                                *)
LEMMA ResponseHook ==
    ASSUME KnowInv, NEW s \in Spans, OnOutgoingResponses(s)
    PROVE  /\ shared' = shared /\ UNCHANGED <<distributed, uid>>
           /\ \A t \in Spans : t # s => header'[t] = header[t]
           /\ CalledSpans' = CalledSpans /\ s \in CalledSpans
           /\ \A t \in Spans : t # s => (Answered(t)' <=> Answered(t))
           /\ Answered(s)' /\ ~ Answered(s) /\ phase[s] = "serving"
           /\ \A t \in Spans : Fetched(t)' = Fetched(t)
           /\ Fetched(s) = Children(s) \cap CalledSpans
           /\ shared[ServiceOf[s]] # NoValue
<1>1. /\ phase[s] = "serving" /\ phase' = [phase EXCEPT ![s] = "responded"]
      /\ phase \in [Spans -> SimPhases] /\ DOMAIN header = Spans
      /\ shared' = shared /\ UNCHANGED <<distributed, uid>>
      /\ \A c \in Children(s) : phase[c] \in {"idle", "done"}
      /\ shared[ServiceOf[s]] # NoValue
  BY DEF OnOutgoingResponses, KnowInv, SimInv, Shape, StoredOnceServed, Unserved
<1>2. \A t \in Spans : t # s => header'[t] = header[t]
  BY <1>1 DEF OnOutgoingResponses, Match, MatchDistributed, Respond, RespondAndSend
<1>3. CalledSpans' = CalledSpans /\ s \in CalledSpans
  BY <1>1 DEF CalledSpans
<1>4. \A t \in Spans : Fetched(t)' = Fetched(t)
  BY <1>1 DEF Fetched, Children
<1>5. Fetched(s) = Children(s) \cap CalledSpans
  BY <1>1, ChildrenOfSpans DEF CalledSpans, Fetched
<1>6. /\ \A t \in Spans : t # s => (Answered(t)' <=> Answered(t))
      /\ Answered(s)' /\ ~ Answered(s)
  BY <1>1 DEF Answered
<1>7. QED
  BY <1>1, <1>2, <1>3, <1>4, <1>5, <1>6

(* ... and that of its caller.                                             *)
LEMMA CallerHook ==
    ASSUME DistinctServices, KnowInv, NEW s \in Spans, OnIncomingResponses(s)
    PROVE  LET r == Parent[s]
               n == Caller(s)
           IN  /\ r \in Spans /\ s \in Children(r) /\ n = ServiceOf[r] /\ n \in Services
               /\ s # RootSpan /\ shared[n] # NoValue /\ header[s] # NoValue
               /\ Answered(s) /\ s \notin Fetched(r)
               /\ header' = header /\ shared'[n] = MergeData(shared[n], header[s])
               /\ \A t \in Spans : t # r => shared'[ServiceOf[t]] = shared[ServiceOf[t]]
               /\ \A k \in Services : k # n => shared'[k] = shared[k]
               /\ CalledSpans' = CalledSpans
               /\ \A t \in Spans : Answered(t)' <=> Answered(t)
               /\ Fetched(r)' = Fetched(r) \cup {s}
               /\ \A t \in Spans : t # r => Fetched(t)' = Fetched(t)
<1> DEFINE r == Parent[s]
           n == Caller(s)
           m == MergeData(shared[n], header[s])
<1>1. /\ s # RootSpan /\ phase[s] = "responded" /\ phase' = [phase EXCEPT ![s] = "done"]
      /\ phase \in [Spans -> SimPhases] /\ DOMAIN shared = Services
      /\ header' = header
  BY DEF OnIncomingResponses, KnowInv, SimInv, Shape
<1>2. r \in Spans /\ s \in Children(r) /\ n = ServiceOf[r] /\ n \in Services
  BY <1>1, ChildrenOfSpans, CallerType DEF Caller
<1>3. shared[n] # NoValue /\ header[s] # NoValue
  BY <1>1, <1>2 DEF KnowInv, SimInv, StoredOnceServed, ResponsesCarry, Unserved
<1>4. shared' = [shared EXCEPT ![n] = m]
  BY <1>3 DEF OnIncomingResponses, StoreHeaders
<1> HIDE DEF m
<1>5. /\ shared'[n] = m
      /\ \A t \in Spans : t # r => shared'[ServiceOf[t]] = shared[ServiceOf[t]]
      /\ \A k \in Services : k # n => shared'[k] = shared[k]
  BY <1>1, <1>2, <1>4, CallerType DEF DistinctServices
<1>6. CalledSpans' = CalledSpans
  BY <1>1 DEF CalledSpans
<1>7. \A t \in Spans : Answered(t)' <=> Answered(t)
  BY <1>1 DEF Answered
<1>8. \A t : \A c : c \in Fetched(t)' <=> (c \in Fetched(t) \/ (c = s /\ t = r))
  BY <1>1, <1>2, ChildrenOfSpans DEF Fetched, Children
<1>9. Fetched(r)' = Fetched(r) \cup {s} /\ \A t : t # r => Fetched(t)' = Fetched(t)
  <2>1. \A t : t # r => Fetched(t)' = Fetched(t)
    BY <1>8
  <2>2. Fetched(r)' = Fetched(r) \cup {s}
    BY <1>8
  <2>3. QED
    BY <2>1, <2>2
<1>10. Answered(s) /\ s \notin Fetched(r)
  BY <1>1 DEF Answered, Fetched
<1>11. QED
  BY <1>1, <1>2, <1>3, <1>5, <1>6, <1>7, <1>9, <1>10 DEF m

-----------------------------------------------------------------------------
(* Properties wait in the data of the spans below their own: requests take  *)
(* them down, responses up.  And only the services of the trace store data. *)
LEMMA AboveDown ==
    ASSUME NEW s \in Spans \ {RootSpan}, NEW fd, FromAbove(fd, Parent[s])
    PROVE  FromAbove(fd, s)
<1> SUFFICES ASSUME NEW p \in fd.unassigned
             PROVE  \E u \in {x \in Spans : s \in Below[x]} :
                        p = [entity |-> ServiceOf[u], value |-> PropertyOf[ServiceOf[u]]]
  BY DEF FromAbove
<1>1. PICK u \in {x \in Spans : Parent[s] \in Below[x]} :
        p = [entity |-> ServiceOf[u], value |-> PropertyOf[ServiceOf[u]]]
  BY DEF FromAbove
<1>2. s \in Below[u]
  BY BelowClosed
<1>3. QED
  BY <1>1, <1>2

LEMMA AboveUnion ==
    ASSUME NEW s, NEW a, NEW b, NEW m, FromAbove(a, s), FromAbove(b, s),
           m.unassigned \subseteq a.unassigned \cup b.unassigned
    PROVE  FromAbove(m, s)
BY DEF FromAbove

LEMMA AboveLeft ==
    ASSUME DistinctServices, NEW s \in Spans \ {RootSpan}, NEW fd, FromAbove(fd, s),
           NEW m, m.unassigned \subseteq Left(fd, ServiceOf[s])
    PROVE  FromAbove(m, Parent[s])
<1> SUFFICES ASSUME NEW p \in m.unassigned
             PROVE  \E u \in {x \in Spans : Parent[s] \in Below[x]} :
                        p = [entity |-> ServiceOf[u], value |-> PropertyOf[ServiceOf[u]]]
  BY DEF FromAbove
<1>1. p \in fd.unassigned /\ p.entity # ServiceOf[s]
  BY DEF Left
<1>2. PICK u \in {x \in Spans : s \in Below[x]} :
        p = [entity |-> ServiceOf[u], value |-> PropertyOf[ServiceOf[u]]]
  BY <1>1 DEF FromAbove
<1>3. u # s
  BY <1>1, <1>2
<1>4. Parent[s] \in Below[u]
  BY <1>2, <1>3, ParentBelow
<1>5. QED
  BY <1>2, <1>4

LEMMA AboveCollected ==
    ASSUME NEW s \in Spans, NEW data, IsData(data), FromAbove(data, s)
    PROVE  FromAbove(CollectEnvoyProperties(ServiceOf[s], data), s)
<1> DEFINE x == CollectEnvoyProperties(ServiceOf[s], data)
           own == [entity |-> ServiceOf[s], value |-> PropertyOf[ServiceOf[s]]]
<1>1. x.unassigned = data.unassigned \cup {own}
  BY DEF CollectEnvoyProperties, IsData
<1>2. s \in {y \in Spans : s \in Below[y]}
  BY BelowClosed
<1> HIDE DEF x
<1>3. QED
  BY <1>1, <1>2 DEF FromAbove, x

LEMMA AboveMerged ==
    ASSUME NEW s, NEW a, NEW b, IsData(a), IsData(b), FromAbove(a, s), FromAbove(b, s)
    PROVE  FromAbove(MergeData(a, b), s)
<1>1. MergeData(a, b).unassigned = Merge(Graph(a), Graph(b)).unassigned
      /\ Graph(a).unassigned = a.unassigned /\ Graph(b).unassigned = b.unassigned
  BY MergeDataIs, GraphIs DEF SameGraph
<1>2. Merge(Graph(a), Graph(b)).unassigned \subseteq Graph(a).unassigned \cup Graph(b).unassigned
  BY DEF Merge, RemoveAssignedProperties
<1>3. QED
  BY <1>1, <1>2, AboveUnion

LEMMA AboveAnswered ==
    ASSUME DistinctServices, NEW s \in Spans \ {RootSpan}, NEW data, IsData(data), FromAbove(data, s)
    PROVE  FromAbove(AddMyNode(ServiceOf[s], data), Parent[s])
<1> DEFINE n == ServiceOf[s]
           m == AddMyNode(n, data)
<1>1. /\ m.unassigned = AddMe(Graph(data), n).unassigned /\ Graph(data).unassigned = data.unassigned
      /\ Graph(data) \in FerriedDataType /\ n \in Services
  BY AddMyNodeIs, GraphIs, CallerType DEF SameGraph
<1>2. /\ AddMe(Graph(data), n).unassigned \subseteq Graph(data).unassigned
      /\ \A p \in AddMe(Graph(data), n).unassigned : p.entity # n
  BY <1>1, AddMeNodes
<1> HIDE DEF m
<1>3. m.unassigned \subseteq Left(data, n)
  BY <1>1, <1>2 DEF Left
<1>4. QED
  BY <1>3, AboveLeft DEF m

WaitInv ==
    /\ \A n \in Services : shared[n] # NoValue => \E s \in Spans : ServiceOf[s] = n
    /\ \A s \in Spans : shared[ServiceOf[s]] # NoValue => FromAbove(shared[ServiceOf[s]], s)
    /\ \A s \in Spans : ~ Answered(s) /\ header[s] # NoValue => FromAbove(header[s], s)
    /\ \A s \in Spans \ {RootSpan} : Answered(s) => FromAbove(header[s], Parent[s])

LEMMA EarlyWaits ==
    ASSUME KnowInv, WaitInv, NEW s \in Spans, phase[s] = "idle",
           s # RootSpan => phase[Parent[s]] = "serving",
           phase' = [phase EXCEPT ![s] = "called"], shared' = shared,
           \A t \in Spans : t # s => header'[t] = header[t],
           header'[s] # NoValue => FromAbove(header'[s], s)
    PROVE  WaitInv'
<1>1. \A t \in Spans : Answered(t)' <=> Answered(t)
  BY CallsElsewhere DEF KnowInv
<1>2. ~ Answered(s)
  BY DEF Answered
<1>3. QED
  BY <1>1, <1>2 DEF WaitInv

LEMMA OnOutgoingRequestsWaits ==
    ASSUME Detached = {}, KnowInv, WaitInv, NEW s \in Spans, OnOutgoingRequests(s)
    PROVE  WaitInv'
<1>1. /\ s # RootSpan /\ phase[s] = "idle" /\ phase[Parent[s]] = "serving"
      /\ phase' = [phase EXCEPT ![s] = "called"] /\ shared' = shared /\ DOMAIN header = Spans
  BY DEF OnOutgoingRequests, Requested, KnowInv, SimInv, Shape
<1>2. Parent[s] \in Spans /\ Caller(s) = ServiceOf[Parent[s]]
  BY <1>1, ChildrenOfSpans DEF Caller
<1>3. shared[Caller(s)] # NoValue
  BY <1>1, <1>2 DEF KnowInv, SimInv, StoredOnceServed, Unserved
<1>4. PICK x \in {NoValue, header[Parent[s]]} : header' = [header EXCEPT ![s] = x]
  BY <1>3 DEF OnOutgoingRequests, MergeHeaders
<1>5. x # NoValue => FromAbove(x, Parent[s])
  BY <1>1, <1>2, <1>4 DEF WaitInv, Answered
<1>6. x # NoValue => FromAbove(x, s)
  BY <1>1, <1>5, AboveDown
<1>7. header'[s] = x /\ \A t \in Spans : t # s => header'[t] = header[t]
  BY <1>1, <1>4
<1>8. QED
  BY <1>1, <1>6, <1>7, EarlyWaits

LEMMA EnterWaits ==
    ASSUME KnowInv, WaitInv, Enter
    PROVE  WaitInv'
<1>1. RootSpan \in Spans /\ phase[RootSpan] = "idle"
      /\ phase' = [phase EXCEPT ![RootSpan] = "called"] /\ shared' = shared /\ header' = header
  BY TraceAssumption DEF Enter
<1>2. header[RootSpan] # NoValue => FromAbove(header[RootSpan], RootSpan)
  BY <1>1 DEF WaitInv, Answered
<1>3. QED
  BY <1>1, <1>2, EarlyWaits

LEMMA OnIncomingRequestsWaits ==
    ASSUME DistinctServices, NoneIsNoData, KnowInv, WaitInv, NEW s \in Spans, OnIncomingRequests(s)
    PROVE  WaitInv'
<1> DEFINE fetched == IF header[s] = NoValue THEN DefaultData ELSE header[s]
           x == RequestData(s)
<1>1. /\ Kept(x) /\ header'[s] = x /\ shared'[ServiceOf[s]] = MergeData(x, x)
      /\ \A t \in Spans : t # s =>
           header'[t] = header[t] /\ shared'[ServiceOf[t]] = shared[ServiceOf[t]]
      /\ \A n \in Services : n # ServiceOf[s] => shared'[n] = shared[n]
      /\ \A t \in Spans : Answered(t)' <=> Answered(t)
      /\ ~ Answered(s)
  BY RequestHook
<1>2. IsData(fetched) /\ FromAbove(fetched, s)
  <2>1. IsData(DefaultData) /\ FromAbove(DefaultData, s)
    <3>1. DefaultData.unassigned = {}
      BY DEF DefaultData
    <3>2. QED
      BY <3>1, DefaultIsBare DEF Kept, FromAbove
  <2>2. header[s] # NoValue => IsData(header[s]) /\ FromAbove(header[s], s)
    BY <1>1 DEF WaitInv, KnowInv, SimInv, Shape, Kept
  <2>3. QED
    BY <2>1, <2>2
<1>3. FromAbove(x, s)
  <2> HIDE DEF fetched
  <2>1. x = CollectEnvoyProperties(ServiceOf[s], fetched)
    BY DEF RequestData, fetched
  <2> HIDE DEF x
  <2>2. QED
    BY <1>2, <2>1, AboveCollected
<1> HIDE DEF x
<1>4. FromAbove(MergeData(x, x), s)
  BY <1>1, <1>3, AboveMerged DEF Kept
<1>5. QED
  BY <1>1, <1>3, <1>4 DEF WaitInv

LEMMA OnOutgoingResponsesWaits ==
    ASSUME DistinctServices, KnowInv, WaitInv, NEW s \in Spans, OnOutgoingResponses(s)
    PROVE  WaitInv'
<1> DEFINE n == ServiceOf[s]
           mine == AddMyNode(n, shared[n])
<1>1. /\ shared' = shared /\ \A t \in Spans : t # s => header'[t] = header[t]
      /\ \A t \in Spans : t # s => (Answered(t)' <=> Answered(t))
      /\ Answered(s)' /\ shared[n] # NoValue
  BY ResponseHook
<1>2. s # RootSpan => FromAbove(header'[s], Parent[s])
  <2> SUFFICES ASSUME s # RootSpan
               PROVE  FromAbove(header'[s], Parent[s])
    OBVIOUS
  <2>1. /\ IsData(shared[n]) /\ FromAbove(shared[n], s) /\ DOMAIN header = Spans
        /\ n \in Services /\ mine = MergeHeaders(n, "response", header[s])
    BY <1>1, CallerType DEF WaitInv, KnowInv, SimInv, Shape, Kept, MergeHeaders
  <2>2. FromAbove(mine, Parent[s])
    BY <2>1, AboveAnswered
  <2>3. IsData(mine)
    BY <2>1, AddMyNodeIs
  <2> HIDE DEF mine
  <2>4. PICK data : header' = [header EXCEPT ![s] = data] /\ SameGraph(data, mine)
    BY <2>1, <2>3, ResponseSends
  <2>5. header'[s] = data /\ data.unassigned = mine.unassigned
    BY <2>1, <2>4 DEF SameGraph
  <2>6. QED
    BY <2>2, <2>5 DEF FromAbove
<1>3. QED
  BY <1>1, <1>2 DEF WaitInv

LEMMA OnIncomingResponsesWaits ==
    ASSUME DistinctServices, KnowInv, WaitInv, NEW s \in Spans, OnIncomingResponses(s)
    PROVE  WaitInv'
<1> DEFINE r == Parent[s]
           n == Caller(s)
<1>1. /\ r \in Spans /\ n = ServiceOf[r] /\ s # RootSpan /\ shared[n] # NoValue /\ n \in Services
      /\ header[s] # NoValue /\ Answered(s)
      /\ header' = header /\ shared'[n] = MergeData(shared[n], header[s])
      /\ \A t \in Spans : t # r => shared'[ServiceOf[t]] = shared[ServiceOf[t]]
      /\ \A k \in Services : k # n => shared'[k] = shared[k]
      /\ \A t \in Spans : Answered(t)' <=> Answered(t)
  BY CallerHook
<1>2. IsData(shared[n]) /\ IsData(header[s])
  BY <1>1 DEF KnowInv, SimInv, Shape, Kept
<1>3. FromAbove(shared[n], r) /\ FromAbove(header[s], r)
  BY <1>1 DEF WaitInv
<1>4. FromAbove(shared'[n], r)
  BY <1>1, <1>2, <1>3, AboveMerged
<1>5. QED
  BY <1>1, <1>4 DEF WaitInv

LEMMA FreshWaits ==
    ASSUME Fresh
    PROVE  WaitInv
BY CallerType DEF Fresh, WaitInv, Answered

LEMMA WaitStep ==
    ASSUME DistinctServices, Detached = {}, NoneIsNoData, KnowInv, WaitInv, [Next]_vars
    PROVE  WaitInv'
<1>1. ASSUME NextTrace
      PROVE  WaitInv'
  <2>1. Fresh'
    BY <1>1 DEF NextTrace, Fresh
  <2>2. Fresh' => WaitInv'
    BY FreshWaits, PTL
  <2>3. QED
    BY <2>1, <2>2
<1>2. ASSUME UNCHANGED vars
      PROVE  WaitInv'
  BY <1>2 DEF vars, WaitInv, Answered
<1>3. QED
  BY <1>1, <1>2, EnterWaits, OnOutgoingRequestsWaits, OnIncomingRequestsWaits,
     OnOutgoingResponsesWaits, OnIncomingResponsesWaits DEF Next

-----------------------------------------------------------------------------
(* The search of the distributed filters: what set_s says is true, and while *)
(* nothing was found it says all there is to say, but for the nodes that are *)
(* searched next; what was not found is not there.                          *)
GoodAnswer(x, s) ==
    /\ WellFormed(x)
    /\ Tree(Target) =>
        /\ Claims(x)
        /\ s # RootSpan => FullBut(x, {ServiceOf[s]})
        /\ ~ x.found_match /\ (s = RootSpan => WantedOfTrace) => NothingLeft(x, s)

GoodStore(x, s) ==
    WellFormed(x) /\ (Tree(Target) => Claims(x) /\ FullBut(x, CalleeNames(s)))

Blank(data) == data.found_match = FALSE /\ data.set_s = <<>>

SearchInv ==
    distributed =>
        /\ \A s \in Spans : ~ Answered(s) /\ header[s] # NoValue => Blank(header[s])
        /\ \A s \in Spans : Answered(s) => GoodAnswer(Plain(header[s]), s)
        /\ \A s \in Spans : shared[ServiceOf[s]] # NoValue => GoodStore(Plain(shared[ServiceOf[s]]), s)

LEMMA BlankIsGood ==
    ASSUME NEW x, Kept(x), Bare(x), Blank(x)
    PROVE  WellFormed(Plain(x)) /\ Claims(Plain(x)) /\ \A heads : FullBut(Plain(x), heads)
<1> DEFINE p == Plain(x)
<1>1. /\ p.nodes = <<>> /\ p.edges = {} /\ p.unassigned \in SUBSET Property
      /\ p.found_match = FALSE /\ p.set_s = <<>>
  BY PlainFields DEF Kept, IsData, Bare, Blank
<1>2. p = [nodes |-> p.nodes, edges |-> p.edges, unassigned |-> p.unassigned,
           found_match |-> p.found_match, set_s |-> p.set_s]
  BY DEF Plain
<1> HIDE DEF p
<1>3. DOMAIN p.nodes = {} /\ DOMAIN p.set_s = {} /\ p.nodes \in Seq(Node)
  BY <1>1
<1>4. SetSHasEntries(p)
  BY <1>1, <1>3 DEF SetSHasEntries
<1>5. p \in [nodes : Seq(Node), edges : SUBSET (Nat \X Nat),
             unassigned : SUBSET Property, found_match : BOOLEAN, set_s : {p.set_s}]
  BY <1>1, <1>2, <1>3
<1>6. WellFormed(p)
  BY <1>1, <1>4, <1>5 DEF WellFormed
<1>7. Claims(p)
  BY <1>3 DEF Claims, SetSTrue
<1>8. QED
  BY <1>1, <1>6, <1>7, EmptyFull DEF p

LEMMA MergeGood ==
    ASSUME DistinctServices, NEW s \in Spans, NEW C \in SUBSET Children(s),
           NEW D \in SUBSET Children(s), C \cap D = {}, NEW a, NEW b, Kept(a), Kept(b),
           Carries(a, C), Carries(b, D), FromAbove(a, s), FromAbove(b, s),
           GoodStore(Plain(a), s), GoodStore(Plain(b), s)
    PROVE  /\ GoodStore(Plain(MergeData(a, b)), s)
           /\ MergeData(a, b).found_match <=> a.found_match \/ b.found_match
<1> DEFINE x == Plain(a)
           y == Plain(b)
           m == Plain(MergeData(a, b))
<1>1. /\ Carries(x, C) /\ Carries(y, D) /\ Owned(x) /\ Owned(y)
      /\ FromAbove(x, s) /\ FromAbove(y, s)
      /\ x.found_match = a.found_match /\ y.found_match = b.found_match
  BY PlainGraph, PlainFields DEF Kept
<1>2. m = MergeDistributed(x, y)
  BY PlainMerge DEF Kept
<1>3. MergeData(a, b).found_match = m.found_match
  BY PlainFields
<1> HIDE DEF x, y, m
<1>4. /\ WellFormed(x) /\ WellFormed(y)
      /\ Tree(Target) => /\ Claims(x) /\ FullBut(x, CalleeNames(s))
                         /\ Claims(y) /\ FullBut(y, CalleeNames(s))
  BY DEF GoodStore, x, y
<1>5. WellFormed(m) /\ m.found_match = (x.found_match \/ y.found_match)
  BY <1>2, <1>4, MergeDistributedIs
<1>6. Tree(Target) => Claims(m)
  BY <1>1, <1>2, <1>4, MergeClaims
<1>7. Tree(Target) => FullBut(m, CalleeNames(s))
  BY <1>1, <1>2, <1>4, MergeFull
<1>8. QED
  BY <1>1, <1>3, <1>5, <1>6, <1>7 DEF GoodStore, m

LEMMA AppendLonger ==
    ASSUME NEW S, NEW seq \in Seq(S), NEW r
    PROVE  Append(seq, r) # seq
<1> SUFFICES ASSUME Append(seq, r) = seq
             PROVE  FALSE
  OBVIOUS
<1>1. Len(seq) \in Nat /\ Len(Append(seq, r)) = Len(seq) + 1
  OBVIOUS
<1>2. QED
  BY <1>1

LEMMA AnswerGood ==
    ASSUME DistinctServices, FewSpans, NoValue \notin Nat,
           ServiceOf[RootSpan] = RootId, SentInv, WaitInv, distributed,
           NEW s \in Spans, OnOutgoingResponses(s),
           GoodStore(Plain(shared[ServiceOf[s]]), s),
           NEW full, full = ExecuteUdfs(ServiceOf[s], MergeHeaders(ServiceOf[s], "response", header[s]))
    PROVE  /\ GoodAnswer(Plain(header'[s]), s)
           /\ AnswerIs(s, full)
           /\ header'[s].found_match <=> shared[ServiceOf[s]].found_match \/ sent' # sent
           /\ sent' # sent => ~ shared[ServiceOf[s]].found_match
<1> DEFINE n == ServiceOf[s]
           stored == shared[n]
           fd == Plain(stored)
           x == Plain(header'[s])
           C == Fetched(s)
<1>1. KnowInv /\ stored # NoValue /\ n \in Services /\ sent \in Seq(SentRpc)
  BY ResponseHook, CallerType DEF SentInv
<1>2. /\ Kept(stored) /\ Carries(stored, C) /\ FromAbove(stored, s) /\ C \in SUBSET Children(s)
  BY <1>1, ResponseHook, CallerType DEF WaitInv, KnowInv, SimInv, Shape, SharedCarry, Fetched
<1>3. /\ Carries(fd, C) /\ Owned(fd) /\ FromAbove(fd, s)
      /\ WellFormed(fd) /\ (Tree(Target) => Claims(fd) /\ FullBut(fd, CalleeNames(s)))
      /\ fd.found_match = stored.found_match /\ x.found_match = header'[s].found_match
  BY <1>2, PlainGraph, PlainFields DEF Kept, GoodStore
<1>4. AnswerIs(s, full)
  BY <1>1, <1>3, DistributedAnswers
<1> HIDE DEF C, stored
<1>5. /\ fd.found_match => WellFormed(Mine(fd, n))
      /\ ~ fd.found_match => WellFormed(Searched(fd, n)) /\ WellFormed(Told(fd, n))
      /\ Searched(fd, n).found_match <=> fd.found_match
      /\ Mine(fd, n).found_match <=> fd.found_match
  BY <1>2, <1>3, ResponseData
<1>6. Tree(Target) =>
        /\ Claims(Mine(fd, n))
        /\ ~ fd.found_match => Claims(Searched(fd, n)) /\ Claims(Told(fd, n))
  BY <1>2, <1>3, ResponseClaims
<1>7. Told(fd, n).found_match
  BY <1>3, ToldFound
<1>8. n = RootId <=> s = RootSpan
  BY TraceAssumption DEF DistinctServices
<1>9. ASSUME Tree(Target), ~ fd.found_match,
             SearchIn(fd, n).at = {} \/ ~ TraceLevelPropertyHolds(n, Mine(fd, n))
      PROVE  /\ s # RootSpan => FullBut(Searched(fd, n), {n})
             /\ (s = RootSpan => WantedOfTrace) => NothingLeft(Searched(fd, n), s)
  <2> HIDE DEF fd
  <2>1. CASE SearchIn(fd, n).at = {}
    <3>1. /\ n # RootId => FullBut(Searched(fd, n), {n}) /\ ~ MatchLow(Searched(fd, n), s)
          /\ n = RootId => (MatchHere(Searched(fd, n), s) => MatchLow(Searched(fd, n), s))
      BY <1>2, <1>3, <1>9, <2>1, ResponseFull
    <3>2. QED
      BY <1>8, <3>1 DEF NothingLeft
  <2>2. CASE ~ TraceLevelPropertyHolds(n, Mine(fd, n))
    <3>1. n = RootId /\ s = RootSpan
      BY <1>8, <2>2 DEF TraceLevelPropertyHolds
    <3>2. ASSUME WantedOfTrace
          PROVE  ~ MatchHere(Searched(fd, n), s)
      <4>1. Searched(fd, n).nodes = Mine(fd, n).nodes
        BY <1>3, ToldFound
      <4>2. QED
        BY <1>2, <1>3, <1>9, <2>2, <3>2, <4>1, HeldUpMisses DEF WantedOfTrace
    <3>3. QED
      BY <3>1, <3>2 DEF NothingLeft
  <2>3. QED
    BY <1>9, <2>1, <2>2
<1> HIDE DEF fd, x
<1>10. CASE fd.found_match /\ x = Mine(fd, n) /\ sent' = sent
  <2>1. x.found_match /\ GoodAnswer(x, s)
    BY <1>5, <1>6, <1>10 DEF GoodAnswer, FullBut
  <2>2. QED
    BY <1>3, <1>4, <1>10, <2>1 DEF x, stored
<1>11. CASE /\ ~ fd.found_match /\ x = Searched(fd, n) /\ sent' = sent
            /\ SearchIn(fd, n).at = {} \/ ~ TraceLevelPropertyHolds(n, Mine(fd, n))
  <2>1. ~ x.found_match /\ GoodAnswer(x, s)
    BY <1>5, <1>6, <1>9, <1>11 DEF GoodAnswer
  <2>2. QED
    BY <1>3, <1>4, <1>11, <2>1 DEF x, stored
<1>12. CASE /\ ~ fd.found_match /\ x = Told(fd, n)
            /\ \E v \in SearchIn(fd, n).at :
                 sent' = Append(sent, [uid |-> uid, src |-> n, data |-> full.height[v]])
  <2>1. x.found_match /\ GoodAnswer(x, s)
    BY <1>5, <1>6, <1>7, <1>12 DEF GoodAnswer, FullBut
  <2>2. sent' # sent
    <3>1. \A r : Append(sent, r) # sent
      BY <1>1, AppendLonger
    <3>2. QED
      BY <1>12, <3>1
  <2>3. QED
    BY <1>3, <1>4, <1>12, <2>1, <2>2 DEF x, stored
<1>13. QED
  BY <1>4, <1>10, <1>11, <1>12 DEF AnswerIs, fd, x, stored

(* found_match says that somebody below has sent a value; on a way through  *)
(* the trace nobody else does then.                                        *)
SentBy(s) == \E k \in DOMAIN sent : sent[k].uid = uid /\ sent[k].src = ServiceOf[s]

SentBelow(s) == \E t \in Below[s] : SentBy(t)

FoundInv ==
    /\ \A k \in DOMAIN sent : sent[k].uid = uid =>
         \E t \in Spans : Answered(t) /\ sent[k].src = ServiceOf[t]
    /\ distributed =>
        /\ \A j, k \in DOMAIN sent :
             sent[j].uid = uid /\ sent[k].uid = uid /\ sent[j].src = sent[k].src => j = k
        /\ \A s, t \in Spans : SentBy(s) /\ SentBy(t) /\ t \in Below[s] => s = t
        /\ \A s \in Spans : Answered(s) => (header[s].found_match <=> SentBelow(s))
        /\ \A s \in Spans : shared[ServiceOf[s]] # NoValue =>
             (shared[ServiceOf[s]].found_match <=> \E c \in Fetched(s) : SentBelow(c))

SendInv == SentInv /\ WaitInv /\ SearchInv /\ FoundInv

LEMMA SameSent ==
    ASSUME UNCHANGED <<uid, sent>>
    PROVE  \A s : (SentBy(s)' <=> SentBy(s)) /\ (SentBelow(s)' <=> SentBelow(s))
BY DEF SentBy, SentBelow

LEMMA EarlySends ==
    ASSUME SendInv, NEW s \in Spans, phase[s] = "idle",
           s # RootSpan => phase[Parent[s]] = "serving",
           phase' = [phase EXCEPT ![s] = "called"], shared' = shared,
           UNCHANGED <<distributed, uid, sent>>,
           \A t \in Spans : t # s => header'[t] = header[t],
           distributed /\ header'[s] # NoValue => Blank(header'[s])
    PROVE  SearchInv' /\ FoundInv'
<1>1. /\ \A t \in Spans : Answered(t)' <=> Answered(t)
      /\ \A t \in Spans : Fetched(t)' = Fetched(t)
  BY CallsElsewhere DEF SendInv, SentInv, KnowInv
<1>2. ~ Answered(s)
  BY DEF Answered
<1>3. SearchInv'
  BY <1>1, <1>2 DEF SendInv, SearchInv
<1>4. FoundInv'
  <2>1. /\ \A t \in Spans : Answered(t) => (header'[t].found_match <=> SentBelow(t)') \/ ~ distributed
        /\ \A t \in Spans : shared[ServiceOf[t]] # NoValue =>
             (shared[ServiceOf[t]].found_match <=> \E c \in Fetched(t) : SentBelow(c)') \/ ~ distributed
    BY <1>2, SameSent DEF SendInv, FoundInv
  <2>2. distributed => \A u, t \in Spans : SentBy(u)' /\ SentBy(t)' /\ t \in Below[u] => u = t
    BY SameSent DEF SendInv, FoundInv
  <2>3. /\ \A k \in DOMAIN sent : sent[k].uid = uid =>
             \E t \in Spans : Answered(t)' /\ sent[k].src = ServiceOf[t]
        /\ distributed => \A j, k \in DOMAIN sent :
             sent[j].uid = uid /\ sent[k].uid = uid /\ sent[j].src = sent[k].src => j = k
    BY <1>1 DEF SendInv, FoundInv
  <2>4. QED
    BY <1>1, <2>1, <2>2, <2>3 DEF FoundInv
<1>5. QED
  BY <1>3, <1>4

LEMMA OnOutgoingRequestsSends ==
    ASSUME Detached = {}, SendInv, NEW s \in Spans, OnOutgoingRequests(s)
    PROVE  SearchInv' /\ FoundInv'
<1>1. /\ s # RootSpan /\ phase[s] = "idle" /\ phase[Parent[s]] = "serving"
      /\ phase' = [phase EXCEPT ![s] = "called"] /\ shared' = shared /\ DOMAIN header = Spans
      /\ UNCHANGED <<distributed, uid, sent>>
  BY DEF OnOutgoingRequests, Requested, SendInv, SentInv, KnowInv, SimInv, Shape
<1>2. Parent[s] \in Spans /\ Caller(s) = ServiceOf[Parent[s]]
  BY <1>1, ChildrenOfSpans DEF Caller
<1>3. shared[Caller(s)] # NoValue
  BY <1>1, <1>2 DEF SendInv, SentInv, KnowInv, SimInv, StoredOnceServed, Unserved
<1>4. PICK x \in {NoValue, header[Parent[s]]} : header' = [header EXCEPT ![s] = x]
  BY <1>3 DEF OnOutgoingRequests, MergeHeaders
<1>5. distributed /\ x # NoValue => Blank(x)
  BY <1>1, <1>2, <1>4 DEF SendInv, SearchInv, Answered
<1>6. header'[s] = x /\ \A t \in Spans : t # s => header'[t] = header[t]
  BY <1>1, <1>4
<1>7. QED
  BY <1>1, <1>5, <1>6, EarlySends

LEMMA EnterSends ==
    ASSUME SendInv, Enter
    PROVE  SearchInv' /\ FoundInv'
<1>1. RootSpan \in Spans /\ phase[RootSpan] = "idle" /\ UNCHANGED <<distributed, uid, sent>>
      /\ phase' = [phase EXCEPT ![RootSpan] = "called"] /\ shared' = shared /\ header' = header
  BY TraceAssumption DEF Enter
<1>2. distributed /\ header[RootSpan] # NoValue => Blank(header[RootSpan])
  BY <1>1 DEF SendInv, SearchInv, Answered
<1>3. QED
  BY <1>1, <1>2, EarlySends

LEMMA OnIncomingRequestsSends ==
    ASSUME DistinctServices, NoneIsNoData, SendInv, NEW s \in Spans, OnIncomingRequests(s), WaitInv'
    PROVE  SearchInv' /\ FoundInv'
<1> DEFINE fetched == IF header[s] = NoValue THEN DefaultData ELSE header[s]
           x == RequestData(s)
           m == MergeData(x, x)
<1>1. /\ Kept(x) /\ Bare(x)
      /\ header'[s] = x /\ shared'[ServiceOf[s]] = m
      /\ \A t \in Spans : t # s =>
           header'[t] = header[t] /\ shared'[ServiceOf[t]] = shared[ServiceOf[t]]
      /\ \A t \in Spans : Answered(t)' <=> Answered(t)
      /\ \A t \in Spans : Fetched(t)' = Fetched(t)
      /\ ~ Answered(s) /\ Fetched(s) = {}
  BY RequestHook DEF SendInv, SentInv
<1>2. UNCHANGED <<distributed, uid, sent>>
  BY DEF OnIncomingRequests
<1>3. distributed => Blank(x)
  <2> SUFFICES ASSUME distributed
               PROVE  Blank(x)
    OBVIOUS
  <2>1. IsData(fetched) /\ Blank(fetched)
    <3>1. IsData(DefaultData) /\ Blank(DefaultData)
      BY DefaultIsBare DEF Kept, Blank, DefaultData
    <3>2. header[s] # NoValue => IsData(header[s]) /\ Blank(header[s])
      BY <1>1 DEF SendInv, SentInv, SearchInv, KnowInv, SimInv, Shape, Kept
    <3>3. QED
      BY <3>1, <3>2
  <2> HIDE DEF fetched
  <2>2. x = CollectEnvoyProperties(ServiceOf[s], fetched)
    BY DEF RequestData, fetched
  <2>3. x.found_match = fetched.found_match /\ x.set_s = fetched.set_s
    BY <2>1, <2>2 DEF CollectEnvoyProperties, IsData
  <2>4. QED
    BY <2>1, <2>3 DEF Blank
<1> HIDE DEF x
<1>4. distributed => GoodStore(Plain(m), s) /\ ~ m.found_match
  <2> SUFFICES ASSUME distributed
               PROVE  GoodStore(Plain(m), s) /\ ~ m.found_match
    OBVIOUS
  <2>1. GoodStore(Plain(x), s)
    BY <1>1, <1>3, BlankIsGood DEF GoodStore
  <2>2. Carries(x, {}) /\ {} \in SUBSET Children(s)
    BY <1>1, EmptyCarries DEF Bare
  <2>3. FromAbove(x, s)
    <3>1. \/ header'[s] # NoValue
          \/ x = NoValue
      BY <1>1
    <3>2. x # NoValue
      BY <1>1 DEF Kept, NoneIsNoData
    <3>3. QED
      BY <1>1, <3>2 DEF WaitInv
  <2>4. GoodStore(Plain(m), s) /\ (m.found_match <=> x.found_match \/ x.found_match)
    BY <1>1, <2>1, <2>2, <2>3, MergeGood
  <2>5. QED
    BY <1>3, <2>4 DEF Blank
<1> HIDE DEF m
<1>5. SearchInv'
  BY <1>1, <1>2, <1>3, <1>4 DEF SendInv, SearchInv
<1>6. FoundInv'
  <2>1. distributed => \A t \in Spans : Answered(t) => (header'[t].found_match <=> SentBelow(t)')
    BY <1>1, <1>2, SameSent DEF SendInv, FoundInv
  <2>2. distributed => \A t \in Spans : shared'[ServiceOf[t]] # NoValue =>
             (shared'[ServiceOf[t]].found_match <=> \E c \in Fetched(t) : SentBelow(c)')
    BY <1>1, <1>2, <1>4, SameSent DEF SendInv, FoundInv
  <2>3. distributed => \A u, t \in Spans : SentBy(u)' /\ SentBy(t)' /\ t \in Below[u] => u = t
    BY <1>2, SameSent DEF SendInv, FoundInv
  <2>4. /\ \A k \in DOMAIN sent : sent[k].uid = uid =>
             \E t \in Spans : Answered(t)' /\ sent[k].src = ServiceOf[t]
        /\ distributed => \A j, k \in DOMAIN sent :
             sent[j].uid = uid /\ sent[k].uid = uid /\ sent[j].src = sent[k].src => j = k
    BY <1>1 DEF SendInv, FoundInv
  <2>5. QED
    BY <1>1, <1>2, <2>1, <2>2, <2>3, <2>4 DEF FoundInv
<1>7. QED
  BY <1>5, <1>6

LEMMA OnIncomingResponsesSends ==
    ASSUME DistinctServices, SendInv, NEW s \in Spans, OnIncomingResponses(s)
    PROVE  SearchInv' /\ FoundInv'
<1> DEFINE r == Parent[s]
           n == Caller(s)
           m == MergeData(shared[n], header[s])
<1>0. KnowInv
  BY DEF SendInv, SentInv
<1>1. /\ r \in Spans /\ s \in Children(r) /\ n = ServiceOf[r] /\ n \in Services
      /\ s # RootSpan /\ shared[n] # NoValue /\ header[s] # NoValue
      /\ Answered(s) /\ s \notin Fetched(r)
      /\ header' = header /\ shared'[n] = m
      /\ \A t \in Spans : t # r => shared'[ServiceOf[t]] = shared[ServiceOf[t]]
      /\ \A t \in Spans : Answered(t)' <=> Answered(t)
      /\ Fetched(r)' = Fetched(r) \cup {s}
      /\ \A t \in Spans : t # r => Fetched(t)' = Fetched(t)
  BY <1>0, CallerHook
<1>2. UNCHANGED <<distributed, uid, sent>>
  BY DEF OnIncomingResponses
<1>3. ASSUME distributed
      PROVE  GoodStore(Plain(m), r) /\ (m.found_match <=> shared[n].found_match \/ header[s].found_match)
  <2>1. /\ Kept(shared[n]) /\ Kept(header[s])
        /\ Carries(shared[n], Fetched(r)) /\ Carries(header[s], {s})
        /\ FromAbove(shared[n], r) /\ FromAbove(header[s], r)
    BY <1>0, <1>1 DEF SendInv, WaitInv, KnowInv, SimInv, Shape, SharedCarry, ResponsesCarry, Answered
  <2>2. GoodStore(Plain(shared[n]), r)
    BY <1>1, <1>3 DEF SendInv, SearchInv
  <2>3. GoodStore(Plain(header[s]), r)
    <3>1. GoodAnswer(Plain(header[s]), s)
      BY <1>1, <1>3 DEF SendInv, SearchInv
    <3>2. {ServiceOf[s]} \subseteq CalleeNames(r)
      BY <1>1 DEF CalleeNames
    <3>3. QED
      BY <1>1, <3>1, <3>2, FullButMonotone DEF GoodAnswer, GoodStore
  <2>4. Fetched(r) \in SUBSET Children(r) /\ {s} \in SUBSET Children(r) /\ Fetched(r) \cap {s} = {}
    BY <1>1 DEF Fetched
  <2>5. QED
    BY <1>1, <2>1, <2>2, <2>3, <2>4, MergeGood
<1> HIDE DEF m
<1>4. SearchInv'
  BY <1>1, <1>2, <1>3 DEF SendInv, SearchInv
<1>5. FoundInv'
  <2>1. distributed => \A t \in Spans : Answered(t) => (header'[t].found_match <=> SentBelow(t)')
    BY <1>1, <1>2, SameSent DEF SendInv, FoundInv
  <2>2. ASSUME distributed, NEW t \in Spans, shared'[ServiceOf[t]] # NoValue
        PROVE  shared'[ServiceOf[t]].found_match <=> \E c \in Fetched(t)' : SentBelow(c)'
    <3>1. CASE t = r
      <4>1. shared[n].found_match <=> \E c \in Fetched(r) : SentBelow(c)
        BY <1>1, <2>2 DEF SendInv, FoundInv
      <4>2. header[s].found_match <=> SentBelow(s)
        BY <1>1, <2>2 DEF SendInv, FoundInv
      <4>3. QED
        BY <1>1, <1>2, <1>3, <2>2, <3>1, <4>1, <4>2, SameSent
    <3>2. CASE t # r
      BY <1>1, <1>2, <2>2, <3>2, SameSent DEF SendInv, FoundInv
    <3>3. QED
      BY <3>1, <3>2
  <2>3. distributed => \A u, t \in Spans : SentBy(u)' /\ SentBy(t)' /\ t \in Below[u] => u = t
    BY <1>2, SameSent DEF SendInv, FoundInv
  <2>4. /\ \A k \in DOMAIN sent : sent[k].uid = uid =>
             \E t \in Spans : Answered(t)' /\ sent[k].src = ServiceOf[t]
        /\ distributed => \A j, k \in DOMAIN sent :
             sent[j].uid = uid /\ sent[k].uid = uid /\ sent[j].src = sent[k].src => j = k
    BY <1>1 DEF SendInv, FoundInv
  <2>5. QED
    BY <1>1, <1>2, <2>1, <2>2, <2>3, <2>4 DEF FoundInv
<1>6. QED
  BY <1>4, <1>5

(* One value more. *)
LEMMA SentMore ==
    ASSUME DistinctServices, NEW S, sent \in Seq(S), NEW s \in Spans, NEW r, r.uid = uid,
           r.src = ServiceOf[s], sent' = Append(sent, r), uid' = uid
    PROVE  /\ \A t \in Spans : SentBy(t)' <=> SentBy(t) \/ t = s
           /\ Len(sent) + 1 \in DOMAIN sent'
           /\ \A k \in DOMAIN sent' :
                \/ k \in DOMAIN sent /\ sent'[k] = sent[k]
                \/ k = Len(sent) + 1 /\ sent'[k] = r
<1> DEFINE n == Len(sent)
           T == S \cup {r}
<1>1. sent \in Seq(T) /\ r \in T
  OBVIOUS
<1> HIDE DEF T
<1>2. /\ n \in Nat /\ DOMAIN sent' = 1 .. n + 1 /\ DOMAIN sent = 1 .. n
      /\ sent'[n + 1] = r /\ \A k \in 1 .. n : sent'[k] = sent[k]
  BY <1>1, AppendProperties
<1> HIDE DEF n
<1>3. /\ n + 1 \in DOMAIN sent'
      /\ \A k \in DOMAIN sent' :
           \/ k \in DOMAIN sent /\ sent'[k] = sent[k]
           \/ k = n + 1 /\ sent'[k] = r
      /\ \A k \in DOMAIN sent : k \in DOMAIN sent' /\ sent'[k] = sent[k]
  BY <1>2
<1>4. ASSUME NEW t \in Spans
      PROVE  SentBy(t)' <=> SentBy(t) \/ t = s
  <2>1. SentBy(t) => SentBy(t)'
    BY <1>3 DEF SentBy
  <2>2. t = s => SentBy(t)'
    BY <1>2, <1>3 DEF SentBy
  <2>3. SentBy(t)' => SentBy(t) \/ ServiceOf[t] = ServiceOf[s]
    BY <1>3 DEF SentBy
  <2>4. QED
    BY <2>1, <2>2, <2>3 DEF DistinctServices
<1>5. QED
  BY <1>3, <1>4 DEF n

(* Below a span that was not called nothing was. *)
LEMMA NoneBelowIdle ==
    ASSUME SimInv, NEW c \in Spans, phase[c] = "idle", NEW u \in Below[c]
    PROVE  u \notin CalledSpans
<1> DEFINE R == {x \in Spans : phase[x] = "idle"}
<1>1. \A d \in Spans \ {RootSpan} : Parent[d] \in R => d \in R
  <2> SUFFICES ASSUME NEW d \in Spans \ {RootSpan}, Parent[d] \in R
               PROVE  phase[d] = "idle"
    OBVIOUS
  <2>1. d \in Children(Parent[d]) /\ Parent[d] \in Spans
    BY ChildrenOfSpans
  <2>2. QED
    BY <2>1 DEF SimInv, StoredOnceServed, Unserved
<1>2. Below[c] \subseteq R
  BY <1>1, BelowWithin
<1>3. QED
  BY <1>2 DEF CalledSpans

LEMMA OnOutgoingResponsesSends ==
    ASSUME DistinctServices, FewSpans, NoValue \notin Nat,
           ServiceOf[RootSpan] = RootId, SendInv, NEW s \in Spans, OnOutgoingResponses(s)
    PROVE  SearchInv' /\ FoundInv'
<1> DEFINE n == ServiceOf[s]
           full == ExecuteUdfs(n, MergeHeaders(n, "response", header[s]))
<1>0. KnowInv /\ SimInv /\ Settled /\ sent \in Seq(SentRpc)
  BY DEF SendInv, SentInv, KnowInv
<1>1. /\ shared' = shared /\ UNCHANGED <<distributed, uid>>
      /\ \A t \in Spans : t # s => header'[t] = header[t]
      /\ s \in CalledSpans
      /\ \A t \in Spans : t # s => (Answered(t)' <=> Answered(t))
      /\ Answered(s)' /\ ~ Answered(s) /\ phase[s] = "serving"
      /\ \A t \in Spans : Fetched(t)' = Fetched(t)
      /\ Fetched(s) = Children(s) \cap CalledSpans
      /\ shared[n] # NoValue
  BY <1>0, ResponseHook
<1>2. \/ sent' = sent
      \/ \E h : sent' = Append(sent, [uid |-> uid, src |-> n, data |-> h])
  <2> DEFINE x == full
  <2>1. Kept(full) /\ Carries(full, {s}) /\ Knows(full, {s}, CalledSpans)
    BY <1>0, AnswersKnow
  <2>2. x = full
    OBVIOUS
  <2> HIDE DEF x
  <2>3. \/ sent' = sent
        \/ \E v \in DOMAIN x.nodes :
             sent' = Append(sent, [uid |-> uid, src |-> n, data |-> x.height[v]])
    BY <1>0, <2>1, <2>2, SendsHeight
  <2>4. QED
    BY <2>3
<1>3. ASSUME distributed
      PROVE  /\ GoodAnswer(Plain(header'[s]), s)
             /\ header'[s].found_match <=> shared[n].found_match \/ sent' # sent
             /\ sent' # sent => ~ shared[n].found_match
  <2> DEFINE x == full
  <2>1. GoodStore(Plain(shared[n]), s)
    BY <1>1, <1>3 DEF SendInv, SearchInv
  <2>2. x = full
    OBVIOUS
  <2> HIDE DEF x
  <2>3. QED
    BY <1>0, <1>3, <2>1, <2>2, AnswerGood DEF SendInv
<1> HIDE DEF full
<1>4. SearchInv'
  BY <1>1, <1>3 DEF SendInv, SearchInv
<1>5. ~ SentBy(s)
  BY <1>1 DEF SendInv, FoundInv, SentBy, DistinctServices
<1>6. /\ \A t \in Spans : SentBy(t)' <=> SentBy(t) \/ (t = s /\ sent' # sent)
      /\ \A k \in DOMAIN sent' :
           \/ k \in DOMAIN sent /\ sent'[k] = sent[k]
           \/ k = Len(sent) + 1 /\ sent'[k].src = n /\ sent' # sent
  <2>1. CASE sent' = sent
    BY <1>1, <2>1, SameSent
  <2>2. CASE \E h : sent' = Append(sent, [uid |-> uid, src |-> n, data |-> h])
    <3>1. PICK h : sent' = Append(sent, [uid |-> uid, src |-> n, data |-> h])
      BY <2>2
    <3> DEFINE r == [uid |-> uid, src |-> n, data |-> h]
    <3>2. sent' = Append(sent, r) /\ r.uid = uid /\ r.src = n
      BY <3>1
    <3> HIDE DEF r
    <3>3. sent' # sent
      BY <1>0, <3>2, AppendLonger
    <3>4. QED
      BY <1>0, <1>1, <3>2, <3>3, SentMore
  <2>3. QED
    BY <1>2, <2>1, <2>2
<1>7. \A t \in Spans : Answered(t) => s \notin Below[t]
  BY <1>0, <1>1, BelowSettled
<1>8. \A t \in Spans : Answered(t) => (SentBelow(t)' <=> SentBelow(t))
  <2> SUFFICES ASSUME NEW t \in Spans, Answered(t)
               PROVE  SentBelow(t)' <=> SentBelow(t)
    OBVIOUS
  <2>1. s \notin Below[t] /\ Below[t] \subseteq Spans
    BY <1>7, BelowClosed
  <2>2. \A u \in Below[t] : SentBy(u)' <=> SentBy(u)
    BY <1>6, <2>1
  <2>3. QED
    BY <2>2 DEF SentBelow
<1>9. SentBelow(s) <=> \E c \in Fetched(s) : SentBelow(c)
  <2>1. ASSUME NEW c \in Fetched(s), SentBelow(c)
        PROVE  SentBelow(s)
    <3>1. c \in Children(s)
      BY <1>1
    <3>2. Below[c] \subseteq Below[s]
      BY <3>1, BelowChildren
    <3>3. QED
      BY <2>1, <3>2 DEF SentBelow
  <2>2. ASSUME NEW t \in Below[s], SentBy(t)
        PROVE  \E c \in Fetched(s) : SentBelow(c)
    <3>1. t # s /\ t \in Spans
      BY <1>5, <2>2, BelowClosed
    <3>2. PICK c \in Children(s) : t \in Below[c]
      BY <3>1, BelowSplit
    <3>3. c \in Spans /\ SentBelow(c)
      BY <2>2, <3>2, ChildrenOfSpans DEF SentBelow
    <3>4. Answered(t)
      BY <2>2, <3>1 DEF SendInv, FoundInv, SentBy, DistinctServices
    <3>5. c \in CalledSpans
      <4>1. phase[c] = "idle" => \A u \in Below[c] : u \notin CalledSpans
        BY <1>0, <3>3, NoneBelowIdle
      <4>2. t \in CalledSpans
        BY <3>1, <3>4, AnsweredCalled
      <4>3. QED
        BY <3>2, <3>3, <4>1, <4>2 DEF CalledSpans
    <3>6. QED
      BY <1>1, <3>2, <3>3, <3>5
  <2>3. QED
    BY <2>1, <2>2 DEF SentBelow
<1>10. SentBelow(s)' <=> SentBelow(s) \/ sent' # sent
  <2>1. s \in Below[s] /\ Below[s] \subseteq Spans
    BY BelowClosed
  <2>2. QED
    BY <1>6, <2>1 DEF SentBelow
<1>11. ASSUME distributed
       PROVE  shared[n].found_match <=> SentBelow(s)
  BY <1>1, <1>9, <1>11 DEF SendInv, FoundInv
<1>12. ASSUME distributed
       PROVE  \A t \in Spans : Answered(t)' => (header'[t].found_match <=> SentBelow(t)')
  BY <1>1, <1>3, <1>8, <1>10, <1>11, <1>12 DEF SendInv, FoundInv
<1>13. ASSUME distributed, NEW t \in Spans, shared[ServiceOf[t]] # NoValue
       PROVE  shared[ServiceOf[t]].found_match <=> \E c \in Fetched(t) : SentBelow(c)'
  <2>1. \A c \in Fetched(t) : c \in Spans /\ Answered(c)
    BY FetchedAnswered
  <2>2. QED
    BY <1>8, <1>13, <2>1 DEF SendInv, FoundInv
<1>14. ASSUME distributed, NEW u \in Spans, NEW t \in Spans, SentBy(u)', SentBy(t)', t \in Below[u]
       PROVE  u = t
  <2>1. CASE SentBy(u) /\ SentBy(t)
    BY <1>14, <2>1 DEF SendInv, FoundInv
  <2>2. CASE t = s /\ u # s
    <3>1. Answered(u)
      BY <1>6, <1>14, <2>2 DEF SendInv, FoundInv, SentBy, DistinctServices
    <3>2. QED
      BY <1>7, <1>14, <2>2, <3>1
  <2>3. CASE u = s /\ t # s
    <3>1. SentBelow(s) /\ sent' # sent
      BY <1>5, <1>6, <1>14, <2>3 DEF SentBelow
    <3>2. QED
      BY <1>3, <1>11, <1>14, <3>1
  <2>4. QED
    BY <1>6, <1>14, <2>1, <2>2, <2>3
<1>15. \A k \in DOMAIN sent' : sent'[k].uid = uid =>
         \E t \in Spans : Answered(t)' /\ sent'[k].src = ServiceOf[t]
  BY <1>1, <1>6 DEF SendInv, FoundInv
<1>16. ASSUME distributed, NEW j \in DOMAIN sent', NEW k \in DOMAIN sent',
              sent'[j].uid = uid, sent'[k].uid = uid, sent'[j].src = sent'[k].src
       PROVE  j = k
  <2>1. \A i \in DOMAIN sent : sent[i].uid = uid => sent[i].src # n
    BY <1>5 DEF SentBy
  <2>2. CASE j \in DOMAIN sent /\ k \in DOMAIN sent /\ sent'[j] = sent[j] /\ sent'[k] = sent[k]
    BY <1>16, <2>2 DEF SendInv, FoundInv
  <2>3. QED
    BY <1>6, <1>16, <2>1, <2>2
<1>17. FoundInv'
  BY <1>1, <1>12, <1>13, <1>14, <1>15, <1>16 DEF FoundInv
<1>18. QED
  BY <1>4, <1>17

LEMMA SendStep ==
    ASSUME DistinctServices, Detached = {}, NoneIsNoData, FewSpans, NoValue \notin Nat,
           ServiceOf[RootSpan] = RootId, SendInv, [Next]_vars
    PROVE  SendInv'
<1>1. SentInv' /\ WaitInv' /\ sent \in Seq(SentRpc) /\ SentInv
  BY SentStep, WaitStep DEF SendInv, SentInv
<1>2. ASSUME NextTrace
      PROVE  SearchInv' /\ FoundInv'
  <2>1. /\ \A s \in Spans : header'[s] = NoValue /\ ~ Answered(s)'
        /\ \A s \in Spans : shared'[ServiceOf[s]] = NoValue
        /\ uid' = uid + 1 /\ sent' = sent /\ uid \in Nat
    BY <1>1, <1>2, CallerType, TracesAssumption DEF NextTrace, Answered, SentInv
  <2>2. \A k \in DOMAIN sent : sent[k].uid # uid'
    <3>1. \A k \in DOMAIN sent : sent[k].uid <= uid
      BY <1>1 DEF SentInv
    <3>2. \A k \in DOMAIN sent : sent[k].uid \in Nat
      <4>1. \A k \in DOMAIN sent : sent[k] \in SentRpc
        <5> HIDE DEF SentRpc
        <5>1. QED
          BY <1>1
      <4>2. QED
        BY <4>1, TracesAssumption DEF SentRpc
    <3>3. QED
      BY <2>1, <3>1, <3>2
  <2>3. SearchInv'
    BY <2>1 DEF SearchInv
  <2>4. FoundInv'
    BY <2>1, <2>2 DEF FoundInv, SentBy
  <2>5. QED
    BY <2>3, <2>4
<1>3. ASSUME UNCHANGED vars
      PROVE  SearchInv' /\ FoundInv'
  <2>1. /\ UNCHANGED <<distributed, uid, shared, header, sent, phase>>
        /\ \A s : Answered(s)' <=> Answered(s)
        /\ \A s : Fetched(s)' = Fetched(s)
    BY <1>3 DEF vars, Answered, Fetched
  <2>2. SearchInv'
    BY <2>1 DEF SendInv, SearchInv
  <2>3. FoundInv'
    <3>1. distributed => \A t \in Spans : Answered(t) => (header[t].found_match <=> SentBelow(t)')
      BY <2>1, SameSent DEF SendInv, FoundInv
    <3>2. distributed => \A t \in Spans : shared[ServiceOf[t]] # NoValue =>
               (shared[ServiceOf[t]].found_match <=> \E c \in Fetched(t) : SentBelow(c)')
      BY <2>1, SameSent DEF SendInv, FoundInv
    <3>3. distributed => \A u, t \in Spans : SentBy(u)' /\ SentBy(t)' /\ t \in Below[u] => u = t
      BY <2>1, SameSent DEF SendInv, FoundInv
    <3>4. /\ \A k \in DOMAIN sent : sent[k].uid = uid =>
               \E t \in Spans : Answered(t) /\ sent[k].src = ServiceOf[t]
          /\ distributed => \A j, k \in DOMAIN sent :
               sent[j].uid = uid /\ sent[k].uid = uid /\ sent[j].src = sent[k].src => j = k
      BY DEF SendInv, FoundInv
    <3>5. QED
      BY <2>1, <3>1, <3>2, <3>3, <3>4 DEF FoundInv
  <2>4. QED
    BY <2>2, <2>3
<1>4. SearchInv' /\ FoundInv'
  BY <1>1, <1>2, <1>3, EnterSends, OnOutgoingRequestsSends, OnIncomingRequestsSends,
     OnOutgoingResponsesSends, OnIncomingResponsesSends DEF Next
<1>5. QED
  BY <1>1, <1>4 DEF SendInv

LEMMA SendsAlways ==
    ASSUME DistinctServices, Detached = {}, NoneIsNoData, FewSpans, NoValue \notin Nat,
           ServiceOf[RootSpan] = RootId
    PROVE  MeshSpec => []SendInv
<1>1. MeshInit => SendInv
  <2> SUFFICES ASSUME MeshInit
               PROVE  SendInv
    OBVIOUS
  <2>1. Fresh /\ distributed \in BOOLEAN /\ uid = 1 /\ sent = <<>> /\ RootSpan \in Spans
    BY TraceAssumption DEF MeshInit, Init, Fresh
  <2>2. KnowInv /\ WaitInv /\ phase[RootSpan] # "responded" /\ uid \in 1 .. MaxTraces
    BY <2>1, FreshKnows, FreshWaits, TracesAssumption DEF Fresh
  <2>3. sent \in Seq(SentRpc) /\ DOMAIN sent = {}
    BY <2>1
  <2>4. SentInv
    BY <2>1, <2>2, <2>3 DEF SentInv, SentOfTrace
  <2>5. /\ \A s \in Spans : header[s] = NoValue /\ ~ Answered(s)
        /\ \A s \in Spans : shared[ServiceOf[s]] = NoValue
    BY <2>1, CallerType DEF Fresh, Answered
  <2>6. SearchInv /\ FoundInv
    BY <2>3, <2>5 DEF SearchInv, FoundInv, SentBy
  <2>7. QED
    BY <2>2, <2>4, <2>6 DEF SendInv
<1>2. SendInv /\ [MeshNext]_<<vars, avg, answer>> => SendInv'
  <2>1. [MeshNext]_<<vars, avg, answer>> => [Next]_vars
    BY DEF MeshNext, Hooks, Receives, Over
  <2>2. QED
    BY <2>1, SendStep
<1>3. QED
  BY <1>1, <1>2, PTL DEF MeshSpec

(* The data in the filters and on the way keeps its type.                  *)
LEMMA DataTyped ==
    ASSUME NEW data, Kept(data), NEW C \in SUBSET Spans,
           Carries(data, C), distributed => SetSHasEntries(data),
           data.height \in Seq(Nat), Len(data.height) = Len(data.nodes),
           \A i \in DOMAIN data.nodes : \A t \in Spans :
               ServiceOf[t] = data.nodes[i].name => data.height[i] \in 0 .. Cardinality(Spans)
    PROVE  DataType(data)
<1>1. data.nodes \in Seq(Node) /\ data.height \in Seq(Nat)
  BY DEF Kept, IsData
<1>2. DOMAIN data.height = DOMAIN data.nodes
  BY <1>1
<1>3. \A i \in DOMAIN data.nodes : data.height[i] \in 0 .. Cardinality(Spans) \cup {NoValue}
  <2> SUFFICES ASSUME NEW i \in DOMAIN data.nodes
               PROVE  data.height[i] \in 0 .. Cardinality(Spans)
    OBVIOUS
  <2>1. PICK t \in UNION {Below[c] : c \in C} : ServiceOf[t] = data.nodes[i].name
    BY DEF Carries, Sound
  <2>2. t \in Spans
    BY <2>1, BelowClosed
  <2>3. QED
    BY <2>1, <2>2
<1>4. data.height \in [DOMAIN data.nodes -> 0 .. Cardinality(Spans) \cup {NoValue}]
  BY <1>1, <1>2, <1>3
<1>5. WithGraph(Default, data) \in FerriedDataType
  BY GraphIs DEF Kept, Graph
<1>6. QED
  BY <1>4, <1>5 DEF DataType

LEMMA TypesAre ==
    ASSUME FewSpans, SendInv
    PROVE  TypeOK
<1>0. KnowInv /\ CalledSpans \in SUBSET Spans
      /\ \A c \in CalledSpans \ {RootSpan} : Parent[c] \in CalledSpans
  BY SimCallers DEF SendInv, SentInv, KnowInv, CallersCalled, CalledSpans
<1>1. ASSUME NEW data, Kept(data), NEW C \in SUBSET Spans, Carries(data, C),
             Knows(data, C, CalledSpans), distributed => WellFormed(Plain(data))
      PROVE  DataType(data)
  <2>1. distributed => SetSHasEntries(data)
    BY <1>1, PlainGraph DEF WellFormed
  <2>2. ASSUME NEW i \in DOMAIN data.nodes, NEW t \in Spans, ServiceOf[t] = data.nodes[i].name
        PROVE  data.height[i] \in 0 .. Cardinality(Spans)
    <3>1. PICK u \in CalledSpans : ServiceOf[u] = data.nodes[i].name
      BY <1>1 DEF Knows, NamesIn
    <3>2. data.height[i] = HeightIn(CalledSpans, u)
      BY <1>0, <1>1, <3>1 DEF Knows
    <3>3. QED
      BY <1>0, <3>1, <3>2, HeightStep
  <2>3. QED
    BY <1>1, <2>1, <2>2, DataTyped DEF Knows
<1>2. ASSUME NEW data, Kept(data), Bare(data), data.height = <<>>, distributed => Blank(data)
      PROVE  DataType(data)
  <2>1. Carries(data, {})
    BY <1>2, EmptyCarries DEF Bare
  <2>2. distributed => SetSHasEntries(data)
    BY <1>2, BlankIsGood, PlainGraph DEF WellFormed
  <2>3. data.height \in Seq(Nat) /\ Len(data.height) = Len(data.nodes) /\ DOMAIN data.nodes = {}
    BY <1>2 DEF Bare
  <2>4. QED
    BY <1>2, <2>1, <2>2, <2>3, DataTyped
<1>3. ASSUME NEW n \in Services, shared[n] # NoValue
      PROVE  DataType(shared[n])
  <2>1. PICK s \in Spans : ServiceOf[s] = n
    BY <1>3 DEF SendInv, WaitInv
  <2>2. /\ Kept(shared[n]) /\ Carries(shared[n], Fetched(s)) /\ Fetched(s) \in SUBSET Spans
        /\ Knows(shared[n], Fetched(s), CalledSpans)
    BY <1>0, <1>3, <2>1, FetchedAnswered DEF KnowInv, SimInv, Shape, SharedCarry, SharedKnow
  <2>3. distributed => WellFormed(Plain(shared[n]))
    BY <1>3, <2>1 DEF SendInv, SearchInv, GoodStore
  <2>4. QED
    BY <1>1, <2>2, <2>3
<1>4. ASSUME NEW s \in Spans, header[s] # NoValue
      PROVE  DataType(header[s])
  <2>1. Kept(header[s])
    BY <1>0, <1>4 DEF KnowInv, SimInv, Shape
  <2>2. CASE Answered(s)
    <3>1. Carries(header[s], {s}) /\ Knows(header[s], {s}, CalledSpans)
      BY <1>0, <2>2 DEF KnowInv, SimInv, ResponsesCarry, ResponsesKnow, Answered
    <3>2. distributed => WellFormed(Plain(header[s]))
      BY <2>2 DEF SendInv, SearchInv, GoodAnswer
    <3>3. QED
      BY <1>1, <2>1, <3>1, <3>2
  <2>3. CASE ~ Answered(s)
    <3>1. phase[s] \in {"idle", "called", "serving"}
      BY <1>0, <2>3 DEF KnowInv, SimInv, Shape, SimPhases, Answered
    <3>2. Bare(header[s]) /\ header[s].height = <<>> /\ (distributed => Blank(header[s]))
      BY <1>0, <1>4, <2>3, <3>1 DEF KnowInv, SimInv, RequestsBare, RequestsLow, SendInv, SearchInv
    <3>3. QED
      BY <1>2, <2>1, <3>2
  <2>4. QED
    BY <2>2, <2>3
<1>5. phase \in [Spans -> SimPhases]
  BY <1>0 DEF KnowInv, SimInv, Shape
<1>6. QED
  BY <1>3, <1>4, <1>5 DEF TypeOK, SendInv, SentInv, SentRpc

(* The types of the simulator's filters: the heights are one for each node, *)
(* set_s, in the distributed filter, has the entries that the search will   *)
(* look up, and what is sent are heights.                                  *)
THEOREM SimFilterTyped ==
    ASSUME DistinctServices, Detached = {}, NoneIsNoData, FewSpans, NoValue \notin Nat,
           ServiceOf[RootSpan] = RootId
    PROVE  MeshSpec => []TypeOK
BY SendsAlways, TypesAre, PTL

-----------------------------------------------------------------------------
(* Selected takes each of the elements asked for, once.                     *)
Takes(some, seq, P, at) ==
    /\ \A j \in DOMAIN some : at[j] \in P /\ some[j] = seq[at[j]]
    /\ \A i, j \in DOMAIN some : at[i] = at[j] => i = j
    /\ \A k \in P : \E j \in DOMAIN some : at[j] = k

LEMMA SelectedEach ==
    ASSUME NEW seq, NEW n \in Nat, NEW P \in SUBSET (1 .. n)
    PROVE  \E at : Takes(Selected(seq, P), seq, P, at)
<1> DEFINE c == Cardinality(P)
           rank(k) == Cardinality({i \in P : i <= k})
           with(j) == {k \in P : rank(k) = j}
           at == [j \in 1 .. c |-> CHOOSE k \in with(j) : TRUE]
<1>1. IsFiniteSet(P) /\ c \in Nat /\ \A k : rank(k) \in 0 .. c
  BY PositionsAdd
<1>2. Selected(seq, P) = [j \in 1 .. c |-> seq[at[j]]]
  <2>1. Selected(seq, P) = [j \in 1 .. c |-> seq[CHOOSE k \in with(j) : TRUE]]
    BY Zenon DEF Selected
  <2>2. \A j \in 1 .. c : at[j] = (CHOOSE k \in with(j) : TRUE)
    OBVIOUS
  <2> HIDE DEF with, at
  <2>3. QED
    BY <2>1, <2>2
<1>3. \A j \in 1 .. c : at[j] \in P /\ rank(at[j]) = j
  <2> SUFFICES ASSUME NEW j \in 1 .. c
               PROVE  at[j] \in P /\ rank(at[j]) = j
    OBVIOUS
  <2>1. with(j) # {}
    <3>1. PICK k \in P : rank(k) = j
      BY AllRanked DEF Ranked
    <3> HIDE DEF rank
    <3>2. k \in with(j)
      BY <3>1
    <3>3. QED
      BY <3>2
  <2>2. at[j] = CHOOSE k \in with(j) : TRUE
    OBVIOUS
  <2> HIDE DEF at
  <2>3. at[j] \in with(j)
    <3> HIDE DEF with
    <3>1. QED
      BY <2>1, <2>2
  <2>4. QED
    BY <2>3
<1>4. ASSUME NEW k \in P, NEW l \in P, rank(k) = rank(l)
      PROVE  k = l
  <2> DEFINE upto(x) == {i \in P : i <= x}
  <2>1. k \in Nat /\ l \in Nat /\ \A i \in P : i \in Nat
    OBVIOUS
  <2>2. k \in upto(k) /\ l \in upto(l) /\ upto(k) \in SUBSET P /\ upto(l) \in SUBSET P
    BY <2>1
  <2>3. Cardinality(upto(k)) = Cardinality(upto(l))
    BY <1>4
  <2>4. IsFiniteSet(upto(k)) /\ IsFiniteSet(upto(l))
    <3> HIDE DEF upto
    <3>1. QED
      BY <1>1, <2>2, FS_Subset
  <2>5. CASE k <= l
    <3>1. upto(k) \in SUBSET upto(l)
      <4> SUFFICES ASSUME NEW i \in upto(k)
                   PROVE  i \in upto(l)
        OBVIOUS
      <4>1. i \in P /\ i <= k
        OBVIOUS
      <4>2. i <= l
        BY <2>1, <2>5, <4>1
      <4>3. QED
        BY <4>1, <4>2
    <3>2. upto(l) = upto(k)
      <4> HIDE DEF upto
      <4>1. QED
        BY <2>3, <2>4, <3>1, FS_Subset
    <3>3. QED
      BY <2>1, <2>2, <2>5, <3>2
  <2>6. CASE l <= k
    <3>1. upto(l) \in SUBSET upto(k)
      <4> SUFFICES ASSUME NEW i \in upto(l)
                   PROVE  i \in upto(k)
        OBVIOUS
      <4>1. i \in P /\ i <= l
        OBVIOUS
      <4>2. i <= k
        BY <2>1, <2>6, <4>1
      <4>3. QED
        BY <4>1, <4>2
    <3>2. upto(k) = upto(l)
      <4> HIDE DEF upto
      <4>1. QED
        BY <2>3, <2>4, <3>1, FS_Subset
    <3>3. QED
      BY <2>1, <2>2, <2>6, <3>2
  <2>7. QED
    BY <2>1, <2>5, <2>6
<1>5. ASSUME NEW k \in P
      PROVE  rank(k) \in 1 .. c /\ at[rank(k)] = k
  <2>1. rank(k) # 0
    <3> DEFINE T == {i \in P : i <= k}
    <3>1. k \in T /\ T \in SUBSET P
      OBVIOUS
    <3> HIDE DEF T
    <3>2. IsFiniteSet(T)
      BY <1>1, <3>1, FS_Subset
    <3>3. Cardinality(T) # 0
      BY <3>1, <3>2, FS_EmptySet
    <3>4. QED
      BY <3>3 DEF T
  <2> HIDE DEF at, rank, with
  <2>2. rank(k) \in 1 .. c
    BY <1>1, <2>1
  <2>3. QED
    BY <1>3, <1>4, <2>2
<1> HIDE DEF rank, with
<1> DEFINE some == Selected(seq, P)
<1>6. DOMAIN some = 1 .. c /\ \A j \in 1 .. c : some[j] = seq[at[j]]
  BY <1>2
<1> HIDE DEF at, some
<1>7. Takes(some, seq, P, at)
  BY <1>3, <1>5, <1>6 DEF Takes
<1>8. QED
  BY <1>7 DEF some

(* What was sent in this trace, in terms of all that was sent.              *)
LEMMA SentNowEach ==
    ASSUME NEW S, sent \in Seq(S)
    PROVE  /\ \A s \in Spans : (\E k \in DOMAIN SentNow : SentNow[k].src = ServiceOf[s]) <=> SentBy(s)
           /\ (\A j, k \in DOMAIN sent :
                 sent[j].uid = uid /\ sent[k].uid = uid /\ sent[j].src = sent[k].src => j = k)
              => \A j, k \in DOMAIN SentNow : SentNow[j].src = SentNow[k].src => j = k
<1> DEFINE P == {k \in DOMAIN sent : sent[k].uid = uid}
<1>1. P \in SUBSET (1 .. Len(sent)) /\ Len(sent) \in Nat
  OBVIOUS
<1>2. SentNow = Selected(sent, P)
  BY DEF SentNow
<1>3. \A k : k \in P <=> k \in DOMAIN sent /\ sent[k].uid = uid
  OBVIOUS
<1> HIDE DEF P
<1> DEFINE now == Selected(sent, P)
<1>4. PICK at : Takes(now, sent, P, at)
  <2> DEFINE n == Len(sent)
  <2>1. n \in Nat /\ P \in SUBSET (1 .. n)
    BY <1>1
  <2> HIDE DEF n
  <2>2. QED
    BY <2>1, SelectedEach
<1>0. SentNow = now
  BY <1>2
<1> HIDE DEF now
<1>5. ASSUME NEW s \in Spans
      PROVE  (\E k \in DOMAIN SentNow : SentNow[k].src = ServiceOf[s]) <=> SentBy(s)
  BY <1>0, <1>3, <1>4 DEF SentBy, Takes
<1>6. ASSUME \A j, k \in DOMAIN sent :
                 sent[j].uid = uid /\ sent[k].uid = uid /\ sent[j].src = sent[k].src => j = k,
             NEW j \in DOMAIN SentNow, NEW k \in DOMAIN SentNow, SentNow[j].src = SentNow[k].src
      PROVE  j = k
  BY <1>0, <1>3, <1>4, <1>6 DEF Takes
<1>7. QED
  BY <1>5, <1>6

-----------------------------------------------------------------------------
(* A match lies below its own span.                                        *)
LEMMA MatchStaysBelow ==
    ASSUME Tree(Target), NEW S \in SUBSET Spans, NEW p \in Spans, NEW m \in Below[p], m \in MatchesOf(S),
           NEW R, R = Below[p] \cap S
    PROVE  EmbedsAt(Target, [t \in R |-> SpanLabel[t]],
                    {e \in CallEdges : e[1] \in R /\ e[2] \in R}, m)
<1> DEFINE U == Nodes(Target)
           root == FindRoot(Target)
           labels == [t \in S |-> SpanLabel[t]]
           calls == {e \in CallEdges : e[2] \in S}
           low == [t \in R |-> SpanLabel[t]]
           within == {e \in CallEdges : e[1] \in R /\ e[2] \in R}
<1>1. EmbedsAt(Target, labels, calls, m) /\ DOMAIN labels = S /\ DOMAIN Target.nodes = U /\ DOMAIN low = R
  BY DEF MatchesOf, Nodes
<1>2. \A t \in S : labels[t] = SpanLabel[t]
  OBVIOUS
<1>3. \A t \in R : low[t] = SpanLabel[t]
  OBVIOUS
<1>4. \A c, d : <<c, d>> \in calls => d \in Spans \ {RootSpan} /\ c = Parent[d]
  BY DEF CallEdges
<1>5. \A d \in Spans \ {RootSpan} : Parent[d] \in R /\ d \in R => <<Parent[d], d>> \in within
  BY DEF CallEdges
<1> HIDE DEF labels, calls, low, within
<1>6. PICK f \in [U -> S] :
        /\ f[root] = m
        /\ \A u, w \in U : f[u] = f[w] => u = w
        /\ \A e \in Target.edges : <<f[e[1]], f[e[2]]>> \in calls
        /\ \A u \in U : HasPropertySubset(labels[f[u]], Target.nodes[u])
  BY <1>1 DEF EmbedsAt
<1>7. ASSUME NEW a, NEW b, <<a, b>> \in Target.edges
      PROVE  f[b] \in Spans \ {RootSpan} /\ f[a] = Parent[f[b]] /\ a \in U /\ b \in U
  <2> DEFINE e == <<a, b>>
  <2>1. e \in Target.edges /\ e[1] = a /\ e[2] = b
    BY <1>7
  <2>2. e \in U \X U
    BY <2>1, PatternAssumption DEF Nodes
  <2>3. <<f[a], f[b]>> \in calls
    BY <1>6, <2>1
  <2>4. QED
    BY <1>4, <2>2, <2>3
<1>8. \A u \in U : f[u] \in Below[p]
  <2> DEFINE Z == {u \in U : f[u] \in Below[p]}
  <2>1. TreeFrom(U, Target.edges, root) /\ root \in U
    BY TreePair
  <2>2. root \in Z /\ Z \in SUBSET U
    BY <1>6, <2>1
  <2>3. ASSUME NEW a, NEW b, <<a, b>> \in Target.edges, a \in Z
        PROVE  b \in Z
    BY <1>7, <2>3, BelowClosed
  <2> HIDE DEF Z, U, root
  <2>4. Z = U
    BY <2>1, <2>2, <2>3, TreeInduction
  <2>5. QED
    BY <2>4 DEF Z
<1>9. f \in [U -> R]
  BY <1>6, <1>8
<1>10. ASSUME NEW e \in Target.edges
       PROVE  <<f[e[1]], f[e[2]]>> \in within
  <2>1. <<e[1], e[2]>> \in Target.edges
    <3>1. Target.edges \subseteq U \X U
      BY PatternAssumption DEF Nodes
    <3> HIDE DEF U
    <3>2. QED
      BY <3>1
  <2>2. QED
    BY <1>5, <1>7, <1>9, <2>1
<1>11. \A u \in U : HasPropertySubset(low[f[u]], Target.nodes[u])
  BY <1>2, <1>3, <1>6, <1>9
<1>12. QED
  BY <1>1, <1>6, <1>9, <1>10, <1>11 DEF EmbedsAt, low, within

(* What a response knows of a match below it is a match in its graph.       *)
LEMMA MatchKnown ==
    ASSUME DistinctServices, Tree(Target), NEW S \in SUBSET Spans, NEW p \in Spans,
           NEW m \in Below[p], m \in MatchesOf(S), NEW g, Sound(g, Below[p]),
           \A t \in Below[p] \cap S : Tells(g, p, t)
    PROVE  \E v \in DOMAIN g.nodes :
               g.nodes[v] = SpanLabel[m] /\ EmbedsAt(Target, g.nodes, g.edges, v)
<1> DEFINE R == Below[p] \cap S
           k == [t \in R |-> CHOOSE j \in DOMAIN g.nodes : g.nodes[j] = SpanLabel[t]]
           low == [t \in R |-> SpanLabel[t]]
           within == {e \in CallEdges : e[1] \in R /\ e[2] \in R}
<1>1. EmbedsAt(Target, low, within, m) /\ DOMAIN low = R
  BY MatchStaysBelow
<1>2. \A t \in R : low[t] = SpanLabel[t] /\ t \in Spans
  OBVIOUS
<1>3. m \in R
  BY DEF MatchesOf
<1>4. ASSUME NEW t \in R
      PROVE  k[t] \in DOMAIN g.nodes /\ g.nodes[k[t]] = SpanLabel[t] /\ SpanLabel[t].name = ServiceOf[t]
  <2>1. SpanLabel[t] = [name |-> ServiceOf[t], value |-> PropertyOf[ServiceOf[t]]]
    BY <1>2 DEF SpanLabel
  <2>2. \E j \in DOMAIN g.nodes : g.nodes[j] = SpanLabel[t]
    BY <2>1 DEF Tells
  <2>3. QED
    BY <2>1, <2>2
<1>5. k \in [R -> DOMAIN g.nodes]
  <2>1. k = [t \in R |-> k[t]]
    OBVIOUS
  <2> HIDE DEF k
  <2>2. QED
    BY <1>4, <2>1
<1>6. \A i, j \in DOMAIN g.nodes : g.nodes[i].name = g.nodes[j].name => i = j
  BY DEF Sound
<1>7. ASSUME NEW c \in R, NEW d \in R, <<c, d>> \in within
      PROVE  <<k[c], k[d]>> \in g.edges
  <2>1. d \in Spans \ {RootSpan} /\ c = Parent[d]
    BY <1>7 DEF CallEdges
  <2>2. d # p
    <3>1. d \in Children(c) /\ c \in Spans
      BY <1>2, <2>1 DEF Children
    <3>2. c \notin Below[d]
      BY <3>1, BelowChildren
    <3>3. QED
      BY <3>2
  <2>3. Tells(g, p, d) /\ Caller(d) = ServiceOf[c]
    BY <2>1 DEF Caller
  <2> HIDE DEF k, R, within
  <2>4. PICK j \in DOMAIN g.nodes :
          /\ g.nodes[j] = [name |-> ServiceOf[d], value |-> PropertyOf[ServiceOf[d]]]
          /\ \E i \in DOMAIN g.nodes : <<i, j>> \in g.edges /\ g.nodes[i].name = Caller(d)
    BY <2>2, <2>3 DEF Tells
  <2>5. PICK i \in DOMAIN g.nodes : <<i, j>> \in g.edges /\ g.nodes[i].name = Caller(d)
    BY <2>4
  <2>6. g.nodes[j].name = ServiceOf[d]
    BY <2>4
  <2>7. j = k[d] /\ i = k[c]
    BY <1>4, <1>6, <2>3, <2>5, <2>6
  <2>8. QED
    BY <2>5, <2>7
<1>8. \A c, d \in R : k[c] = k[d] => c = d
  <2> SUFFICES ASSUME NEW c \in R, NEW d \in R, k[c] = k[d]
               PROVE  c = d
    OBVIOUS
  <2>1. ServiceOf[c] = ServiceOf[d]
    <3> HIDE DEF k
    <3>1. QED
      BY <1>4
  <2>2. QED
    BY <1>2, <2>1 DEF DistinctServices
<1>9. \A c \in R : g.nodes[k[c]] = low[c]
  BY <1>2, <1>4
<1> HIDE DEF k, low, within
<1>10. EmbedsAt(Target, g.nodes, g.edges, k[m])
  <2> HIDE DEF R
  <2>1. k \in [DOMAIN low -> DOMAIN g.nodes]
    BY <1>1, <1>5
  <2>2. QED
    BY <1>1, <1>7, <1>8, <1>9, <2>1, LiesOver
<1>11. QED
  BY <1>3, <1>4, <1>10

(* What an answered call's response says of the trace is of the calls below *)
(* it, and it says all there is of them.                                    *)
LEMMA AnswerSays ==
    ASSUME KnowInv, NEW p \in Spans, Answered(p)
    PROVE  LET g == header[p]
           IN  /\ g.nodes \in Seq(Node) /\ g.edges \subseteq Nat \X Nat
               /\ Sound(g, Below[p])
               /\ NamesIn(g.nodes) \subseteq {ServiceOf[t] : t \in CalledSpans}
               /\ \A t \in Below[p] \cap CalledSpans : Tells(g, p, t)
<1> DEFINE g == header[p]
<1>1. Kept(g) /\ Carries(g, {p}) /\ Knows(g, {p}, CalledSpans)
  BY DEF KnowInv, SimInv, Shape, ResponsesCarry, ResponsesKnow, Answered
<1>2. UNION {Below[c] : c \in {p}} = Below[p]
  OBVIOUS
<1> HIDE DEF g
<1>3. /\ g.nodes \in Seq(Node) /\ g.edges \subseteq Nat \X Nat /\ Sound(g, Below[p])
  BY <1>1, <1>2 DEF Kept, IsData, Carries
<1>4. /\ NamesIn(g.nodes) \subseteq {ServiceOf[t] : t \in CalledSpans}
      /\ \A t \in Below[p] \cap CalledSpans : Tells(g, p, t)
  BY <1>1 DEF Knows
<1>5. QED
  BY <1>3, <1>4 DEF g

(* A response that has found nothing has missed no match that its filter    *)
(* looks for.                                                              *)
LEMMA NothingMissed ==
    ASSUME DistinctServices, Tree(Target), SendInv, distributed, NEW p \in Spans, Answered(p),
           ~ header[p].found_match, NEW m \in CalledMatches, m \in Below[p]
    PROVE  /\ p # RootSpan => m \notin Children(p)
           /\ p = RootSpan /\ WantedOfTrace /\ m = RootSpan =>
                Children(RootSpan) \cap CalledMatches # {}
<1> DEFINE g == header[p]
           x == Plain(g)
           S == CalledSpans
<1>1. KnowInv /\ RootSpan \in Spans /\ S \in SUBSET Spans
  BY TraceAssumption DEF SendInv, SentInv, CalledSpans
<1>2. \A c \in S \ {RootSpan} : Parent[c] \in S
  BY <1>1, SimCallers DEF KnowInv, CallersCalled, CalledSpans
<1>3. CalledMatches = MatchesOf(S)
  BY DEF MatchesOf, CalledMatches, CalledEdges, Called, CalledSpans
<1>4. /\ g.nodes \in Seq(Node) /\ g.edges \subseteq Nat \X Nat
      /\ Sound(g, Below[p]) /\ NamesIn(g.nodes) \subseteq {ServiceOf[t] : t \in S}
      /\ \A t \in Below[p] \cap S : Tells(g, p, t)
  BY <1>1, AnswerSays
<1>5. GoodAnswer(x, p)
  BY DEF SendInv, SearchInv
<1>6. x.nodes = g.nodes /\ x.edges = g.edges /\ ~ x.found_match
  BY PlainFields
<1>7. (p = RootSpan => WantedOfTrace) => NothingLeft(x, p)
  BY <1>5, <1>6 DEF GoodAnswer
<1> HIDE DEF g, x, S
<1>8. PICK v \in DOMAIN g.nodes :
        g.nodes[v] = SpanLabel[m] /\ EmbedsAt(Target, g.nodes, g.edges, v)
  BY <1>1, <1>3, <1>4, MatchKnown
<1>9. g.nodes[v].name = ServiceOf[m] /\ m \in Spans
  BY <1>1, <1>3, <1>8 DEF SpanLabel, MatchesOf
<1>10. ASSUME p # RootSpan, m \in Children(p)
       PROVE  FALSE
  <2>1. g.nodes[v].name \in CalleeNames(p)
    BY <1>9, <1>10 DEF CalleeNames
  <2>2. MatchLow(x, p)
    BY <1>6, <1>8, <2>1 DEF MatchLow
  <2>3. QED
    BY <1>7, <1>10, <2>2 DEF NothingLeft
<1>11. ASSUME p = RootSpan, WantedOfTrace, m = RootSpan
       PROVE  Children(RootSpan) \cap CalledMatches # {}
  <2>1. MatchHere(x, p)
    BY <1>6, <1>8, <1>11 DEF MatchHere
  <2>2. PICK w \in DOMAIN g.nodes :
          g.nodes[w].name \in CalleeNames(p) /\ EmbedsAt(Target, g.nodes, g.edges, w)
    BY <1>6, <1>7, <1>11, <2>1 DEF NothingLeft, MatchLow
  <2>3. Below[p] = Spans
    BY <1>1, <1>11, BelowRoot
  <2>4. PICK k : Pictures(g, k, S)
    BY <1>1, <1>2, <1>4, <1>11, <2>3, WholeTrace
  <2>5. k[w] \in MatchesOf(S) /\ g.nodes[w] = SpanLabel[k[w]] /\ k[w] \in Spans
    <3>1. k[w] \in MatchesOf(S)
      BY <1>1, <1>2, <2>2, <2>4, PictureMatches
    <3>2. k[w] \in S /\ g.nodes[w] = SpanLabel[k[w]]
      BY <2>4 DEF Pictures
    <3>3. QED
      BY <1>1, <3>1, <3>2
  <2>6. PICK c \in Children(p) : g.nodes[w].name = ServiceOf[c]
    BY <2>2 DEF CalleeNames
  <2>7. k[w] = c
    BY <2>5, <2>6 DEF SpanLabel, DistinctServices, Children
  <2>8. QED
    BY <1>3, <1>11, <2>5, <2>6, <2>7
<1>12. QED
  BY <1>10, <1>11

LEMMA OneSends ==
    ASSUME DistinctServices, Tree(Target), SendInv
    PROVE  OneSendsOnEachWay
<1> SUFFICES ASSUME distributed
             PROVE  OneSendsOnEachWay
  BY DEF OneSendsOnEachWay
<1> DEFINE low == Children(RootSpan)
           Sends(s) == \E k \in DOMAIN SentNow : SentNow[k].src = ServiceOf[s]
           SendsBelow(s) == \E t \in Below[s] : Sends(t)
<1>1. KnowInv /\ sent \in Seq(SentRpc) /\ RootSpan \in Spans
  BY TraceAssumption DEF SendInv, SentInv
<1>2. /\ \A s \in Spans : Sends(s) <=> SentBy(s)
      /\ \A j, k \in DOMAIN SentNow : SentNow[j].src = SentNow[k].src => j = k
  BY <1>1, SentNowEach DEF SendInv, FoundInv
<1> HIDE DEF Sends
<1>3. \A s, t \in Spans : Sends(s) /\ Sends(t) /\ t \in Below[s] => s = t
  BY <1>2 DEF SendInv, FoundInv
<1>4. \A s \in Spans : SendsBelow(s) <=> SentBelow(s)
  BY <1>2, BelowClosed DEF SentBelow
<1> HIDE DEF SendsBelow
<1>5. \A p \in Spans : Answered(p) /\ header[p].found_match => SendsBelow(p)
  BY <1>4 DEF SendInv, FoundInv
<1>6. ASSUME phase[RootSpan] = "responded", NEW m \in CalledMatches \ (low \cup {RootSpan})
      PROVE  SendsBelow(Parent[m])
  <2> DEFINE p == Parent[m]
  <2>1. m \in Spans \ {RootSpan} /\ phase[m] # "idle" /\ p # RootSpan
    BY DEF CalledMatches, Called, Children
  <2>2. p \in Spans /\ m \in Children(p) /\ phase[p] # "idle"
    BY <1>1, <2>1, SimCallers, ChildrenOfSpans DEF KnowInv, CallersCalled, CalledSpans
  <2>3. m \in Below[p]
    <3>1. m \in Below[m] /\ Below[m] \subseteq Below[p]
      BY <2>1, <2>2, BelowChildren, BelowClosed
    <3>2. QED
      BY <3>1
  <2>4. Answered(p)
    <3>1. p \in Below[RootSpan] /\ Answered(RootSpan)
      BY <1>1, <1>6, <2>2, BelowRoot DEF Answered
    <3>2. QED
      BY <1>1, <2>2, <3>1, BelowSettled DEF KnowInv, Answered
  <2> HIDE DEF p
  <2>5. header[p].found_match
    BY <2>1, <2>2, <2>3, <2>4, NothingMissed
  <2>6. QED
    BY <1>5, <2>2, <2>4, <2>5 DEF p
<1>7. ASSUME phase[RootSpan] = "responded",
             RootSpan \in CalledMatches, low \cap CalledMatches = {}, WantedOfTrace
      PROVE  SendsBelow(RootSpan)
  <2>1. Answered(RootSpan) /\ RootSpan \in Below[RootSpan]
    BY <1>1, <1>7, BelowClosed DEF Answered
  <2>2. header[RootSpan].found_match
    BY <1>1, <1>7, <2>1, NothingMissed
  <2>3. QED
    BY <1>1, <1>5, <2>1, <2>2
<1>8. QED
  BY <1>2, <1>3, <1>6, <1>7 DEF OneSendsOnEachWay, Sends, SendsBelow

(* The distributed filters answer the query: on a way through the trace one *)
(* sends a value, and when the mesh has answered, some filter at or below   *)
(* the caller of every match has sent one, but for a match at a callee of   *)
(* the root, and one at the root itself if there is one at a callee.        *)
THEOREM DistributedAnswer ==
    ASSUME DistinctServices, Detached = {}, NoneIsNoData, FewSpans, NoValue \notin Nat,
           ServiceOf[RootSpan] = RootId, Tree(Target)
    PROVE  MeshSpec => []OneSendsOnEachWay
BY SendsAlways, OneSends, PTL

-----------------------------------------------------------------------------
(* The refinement of TraceCollection.  The two specifications mean the same *)
(* by a match, and see the same of the trace.                              *)
LEMMA SameOperators ==
    /\ \A V, edges, v : Collection!Reachable(V, edges, v) = Reachable(V, edges, v)
    /\ \A h, label, edges, v :
        Collection!EmbedsAt(h, label, edges, v) <=> EmbedsAt(h, label, edges, v)
<1>1. \A V, edges, v : Collection!Reachable(V, edges, v) = Reachable(V, edges, v)
  BY DEF Collection!Reachable, Reachable
<1>2. \A h : Collection!FindRoot(h) = FindRoot(h)
  BY DEF Collection!FindRoot, FindRoot
<1>3. \A x, y : Collection!HasPropertySubset(x, y) <=> HasPropertySubset(x, y)
  BY DEF Collection!HasPropertySubset, HasPropertySubset
<1>4. \A h, label, edges, v :
        Collection!EmbedsAt(h, label, edges, v) <=> EmbedsAt(h, label, edges, v)
  BY <1>2, <1>3 DEF Collection!EmbedsAt, EmbedsAt
<1>5. QED
  BY <1>1, <1>4

LEMMA CollectionSees ==
    ASSUME CallersCalled, NEW s \in CalledSpans
    PROVE  Collection!SeenBelow(s) = Seen(s) /\ Collection!MatchesBelow(s) = MatchesSeen(s)
<1>1. Collection!SeenBelow(s) = Seen(s)
  <2>1. Collection!SeenBelow(s)
          = Reachable(CalledSpans, {<<Parent[c], c>> : c \in CalledSpans \ {RootSpan}}, s)
    BY SameOperators DEF Collection!SeenBelow, Called, CalledSpans
  <2>2. QED
    BY <2>1, SeenBelowIs
<1>2. QED
  BY <1>1, SameOperators DEF Collection!MatchesBelow, MatchesSeen

(* What a filter sends is the height of a node at which the pattern matches *)
(* its graph, and the centralized one sends it only if the trace is asked   *)
(* for.                                                                    *)
LEMMA SentIsMatch ==
    ASSUME DistinctServices, FewSpans, NoValue \notin Nat, ServiceOf[RootSpan] = RootId,
           Tree(Target), SendInv, NEW s \in Spans, OnOutgoingResponses(s),
           NEW full, full = ExecuteUdfs(ServiceOf[s], MergeHeaders(ServiceOf[s], "response", header[s])),
           sent' # sent
    PROVE  /\ WantedOfTrace \/ distributed
           /\ \E v \in DOMAIN full.nodes :
                /\ EmbedsAt(Target, full.nodes, full.edges, v)
                /\ sent' = Append(sent, [uid |-> uid, src |-> ServiceOf[s], data |-> full.height[v]])
<1> DEFINE n == ServiceOf[s]
           stored == shared[n]
           fd == Plain(stored)
<1>1. KnowInv /\ n \in Services
  BY CallerType DEF SendInv, SentInv
<1>2. /\ Kept(full) /\ Carries(full, {s}) /\ Knows(full, {s}, CalledSpans)
      /\ s \in CalledSpans /\ \A c \in CalledSpans \ {RootSpan} : Parent[c] \in CalledSpans
  BY <1>1, AnswersKnow
<1>3. CASE ~ distributed
  <2>1. WantedOfTrace
    BY <1>1, <1>2, <1>3, CentralSends
  <2>2. PICK v \in FirstMatches(full, Target) :
          sent' = Append(sent, [uid |-> uid, src |-> n, data |-> full.height[v]])
    <3>1. Match(s, full)
      BY <1>3 DEF OnOutgoingResponses
    <3>2. QED
      BY <3>1 DEF Match, Respond, RespondAndSend
  <2>3. v \in DOMAIN full.nodes /\ EmbedsAt(Target, full.nodes, full.edges, v)
    BY <2>2 DEF FirstMatches, Reachable
  <2>4. QED
    BY <2>1, <2>2, <2>3
<1>4. CASE distributed
  <2>1. stored # NoValue /\ Kept(stored) /\ Carries(stored, Fetched(s)) /\ FromAbove(stored, s)
        /\ Fetched(s) \in SUBSET Children(s) /\ GoodStore(fd, s)
    <3>1. stored # NoValue
      BY <1>1, ResponseHook
    <3>2. QED
      BY <1>1, <1>4, <3>1 DEF SendInv, WaitInv, SearchInv, KnowInv, SimInv, Shape, SharedCarry, Fetched
  <2>2. Carries(fd, Fetched(s)) /\ Owned(fd) /\ WellFormed(fd) /\ Claims(fd)
    BY <2>1, PlainGraph DEF Kept, GoodStore
  <2>3. AnswerIs(s, full)
    BY <1>1, <1>4, <2>2, DistributedAnswers
  <2>4. PICK v \in SearchIn(fd, n).at :
          ~ fd.found_match /\ sent' = Append(sent, [uid |-> uid, src |-> n, data |-> full.height[v]])
    BY <2>3 DEF AnswerIs
  <2>5. EmbedsAt(Target, Mine(fd, n).nodes, Mine(fd, n).edges, v)
    <3> HIDE DEF fd
    <3>1. QED
      BY <2>1, <2>2, <2>4, ResponseClaims
  <2>6. Mine(fd, n).nodes = full.nodes /\ Mine(fd, n).edges = full.edges
    <3> DEFINE mine == AddMyNode(n, stored)
    <3>1. IsData(mine) /\ Plain(mine) = Mine(fd, n)
      BY <1>1, <2>1, PlainMine, AddMyNodeIs DEF Kept
    <3>2. full = ExecuteUdfs(n, mine)
      BY <2>1 DEF MergeHeaders
    <3> HIDE DEF mine, fd
    <3>3. Plain(full) = Mine(fd, n)
      BY <3>1, <3>2, PlainUdfs
    <3>4. QED
      BY <3>3, PlainFields
  <2>7. v \in DOMAIN full.nodes /\ EmbedsAt(Target, full.nodes, full.edges, v)
    BY <2>5, <2>6, TargetRoot DEF EmbedsAt
  <2>8. QED
    BY <1>4, <2>4, <2>7
<1>5. QED
  BY <1>3, <1>4

(* So it may be reported: it is what the query returns for a match below.   *)
LEMMA SentIsAllowed ==
    ASSUME DistinctServices, FewSpans, NoValue \notin Nat, ServiceOf[RootSpan] = RootId,
           Tree(Target), SendInv, NEW s \in Spans, OnOutgoingResponses(s), sent' # sent
    PROVE  /\ WantedOfTrace \/ distributed
           /\ \E m \in Collection!MatchesBelow(s) :
                sent' = Append(sent, [uid |-> uid, src |-> ServiceOf[s],
                                      data |-> HeightOfMatch(m, Collection!SeenBelow(m))])
<1> DEFINE full == ExecuteUdfs(ServiceOf[s], MergeHeaders(ServiceOf[s], "response", header[s]))
<1>1. KnowInv
  BY DEF SendInv, SentInv
<1>2. /\ Kept(full) /\ Carries(full, {s}) /\ Knows(full, {s}, CalledSpans) /\ s \in CalledSpans
  BY <1>1, AnswersKnow
<1>3. full = full
  OBVIOUS
<1> HIDE DEF full
<1>4. WantedOfTrace \/ distributed
  BY <1>3, SentIsMatch DEF full
<1>5. PICK v \in DOMAIN full.nodes :
        /\ EmbedsAt(Target, full.nodes, full.edges, v)
        /\ sent' = Append(sent, [uid |-> uid, src |-> ServiceOf[s], data |-> full.height[v]])
  BY <1>3, SentIsMatch DEF full
<1>6. Sound(full, Below[s]) /\ NamesIn(full.nodes) \subseteq CalledNames
  <2>1. UNION {Below[c] : c \in {s}} = Below[s]
    OBVIOUS
  <2>2. QED
    BY <1>2, <2>1 DEF Carries, Knows, CalledNames
<1>7. PICK m \in MatchesSeen(s) : ServiceOf[m] = full.nodes[v].name
  BY <1>2, <1>5, <1>6, MatchIsReal
<1>8. m \in CalledSpans /\ m \in Spans /\ CallersCalled
  BY <1>1, <1>7, SimCallers DEF MatchesSeen, Seen, CalledSpans, KnowInv
<1>9. m \in Collection!MatchesBelow(s) /\ Collection!SeenBelow(m) = Below[m] \cap CalledSpans
  BY <1>2, <1>7, <1>8, CollectionSees DEF Seen
<1>10. full.height[v] = HeightIn(CalledSpans, m)
  BY <1>2, <1>5, <1>7, <1>8 DEF Knows
<1>11. HeightOfMatch(m, Collection!SeenBelow(m)) = HeightIn(CalledSpans, m)
  <2>1. Below[m] \cap Collection!SeenBelow(m) = Below[m] \cap CalledSpans
    BY <1>9
  <2>2. QED
    BY <2>1 DEF HeightOfMatch, HeightIn
<1>12. QED
  BY <1>4, <1>5, <1>9, <1>10, <1>11
(* The heights of a sequence of Rpcs with one Rpc more. *)
LEMMA AppendData ==
    ASSUME NEW S, NEW seq \in Seq(S), NEW x \in S
    PROVE  [k \in DOMAIN Append(seq, x) |-> Append(seq, x)[k].data]
             = Append([k \in DOMAIN seq |-> seq[k].data], x.data)
<1> DEFINE T == {r.data : r \in S}
           n == Len(seq)
           values == [k \in DOMAIN seq |-> seq[k].data]
           more == [k \in DOMAIN Append(seq, x) |-> Append(seq, x)[k].data]
<1>1. /\ n \in Nat /\ DOMAIN seq = 1 .. n /\ DOMAIN Append(seq, x) = 1 .. n + 1
      /\ \A k \in 1 .. n : Append(seq, x)[k] = seq[k] /\ seq[k] \in S
      /\ Append(seq, x)[n + 1] = x
  BY AppendProperties
<1> HIDE DEF n
<1>2. values \in [1 .. n -> T]
  BY <1>1
<1>3. values \in Seq(T) /\ Len(values) = n /\ x.data \in T
  BY <1>1, <1>2
<1>4. /\ Append(values, x.data) \in Seq(T) /\ Len(Append(values, x.data)) = n + 1
      /\ \A k \in 1 .. n : Append(values, x.data)[k] = values[k]
      /\ Append(values, x.data)[n + 1] = x.data
  <2> HIDE DEF values, T
  <2>1. QED
    BY <1>3, AppendProperties
<1>5. \A k \in 1 .. n + 1 : k \in 1 .. n \/ k = n + 1
  BY <1>1
<1>6. /\ more = [k \in 1 .. n + 1 |-> more[k]]
      /\ \A k \in 1 .. n + 1 : more[k] \in T /\ more[k] = Append(values, x.data)[k]
  BY <1>1, <1>4, <1>5
<1>7. more \in [1 .. n + 1 -> T]
  BY <1>6
<1> HIDE DEF more, values, T
<1>8. more \in Seq(T) /\ Len(more) = n + 1
  BY <1>1, <1>7
<1>9. more = Append(values, x.data)
  BY <1>4, <1>6, <1>8, SeqEqual
<1>10. QED
  BY <1>9 DEF more, values

Reports == [k \in DOMAIN SentNow |-> SentNow[k].data]

AnsweredSpans == {s \in Spans : Answered(s)}

(* One value more in this trace is one report more, ...                     *)
LEMMA ReportsGrow ==
    ASSUME sent \in Seq(SentRpc), NEW r \in SentRpc, r.uid = uid,
           sent' = Append(sent, r), uid' = uid
    PROVE  Reports' = Append(Reports, r.data)
<1> DEFINE P == {k \in DOMAIN sent : sent[k].uid = uid}
           len == Len(sent)
<1>1. /\ len \in Nat /\ DOMAIN sent = 1 .. len /\ DOMAIN sent' = 1 .. len + 1
      /\ sent'[len + 1] = r /\ \A k \in 1 .. len : sent'[k] = sent[k]
  BY AppendProperties
<1>2. {k \in DOMAIN sent' : sent'[k].uid = uid'} = P \cup {len + 1}
  <2>1. \A k : k \in 1 .. len + 1 <=> k \in 1 .. len \/ k = len + 1
    BY <1>1
  <2>2. \A k \in 1 .. len : k # len + 1
    BY <1>1
  <2>3. QED
    BY <1>1, <2>1, <2>2
<1>3. SentNow = Selected(sent, P) /\ P \in SUBSET (DOMAIN sent)
  BY DEF SentNow
<1>4. SentNow' = Selected(Append(sent, r), P \cup {len + 1})
  BY <1>2 DEF SentNow
<1> HIDE DEF P
<1>5. SentNow' = Append(SentNow, r) /\ SentNow \in Seq(SentRpc)
  <2>1. Selected(Append(sent, r), P \cup {len + 1}) = Append(Selected(sent, P), r)
        /\ Selected(sent, P) \in Seq(SentRpc)
    BY <1>3, SelectedAppend
  <2>2. QED
    BY <1>3, <1>4, <2>1
<1> DEFINE old == SentNow
<1>6. /\ old \in Seq(SentRpc)
      /\ Reports' = [k \in DOMAIN Append(old, r) |-> Append(old, r)[k].data]
      /\ Reports = [k \in DOMAIN old |-> old[k].data]
  BY <1>5 DEF Reports
<1> HIDE DEF old
<1>7. [k \in DOMAIN Append(old, r) |-> Append(old, r)[k].data]
        = Append([k \in DOMAIN old |-> old[k].data], r.data)
  BY <1>6, AppendData
<1>8. QED
  BY <1>6, <1>7

(* ... and of a new trace there are none.                                   *)
NothingSent == \A k \in DOMAIN sent : sent[k].uid # uid

NothingReported == Reports = <<>>

LEMMA NoReports ==
    ASSUME NothingSent
    PROVE  NothingReported
<1>1. {k \in DOMAIN sent : sent[k].uid = uid} = {}
  BY DEF NothingSent
<1>2. Cardinality({}) = 0 /\ 1 .. 0 = {}
  BY FS_EmptySet
<1>3. DOMAIN SentNow = {}
  BY <1>1, <1>2 DEF SentNow, Selected
<1>4. QED
  BY <1>3 DEF Reports, NothingReported

LEMMA CollectionVars ==
    /\ Collection!vars = <<WantedOfTrace \/ distributed, CalledSpans, AnsweredSpans, Reports>>
    /\ Called = CalledSpans
    /\ {s \in Spans : phase[s] \in {"responded", "done"}} = AnsweredSpans
BY DEF Collection!vars, Called, CalledSpans, AnsweredSpans, Answered, Reports

(* Every step of the simulator's filters is one of the abstract             *)
(* specification: a call, an answer, or the next trace.                     *)
LEMMA CollectionStep ==
    ASSUME DistinctServices, Detached = {}, FewSpans, NoValue \notin Nat,
           ServiceOf[RootSpan] = RootId, Tree(Target), SendInv, SentInv', [Next]_vars
    PROVE  [Collection!Next]_(Collection!vars)
<1>1. KnowInv /\ phase \in [Spans -> SimPhases] /\ RootSpan \in Spans /\ sent \in Seq(SentRpc)
      /\ uid \in Nat /\ \A k \in DOMAIN sent : sent[k].uid <= uid
  BY TraceAssumption DEF SendInv, SentInv, KnowInv, SimInv, Shape, SentRpc
<1>2. CallersCalled
  BY <1>1, SimCallers DEF KnowInv
<1>3. UNCHANGED <<uid, sent>> => UNCHANGED Reports
  BY DEF Reports, SentNow
<1>4. UNCHANGED <<distributed, CalledSpans, AnsweredSpans, Reports>> => UNCHANGED Collection!vars
  <2> SUFFICES ASSUME UNCHANGED <<distributed, CalledSpans, AnsweredSpans, Reports>>
               PROVE  UNCHANGED Collection!vars
    OBVIOUS
  <2>1. (Collection!vars)' = <<(WantedOfTrace \/ distributed)', CalledSpans', AnsweredSpans', Reports'>>
    BY DEF Collection!vars, Called, CalledSpans, AnsweredSpans, Answered, Reports
  <2>2. (WantedOfTrace \/ distributed)' <=> (WantedOfTrace \/ distributed)
    BY DEF WantedOfTrace
  <2>3. QED
    BY <2>1, <2>2, CollectionVars
<1>5. ASSUME NEW s \in Spans, phase[s] = "idle", s # RootSpan => phase[Parent[s]] = "serving",
             phase' = [phase EXCEPT ![s] = "called"], UNCHANGED <<distributed, uid, sent>>
      PROVE  Collection!Call(s)
  <2>1. s \notin CalledSpans /\ CalledSpans' = CalledSpans \cup {s} /\ AnsweredSpans' = AnsweredSpans
    BY <1>1, <1>5 DEF CalledSpans, AnsweredSpans, Answered
  <2>2. s # RootSpan => Parent[s] \in CalledSpans
    BY <1>5, ChildrenOfSpans DEF CalledSpans
  <2>3. QED
    BY <1>3, <1>5, <2>1, <2>2
       DEF Collection!Call, Called, CalledSpans, AnsweredSpans, Answered, Reports, WantedOfTrace
<1>6. ASSUME Enter
      PROVE  Collection!Next
  <2>1. Collection!Call(RootSpan)
    BY <1>1, <1>5, <1>6 DEF Enter
  <2>2. QED
    BY <1>1, <2>1 DEF Collection!Next
<1>7. ASSUME NEW s \in Spans, OnOutgoingRequests(s)
      PROVE  Collection!Next
  <2>1. Collection!Call(s)
    BY <1>5, <1>7 DEF OnOutgoingRequests, Requested
  <2>2. QED
    BY <2>1 DEF Collection!Next
<1>8. ASSUME NEW s \in Spans, OnIncomingRequests(s)
      PROVE  UNCHANGED Collection!vars
  <2>1. phase[s] = "called" /\ phase' = [phase EXCEPT ![s] = "serving"]
        /\ UNCHANGED <<distributed, uid, sent>>
    BY <1>8 DEF OnIncomingRequests
  <2>2. CalledSpans' = CalledSpans /\ AnsweredSpans' = AnsweredSpans
    BY <1>1, <2>1 DEF CalledSpans, AnsweredSpans, Answered
  <2>3. QED
    BY <1>3, <1>4, <2>1, <2>2
<1>9. ASSUME NEW s \in Spans, OnIncomingResponses(s)
      PROVE  UNCHANGED Collection!vars
  <2>1. phase[s] = "responded" /\ phase' = [phase EXCEPT ![s] = "done"]
        /\ UNCHANGED <<distributed, uid, sent>>
    BY <1>9 DEF OnIncomingResponses
  <2>2. CalledSpans' = CalledSpans /\ AnsweredSpans' = AnsweredSpans
    BY <1>1, <2>1 DEF CalledSpans, AnsweredSpans, Answered
  <2>3. QED
    BY <1>3, <1>4, <2>1, <2>2
<1>10. ASSUME NEW s \in Spans, OnOutgoingResponses(s)
       PROVE  Collection!Next
  <2>1. /\ phase[s] = "serving" /\ phase' = [phase EXCEPT ![s] = "responded"]
        /\ UNCHANGED <<distributed, uid>>
        /\ \A c \in Children(s) : phase[c] \in {"idle", "done"}
    BY <1>10 DEF OnOutgoingResponses
  <2>2. /\ s \in CalledSpans \ AnsweredSpans
        /\ CalledSpans' = CalledSpans /\ AnsweredSpans' = AnsweredSpans \cup {s}
    BY <1>1, <2>1 DEF CalledSpans, AnsweredSpans, Answered
  <2>3. \A c \in CalledSpans \ (Detached \cup {RootSpan}) : Parent[c] = s => c \in AnsweredSpans
    BY <2>1 DEF CalledSpans, AnsweredSpans, Answered, Children
  <2>4. \/ UNCHANGED Reports
        \/ /\ WantedOfTrace \/ distributed
           /\ \E m \in Collection!MatchesBelow(s) :
                Reports' = Append(Reports, HeightOfMatch(m, Collection!SeenBelow(m)))
    <3>1. CASE sent' = sent
      BY <1>3, <2>1, <3>1
    <3>2. CASE sent' # sent
      <4>1. WantedOfTrace \/ distributed
        BY <1>10, <3>2, SentIsAllowed
      <4>2. PICK m \in Collection!MatchesBelow(s) :
              sent' = Append(sent, [uid |-> uid, src |-> ServiceOf[s],
                                    data |-> HeightOfMatch(m, Collection!SeenBelow(m))])
        BY <1>10, <3>2, SentIsAllowed
      <4> DEFINE h == HeightOfMatch(m, Collection!SeenBelow(m))
                 r == [uid |-> uid, src |-> ServiceOf[s], data |-> h]
      <4>3. r.uid = uid /\ r.data = h /\ sent' = Append(sent, r)
        BY <4>2
      <4>4. r \in SentRpc
        <5> HIDE DEF r
        <5>1. sent' \in Seq(SentRpc) /\ Len(sent) + 1 \in DOMAIN sent' /\ sent'[Len(sent) + 1] = r
          BY <1>1, <4>3 DEF SentInv
        <5>2. QED
          BY <5>1
      <4> HIDE DEF r, h
      <4>5. Reports' = Append(Reports, h)
        BY <1>1, <2>1, <4>3, <4>4, ReportsGrow
      <4>6. QED
        BY <4>1, <4>5 DEF h
    <3>3. QED
      BY <3>1, <3>2
  <2>5. Collection!Answer(s)
    BY <2>1, <2>2, <2>3, <2>4
       DEF Collection!Answer, Called, CalledSpans, AnsweredSpans, Answered, Reports, WantedOfTrace
  <2>6. QED
    BY <2>5 DEF Collection!Next
<1>11. ASSUME NextTrace
       PROVE  Collection!Next
  <2>1. RootSpan \in AnsweredSpans /\ CalledSpans' = {} /\ AnsweredSpans' = {}
        /\ UNCHANGED distributed
    BY <1>1, <1>11 DEF NextTrace, CalledSpans, AnsweredSpans, Answered
  <2>2. Reports' = <<>>
    <3>1. NothingSent' => NothingReported'
      BY NoReports, PTL
    <3>2. uid' = uid + 1 /\ sent' = sent
      BY <1>11 DEF NextTrace
    <3>3. \A k \in DOMAIN sent : sent[k].uid # uid'
      <4>0. \A k \in DOMAIN sent : sent[k] \in SentRpc
        BY <1>1
      <4>1. \A k \in DOMAIN sent : sent[k].uid \in Nat
        BY <4>0 DEF SentRpc
      <4>2. QED
        BY <1>1, <3>2, <4>1
    <3>4. QED
      BY <3>1, <3>2, <3>3 DEF NothingSent, NothingReported
  <2>3. Collection!NewTrace
    BY <2>1, <2>2
       DEF Collection!NewTrace, Called, CalledSpans, AnsweredSpans, Answered, Reports, WantedOfTrace
  <2>4. QED
    BY <2>3 DEF Collection!Next
<1>12. ASSUME UNCHANGED vars
       PROVE  UNCHANGED Collection!vars
  <2>1. UNCHANGED <<distributed, uid, sent, phase>>
    BY <1>12 DEF vars
  <2>2. CalledSpans' = CalledSpans /\ AnsweredSpans' = AnsweredSpans
    BY <2>1 DEF CalledSpans, AnsweredSpans, Answered
  <2>3. QED
    BY <1>3, <1>4, <2>1, <2>2
<1>13. QED
  BY <1>6, <1>7, <1>8, <1>9, <1>10, <1>11, <1>12 DEF Next

LEMMA CollectionInit ==
    ASSUME Init
    PROVE  Collection!Init
<1>1. CalledSpans = {} /\ AnsweredSpans = {} /\ sent = <<>> /\ distributed \in BOOLEAN
  BY DEF Init, CalledSpans, AnsweredSpans, Answered
<1>2. Reports = <<>>
  BY <1>1, NoReports DEF NothingSent, NothingReported
<1>3. WantedOfTrace \in BOOLEAN
  BY DEF WantedOfTrace
<1>4. QED
  BY <1>1, <1>2, <1>3 DEF Collection!Init, Called, CalledSpans, AnsweredSpans, Answered, Reports

(* The simulator's filters, however the query was compiled, implement       *)
(* TraceCollection: in each of the traces that follow one another, what is  *)
(* sent with an answer is what the query returns for a span at which its    *)
(* pattern really matches, of the calls really made.                       *)
THEOREM SimFilterImplements ==
    ASSUME DistinctServices, Detached = {}, NoneIsNoData, FewSpans, NoValue \notin Nat,
           ServiceOf[RootSpan] = RootId, Tree(Target)
    PROVE  MeshSpec => ImplementsTraceCollection
<1>1. MeshSpec => []SendInv
  BY SendsAlways
<1>2. MeshInit => Collection!Init
  BY CollectionInit DEF MeshInit
<1>3. SendInv /\ SendInv' /\ [MeshNext]_<<vars, avg, answer>> => [Collection!Next]_(Collection!vars)
  <2>1. [MeshNext]_<<vars, avg, answer>> => [Next]_vars
    BY DEF MeshNext, Hooks, Receives, Over
  <2>2. SendInv' => SentInv'
    BY DEF SendInv
  <2>3. QED
    BY <2>1, <2>2, CollectionStep
<1>4. QED
  BY <1>1, <1>2, <1>3, PTL DEF MeshSpec, Collection!Spec, ImplementsTraceCollection

-----------------------------------------------------------------------------
(* The refinement of RunningAverage.  What StorageProofs proves about sums  *)
(* holds here too; its machine and its requests play no part in that.       *)
Sums == INSTANCE StorageProofs WITH
    Requests <- {}, ValueOf <- <<>>, Workers <- 1, NoStruct <- NoValue,
    phase <- phase, stored <- avg, local <- shared, answer <- answer

(* u64 has numbers enough to count the Rpcs to storage with, and for each.  *)
FewRpcs ==
    /\ Modulus \in Nat \ {0}
    /\ MaxTraces * Cardinality(Spans) < Modulus

LEMMA SameSums ==
    /\ \A s : Sums!IsFiniteSet(s) <=> IsFiniteSet(s)
    /\ \A w : Sums!Sum(w) = Running!Sum(w)
    /\ Modulus \in Nat \ {0} => Sums!ModulusAssumption
    /\ Sums!StorageAssumption
<1>1. \A s : Sums!IsFiniteSet(s) <=> IsFiniteSet(s)
  BY DEF Sums!IsFiniteSet, IsFiniteSet
<1>2. \A w : Sums!Sum(w) = Running!Sum(w)
  BY DEF Sums!Sum, Sums!MapThenSumSet, Sums!MapThenFoldSet,
         Running!Sum, Running!MapThenSumSet, Running!MapThenFoldSet
<1>3. Modulus \in Nat \ {0} => Sums!ModulusAssumption
  BY DEF Sums!ModulusAssumption
<1>4. Sums!StorageAssumption
  BY DEF Sums!StorageAssumption
<1>5. QED
  BY <1>1, <1>2, <1>3, <1>4

(* The sum of no values is 0, and one value more adds to the sum.          *)
LEMMA SumOfOneMore ==
    ASSUME Modulus \in Nat \ {0}, NEW S, IsFiniteSet(S), NEW w, DOMAIN w = S,
           w = [x \in S |-> w[x]], \A x \in S : w[x] \in Nat
    PROVE  /\ Running!Sum(w) \in Nat
           /\ S = {} => Running!Sum(w) = 0
           /\ \A r \in S : LET v == [x \in S \ {r} |-> w[x]] IN
                Running!Sum(v) \in Nat /\ Running!Sum(w) = Running!Sum(v) + w[r]
<1>0. Sums!ModulusAssumption /\ Sums!StorageAssumption /\ Sums!IsFiniteSet(S)
  BY SameSums
<1>1. PICK f \in [SUBSET S -> Nat] : Sums!Folds(f, w, S)
  BY <1>0, Sums!FoldExists
<1>2. ASSUME NEW T \in SUBSET S, NEW v, v = [x \in T |-> w[x]]
      PROVE  Running!Sum(v) = f[T]
  <2>1. DOMAIN v = T /\ \A x \in T : v[x] \in Nat
    BY <1>2
  <2>2. IsFiniteSet(T) /\ Sums!IsFiniteSet(T)
    BY <1>2, FS_Subset, SameSums
  <2>3. \E e : Sums!Folds(e, v, T)
    BY <1>0, <2>1, <2>2, Sums!FoldExists
  <2> DEFINE e == CHOOSE ee : Sums!Folds(ee, v, T)
  <2>4. Sums!Folds(e, v, T)
    BY <2>3
  <2>5. Sums!Sum(v) = e[T]
    BY <1>0, <2>1, Sums!SumIsFold
  <2>6. \A s \in SUBSET T : e[s] = f[s]
    <3> HIDE DEF e
    <3>1. Sums!Folds(e, [x \in T |-> w[x]], T)
      BY <1>2, <2>4
    <3>2. QED
      BY <1>0, <1>1, <3>1, Sums!FoldsAgree
  <2>7. T \in SUBSET T
    OBVIOUS
  <2>8. QED
    BY <2>5, <2>6, <2>7, SameSums
<1>3. S \in SUBSET S /\ Running!Sum(w) = f[S]
  BY <1>2
<1>4. f[{}] = 0
  BY <1>1 DEF Sums!Folds
<1>5. ASSUME NEW r \in S
      PROVE  LET v == [x \in S \ {r} |-> w[x]] IN
                Running!Sum(v) \in Nat /\ Running!Sum(w) = Running!Sum(v) + w[r]
  <2> DEFINE v == [x \in S \ {r} |-> w[x]]
  <2>1. S \ {r} \in SUBSET S /\ \A s \in SUBSET S : f[s] \in Nat
    BY <1>1
  <2>2. Running!Sum(v) = f[S \ {r}]
    BY <1>2, <2>1
  <2>3. f[S] = f[S \ {r}] + w[r]
    BY <1>0, <1>1, <1>3, <2>1, Sums!FoldsAdd
  <2>4. QED
    BY <1>3, <2>1, <2>2, <2>3
<1>6. Running!Sum(w) \in Nat /\ (S = {} => Running!Sum(w) = 0)
  <2>1. f[S] \in Nat
    BY <1>1, <1>3
  <2>2. S = {} => f[S] = 0
    BY <1>4
  <2>3. QED
    BY <1>3, <2>1, <2>2
<1>7. QED
  BY <1>5, <1>6

-----------------------------------------------------------------------------
(* In each trace a filter sends at most one Rpc, with its answer.           *)
RpcsCounted ==
    Len(sent) <= (uid - 1) * Cardinality(Spans) + Cardinality(AnsweredSpans)

LEMMA CountedStep ==
    ASSUME FewSpans, SendInv, SendInv', RpcsCounted, [Next]_vars
    PROVE  /\ RpcsCounted'
           /\ DOMAIN sent \subseteq DOMAIN sent' /\ \A k \in DOMAIN sent : sent'[k] = sent[k]
<1> DEFINE C == Cardinality(Spans)
<1>1. /\ KnowInv /\ phase \in [Spans -> SimPhases] /\ RootSpan \in Spans
      /\ sent \in Seq(SentRpc) /\ sent' \in Seq(SentRpc) /\ uid \in 1 .. MaxTraces
      /\ MaxTraces \in Nat \ {0}
  BY TraceAssumption, TracesAssumption DEF SendInv, SentInv, KnowInv, SimInv, Shape
<1>2. C \in Nat
  BY FS_CardinalityType DEF FewSpans
<1>3. \A T \in SUBSET Spans :
        /\ IsFiniteSet(T) /\ Cardinality(T) \in Nat /\ Cardinality(T) <= C
        /\ \A s \in Spans \ T : Cardinality(T \cup {s}) = Cardinality(T) + 1
  <2>1. ASSUME NEW T \in SUBSET Spans
        PROVE  IsFiniteSet(T) /\ Cardinality(T) \in Nat /\ Cardinality(T) <= C
    BY FS_Subset, FS_CardinalityType DEF FewSpans
  <2>2. ASSUME NEW T \in SUBSET Spans, NEW s \in Spans \ T
        PROVE  Cardinality(T \cup {s}) = Cardinality(T) + 1
    BY <2>1, FS_AddElement
  <2>3. QED
    BY <2>1, <2>2
<1>4. AnsweredSpans \in SUBSET Spans
  BY DEF AnsweredSpans
<1>5. ASSUME NEW s \in Spans, OnOutgoingResponses(s)
      PROVE  /\ RpcsCounted'
             /\ DOMAIN sent \subseteq DOMAIN sent' /\ \A k \in DOMAIN sent : sent'[k] = sent[k]
  <2>1. AnsweredSpans' = AnsweredSpans \cup {s} /\ s \notin AnsweredSpans /\ uid' = uid
    BY <1>1, <1>5, ResponseHook DEF AnsweredSpans
  <2>2. \/ sent' = sent
        \/ \E x : sent' = Append(sent, x)
    BY <1>5 DEF OnOutgoingResponses, Match, MatchDistributed, Respond, RespondAndSend
  <2>3. /\ Len(sent') <= Len(sent) + 1 /\ Len(sent) \in Nat /\ Len(sent') \in Nat
        /\ DOMAIN sent \subseteq DOMAIN sent' /\ \A k \in DOMAIN sent : sent'[k] = sent[k]
    BY <1>1, <2>2
  <2>4. Cardinality(AnsweredSpans') = Cardinality(AnsweredSpans) + 1
    BY <1>3, <1>4, <2>1
  <2>5. Cardinality(AnsweredSpans) \in Nat /\ (uid - 1) * C \in Nat
    BY <1>1, <1>2, <1>3, <1>4
  <2> HIDE DEF C
  <2>6. Len(sent') <= (uid - 1) * C + Cardinality(AnsweredSpans')
    <3> DEFINE x == (uid - 1) * C
    <3>1. Len(sent) <= x + Cardinality(AnsweredSpans) /\ x \in Nat
      BY <2>5 DEF RpcsCounted, C
    <3> HIDE DEF x
    <3>2. Len(sent') <= x + Cardinality(AnsweredSpans')
      BY <2>3, <2>4, <2>5, <3>1
    <3>3. QED
      BY <3>2 DEF x
  <2>7. QED
    BY <2>1, <2>3, <2>6 DEF RpcsCounted, C
<1>6. ASSUME NextTrace
      PROVE  RpcsCounted'
  <2>1. uid' = uid + 1 /\ sent' = sent /\ AnsweredSpans' = {}
    BY <1>6 DEF NextTrace, AnsweredSpans, Answered
  <2>2. Len(sent) <= (uid - 1) * C + C /\ Len(sent) \in Nat
    <3> DEFINE x == (uid - 1) * C
    <3>1. Len(sent) <= x + Cardinality(AnsweredSpans) /\ x \in Nat
      BY <1>1, <1>2 DEF RpcsCounted
    <3> HIDE DEF x, C
    <3>2. Len(sent) <= x + C /\ Len(sent) \in Nat
      BY <1>1, <1>2, <1>3, <1>4, <3>1
    <3>3. QED
      BY <3>2 DEF x
  <2> HIDE DEF C
  <2>3. (uid - 1) * C + C = (uid' - 1) * C /\ (uid' - 1) * C \in Nat
    BY <1>1, <1>2, <2>1
  <2>4. Cardinality(AnsweredSpans') = 0
    BY <2>1, FS_EmptySet
  <2>5. Len(sent') <= (uid' - 1) * C + Cardinality(AnsweredSpans')
    BY <2>1, <2>2, <2>3, <2>4
  <2>6. QED
    BY <2>5 DEF RpcsCounted, C
<1>7. ASSUME UNCHANGED <<uid, sent>>, AnsweredSpans' = AnsweredSpans
      PROVE  RpcsCounted'
  BY <1>7 DEF RpcsCounted
<1>8. ASSUME NEW s \in Spans, OnOutgoingRequests(s) \/ OnIncomingRequests(s) \/ OnIncomingResponses(s)
      PROVE  UNCHANGED <<uid, sent>> /\ AnsweredSpans' = AnsweredSpans
  BY <1>1, <1>8
     DEF OnOutgoingRequests, Requested, OnIncomingRequests, OnIncomingResponses, AnsweredSpans, Answered
<1>9. Enter \/ UNCHANGED vars => UNCHANGED <<uid, sent>> /\ AnsweredSpans' = AnsweredSpans
  BY <1>1 DEF Enter, vars, AnsweredSpans, Answered
<1>10. NextTrace => sent' = sent
  BY DEF NextTrace
<1>11. QED
  BY <1>5, <1>6, <1>7, <1>8, <1>9, <1>10 DEF Next

(* So there are few.                                                       *)
LEMMA RpcsAreFew ==
    ASSUME FewSpans, FewRpcs, SendInv, RpcsCounted
    PROVE  /\ DOMAIN sent \subseteq 1 .. MaxTraces * Cardinality(Spans)
           /\ Len(sent) \in Nat /\ Len(sent) < Modulus /\ DOMAIN sent = 1 .. Len(sent)
           /\ \A k \in DOMAIN sent : sent[k].data \in 0 .. Modulus - 1
<1> DEFINE C == Cardinality(Spans)
           A == Cardinality(AnsweredSpans)
<1>1. /\ sent \in Seq(SentRpc) /\ uid \in 1 .. MaxTraces /\ MaxTraces \in Nat \ {0}
      /\ Modulus \in Nat \ {0} /\ MaxTraces * C < Modulus
  BY TracesAssumption DEF SendInv, SentInv, FewRpcs
<1>2. C \in Nat /\ A \in Nat /\ A <= C
  <2>1. AnsweredSpans \in SUBSET Spans
    BY DEF AnsweredSpans
  <2>2. QED
    BY <2>1, FS_CardinalityType, FS_Subset DEF FewSpans
<1>3. Len(sent) \in Nat /\ Len(sent) <= (uid - 1) * C + A
  BY <1>1 DEF RpcsCounted
<1>4. \A k \in DOMAIN sent : sent[k].data \in 0 .. C
  <2>1. \A k \in DOMAIN sent : sent[k] \in SentRpc
    BY <1>1
  <2>2. QED
    BY <2>1 DEF SentRpc
<1> HIDE DEF C, A
<1>5. C <= MaxTraces * C /\ uid * C <= MaxTraces * C /\ (uid - 1) * C + C = uid * C
      /\ MaxTraces * C \in Nat /\ (uid - 1) * C \in Nat /\ uid * C \in Nat
  <2>1. \A i \in Nat : i * C \in Nat /\ i * C >= 0
    BY <1>2
  <2>2. MaxTraces - uid \in Nat /\ MaxTraces - 1 \in Nat /\ uid - 1 \in Nat /\ uid \in Nat
    BY <1>1
  <2>3. (MaxTraces - uid) * C >= 0 /\ (MaxTraces - 1) * C >= 0
    BY <2>1, <2>2
  <2>4. /\ (MaxTraces - uid) * C = MaxTraces * C - uid * C
        /\ (MaxTraces - 1) * C = MaxTraces * C - C
        /\ (uid - 1) * C + C = uid * C
    BY <1>1, <1>2, <2>2
  <2>5. MaxTraces * C \in Nat /\ (uid - 1) * C \in Nat /\ uid * C \in Nat
    BY <1>1, <2>1, <2>2
  <2>6. QED
    BY <1>2, <2>3, <2>4, <2>5
<1>6. Len(sent) <= MaxTraces * C
  BY <1>2, <1>3, <1>5
<1>7. QED
  BY <1>1, <1>2, <1>3, <1>4, <1>5, <1>6 DEF C

-----------------------------------------------------------------------------
Received == [k \in DOMAIN answer |-> sent[k].data]

(* The UDF's fields are those of the Rpcs that were received.              *)
AvgInv ==
    /\ DOMAIN answer \subseteq DOMAIN sent
    /\ answer = [k \in DOMAIN answer |-> answer[k]]
    /\ avg.num_instances = Cardinality(DOMAIN answer)
    /\ avg.total = Running!Sum(Received) % Modulus

StorageInv == SendInv /\ RpcsCounted /\ AvgInv

LEMMA ReceivesRefines ==
    ASSUME FewSpans, FewRpcs, StorageInv, NEW k \in DOMAIN sent,
           Storage!OnIncomingRequests(k, sent[k].data), UNCHANGED vars
    PROVE  AvgInv' /\ Running!Next
<1>0. PICK h : h = sent[k].data
  OBVIOUS
<1> DEFINE D == DOMAIN answer
           before == Running!Sum(Received)
           total == (avg.total + h) % Modulus
           num == (avg.num_instances + 1) % Modulus
<1>1. /\ k \in 1 .. MaxTraces * Cardinality(Spans) /\ h \in 0 .. Modulus - 1
      /\ Len(sent) \in Nat /\ Len(sent) < Modulus /\ DOMAIN sent = 1 .. Len(sent)
      /\ \A j \in DOMAIN sent : sent[j].data \in 0 .. Modulus - 1
      /\ Modulus \in Nat \ {0}
  BY <1>0, RpcsAreFew DEF StorageInv, FewRpcs
<1>2. /\ k \notin D /\ sent' = sent
      /\ avg' = Storage!Execute(avg, h)
      /\ answer' = [q \in {k} \cup D |-> IF q = k THEN avg'.avg ELSE answer[q]]
  BY <1>0 DEF Storage!OnIncomingRequests, vars
<1>3. avg' = [total |-> total, num_instances |-> num, avg |-> total \div num]
  BY <1>2 DEF Storage!Execute
<1>4. DOMAIN answer' = D \cup {k} /\ Received' = [j \in D \cup {k} |-> sent[j].data]
  BY <1>2 DEF Received
<1>5. /\ IsFiniteSet(D) /\ IsFiniteSet(D \cup {k})
      /\ Cardinality(D) \in Nat /\ Cardinality(D \cup {k}) = Cardinality(D) + 1
      /\ Cardinality(D \cup {k}) < Modulus
  <2>1. D \cup {k} \subseteq 1 .. Len(sent)
    BY <1>1 DEF StorageInv, AvgInv
  <2>2. IsFiniteSet(1 .. Len(sent)) /\ Cardinality(1 .. Len(sent)) = Len(sent)
    <3>1. 1 \in Int /\ Len(sent) \in Int
      BY <1>1
    <3>2. /\ IsFiniteSet(1 .. Len(sent))
          /\ Cardinality(1 .. Len(sent)) = IF 1 > Len(sent) THEN 0 ELSE Len(sent) - 1 + 1
      BY <3>1, FS_Interval
    <3>3. QED
      BY <1>1, <3>2
  <2>3. IsFiniteSet(D \cup {k}) /\ Cardinality(D \cup {k}) <= Len(sent)
        /\ Cardinality(D \cup {k}) \in Nat
    BY <2>1, <2>2, FS_Subset, FS_CardinalityType
  <2>4. IsFiniteSet(D)
    BY <2>3, FS_Subset
  <2>5. QED
    BY <1>1, <1>2, <2>3, <2>4, FS_AddElement, FS_CardinalityType
<1>6. before \in Nat /\ Running!Sum(Received') = before + h
  <2>1. /\ DOMAIN Received' = D \cup {k}
        /\ Received' = [x \in D \cup {k} |-> Received'[x]]
        /\ \A x \in D \cup {k} : Received'[x] \in Nat
        /\ Received'[k] = h
    BY <1>0, <1>1, <1>4 DEF StorageInv, AvgInv
  <2>2. (D \cup {k}) \ {k} = D /\ k \in D \cup {k}
    BY <1>2
  <2>3. Received = [x \in (D \cup {k}) \ {k} |-> Received'[x]]
    BY <1>4, <2>2 DEF Received
  <2> DEFINE T == D \cup {k}
             w == Received'
  <2>4. IsFiniteSet(T) /\ k \in T
    BY <1>5
  <2> HIDE DEF T, w
  <2>5. /\ DOMAIN w = T /\ w = [x \in T |-> w[x]] /\ \A x \in T : w[x] \in Nat
        /\ w[k] = h /\ Received = [x \in T \ {k} |-> w[x]]
    BY <2>1, <2>3 DEF T, w
  <2>6. Running!Sum(Received) \in Nat /\ Running!Sum(w) = Running!Sum(Received) + w[k]
    <3>1. Modulus \in Nat \ {0}
      BY <1>1
    <3>2. \A r \in T : LET v == [x \in T \ {r} |-> w[x]] IN
            Running!Sum(v) \in Nat /\ Running!Sum(w) = Running!Sum(v) + w[r]
      BY <2>4, <2>5, <3>1, SumOfOneMore
    <3>3. QED
      BY <2>4, <2>5, <3>2
  <2>7. QED
    BY <2>5, <2>6 DEF w
<1>7. total = Running!Sum(Received') % Modulus
  <2>1. Sums!ModulusAssumption /\ Sums!StorageAssumption /\ h \in Nat
    BY <1>1, SameSums
  <2>2. ((before % Modulus) + h) % Modulus = (before + h) % Modulus
    BY <1>1, <1>6, <2>1, Sums!AddToRemainder
  <2>3. QED
    BY <1>6, <2>2 DEF StorageInv, AvgInv
<1>8. num = Cardinality(D \cup {k})
  <2>1. avg.num_instances = Cardinality(D)
    BY DEF StorageInv, AvgInv
  <2> DEFINE a == Cardinality(D)
             b == Cardinality(D \cup {k})
  <2>2. a \in Nat /\ b = a + 1 /\ b < Modulus /\ Modulus \in Nat \ {0} /\ num = (a + 1) % Modulus
    BY <1>1, <1>5, <2>1
  <2> HIDE DEF a, b, num
  <2>3. num = b
    BY <2>2
  <2>4. QED
    BY <2>3 DEF b
<1>9. avg'.avg = Running!AverageOf(Received')
  <2>1. Running!Cardinality(D \cup {k}) = Cardinality(D \cup {k})
    BY DEF Running!Cardinality, Cardinality
  <2>2. DOMAIN Received' = D \cup {k}
    BY <1>4
  <2>3. QED
    BY <1>3, <1>7, <1>8, <2>1, <2>2 DEF Running!AverageOf
<1>10. AvgInv'
  <2>1. avg'.num_instances = num /\ avg'.total = total
    BY <1>3
  <2>2. answer' = [q \in DOMAIN answer' |-> answer'[q]]
    BY <1>2
  <2>3. QED
    BY <1>2, <1>4, <1>7, <1>8, <2>1, <2>2 DEF StorageInv, AvgInv
<1>11. Running!Receive(k, h)
  <2>1. DOMAIN Received = D
    BY DEF Received
  <2>2. Received' = [q \in {k} \cup DOMAIN Received |-> IF q = k THEN h ELSE Received[q]]
    <3>1. \A q \in D : q # k /\ Received[q] = sent[q].data
      BY <1>0, <1>2 DEF Received
    <3>2. QED
      BY <1>0, <1>4, <2>1, <3>1
  <2>3. answer' = [q \in {k} \cup DOMAIN answer |->
                     IF q = k THEN Running!AverageOf(Received') ELSE answer[q]]
    BY <1>2, <1>9
  <2>4. QED
    BY <1>2, <2>1, <2>2, <2>3 DEF Running!Receive, Received
<1>12. Running!Next
  <2>1. h \in Running!U64
    BY <1>1 DEF Running!U64
  <2>2. k \in 1 .. MaxTraces * Cardinality(Spans)
    BY <1>1
  <2>3. QED
    BY <1>11, <2>1, <2>2, Zenon DEF Running!Next
<1>13. QED
  BY <1>10, <1>12

(* The filters' steps are stutters: what was sent stays.                   *)
LEMMA HooksStutter ==
    ASSUME StorageInv, DOMAIN sent \subseteq DOMAIN sent',
           \A k \in DOMAIN sent : sent'[k] = sent[k], UNCHANGED <<avg, answer>>
    PROVE  AvgInv' /\ UNCHANGED <<Received, answer>>
<1>1. Received' = Received
  BY DEF StorageInv, AvgInv, Received
<1>2. QED
  BY <1>1 DEF StorageInv, AvgInv

LEMMA AverageInit ==
    ASSUME FewSpans, FewRpcs, MeshInit
    PROVE  RpcsCounted /\ AvgInv /\ Running!Init
<1>1. /\ sent = <<>> /\ uid = 1 /\ answer = <<>> /\ avg = Storage!New
      /\ \A s \in Spans : phase[s] = "idle"
  BY DEF MeshInit, Init, Storage!Init
<1>2. AnsweredSpans = {} /\ Cardinality(AnsweredSpans) = 0
  BY <1>1, FS_EmptySet DEF AnsweredSpans, Answered
<1>3. Len(sent) = 0 /\ DOMAIN sent = {} /\ DOMAIN answer = {}
  BY <1>1
<1>4. RpcsCounted
  <2>1. Cardinality(Spans) \in Nat
    BY FS_CardinalityType DEF FewSpans
  <2>2. (uid - 1) * Cardinality(Spans) = 0
    BY <1>1, <2>1
  <2>3. QED
    BY <1>2, <1>3, <2>2 DEF RpcsCounted
<1>5. Received = <<>> /\ DOMAIN Received = {} /\ answer = [k \in DOMAIN answer |-> answer[k]]
  BY <1>1 DEF Received
<1>6. Running!Sum(Received) = 0
  <2>1. IsFiniteSet({}) /\ Modulus \in Nat \ {0}
    BY FS_EmptySet DEF FewRpcs
  <2>2. Received = [x \in {} |-> Received[x]] /\ \A x \in {} : Received[x] \in Nat
    BY <1>5
  <2>3. QED
    BY <1>5, <2>1, <2>2, SumOfOneMore
<1>7. AvgInv
  <2>1. avg.num_instances = 0 /\ avg.total = 0
    BY <1>1 DEF Storage!New
  <2>2. 0 % Modulus = 0
    BY DEF FewRpcs
  <2>3. Cardinality(DOMAIN answer) = 0
    BY <1>3, FS_EmptySet
  <2>4. QED
    BY <1>3, <1>5, <1>6, <2>1, <2>2, <2>3 DEF AvgInv
<1>8. QED
  BY <1>1, <1>4, <1>5, <1>7 DEF Running!Init, Received

(* The storage service answers each Rpc with the average of the heights of  *)
(* the matches that it has been told of so far, in whatever order the Rpcs  *)
(* of all the traces come in.                                              *)
THEOREM AnswersAreAverages ==
    ASSUME DistinctServices, Detached = {}, NoneIsNoData, FewSpans, NoValue \notin Nat,
           ServiceOf[RootSpan] = RootId, FewRpcs
    PROVE  MeshSpec => ImplementsRunningAverage
<1>1. MeshSpec => []SendInv
  BY SendsAlways
<1>2. MeshInit => RpcsCounted /\ AvgInv /\ Running!Init
  BY AverageInit
<1>3. SendInv /\ SendInv' /\ RpcsCounted /\ AvgInv /\ [MeshNext]_<<vars, avg, answer>>
        => RpcsCounted' /\ AvgInv' /\ [Running!Next]_<<Received, answer>>
  <2> SUFFICES ASSUME SendInv, SendInv', RpcsCounted, AvgInv, [MeshNext]_<<vars, avg, answer>>
               PROVE  RpcsCounted' /\ AvgInv' /\ [Running!Next]_<<Received, answer>>
    OBVIOUS
  <2>1. [Next]_vars
    BY DEF MeshNext, Hooks, Receives, Over
  <2>2. /\ RpcsCounted'
        /\ DOMAIN sent \subseteq DOMAIN sent' /\ \A k \in DOMAIN sent : sent'[k] = sent[k]
    BY <2>1, CountedStep
  <2>3. CASE UNCHANGED <<avg, answer>>
    BY <2>2, <2>3, HooksStutter DEF StorageInv
  <2>4. CASE Receives
    BY <2>2, <2>4, ReceivesRefines DEF StorageInv, Receives
  <2>5. QED
    BY <2>3, <2>4 DEF MeshNext, Hooks, Over
<1>4. QED
  BY <1>1, <1>2, <1>3, PTL DEF MeshSpec, Running!Spec, ImplementsRunningAverage, Received
=============================================================================

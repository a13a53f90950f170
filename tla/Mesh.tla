-------------------------------- MODULE Mesh --------------------------------
(***************************************************************************)
(* What the Envoy filters and the filters of the simulator share: the mesh *)
(* in which they run, while one request - one trace, one x-request-id -    *)
(* spreads over the services, and the generated functions they call.       *)
(*                                                                         *)
(* A span is one call of a service: the root span is the request the mesh  *)
(* was asked, the others are made by the service of their parent span.     *)
(* The hooks of one span run in order, those of different spans interleave. *)
(***************************************************************************)
EXTENDS SubtreeMatch, FiniteSets

CONSTANTS
    Spans,       \* the calls of the trace
    RootSpan,    \* the call that enters the mesh
    Parent,      \* the span during which a span is called
    ServiceOf,   \* the service (workload) a span calls
    PropertyOf,  \* the collected property of each service
    Detached,    \* the spans whose caller answers without waiting for them
    Workers,     \* the worker threads of a sidecar
    Faults,      \* what can fail, see below
    Target,      \* the query's pattern, its RETURN is about the root
    RootId,      \* the root node given to the compiler
    TraceWanted  \* WHERE trace.<property> = TraceWanted, or NoValue

(* request:  get_property fails or x-request-id is missing at the request  *)
(* response: x-request-id is missing at a response                         *)
(* storage:  dispatch_http_call returns an error                           *)
FaultKinds == {"request", "response", "storage"}

CallEdges == {<<Parent[c], c>> : c \in Spans \ {RootSpan}}

ASSUME TraceAssumption ==
    /\ RootSpan \in Spans
    /\ Parent \in [Spans \ {RootSpan} -> Spans]
    /\ Reachable(Spans, CallEdges, RootSpan) = Spans
    /\ ServiceOf \in [Spans -> Services]
    /\ PropertyOf \in [Services -> Values]
    /\ Detached \subseteq Spans

ASSUME SettingAssumption ==
    /\ Workers \in Nat \ {0}
    /\ Faults \subseteq FaultKinds
    /\ TraceWanted \in Values \cup {NoValue}

(* What create_target_graph returns: the edges of MATCH lead between its    *)
(* nodes, and find_root finds one without an incoming edge.                *)
ASSUME PatternAssumption ==
    /\ Target.nodes \in Seq(PatternNode)
    /\ Target.edges \subseteq (DOMAIN Target.nodes) \X (DOMAIN Target.nodes)
    /\ \E u \in DOMAIN Target.nodes : \A e \in Target.edges : e[2] # u

VARIABLE phase   \* phase[s]: how far the hooks of span s have come

Phases == {"idle",       \* not called yet
           "storing",    \* request hook, between the read and the write
           "serving",    \* the service works on the call
           "responded",  \* the response left the callee's sidecar
           "merging",    \* caller's response hook, between read and write
           "done"}       \* the caller has the response

-----------------------------------------------------------------------------
Children(s) == {c \in Spans \ {RootSpan} : Parent[c] = s}

Caller(s) == ServiceOf[Parent[s]]

(* A worker of n's sidecar is free: the others are inside store_data. *)
WorkerFree(n) ==
    Cardinality({s \in Spans : \/ phase[s] = "storing" /\ ServiceOf[s] = n
                               \/ phase[s] = "merging" /\ Caller(s) = n})
      < Workers

(* The request of s reaches its service: the caller is at work on its own  *)
(* call, or goes on after answering it if it does not wait for s.          *)
Requested(s) ==
    /\ phase[s] = "idle"
    /\ s # RootSpan =>
        \/ phase[Parent[s]] = "serving"
        \/ s \in Detached /\ phase[Parent[s]] \in {"responded", "merging", "done"}

(* The service of s answers: every call it waits for has come back. *)
Answers(s) ==
    /\ phase[s] = "serving"
    /\ \A c \in Children(s) \ Detached : phase[c] = "done"

-----------------------------------------------------------------------------
(* execute_udfs_and_check_trace_lvl_prop for a query without UDFs. *)
TraceLevelPropertyHolds(n, g) ==
    n = RootId /\ TraceWanted # NoValue =>
        g.nodes[GetNodeWithId(g.nodes, RootId)].value = TraceWanted

(* Mutant: it is taken from the first node of the graph. *)
GetValueOfFirst(g, v) == g.nodes[1].value

(* get_value_for_storage, as it is generated for a RETURN about the root of *)
(* the pattern, which was found on v; NoValue stands for None.             *)
GetValueForStorage(g, v) == g.nodes[v].value

-----------------------------------------------------------------------------
(***************************************************************************)
(* The trace as it really is, and what a graph of it may say.              *)
(***************************************************************************)
DistinctServices ==
    \A s, t \in Spans : ServiceOf[s] = ServiceOf[t] => s = t

(* s and the spans called, directly or not, during s. *)
Below == [s \in Spans |-> Reachable(Spans, CallEdges, s)]

(* s and the spans whose end it waits for. *)
Awaited ==
    LET waited == {<<Parent[c], c>> : c \in Spans \ (Detached \cup {RootSpan})}
    IN  [s \in Spans |-> Reachable(Spans, waited, s)]

(* Nothing in fd is made up: its nodes are different spans of S, each with *)
(* its own property or none, and its edges are calls.                      *)
Sound(fd, S) ==
    /\ \A i, j \in DOMAIN fd.nodes : fd.nodes[i].name = fd.nodes[j].name => i = j
    /\ \A i \in DOMAIN fd.nodes :
        /\ \E s \in S : ServiceOf[s] = fd.nodes[i].name
        /\ fd.nodes[i].value \in {NoValue, PropertyOf[fd.nodes[i].name]}
    /\ \A e \in fd.edges :
        /\ e[1] \in DOMAIN fd.nodes /\ e[2] \in DOMAIN fd.nodes
        /\ \E c \in Spans \ {RootSpan} :
            /\ fd.nodes[e[1]].name = Caller(c)
            /\ fd.nodes[e[2]].name = ServiceOf[c]

(* fd is the whole story of span s: every span s waited for is a node with *)
(* its property, under the node of the span that called it.                *)
Complete(fd, s) ==
    \A t \in Awaited[s] : \E j \in DOMAIN fd.nodes :
        /\ fd.nodes[j] = [name |-> ServiceOf[t], value |-> PropertyOf[ServiceOf[t]]]
        /\ t # s => \E i \in DOMAIN fd.nodes :
                        <<i, j>> \in fd.edges /\ fd.nodes[i].name = Caller(t)

(* The trace as it really was, and where the query's pattern matches it.   *)
SpanLabel == [s \in Spans |->
    [name |-> ServiceOf[s], value |-> PropertyOf[ServiceOf[s]]]]

TrueMatches == {m \in Spans : EmbedsAt(Target, SpanLabel, CallEdges, m)}

(* The elements of seq at these positions, in order.                       *)
Selected(seq, positions) ==
    LET rank(k) == Cardinality({i \in positions : i <= k})
    IN  [j \in 1 .. Cardinality(positions) |->
            seq[CHOOSE k \in {i \in positions : rank(i) = j} : TRUE]]
=============================================================================

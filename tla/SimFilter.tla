------------------------------ MODULE SimFilter ------------------------------
(***************************************************************************)
(* The filters of the simulator (templates/simulation_filter.rs.handlebars *)
(* and, distributed, simulation_filter_distributed.rs.handlebars) in a     *)
(* mesh, for a query that returns a scalar UDF, height                     *)
(* (example_udfs/height.rs), of the pattern's root.  Every service has a   *)
(* filter object, called for one Rpc at a time:                            *)
(*                                                                         *)
(*   on_outgoing_requests, on_incoming_responses   at the caller           *)
(*   on_incoming_requests, on_outgoing_responses   at the called service   *)
(*                                                                         *)
(* The simulator comes with another project.  What is known of it here is  *)
(* that it calls the hooks with the Rpcs of a trace, which all have its    *)
(* uid; the requests that a service makes while it works on another may or *)
(* may not carry the headers of that one.  A service need not call all     *)
(* that it could.                                                          *)
(***************************************************************************)
EXTENDS DistributedSearch, FiniteSetsExt

CONSTANT MaxTraces   \* bound on the traces, one after another

ASSUME TracesAssumption == MaxTraces \in Nat \ {0}

VARIABLES
    distributed,   \* how the query was compiled: every filter searches, or
                   \* the root's alone
    uid,     \* the trace, Rpc.uid
    shared,  \* shared[n]: envoy_shared_data[uid] of n's filter, or NoValue
    header,  \* header[s]: ferried_data of the Rpc of s, or NoValue
    sent     \* the Rpcs to storage, [uid, src, data], in order

vars == <<phase, distributed, uid, shared, header, sent>>

SimPhases == {"idle",       \* not called
              "called",     \* the request is on its way
              "serving",    \* the service works on the call
              "responded",  \* the response is on its way
              "done"}       \* the caller's filter has seen the response

(* FerriedData::default() and default_distributed(); height[i] is the       *)
(* property height of node i.  The centralized filter has no set_s, which   *)
(* then stays empty. *)
DefaultData ==
    [nodes |-> <<>>, edges |-> {}, unassigned |-> {}, height |-> <<>>,
     found_match |-> FALSE, set_s |-> <<>>]

(* Mutant: the heights of other are dropped. *)
MergeGraphs(self, other) == MergeDistributed(self, other)

(* self.merge(other) *)
MergeData(self, other) ==
    [MergeDistributed(self, other) EXCEPT !.height = @ \o other.height]

Init ==
    /\ distributed \in BOOLEAN
    /\ uid = 1
    /\ phase = [s \in Spans |-> "idle"]
    /\ shared = [n \in Services |-> NoValue]
    /\ header = [s \in Spans |-> NoValue]
    /\ sent = <<>>

-----------------------------------------------------------------------------
(* store_headers.  Data that is the first of its trace is stored, and then *)
(* merged with itself. *)
StoreHeaders(n, x) ==
    LET stored == IF shared[n] = NoValue THEN x ELSE shared[n]
    IN  shared' = IF x = NoValue THEN shared
                  ELSE [shared EXCEPT ![n] = MergeData(stored, x)]

(* merge_headers: n's node, ... *)
AddMyNode(n, data) ==
    [WithGraph(data, AddMe(data, n)) EXCEPT !.height = Append(@, NoValue)]

(* Mutant: the direction is not looked at. *)
MergeHeadersBothWays(n, direction, x) ==
    AddMyNode(n, IF shared[n] = NoValue THEN DefaultData ELSE shared[n])

(* ... over what is stored, on responses only, unless nothing is. *)
MergeHeaders(n, direction, x) ==
    IF shared[n] # NoValue /\ direction = "request" THEN x
    ELSE AddMyNode(n, IF shared[n] = NoValue THEN DefaultData ELSE shared[n])

-----------------------------------------------------------------------------
(* collect_envoy_properties *)
CollectEnvoyProperties(n, data) ==
    [data EXCEPT !.unassigned = @ \cup {[entity |-> n, value |-> PropertyOf[n]]}]

(* Mutant: the service itself is not counted. *)
HeightOfCallees(heights) == IF heights = {} THEN 0 ELSE Max(heights)

(* leaf_height and mid_height, with the heights of the callees. *)
Height(heights) == IF heights = {} THEN 0 ELSE Max(heights) + 1

(* Mutant: the value goes on the first node of the graph. *)
ExecuteUdfsOnFirst(n, data) ==
    LET me == GetNodeWithId(data.nodes, n)
        child_values == {data.height[e[2]] : e \in {x \in data.edges : x[1] = me}}
    IN  [data EXCEPT !.height[1] = Height(child_values)]

(* The UDF block of execute_udfs_and_check_trace_lvl_prop. *)
ExecuteUdfs(n, data) ==
    LET me == GetNodeWithId(data.nodes, n)
        child_values == {data.height[e[2]] : e \in {x \in data.edges : x[1] = me}}
    IN  [data EXCEPT !.height[me] = Height(child_values)]

-----------------------------------------------------------------------------
(* Mutant: the data is put in the headers before found_match is set.       *)
RespondEarlyAndSend(s, data, v) ==
    /\ header' = [header EXCEPT ![s] = [data EXCEPT !.found_match = FALSE]]
    /\ sent' = Append(sent, [uid |-> uid, src |-> ServiceOf[s], data |-> data.height[v]])

(* The response goes on with its data, and with it an Rpc to storage ...   *)
RespondAndSend(s, data, v) ==
    /\ header' = [header EXCEPT ![s] = data]
    /\ sent' = Append(sent, [uid |-> uid, src |-> ServiceOf[s], data |-> data.height[v]])

(* ... or without one. *)
Respond(s, data) ==
    /\ header' = [header EXCEPT ![s] = data]
    /\ UNCHANGED sent

(* The root's filter looks for the pattern in the whole trace.             *)
Match(s, data) ==
    LET n == ServiceOf[s]
        at == IF n = RootId /\ TraceLevelPropertyHolds(n, data)
              THEN {v \in FirstMatches(data, Target) : data.height[v] # NoValue}
              ELSE {}
    IN  \/ at = {} /\ Respond(s, data)
        \/ \E v \in at : RespondAndSend(s, data, v)

(* Every filter searches what is below it, unless somebody there has found *)
(* the pattern. *)
MatchDistributed(s, data) ==
    LET n == ServiceOf[s]
        search == Search(data, GetNodeWithId(data.nodes, n), n = RootId)
        searched == [data EXCEPT !.set_s = search.set_s]
        at == IF TraceLevelPropertyHolds(n, data) THEN search.at ELSE {}
    IN  \/ data.found_match /\ Respond(s, data)
        \/ /\ ~ data.found_match
           /\ at = {} \/ \E v \in at : data.height[v] = NoValue
           /\ Respond(s, searched)
        \/ /\ ~ data.found_match
           /\ \E v \in at :
                /\ data.height[v] # NoValue
                /\ RespondAndSend(s, [searched EXCEPT !.found_match = TRUE], v)

-----------------------------------------------------------------------------
(* The mesh is asked: the request comes from outside, without headers.     *)
Enter ==
    /\ phase[RootSpan] = "idle"
    /\ phase' = [phase EXCEPT ![RootSpan] = "called"]
    /\ UNCHANGED <<distributed, uid, shared, header, sent>>

OnOutgoingRequests(s) ==
    /\ s # RootSpan
    /\ Requested(s)
    /\ \E x \in {NoValue, header[Parent[s]]} :
        header' = [header EXCEPT ![s] = MergeHeaders(Caller(s), "request", x)]
    /\ phase' = [phase EXCEPT ![s] = "called"]
    /\ UNCHANGED <<distributed, uid, shared, sent>>

OnIncomingRequests(s) ==
    LET n == ServiceOf[s]
        fetched == IF header[s] = NoValue THEN DefaultData ELSE header[s]
    IN  /\ phase[s] = "called"
        /\ header' = [header EXCEPT ![s] = CollectEnvoyProperties(n, fetched)]
        /\ StoreHeaders(n, header'[s])
        /\ phase' = [phase EXCEPT ![s] = "serving"]
        /\ UNCHANGED <<distributed, uid, sent>>

OnOutgoingResponses(s) ==
    LET n == ServiceOf[s]
        data == ExecuteUdfs(n, MergeHeaders(n, "response", header[s]))
    IN  /\ phase[s] = "serving"
        /\ \A c \in Children(s) : phase[c] \in {"idle", "done"}
        /\ \/ distributed /\ MatchDistributed(s, data)
           \/ ~ distributed /\ Match(s, data)
        /\ phase' = [phase EXCEPT ![s] = "responded"]
        /\ UNCHANGED <<distributed, uid, shared>>

OnIncomingResponses(s) ==
    /\ s # RootSpan
    /\ phase[s] = "responded"
    /\ StoreHeaders(Caller(s), header[s])
    /\ phase' = [phase EXCEPT ![s] = "done"]
    /\ UNCHANGED <<distributed, uid, header, sent>>

(* The next trace has another uid, for which nothing is stored yet.        *)
NextTrace ==
    /\ phase[RootSpan] = "responded"
    /\ uid < MaxTraces
    /\ uid' = uid + 1
    /\ phase' = [s \in Spans |-> "idle"]
    /\ shared' = [n \in Services |-> NoValue]
    /\ header' = [s \in Spans |-> NoValue]
    /\ UNCHANGED <<distributed, sent>>

Next ==
    \/ Enter
    \/ \E s \in Spans :
        \/ OnOutgoingRequests(s)
        \/ OnIncomingRequests(s)
        \/ OnOutgoingResponses(s)
        \/ OnIncomingResponses(s)
    \/ NextTrace

-----------------------------------------------------------------------------
Called == {s \in Spans : phase[s] # "idle"}

CalledEdges == {e \in CallEdges : e[2] \in Called}

DataType(data) ==
    /\ WithGraph(Default, data) \in FerriedDataType
    /\ distributed => SetSHasEntries(data)
    /\ data.height \in [DOMAIN data.nodes -> 0 .. Cardinality(Spans) \cup {NoValue}]

TypeOK ==
    /\ distributed \in BOOLEAN
    /\ uid \in 1 .. MaxTraces
    /\ phase \in [Spans -> SimPhases]
    /\ \A n \in Services : shared[n] = NoValue \/ DataType(shared[n])
    /\ \A s \in Spans : header[s] = NoValue \/ DataType(header[s])
    /\ sent \in Seq([uid : 1 .. MaxTraces, src : Services, data : 0 .. Cardinality(Spans)])

(* The data that is the first of its trace is merged with itself, and      *)
(* properties of callers go down and up again: for traces that come from   *)
(* outside, there is still no node twice and no call that was not made.    *)
NothingTwice ==
    \A s \in Spans :
        /\ header[s] # NoValue => Sound(header[s], Below[s])
        /\ shared[ServiceOf[s]] # NoValue => Sound(shared[ServiceOf[s]], Below[s] \ {s})

(* The calls on the way from s down to t, and the height of a span of the  *)
(* trace as far as S was called: the most there are on such a way.         *)
Depth(s, t) == Cardinality({u \in Below[s] \ {s} : t \in Below[u]})

HeightIn(S, s) == Max({Depth(s, t) : t \in Below[s] \cap S})

(* A UDF looks up its own value on each callee's node, and does not ask if *)
(* it is there: every node that is ferried has its height, whatever order  *)
(* the responses came in. *)
HeightsRight ==
    \A s \in Spans : phase[s] \in {"responded", "done"} =>
        \A i \in DOMAIN header[s].nodes : \A t \in Spans :
            ServiceOf[t] = header[s].nodes[i].name =>
                header[s].height[i] = HeightIn(Called, t)

SentNow == Selected(sent, {k \in DOMAIN sent : sent[k].uid = uid})

WantedOfTrace == TraceWanted \in {NoValue, PropertyOf[RootId]}

CalledMatches ==
    {m \in Called : EmbedsAt(Target, [s \in Called |-> SpanLabel[s]], CalledEdges, m)}

(* Centralized: the root's response leaves with an Rpc to storage just when *)
(* the query's pattern matches the calls that were made.                   *)
MatchesAreSent ==
    ~ distributed /\ phase[RootSpan] = "responded" =>
        (WantedOfTrace /\ CalledMatches # {} <=> SentNow # <<>>)

(* Distributed: on a way through the trace one filter sends, and some does *)
(* at or below the caller of a match.  Exceptions are a match at a callee  *)
(* of the root, which nobody looks for, and one at the root, which is only *)
(* found if there is none at its callees.                                  *)
OneSendsOnEachWay ==
    distributed =>
        LET low == Children(RootSpan)
            Sends(s) == \E k \in DOMAIN SentNow : SentNow[k].src = ServiceOf[s]
            SendsBelow(s) == \E t \in Below[s] : Sends(t)
        IN  /\ \A j, k \in DOMAIN SentNow : SentNow[j].src = SentNow[k].src => j = k
            /\ \A s, t \in Spans : Sends(s) /\ Sends(t) /\ t \in Below[s] => s = t
            /\ phase[RootSpan] = "responded" =>
                /\ \A m \in CalledMatches \ (low \cup {RootSpan}) : SendsBelow(Parent[m])
                /\ RootSpan \in CalledMatches /\ low \cap CalledMatches = {} /\ WantedOfTrace
                   => SendsBelow(RootSpan)

(* What is sent is what the query returns for a match.  With the           *)
(* distributed filter, only the root's looks at the trace level filter.    *)
HeightOfMatch(m, seen) == HeightIn(seen, m)

Collection == INSTANCE TraceCollection WITH
    Label    <- SpanLabel,
    Returned <- HeightOfMatch,
    wanted   <- WantedOfTrace \/ distributed,
    called   <- Called,
    answered <- {s \in Spans : phase[s] \in {"responded", "done"}},
    reports  <- [k \in DOMAIN SentNow |-> SentNow[k].data]

ImplementsTraceCollection == Collection!Spec
=============================================================================

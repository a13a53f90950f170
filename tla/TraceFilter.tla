----------------------------- MODULE TraceFilter -----------------------------
(***************************************************************************)
(* The centralized Envoy filter (filter_envoy/filter_base.rs) in the       *)
(* sidecars of a mesh, while one request - one trace, one x-request-id -   *)
(* spreads over the services.  A span is one call of a service: the root   *)
(* span is the request the mesh was asked, the others are made by the      *)
(* service of their parent span.  The hooks of one span run in order:      *)
(*                                                                         *)
(*   on_http_request_headers_inbound    at the called service's sidecar    *)
(*   on_http_response_headers_inbound   at the called service's sidecar    *)
(*   on_http_response_headers_outbound  at the calling service's sidecar   *)
(*                                                                         *)
(* and those of different spans interleave.  A sidecar keeps one FerriedData *)
(* per trace in Envoy's shared data.  store_data reads it, merges, and     *)
(* writes it back without compare-and-swap; the hooks run on the sidecar's *)
(* worker threads, so with more than one of them other hooks of the same   *)
(* sidecar run between the read and the write.                             *)
(***************************************************************************)
EXTENDS Mesh

CONSTANT Reporter   \* the service whose sidecar reports ("productpage-v1")

VARIABLES
    shared,  \* shared[n]: the shared data of n's sidecar for this trace
    local,   \* local[s]: the merged data a hook of s is about to write
    header,  \* header[s]: ferried_data on the response of s (Default: none)
    calls    \* the values sent to storage, in order

vars == <<phase, shared, local, header, calls>>

TypeOK ==
    /\ phase \in [Spans -> Phases]
    /\ shared \in [Services -> FerriedDataType]
    /\ local \in [Spans -> FerriedDataType]
    /\ header \in [Spans -> FerriedDataType]
    /\ calls \in Seq(Values)

Init ==
    /\ phase  = [s \in Spans |-> "idle"]
    /\ shared = [n \in Services |-> Default]
    /\ local  = [s \in Spans |-> Default]
    /\ header = [s \in Spans |-> Default]
    /\ calls  = <<>>

-----------------------------------------------------------------------------
(* Mutant: the data is stored as it came, unmerged. *)
ReadOnly(s, data, n) ==
    local' = [local EXCEPT ![s] = data]

(* store_data up to set_shared_data: what the hook of s is to store at n.  *)
ReadAndMerge(s, data, n) ==
    local' = [local EXCEPT ![s] = Merge(data, shared[n])]

(* The set_shared_data of store_data: cas is None, the write always wins.  *)
WriteShared(s, n) ==
    /\ shared' = [shared EXCEPT ![n] = local[s]]
    /\ local' = [local EXCEPT ![s] = Default]

-----------------------------------------------------------------------------
(* collect_envoy_properties, as it is generated, at n: the service's own   *)
(* property is added to the data fetched from the request.  Callers do not *)
(* send ferried_data on requests, so what is fetched is the default.       *)
CollectEnvoyProperties(n) ==
    [Default EXCEPT !.unassigned = {[entity |-> n, value |-> PropertyOf[n]]}]

(* on_http_request_headers_inbound up to the write. *)
RequestInbound(s) ==
    LET n == ServiceOf[s]
    IN  /\ Requested(s)
        /\ WorkerFree(n)
        /\ ReadAndMerge(s, CollectEnvoyProperties(n), n)
        /\ phase' = [phase EXCEPT ![s] = "storing"]
        /\ UNCHANGED <<shared, header, calls>>

RequestInboundStore(s) ==
    /\ phase[s] = "storing"
    /\ WriteShared(s, ServiceOf[s])
    /\ phase' = [phase EXCEPT ![s] = "serving"]
    /\ UNCHANGED <<header, calls>>

(* The hook returns Err before store_data; the request goes on. *)
RequestInboundFails(s) ==
    /\ "request" \in Faults
    /\ Requested(s)
    /\ WorkerFree(ServiceOf[s])
    /\ phase' = [phase EXCEPT ![s] = "serving"]
    /\ UNCHANGED <<shared, local, header, calls>>

-----------------------------------------------------------------------------
(* Mutant: every sidecar is the root's. *)
MatchedAnywhere(n, g, v) ==
    /\ TraceLevelPropertyHolds(n, g)
    /\ v \in FirstMatches(g, Target)

(* The sidecar of n looks for the pattern in g and finds it with its root  *)
(* on v. *)
Matched(n, g, v) ==
    /\ n = Reporter
    /\ TraceLevelPropertyHolds(n, g)
    /\ v \in FirstMatches(g, Target)

(* The callout to storage; its error is only logged. *)
SendToStorage(value) ==
    \/ calls' = Append(calls, value)
    \/ "storage" \in Faults /\ UNCHANGED calls

(* ferried_data is set on the response. *)
Respond(s, data) ==
    /\ header' = [header EXCEPT ![s] = data]
    /\ phase' = [phase EXCEPT ![s] = "responded"]
    /\ UNCHANGED <<shared, local>>

(* Mutant: a value that was not collected is sent all the same. *)
TryMatchAnyValue(s, g) ==
    LET n == ServiceOf[s]
    IN  \/ /\ \A v \in DOMAIN g.nodes : ~ Matched(n, g, v)
           /\ UNCHANGED calls
           /\ Respond(s, g)
        \/ \E v \in DOMAIN g.nodes :
              /\ Matched(n, g, v)
              /\ SendToStorage(GetValueForStorage(g, v))
              /\ Respond(s, g)

(* The reporter's attempt to match g.  Without a value for storage the hook *)
(* ends before it sets a header.                                           *)
TryMatch(s, g) ==
    LET n == ServiceOf[s]
    IN  \/ /\ \A v \in DOMAIN g.nodes : ~ Matched(n, g, v)
           /\ UNCHANGED calls
           /\ Respond(s, g)
        \/ \E v \in DOMAIN g.nodes :
              /\ Matched(n, g, v)
              /\ GetValueForStorage(g, v) # NoValue
              /\ SendToStorage(GetValueForStorage(g, v))
              /\ Respond(s, g)
        \/ \E v \in DOMAIN g.nodes :
              /\ Matched(n, g, v)
              /\ GetValueForStorage(g, v) = NoValue
              /\ UNCHANGED calls
              /\ Respond(s, Default)

(* on_http_response_headers_inbound: the sidecar's own node goes over what *)
(* it has stored; the reporter tries the match; the result becomes the     *)
(* ferried_data of the response.  The shared data stays as it was.         *)
ResponseInbound(s) ==
    /\ Answers(s)
    /\ WorkerFree(ServiceOf[s])
    /\ \E g \in {AddMe(shared[ServiceOf[s]], ServiceOf[s])} : TryMatch(s, g)

ResponseInboundFails(s) ==
    /\ "response" \in Faults
    /\ Answers(s)
    /\ WorkerFree(ServiceOf[s])
    /\ UNCHANGED calls
    /\ Respond(s, Default)

-----------------------------------------------------------------------------
(* on_http_response_headers_outbound, at the caller: the ferried data of   *)
(* the response, or the default, is stored. *)
ResponseOutbound(s) ==
    /\ s # RootSpan
    /\ phase[s] = "responded"
    /\ WorkerFree(Caller(s))
    /\ ReadAndMerge(s, header[s], Caller(s))
    /\ phase' = [phase EXCEPT ![s] = "merging"]
    /\ UNCHANGED <<shared, header, calls>>

ResponseOutboundStore(s) ==
    /\ s # RootSpan
    /\ phase[s] = "merging"
    /\ WriteShared(s, Caller(s))
    /\ phase' = [phase EXCEPT ![s] = "done"]
    /\ UNCHANGED <<header, calls>>

ResponseOutboundFails(s) ==
    /\ "response" \in Faults
    /\ s # RootSpan
    /\ phase[s] = "responded"
    /\ WorkerFree(Caller(s))
    /\ phase' = [phase EXCEPT ![s] = "done"]
    /\ UNCHANGED <<shared, local, header, calls>>

-----------------------------------------------------------------------------
Hook(s) ==
    \/ RequestInbound(s)
    \/ RequestInboundStore(s)
    \/ RequestInboundFails(s)
    \/ ResponseInbound(s)
    \/ ResponseInboundFails(s)
    \/ ResponseOutbound(s)
    \/ ResponseOutboundStore(s)
    \/ ResponseOutboundFails(s)

(* The trace is over: the mesh has answered and every call has returned.   *)
Finished ==
    /\ phase[RootSpan] = "responded"
    /\ \A s \in Spans \ {RootSpan} : phase[s] = "done"
    /\ UNCHANGED vars

Next == (\E s \in Spans : Hook(s)) \/ Finished

Spec == Init /\ [][Next]_vars

(* Envoy runs the hook of every request and response that arrives, and     *)
(* every service answers. *)
FairSpec == Spec /\ \A s \in Spans : WF_vars(Hook(s))
-----------------------------------------------------------------------------
(***************************************************************************)
(* What the filter is for.  The properties below are about traces in which *)
(* no service is called twice; a service's name then identifies its span.  *)
(***************************************************************************)
(* No phantom calls: whatever is lost, delayed or overwritten, the graph   *)
(* on a response shows only calls made below its span, and the shared data *)
(* of a sidecar only calls made below the spans its service called.        *)
NoPhantom ==
    \A s \in Spans :
        /\ Sound(header[s], Below[s])
        /\ header[s].unassigned = {}
        /\ Sound(shared[ServiceOf[s]], Below[s] \ {s})

(* One worker thread per sidecar and no failures: the response of a span   *)
(* carries everything that happened during it.                             *)
ResponseComplete ==
    \A s \in Spans :
        phase[s] \in {"responded", "merging", "done"} => Complete(header[s], s)

(* One trace is reported once. *)
ReportsOnce == Len(calls) <= 1

(* "Merge with data that is already present": what a sidecar has stored of *)
(* a trace is still there after it stored more.                            *)
StoreKeepsNodes ==
    [][\A n \in Services :
        NamesIn(shared[n].nodes) \subseteq NamesIn(shared'[n].nodes)]_vars

(* What is sent to storage is what the query asks for: the property of a   *)
(* span at which the pattern really matches, in a trace that the trace     *)
(* level filter lets through.  Partial graphs lose matches, they never     *)
(* invent one. *)
PropertyOfMatch(m, seen) == SpanLabel[m].value

Collection == INSTANCE TraceCollection WITH
    Label    <- SpanLabel,
    Returned <- PropertyOfMatch,
    wanted   <- Reporter = RootId => TraceWanted \in {NoValue, PropertyOf[RootId]},
    called   <- {s \in Spans : phase[s] # "idle"},
    answered <- {s \in Spans : phase[s] \in {"responded", "merging", "done"}},
    reports  <- calls

ImplementsTraceCollection == Collection!Spec

(* A trace that the pattern matches is reported in the end. *)
MatchReported == TrueMatches # {} => <>(calls # <<>>)
=============================================================================

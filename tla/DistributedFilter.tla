-------------------------- MODULE DistributedFilter --------------------------
(***************************************************************************)
(* The distributed Envoy filter (distributed_filter_envoy/filter_base.rs)  *)
(* in the sidecars of a mesh.  Its hooks run, read, merge and write as     *)
(* those of TraceFilter do, but every sidecar searches, with the set_s its *)
(* callees ferried next to their graph, and one that has found the pattern *)
(* reports it and tells its callers with found_match.                      *)
(***************************************************************************)
EXTENDS DistributedSearch

VARIABLES
    shared,  \* shared[n]: the shared data of n's sidecar for this trace
    local,   \* local[s]: the merged data a hook of s is about to write
    header,  \* header[s]: ferried_data on the response of s
    calls    \* the calls to storage, [by, value, made], in order

vars == <<phase, shared, local, header, calls>>

Init ==
    /\ phase  = [s \in Spans |-> "idle"]
    /\ shared = [n \in Services |-> DefaultDistributed]
    /\ local  = [s \in Spans |-> DefaultDistributed]
    /\ header = [s \in Spans |-> DefaultDistributed]
    /\ calls  = <<>>

ReadAndMerge(s, data, n) ==
    local' = [local EXCEPT ![s] = MergeDistributed(data, shared[n])]

WriteShared(s, n) ==
    /\ shared' = [shared EXCEPT ![n] = local[s]]
    /\ local' = [local EXCEPT ![s] = DefaultDistributed]

-----------------------------------------------------------------------------
(* on_http_request_headers_inbound: callers do not send ferried_data. *)
Collected(n) ==
    [DefaultDistributed EXCEPT !.unassigned = {[entity |-> n, value |-> PropertyOf[n]]}]

RequestInbound(s) ==
    /\ Requested(s)
    /\ WorkerFree(ServiceOf[s])
    /\ ReadAndMerge(s, Collected(ServiceOf[s]), ServiceOf[s])
    /\ phase' = [phase EXCEPT ![s] = "storing"]
    /\ UNCHANGED <<shared, header, calls>>

RequestInboundStore(s) ==
    /\ phase[s] = "storing"
    /\ WriteShared(s, ServiceOf[s])
    /\ phase' = [phase EXCEPT ![s] = "serving"]
    /\ UNCHANGED <<header, calls>>

RequestInboundFails(s) ==
    /\ "request" \in Faults
    /\ Requested(s)
    /\ WorkerFree(ServiceOf[s])
    /\ phase' = [phase EXCEPT ![s] = "serving"]
    /\ UNCHANGED <<shared, local, header, calls>>

-----------------------------------------------------------------------------
Respond(s, data) ==
    /\ header' = [header EXCEPT ![s] = data]
    /\ phase' = [phase EXCEPT ![s] = "responded"]
    /\ UNCHANGED <<shared, local>>

(* The callout to storage; when it is not made, that is only logged.       *)
SendToStorage(n, value) ==
    \E made \in {TRUE} \cup (IF "storage" \in Faults THEN {FALSE} ELSE {}) :
        calls' = Append(calls, [by |-> n, value |-> value, made |-> made])

(* Mutant: found_match goes on the response of a match without a value. *)
ReportAndTell(s, data, v) ==
    LET value == GetValueForStorage(data, v)
    IN  /\ \/ value # NoValue /\ SendToStorage(ServiceOf[s], value)
           \/ value = NoValue /\ UNCHANGED calls
        /\ Respond(s, [data EXCEPT !.found_match = TRUE])

(* A match is found on v.  Without a value for storage the hook ends       *)
(* before it sets a header.                                                *)
Report(s, data, v) ==
    LET value == GetValueForStorage(data, v)
    IN  \/ /\ value # NoValue
           /\ SendToStorage(ServiceOf[s], value)
           /\ Respond(s, [data EXCEPT !.found_match = TRUE])
        \/ /\ value = NoValue
           /\ UNCHANGED calls
           /\ Respond(s, DefaultDistributed)

(* on_http_response_headers_inbound *)
ResponseInbound(s) ==
    LET n == ServiceOf[s]
        data == WithGraph(shared[n], AddMe(shared[n], n))
        search == Search(data, GetNodeWithId(data.nodes, n), n = RootId)
        searched == [data EXCEPT !.set_s = search.set_s]
        found == search.at # {} /\ TraceLevelPropertyHolds(n, data)
    IN  /\ Answers(s)
        /\ WorkerFree(n)
        /\ \/ data.found_match /\ UNCHANGED calls /\ Respond(s, data)
           \/ ~ data.found_match /\ ~ found /\ UNCHANGED calls /\ Respond(s, searched)
           \/ ~ data.found_match /\ found /\ \E v \in search.at : Report(s, searched, v)

ResponseInboundFails(s) ==
    /\ "response" \in Faults
    /\ Answers(s)
    /\ WorkerFree(ServiceOf[s])
    /\ UNCHANGED calls
    /\ Respond(s, DefaultDistributed)

-----------------------------------------------------------------------------
(* on_http_response_headers_outbound, at the caller *)
ResponseOutbound(s) ==
    /\ s # RootSpan
    /\ phase[s] = "responded"
    /\ WorkerFree(Caller(s))
    /\ ReadAndMerge(s, header[s], Caller(s))
    /\ phase' = [phase EXCEPT ![s] = "merging"]
    /\ UNCHANGED <<shared, header, calls>>

ResponseOutboundStore(s) ==
    /\ s # RootSpan
    /\ phase[s] = "merging"
    /\ WriteShared(s, Caller(s))
    /\ phase' = [phase EXCEPT ![s] = "done"]
    /\ UNCHANGED <<header, calls>>

ResponseOutboundFails(s) ==
    /\ "response" \in Faults
    /\ s # RootSpan
    /\ phase[s] = "responded"
    /\ WorkerFree(Caller(s))
    /\ phase' = [phase EXCEPT ![s] = "done"]
    /\ UNCHANGED <<shared, local, header, calls>>

-----------------------------------------------------------------------------
Hook(s) ==
    \/ RequestInbound(s)
    \/ RequestInboundStore(s)
    \/ RequestInboundFails(s)
    \/ ResponseInbound(s)
    \/ ResponseInboundFails(s)
    \/ ResponseOutbound(s)
    \/ ResponseOutboundStore(s)
    \/ ResponseOutboundFails(s)

Finished ==
    /\ phase[RootSpan] = "responded"
    /\ \A s \in Spans \ {RootSpan} : phase[s] = "done"
    /\ UNCHANGED vars

Next == (\E s \in Spans : Hook(s)) \/ Finished

Spec == Init /\ [][Next]_vars

-----------------------------------------------------------------------------
DataOK(data) ==
    /\ WithGraph(Default, data) \in FerriedDataType
    /\ data.edges \subseteq (DOMAIN data.nodes) \X (DOMAIN data.nodes)
    /\ SetSHasEntries(data)

TypeOK ==
    /\ phase \in [Spans -> Phases]
    /\ \A n \in Services : DataOK(shared[n])
    /\ \A s \in Spans : DataOK(local[s]) /\ DataOK(header[s])
    /\ calls \in Seq([by : Services, value : Values, made : BOOLEAN])

(* However the graphs of several callees are merged, and whatever of them  *)
(* is lost: what set_s says of a callee's node is true of the graph it is  *)
(* ferried with. *)
FerriedSetSTrue ==
    \A s \in Spans : SetSTrue(header[s]) /\ SetSTrue(local[s])

(* Nobody is told that a match was found unless somebody below reported    *)
(* one, or tried to. *)
FoundMeansReported ==
    \A s \in Spans : header[s].found_match =>
        \E k \in DOMAIN calls : \E t \in Below[s] : calls[k].by = ServiceOf[t]

(* With everything at hand, a match is not missed: where no hook failed    *)
(* and no update was lost, a match is reported by its own caller or by     *)
(* somebody below, unless it is at a callee of the root; one at the root   *)
(* by the root itself, unless there is one at its callees.                 *)
AllComplete ==
    \A s \in Spans : phase[s] \in {"responded", "done"} /\ Complete(header[s], s)

CompleteIsReported ==
    AllComplete =>
        LET low == Children(RootSpan)
        IN  /\ TrueMatches \ (low \cup {RootSpan}) # {} => calls # <<>>
            /\ RootSpan \in TrueMatches /\ low \cap TrueMatches = {} => calls # <<>>

(* With everything at hand, what was found below a sidecar silences it:    *)
(* on a way through the trace there is one report. *)
FoundSilencesCallers ==
    AllComplete =>
        \A j, k \in DOMAIN calls : \A s, t \in Spans :
            calls[j].by = ServiceOf[s] /\ calls[k].by = ServiceOf[t] /\ t \in Below[s]
            => j = k

(* What is sent to storage is what the query asks for, the trace level     *)
(* filter apart: only the root's sidecar looks at that.                    *)
Sent == Selected(calls, {k \in DOMAIN calls : calls[k].made})

PropertyOfMatch(m, seen) == SpanLabel[m].value

Collection == INSTANCE TraceCollection WITH
    Label    <- SpanLabel,
    Returned <- PropertyOfMatch,
    wanted   <- TRUE,
    called   <- {s \in Spans : phase[s] # "idle"},
    answered <- {s \in Spans : phase[s] \in {"responded", "merging", "done"}},
    reports  <- [k \in DOMAIN Sent |-> Sent[k].value]

ImplementsTraceCollection == Collection!Spec
=============================================================================

---------------------------- MODULE StorageFilter ----------------------------
(***************************************************************************)
(* The aggregation filter in the sidecar of the storage service            *)
(* (templates/envoy_filter_aggregation.rs.handlebars), filled in with avg. *)
(* The struct of the UDF is in Envoy's shared data, as a string.  For each *)
(* request Envoy creates a context, and the context's request hook reads   *)
(* the struct, executes the UDF, and writes the struct back without        *)
(* compare-and-swap.  A worker thread goes through the three steps of one  *)
(* request before it begins another; the steps of different worker threads *)
(* interleave.                                                             *)
(***************************************************************************)
EXTENDS AvgUdf

CONSTANTS
    Requests,   \* the requests to the storage service
    ValueOf,    \* the value each request carries
    Workers,    \* the worker threads of the sidecar
    NoStruct    \* there is no struct

ASSUME StorageAssumption ==
    /\ ValueOf \in [Requests -> U64]
    /\ Workers \in Nat \ {0}

VARIABLES
    phase,    \* phase[r]: how far request r is
    stored,   \* the struct in the shared data
    local,    \* local[r]: the struct the hook of r has executed
    answer    \* the header "value" of the requests passed on

vars == <<phase, stored, local, answer>>

Phases == {"new",         \* not received
           "created",     \* the context exists
           "executed",    \* request hook, between the read and the write
           "done"}

TypeOK ==
    /\ phase \in [Requests -> Phases]
    /\ stored \in AvgStruct \cup {NoStruct}
    /\ local \in [Requests -> AvgStruct \cup {NoStruct}]
    /\ DOMAIN answer \subseteq Requests
    /\ \A r \in DOMAIN answer : answer[r] \in U64

Init ==
    /\ phase = [r \in Requests |-> "new"]
    /\ stored = NoStruct
    /\ local = [r \in Requests |-> NoStruct]
    /\ answer = <<>>

-----------------------------------------------------------------------------
WorkerFree == Cardinality({r \in Requests : phase[r] \in {"created", "executed"}}) < Workers

(* create_http_context puts a new struct into the shared data. *)
CreateContext(r) ==
    /\ phase[r] = "new"
    /\ WorkerFree
    /\ phase' = [phase EXCEPT ![r] = "created"]
    /\ stored' = New
    /\ UNCHANGED <<local, answer>>

(* on_http_request_headers_inbound up to the write; since every context    *)
(* has stored a struct, there is one.                                      *)
RequestInbound(r) ==
    /\ phase[r] = "created"
    /\ phase' = [phase EXCEPT ![r] = "executed"]
    /\ local' = [local EXCEPT ![r] = Execute(stored, ValueOf[r])]
    /\ UNCHANGED <<stored, answer>>

(* The header x-request-id or value is missing, or the direction unknown.  *)
RequestInboundFails(r) ==
    /\ phase[r] = "created"
    /\ phase' = [phase EXCEPT ![r] = "done"]
    /\ UNCHANGED <<stored, local, answer>>

(* The write, and the request goes on with the result in its header. *)
RequestInboundStore(r) ==
    /\ phase[r] = "executed"
    /\ phase' = [phase EXCEPT ![r] = "done"]
    /\ stored' = local[r]
    /\ local' = [local EXCEPT ![r] = NoStruct]
    /\ answer' = [q \in {r} \cup DOMAIN answer |-> IF q = r THEN local[r].avg ELSE answer[q]]

Finished ==
    /\ \A r \in Requests : phase[r] = "done"
    /\ UNCHANGED vars

Next ==
    \/ \E r \in Requests :
        \/ CreateContext(r)
        \/ RequestInbound(r)
        \/ RequestInboundFails(r)
        \/ RequestInboundStore(r)
    \/ Finished

Spec == Init /\ [][Next]_vars

-----------------------------------------------------------------------------
(* The requests whose value the UDF has seen. *)
Executed == {r \in Requests : phase[r] = "executed"} \cup DOMAIN answer

ValuesOf(S) == [r \in S |-> ValueOf[r]]

(* However the worker threads interleave, the struct is that of a set of    *)
(* requests, none of them in it twice or by half: in the shared data it is  *)
(* one of answered requests, in the hook of r one with r in it, and each    *)
(* answer is the average of values with its own among them.                 *)
StructOfRequests ==
    /\ stored # NoStruct => \E S \in SUBSET DOMAIN answer :
        /\ stored.num_instances = Cardinality(S) % Modulus
        /\ stored.total = Sum(ValuesOf(S)) % Modulus
    /\ \A r \in Requests : phase[r] = "executed" => \E S \in SUBSET Executed :
        /\ r \in S
        /\ local[r].num_instances = Cardinality(S) % Modulus
        /\ local[r].total = Sum(ValuesOf(S)) % Modulus
    /\ \A r \in DOMAIN answer : \E S \in SUBSET Executed :
        r \in S /\ answer[r] = AverageOf(ValuesOf(S))

(* "Get from storage ... input new info ... store struct back": the struct *)
(* counts every request that was answered. *)
CountsEveryRequest ==
    (\A r \in Requests : phase[r] \in {"new", "done"}) /\ stored # NoStruct =>
        stored.num_instances = Cardinality(DOMAIN answer)
=============================================================================

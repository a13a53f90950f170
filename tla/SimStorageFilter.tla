-------------------------- MODULE SimStorageFilter --------------------------
(***************************************************************************)
(* The aggregation filter of the simulator                                 *)
(* (templates/simulation_filter_aggregation.rs.handlebars), filled in with *)
(* avg: one filter object, called for one request at a time.  The requests *)
(* come from the filters of the mesh, see SimMesh.                         *)
(***************************************************************************)
EXTENDS AvgUdf

VARIABLES
    avg,      \* the filter's field for the UDF avg
    answer    \* the data of the extra Rpc returned for a request

(* Filter::new *)
Init == avg = New /\ answer = <<>>

OnIncomingRequests(r, data) ==
    /\ r \notin DOMAIN answer
    /\ avg' = Execute(avg, data)
    /\ answer' = [q \in {r} \cup DOMAIN answer |->
                    IF q = r THEN avg'.avg ELSE answer[q]]
=============================================================================

------------------------------- MODULE SimMesh -------------------------------
(***************************************************************************)
(* The simulator's mesh with its storage service: what SimFilter sends is  *)
(* received, in some order, by the aggregation filter of SimStorageFilter, *)
(* whose UDF is avg.  Together they answer RETURN avg(height(p)).          *)
(***************************************************************************)
EXTENDS SimFilter

CONSTANT Modulus   \* 2^64

VARIABLES
    avg,     \* the storage filter's UDF
    answer   \* answer[k]: what the k-th Rpc to storage was answered

Storage == INSTANCE SimStorageFilter

MeshInit == Init /\ Storage!Init

Hooks == Next /\ UNCHANGED <<avg, answer>>

Receives == \E k \in DOMAIN sent :
    Storage!OnIncomingRequests(k, sent[k].data) /\ UNCHANGED vars

Over ==
    /\ uid = MaxTraces
    /\ phase[RootSpan] = "responded"
    /\ DOMAIN answer = DOMAIN sent
    /\ UNCHANGED <<vars, avg, answer>>

MeshNext == Hooks \/ Receives \/ Over

MeshSpec == MeshInit /\ [][MeshNext]_<<vars, avg, answer>>

-----------------------------------------------------------------------------
(* The storage service answers with the running average of the heights of  *)
(* the matches it has been told of. *)
Running == INSTANCE RunningAverage WITH
    Requests <- 1 .. MaxTraces * Cardinality(Spans),
    received <- [k \in DOMAIN answer |-> sent[k].data]

ImplementsRunningAverage == Running!Spec
=============================================================================

----------------------------- MODULE MCStorage -----------------------------
(* Requests and values for the aggregation filter of Envoy. *)
EXTENDS StorageFilter, TLC

FourRequests == {"p", "q", "r", "s"}
FourValues == "p" :> 1 @@ "q" :> 2 @@ "r" :> 5 @@ "s" :> 6
=============================================================================

--------------------------- MODULE RunningAverage ---------------------------
(***************************************************************************)
(* What a query that returns avg(...) asks of the storage service: every   *)
(* request is answered with the average of all values received so far.     *)
(***************************************************************************)
EXTENDS AvgUdf

CONSTANT Requests   \* the requests to the storage service

VARIABLES
    received,  \* the values received so far, a function of their requests
    answer     \* what these were answered

Init == received = <<>> /\ answer = <<>>

Receive(r, value) ==
    /\ r \notin DOMAIN received
    /\ received' = [q \in {r} \cup DOMAIN received |->
                        IF q = r THEN value ELSE received[q]]
    /\ answer' = [q \in {r} \cup DOMAIN answer |->
                        IF q = r THEN AverageOf(received') ELSE answer[q]]

Next == \E r \in Requests, value \in U64 : Receive(r, value)

Spec == Init /\ [][Next]_<<received, answer>>
=============================================================================

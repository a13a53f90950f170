--------------------------- MODULE TraceCollection ---------------------------
(***************************************************************************)
(* What a query asks of the mesh, whatever the filter that answers it: a   *)
(* trace grows call by call, each call is answered once, and with the      *)
(* answer at most one value is reported, what the query returns for a span *)
(* at which its pattern matches the calls really made below the answered   *)
(* one.  Nothing has to be reported: headers and shared data may be lost.  *)
(* After one trace comes the next.                                         *)
(***************************************************************************)
EXTENDS SubtreeMatch

CONSTANTS
    Spans,      \* the calls of the trace
    RootSpan,   \* the call that enters the mesh
    Parent,     \* the span during which a span is called
    Detached,   \* the spans whose caller answers without waiting for them
    Label,      \* the name and the property of the service of each span
    Target,     \* the query's pattern
    Returned(_, _)  \* RETURN, for a match at a span and the calls seen

VARIABLES
    wanted,     \* the trace level filter lets traces like this be reported
    called,     \* the calls made so far
    answered,   \* those of them that were answered
    reports     \* the values reported, in order

vars == <<wanted, called, answered, reports>>

Init == wanted \in BOOLEAN /\ called = {} /\ answered = {} /\ reports = <<>>

Call(s) ==
    /\ s \notin called
    /\ s # RootSpan => Parent[s] \in called
    /\ called' = called \cup {s}
    /\ UNCHANGED <<wanted, answered, reports>>

(* The part of the trace that was called, s and below. *)
SeenBelow(s) ==
    Reachable(called, {<<Parent[c], c>> : c \in called \ {RootSpan}}, s)

MatchesBelow(s) ==
    LET seen == SeenBelow(s)
        edges == {<<Parent[c], c>> : c \in seen \ {s}}
    IN  {m \in seen : EmbedsAt(Target, [t \in seen |-> Label[t]], edges, m)}

Answer(s) ==
    /\ s \in called \ answered
    /\ \A c \in called \ (Detached \cup {RootSpan}) : Parent[c] = s => c \in answered
    /\ answered' = answered \cup {s}
    /\ \/ UNCHANGED reports
       \/ wanted /\ \E m \in MatchesBelow(s) : reports' = Append(reports, Returned(m, SeenBelow(m)))
    /\ UNCHANGED <<wanted, called>>

NewTrace ==
    /\ RootSpan \in answered
    /\ called' = {} /\ answered' = {} /\ reports' = <<>>
    /\ UNCHANGED wanted

Next == (\E s \in Spans : Call(s) \/ Answer(s)) \/ NewTrace

Spec == Init /\ [][Next]_vars
=============================================================================

---------------------------- MODULE MCTraceFilter ----------------------------
(***************************************************************************)
(* Traces, patterns and settings for model checking TraceFilter.           *)
(***************************************************************************)
EXTENDS TraceFilter, TLC

(* a calls b and c, b calls d and e. *)
TreeSpans  == {"a", "b", "c", "d", "e"}
TreeParent == "b" :> "a" @@ "c" :> "a" @@ "d" :> "b" @@ "e" :> "b"
TreeService == [s \in TreeSpans |-> s]

(* The same without e. *)
SmallSpans  == {"a", "b", "c", "d"}
SmallParent == "b" :> "a" @@ "c" :> "a" @@ "d" :> "b"
SmallService == [s \in SmallSpans |-> s]

AllServices == {"a", "b", "c", "d", "e"}
LetterValues == {"x", "y", "z"}
LetterProperty ==
    "a" :> "x" @@ "b" :> "y" @@ "c" :> "z" @@ "d" :> "z" @@ "e" :> "y"

PatternOf(nodes, edges) == [nodes |-> nodes, edges |-> edges, unassigned |-> {}]
Wanted(v) == [name |-> AnyName, value |-> v]

(* MATCH r --> p, r --> q WHERE p.property = y *)
Fork == PatternOf(<<Wanted(NoValue), Wanted("y"), Wanted(NoValue)>>, {<<1, 2>>, <<1, 3>>})

(* MATCH r --> p WHERE p.property = y: in the tree, at a and at b *)
Pair == PatternOf(<<Wanted(NoValue), Wanted("y")>>, {<<1, 2>>})

NoSpans == {}
DetachedC == {"c"}
NoFaults == {}
=============================================================================

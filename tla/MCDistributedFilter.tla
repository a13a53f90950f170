------------------------- MODULE MCDistributedFilter -------------------------
(***************************************************************************)
(* A trace and a pattern for DistributedFilter.                            *)
(***************************************************************************)
EXTENDS DistributedFilter, TLC

(* a calls b, b calls c, c calls d and e, d calls f. *)
DeepSpans  == {"a", "b", "c", "d", "e", "f"}
DeepParent == "b" :> "a" @@ "c" :> "b" @@ "d" :> "c" @@ "e" :> "c" @@ "f" :> "d"
DeepService == [s \in DeepSpans |-> s]
LetterValues == {"x", "y", "z"}
DeepProperty == [s \in DeepSpans |->
    IF s \in {"e", "f"} THEN "y" ELSE IF s = "c" THEN "z" ELSE "x"]

Wanted(v) == [name |-> AnyName, value |-> v]

(* MATCH p --> q WHERE q.property = y: at d, whose callee f matches q, and *)
(* above it at c, whose callee e does. *)
Pair == [nodes |-> <<Wanted(NoValue), Wanted("y")>>, edges |-> {<<1, 2>>},
         unassigned |-> {}]

NoSpans == {}
=============================================================================

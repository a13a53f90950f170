----------------------------- MODULE MCSimMesh -----------------------------
(***************************************************************************)
(* A mesh and a query for the filters of the simulator.                    *)
(***************************************************************************)
EXTENDS SimMesh, TLC

(* a calls b and g, b calls c, c calls e, g calls h. *)
TwoBranches  == {"a", "b", "c", "e", "g", "h"}
BranchParent == "b" :> "a" @@ "c" :> "b" @@ "e" :> "c"
                  @@ "g" :> "a" @@ "h" :> "g"
BranchService == [s \in TwoBranches |-> s]
LetterValues == {"x", "y"}
LetterProperty == [s \in TwoBranches |-> IF s \in {"e", "g", "h"} THEN "y" ELSE "x"]

Wanted(v) == [name |-> AnyName, value |-> v]

(* MATCH p --> q WHERE q.property = y: at a, with g, and on either branch, *)
(* at c with e and at g with h. *)
Pair == [nodes |-> <<Wanted(NoValue), Wanted("y")>>, edges |-> {<<1, 2>>},
         unassigned |-> {}]

NoSpans == {}
=============================================================================

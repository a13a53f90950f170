-------------------------------- MODULE Ebnf --------------------------------
(***************************************************************************)
(* Grammars in EBNF, and the parse trees of a sequence of tokens.          *)
(*                                                                         *)
(* A parser generated by ANTLR looks ahead as far as it takes to know      *)
(* which alternative, or whether one more repetition, leads on to the end  *)
(* of the input (adaptive_predict); only of an ambiguous text it has to    *)
(* drop trees.  So the tree it builds is one of those defined here.        *)
(*                                                                         *)
(* A token is [type, text].  A node of a tree is [name, kids]; a leaf is   *)
(* named "token" and has the text of its token below it.                   *)
(***************************************************************************)
EXTENDS Naturals, Sequences

T(type)      == [op |-> "token", types |-> {type}]
OneOf(types) == [op |-> "token", types |-> types]
R(name)      == [op |-> "rule", name |-> name]
a & b        == [op |-> "then", left |-> a, right |-> b]
a | b        == [op |-> "or", left |-> a, right |-> b]
Opt(a)       == [op |-> "option", of |-> a]
Star(a)      == [op |-> "repeat", of |-> a]
Plus(a)      == a & Star(a)

(* What expression e can derive from the i-th token on: the nodes, and the *)
(* position after them. *)
RECURSIVE Derive(_, _, _, _)

Derive(grammar, tokens, e, i) ==
    CASE e.op = "token" ->
            IF i <= Len(tokens) /\ tokens[i].type \in e.types
            THEN {[kids |-> <<[name |-> "token", kids |-> <<tokens[i].text>>]>>,
                   next |-> i + 1]}
            ELSE {}
      [] e.op = "rule" ->
            {[kids |-> <<[name |-> e.name, kids |-> d.kids]>>, next |-> d.next] :
                d \in Derive(grammar, tokens, grammar[e.name], i)}
      [] e.op = "then" ->
            UNION {{[kids |-> d.kids \o f.kids, next |-> f.next] :
                        f \in Derive(grammar, tokens, e.right, d.next)} :
                    d \in Derive(grammar, tokens, e.left, i)}
      [] e.op = "or" ->
            Derive(grammar, tokens, e.left, i) \cup Derive(grammar, tokens, e.right, i)
      [] e.op = "option" ->
            Derive(grammar, tokens, e.of, i) \cup {[kids |-> <<>>, next |-> i]}
      [] e.op = "repeat" ->
            UNION {{[kids |-> d.kids \o f.kids, next |-> f.next] :
                        f \in Derive(grammar, tokens, e, d.next)} :
                    d \in Derive(grammar, tokens, e.of, i)}
              \cup {[kids |-> <<>>, next |-> i]}

Trees(grammar, start, tokens) ==
    {d.kids[1] : d \in Derive(grammar, tokens, R(start), 1)}

-----------------------------------------------------------------------------
(* Children of a node that are of a rule, in order. *)
ChildrenOf(node, rule) ==
    LET OfRule(kid) == kid.name = rule IN SelectSeq(node.kids, OfRule)

Has(node, rule) == \E k \in DOMAIN node.kids : node.kids[k].name = rule

(* The first of them, where there is one. *)
Child(node, rule) == ChildrenOf(node, rule)[1]

(* The text of a node: the texts of its leaves, white space included. *)
RECURSIVE Text(_), TextOf(_)
TextOf(kids) == IF kids = <<>> THEN <<>> ELSE Text(Head(kids)) \o TextOf(Tail(kids))
Text(node) == IF node.name = "token" THEN node.kids ELSE TextOf(node.kids)
=============================================================================

------------------------------- MODULE QueryIr ------------------------------
(***************************************************************************)
(* The compiler's intermediate representation of a query, and the three    *)
(* visitors that read it off the parse tree.  A visitor is a record; to    *)
(* visit a node takes it to the visitor it is afterwards.  What a visitor  *)
(* does not override goes through the children in order.  stopped becomes  *)
(* TRUE when the compiler exits or panics.                                 *)
(*                                                                         *)
(* A text is the sequence of the texts of its tokens, " " for white space. *)
(***************************************************************************)
EXTENDS Ebnf, SequencesExt

CONSTANT Unquoted   \* Unquoted[t]: the literal t without its single quotes

(* IndexSet: in the order of the first insertion *)
Insert(seq, e) == IF Contains(seq, e) THEN seq ELSE Append(seq, e)

Stop(visitor) == [visitor EXCEPT !.stopped = TRUE]

(* oC_Atom is a function invocation, a variable or a literal *)
Supported(atom) ==
    \/ Has(atom, "oC_FunctionInvocation")
    \/ Has(atom, "oC_Variable")
    \/ Has(atom, "oC_Literal")

Texts(nodes) == [k \in DOMAIN nodes |-> Text(nodes[k])]

(* The names after the dots. *)
Members(expression) ==
    LET lookups == ChildrenOf(expression, "oC_PropertyLookup")
    IN  [k \in DOMAIN lookups |-> Text(Child(lookups[k], "oC_PropertyKeyName"))]

-----------------------------------------------------------------------------
(***************************************************************************)
(* FilterVisitor: the structural filter, from the patterns of every MATCH, *)
(* and the attribute filters, from the comparisons outside RETURN.         *)
(***************************************************************************)
FilterVisitor == [struct_filters |-> <<>>,  \* at most one: [vertices, edges]
                  attr_filters   |-> <<>>,  \* [node, property, value]
                  return_items   |-> <<>>,  \* [entity, property]
                  stopped        |-> FALSE]

(* The text of a UDF call, height(a), is taken apart at the parenthesis.   *)
IrReturn(expression) ==
    LET atom == Child(expression, "oC_Atom")
        call == Text(Child(atom, "oC_FunctionInvocation"))
        open == SelectInSeq(call, LAMBDA t : t = "(")
    IN  CASE Has(atom, "oC_FunctionInvocation") ->
                [entity   |-> SubSeq(call, open + 1, Len(call) - 1),
                 property |-> SubSeq(call, 1, open - 1)]
          [] ~ Has(atom, "oC_FunctionInvocation") ->
                [entity   |-> Text(atom),
                 property |-> FlattenSeq(Texts(
                                 ChildrenOf(expression, "oC_PropertyLookup")))]

FilterPropertyOrLabelsExpression(node, v) ==
    IF Supported(Child(node, "oC_Atom"))
    THEN [v EXCEPT !.return_items = Append(@, IrReturn(node))]
    ELSE Stop(v)

(* A chain of edges.  A node without a name panics, as does a pattern in   *)
(* parentheses; an edge that does not point right is an error.             *)
FilterPatternElement(node, v) ==
    LET chain  == ChildrenOf(node, "oC_PatternElementChain")
        nodes  == <<Child(node, "oC_NodePattern")>>
                    \o [k \in DOMAIN chain |-> Child(chain[k], "oC_NodePattern")]
        name   == [k \in DOMAIN nodes |-> Text(Child(nodes[k], "oC_Variable"))]
        edge   == [k \in DOMAIN chain |-> <<name[k], name[k + 1]>>]
        before == IF v.struct_filters = <<>> THEN [vertices |-> <<>>, edges |-> <<>>]
                  ELSE v.struct_filters[1]
    IN  IF /\ Has(node, "oC_NodePattern")
           /\ \A k \in DOMAIN nodes : Has(nodes[k], "oC_Variable")
           /\ \A k \in DOMAIN chain :
                Has(Child(chain[k], "oC_RelationshipPattern"), "oC_RightArrowHead")
        THEN [v EXCEPT !.struct_filters =
                <<[vertices |-> FoldLeft(Insert, before.vertices, name),
                   edges    |-> FoldLeft(Insert, before.edges, edge)]>>]
        ELSE Stop(v)

RECURSIVE VisitFilter(_, _), VisitFilterAll(_, _)

(* Mutant: what the left side left behind is not cleared. *)
FilterComparisonExpressionKeeping(node, v) ==
    LET left  == VisitFilter(Child(node, "oC_AddOrSubtractExpression"), v)
        right == VisitFilter(Child(node, "oC_PartialComparisonExpression"), left)
    IN  IF left.stopped \/ ~ Has(node, "oC_PartialComparisonExpression") THEN Stop(left)
        ELSE [right EXCEPT
                !.attr_filters = Append(@, [node     |-> left.return_items[1].entity,
                                            property |-> left.return_items[1].property,
                                            value    |-> right.return_items[1].entity])]

(* property = value, whatever the comparison operator.  What has no        *)
(* property is skipped.                                                    *)
FilterComparisonExpression(node, v) ==
    LET left  == VisitFilter(Child(node, "oC_AddOrSubtractExpression"), v)
        item  == left.return_items[1]
        clean == [left EXCEPT !.return_items = <<>>]
        right == VisitFilter(Child(node, "oC_PartialComparisonExpression"), clean)
    IN  CASE left.stopped -> left
          [] ~ left.stopped /\ item.property = <<>> -> clean
          [] ~ left.stopped /\ item.property # <<>> ->
                IF ~ Has(node, "oC_PartialComparisonExpression") THEN Stop(clean)
                ELSE IF right.stopped THEN right
                ELSE [right EXCEPT
                        !.return_items = <<>>,
                        !.attr_filters = Append(@,
                            [node     |-> item.entity,
                             property |-> item.property,
                             value    |-> right.return_items[1].entity])]

FilterMatch(node, v) ==
    VisitFilterAll(ChildrenOf(Child(node, "oC_Pattern"), "oC_PatternPart")
                     \o ChildrenOf(node, "oC_Where"), v)

VisitFilterAll(nodes, v) ==
    IF nodes = <<>> \/ v.stopped THEN v
    ELSE VisitFilterAll(Tail(nodes), VisitFilter(Head(nodes), v))

VisitFilter(node, v) ==
    CASE node.name \in {"token", "oC_Return"} -> v
      [] node.name = "oC_PropertyOrLabelsExpression" ->
            FilterPropertyOrLabelsExpression(node, v)
      [] node.name = "oC_ComparisonExpression" -> FilterComparisonExpression(node, v)
      [] node.name = "oC_PatternElement" -> FilterPatternElement(node, v)
      [] node.name = "oC_Match" -> FilterMatch(node, v)
      [] OTHER -> VisitFilterAll(node.kids, v)

-----------------------------------------------------------------------------
(***************************************************************************)
(* ReturnVisitor: the value to return, and how to aggregate it.            *)
(***************************************************************************)
Property(parent, members) ==
    [kind |-> "property", parent |-> parent, members |-> members]

UdfCall(func) ==
    [kind |-> "udf", id |-> Text(Child(func, "oC_FunctionName")),
     args |-> Texts(ChildrenOf(func, "oC_Expression"))]

NoUdf == <<>>

(* IrReturnEnum: udf is NoUdf, or the aggregation of the value. *)
Returned(udf, value) == [udf |-> udf, value |-> value]

ReturnVisitor == [return_expr    |-> Returned(NoUdf, Property(<<>>, <<>>)),
                  obj_references |-> <<>>,
                  stopped        |-> FALSE]

ReturnPropertyOrLabelsExpression(node, v) ==
    LET atom == Child(node, "oC_Atom")
        Push(ref) == [v EXCEPT !.obj_references = Append(@, ref)]
    IN  CASE Has(atom, "oC_Variable") -> Push(Property(Text(atom), Members(node)))
          [] Has(atom, "oC_FunctionInvocation") ->
                Push(UdfCall(Child(atom, "oC_FunctionInvocation")))
          [] Has(atom, "oC_Literal") -> v
          [] ~ Supported(atom) -> Stop(v)

RECURSIVE VisitReturn(_, _), VisitReturnAll(_, _)

(* RETURN value, or RETURN value, aggregation. *)
ReturnProjectionItems(node, v) ==
    LET items == ChildrenOf(node, "oC_ProjectionItem")
        cleared == [v EXCEPT !.obj_references = <<>>]
        first == VisitReturn(items[1], cleared)
        second == VisitReturn(items[2], [first EXCEPT !.obj_references = <<>>])
    IN  CASE Len(items) \notin {1, 2} -> Stop(v)
          [] Len(items) = 1 ->
                IF first.stopped \/ first.obj_references = <<>> THEN Stop(first)
                ELSE [first EXCEPT
                        !.return_expr = Returned(NoUdf, first.obj_references[1])]
          [] Len(items) = 2 ->
                IF \/ first.stopped \/ first.obj_references = <<>>
                   \/ second.stopped \/ second.obj_references = <<>>
                   \/ second.obj_references[1].kind # "udf"
                THEN Stop(second)
                ELSE [second EXCEPT
                        !.return_expr = Returned(<<second.obj_references[1]>>,
                                                 first.obj_references[1])]

VisitReturnAll(nodes, v) ==
    IF nodes = <<>> \/ v.stopped THEN v
    ELSE VisitReturnAll(Tail(nodes), VisitReturn(Head(nodes), v))

VisitReturn(node, v) ==
    CASE node.name \in {"token", "oC_Match"} -> v
      [] node.name = "oC_PropertyOrLabelsExpression" ->
            ReturnPropertyOrLabelsExpression(node, v)
      [] node.name = "oC_ProjectionItems" -> ReturnProjectionItems(node, v)
      [] node.name = "oC_ProjectionBody" ->
            VisitReturn(Child(node, "oC_ProjectionItems"), v)
      [] OTHER -> VisitReturnAll(node.kids, v)

-----------------------------------------------------------------------------
(***************************************************************************)
(* PropertyAndUdfVisitor: every property and every UDF call of the query,  *)
(* those inside the arguments of a call before the call.                   *)
(***************************************************************************)
PropertyAndUdfVisitor == [properties |-> <<>>,   \* [parent, members]
                          udf_calls  |-> <<>>,   \* [id, args]
                          stopped    |-> FALSE]

RECURSIVE VisitProperty(_, _), VisitPropertyAll(_, _)

PropertyFunctionInvocation(func, v) ==
    LET args == VisitPropertyAll(ChildrenOf(func, "oC_Expression"), v)
    IN  IF args.stopped THEN args
        ELSE [args EXCEPT !.udf_calls = Insert(@, UdfCall(func))]

PropertyPropertyOrLabelsExpression(node, v) ==
    LET atom == Child(node, "oC_Atom")
    IN  CASE Has(atom, "oC_FunctionInvocation") ->
                PropertyFunctionInvocation(Child(atom, "oC_FunctionInvocation"), v)
          [] Has(atom, "oC_Variable") ->
                IF Members(node) = <<>> THEN v
                ELSE [v EXCEPT !.properties =
                        Insert(@, Property(Text(atom), Members(node)))]
          [] Has(atom, "oC_Literal") -> v
          [] ~ Supported(atom) -> Stop(v)

VisitPropertyAll(nodes, v) ==
    IF nodes = <<>> \/ v.stopped THEN v
    ELSE VisitPropertyAll(Tail(nodes), VisitProperty(Head(nodes), v))

VisitProperty(node, v) ==
    CASE node.name = "token" -> v
      [] node.name = "oC_FunctionInvocation" -> PropertyFunctionInvocation(node, v)
      [] node.name = "oC_PropertyOrLabelsExpression" ->
            PropertyPropertyOrLabelsExpression(node, v)
      [] OTHER -> VisitPropertyAll(node.kids, v)

-----------------------------------------------------------------------------
(* The single quotes of the values are stripped at the end. *)
WithoutQuotes(text) ==
    [k \in DOMAIN text |-> IF text[k] \in DOMAIN Unquoted THEN Unquoted[text[k]]
                           ELSE text[k]]

(* VisitorResults, of the three visitors after the tree *)
VisitResult(filter, return, property) ==
    [struct_filters |-> filter.struct_filters,
     attr_filters   |-> [k \in DOMAIN filter.attr_filters |->
                            [filter.attr_filters[k] EXCEPT !.value = WithoutQuotes(@)]],
     return_expr    |-> return.return_expr,
     properties     |-> property.properties,
     udf_calls      |-> property.udf_calls]
=============================================================================

------------------------------ MODULE QueryText -----------------------------
(***************************************************************************)
(* The queries the compiler is for, what they ask, and the texts somebody  *)
(* may write them in.  A query is                                          *)
(*                                                                         *)
(*   patterns  the chains of its MATCH, each a sequence of names           *)
(*   where     its conditions, [item, value], joined by AND                *)
(*   item      what it returns                                             *)
(*   aggregate the UDF it aggregates that with, or ""                      *)
(*                                                                         *)
(* An item is [of, path, udf]: property path of node of (or of the trace), *)
(* or the call of a UDF on it, with path empty.  A value is the text of a  *)
(* literal.                                                                *)
(***************************************************************************)
EXTENDS CodeGen, QueryIr

CONSTANTS
    TokenType,    \* the type the lexer gives a name or a literal
    DoubleQuoted  \* the literals in double quotes

(* Where white space is optional; a layout is the set of places where the  *)
(* author put some.  "without head": the edges are lines, not arrows.      *)
Places == {"in node", "at edge", "at comma", "before dot", "after dot",
           "after name", "in call", "at equals", "without head"}

-----------------------------------------------------------------------------
Token(text) == [type |-> IF text \in DOMAIN TokenType THEN TokenType[text] ELSE text,
                text |-> text]

Space == <<[type |-> "SP", text |-> " "]>>

Words(texts) == [k \in DOMAIN texts |-> Token(texts[k])]

Gap(place, layout) == IF place \in layout THEN Space ELSE <<>>

(* Joined(parts, s): the parts with s between them *)
Joined(parts, separator) ==
    FlattenSeq([k \in DOMAIN parts |->
        IF k = 1 THEN parts[k] ELSE separator \o parts[k]])

NodeText(name, layout) ==
    Words(<<"(">>) \o Gap("in node", layout) \o Words(<<name>>)
      \o Gap("in node", layout) \o Words(<<")">>)

ChainText(names, layout) ==
    Joined([k \in DOMAIN names |-> NodeText(names[k], layout)],
           Gap("at edge", layout) \o Words(<<"-", "[", "]", "-">>)
             \o (IF "without head" \in layout THEN <<>> ELSE Words(<<">">>))
             \o Gap("at edge", layout))

Separator(text, layout) ==
    LET gap == Gap(IF text = "," THEN "at comma" ELSE "at equals", layout)
    IN  gap \o Words(<<text>>) \o gap

CallText(udf, argument, layout) ==
    Words(<<udf>>) \o Gap("after name", layout) \o Words(<<"(">>)
      \o Gap("in call", layout) \o argument \o Gap("in call", layout) \o Words(<<")">>)

ItemText(item, layout) ==
    LET dot == Gap("before dot", layout) \o Words(<<".">>) \o Gap("after dot", layout)
        steps == <<item.of>> \o item.path
    IN  IF item.udf # "" THEN CallText(item.udf, Words(<<item.of>>), layout)
        ELSE Joined([k \in DOMAIN steps |-> Words(<<steps[k]>>)], dot)

WhereText(where, layout) ==
    IF where = <<>> THEN <<>>
    ELSE Space \o Words(<<"WHERE">>) \o Space
           \o Joined([k \in DOMAIN where |->
                        ItemText(where[k].item, layout) \o Separator("=", layout)
                          \o Words(<<where[k].value>>)],
                     Space \o Words(<<"AND">>) \o Space)

(* The tokens of query q, written with layout. *)
QueryText(q, layout) ==
    Words(<<"MATCH">>) \o Space
      \o Joined([k \in DOMAIN q.patterns |-> ChainText(q.patterns[k], layout)],
                Separator(",", layout))
      \o WhereText(q.where, layout)
      \o Space \o Words(<<"RETURN">>) \o Space \o ItemText(q.item, layout)
      \o (IF q.aggregate = "" THEN <<>>
          ELSE Separator(",", layout)
                 \o CallText(q.aggregate, ItemText(q.item, layout), layout))
      \o Words(<<"EOF">>)

-----------------------------------------------------------------------------
(* What a query asks: the pattern, the values wanted of its nodes and of   *)
(* the trace, and the property to return. *)
PropertyName(item) ==
    IF item.udf # "" THEN <<item.udf>>
    ELSE ToDotString([k \in DOMAIN item.path |-> <<item.path[k]>>])

Value(text) == <<IF text \in DOMAIN Unquoted THEN Unquoted[text] ELSE text>>

QuestionOf(q) ==
    LET conditions == ToSet(q.where)
    IN  [vertices |-> UNION {{<<q.patterns[k][m]>> : m \in DOMAIN q.patterns[k]} :
                                k \in DOMAIN q.patterns},
         edges    |-> UNION {{<<<<q.patterns[k][m]>>, <<q.patterns[k][m + 1]>>>> :
                                    m \in 1..(Len(q.patterns[k]) - 1)} :
                                k \in DOMAIN q.patterns},
         wants    |-> {[node |-> <<c.item.of>>, property |-> PropertyName(c.item),
                        value |-> Value(c.value)] : c \in conditions},
         node     |-> <<q.item.of>>,
         property |-> PropertyName(q.item)]

(* The properties and the UDF calls in the order they are written. *)
Items(q) == [k \in DOMAIN q.where |-> q.where[k].item] \o <<q.item>>

PropertiesOf(q) ==
    LET items == Select(Items(q), LAMBDA i : i.udf = "")
    IN  Keys([k \in DOMAIN items |-> PropertyName(items[k])])

CallsOf(q) ==
    LET items == Select(Items(q), LAMBDA i : i.udf # "")
    IN  Keys([k \in DOMAIN items |-> <<items[k].udf>>])
=============================================================================

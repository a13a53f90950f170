------------------------------ MODULE Compiler ------------------------------
(***************************************************************************)
(* The compiler, from the text of a query to a running filter: main parses *)
(* the text, visit_result visits the tree three times, and                 *)
(* generate_code_blocks fills the template; then rustc builds the filter,  *)
(* and the filter builds its pattern and works on traces.                  *)
(*                                                                         *)
(* A text that is not in the language is reported by the parser, which     *)
(* goes on with what it makes of it; that is where the model ends.         *)
(***************************************************************************)
EXTENDS CypherGrammar, QueryText

CONSTANTS
    Queries,       \* the queries, see QueryText
    Layouts,       \* how their authors use white space, subsets of Places
    CommandLines   \* [mode, distributed, out, udfs]: the compilation mode, the
                   \* flag -d, the directory of -o, the UDF files in order

ASSUME LayoutAssumption == \A layout \in Layouts : layout \subseteq Places

(* The directory of the filter that goes with a template: filter_base.rs   *)
(* there uses what the template defines. *)
HomeOf(mode, distributed) ==
    CASE mode = "sim" -> "filter_sim"
      [] mode = "envoy" /\ distributed -> "distributed_filter_envoy"
      [] mode = "envoy" /\ ~ distributed -> "filter_envoy"

(* -o is optional. *)
OutOf(command) == IF command.out = "" THEN "filter_envoy" ELSE command.out

VARIABLES
    stage,     \* how far the query has come
    query,     \* the query ...
    layout,    \* ... and how it is written
    tree,      \* its parse tree
    filter,    \* the FilterVisitor
    return,    \* the ReturnVisitor
    property,  \* the PropertyAndUdfVisitor
    command,   \* the command line
    code       \* the generated code

vars == <<stage, query, layout, command, tree, filter, return, property, code>>

Nothing == <<>>     \* no tree or no code yet
NoCommand == <<>>   \* the command line is not looked at yet

Init ==
    /\ stage = "parse"
    /\ query \in Queries
    /\ layout \in Layouts
    /\ tree = Nothing
    /\ filter = FilterVisitor
    /\ return = ReturnVisitor
    /\ property = PropertyAndUdfVisitor
    /\ command = NoCommand
    /\ code = Nothing

-----------------------------------------------------------------------------
Parse ==
    /\ stage = "parse"
    /\ LET trees == Trees(Cypher, "oC_Cypher", QueryText(query, layout))
       IN  \/ \E t \in trees : tree' = t /\ stage' = "filter"
           \/ trees = {} /\ stage' = "misread" /\ UNCHANGED tree
    /\ UNCHANGED <<query, layout, filter, return, property, command, code>>

VisitForFilters ==
    /\ stage = "filter"
    /\ filter' = VisitFilter(tree, filter)
    /\ stage' = IF filter'.stopped THEN "stopped" ELSE "return"
    /\ UNCHANGED <<query, layout, tree, return, property, command, code>>

VisitForReturn ==
    /\ stage = "return"
    /\ return' = VisitReturn(tree, return)
    /\ stage' = IF return'.stopped THEN "stopped" ELSE "property"
    /\ UNCHANGED <<query, layout, tree, filter, property, command, code>>

VisitForProperties ==
    /\ stage = "property"
    /\ property' = VisitProperty(tree, property)
    /\ stage' = IF property'.stopped THEN "stopped" ELSE "generate"
    /\ UNCHANGED <<query, layout, tree, filter, return, command, code>>

Ir == VisitResult(filter, return, property)

Generate(c) ==
    /\ stage = "generate"
    /\ command' = c
    /\ IF GenerationStops(c.mode, Ir, c.udfs)
       THEN stage' = "refused" /\ UNCHANGED code
       ELSE stage' = "build" /\ code' = GenerateCodeBlocks(c.mode, Ir, c.udfs)
    /\ UNCHANGED <<query, layout, tree, filter, return, property>>

(* The filter is where its base is; the name of a node becomes part of an  *)
(* identifier, a value the contents of a string literal.  For Envoy, what  *)
(* is generated for the trace as a whole does not compile: contains_key    *)
(* gets a number instead of a reference, and get_value_for_storage has no  *)
(* fd. *)
WellFormed ==
    /\ OutOf(command) = HomeOf(command.mode, command.distributed)
    /\ \A k \in DOMAIN code.wants :
        /\ Len(code.wants[k].node) = 1
        /\ ToSet(code.wants[k].value) \cap DoubleQuoted = {}
    /\ \A k \in DOMAIN code.traceWants :
        ToSet(code.traceWants[k].value) \cap DoubleQuoted = {}
    /\ command.mode = "envoy" => code.traceWants = <<>> /\ code.node # Trace

Build ==
    /\ stage = "build"
    /\ stage' = IF WellFormed THEN "start" ELSE "broken"
    /\ UNCHANGED <<query, layout, tree, filter, return, property, command, code>>

(* create_target_graph unwraps the property map of every node it wants a   *)
(* value of. *)
Start ==
    /\ stage = "start"
    /\ stage' = IF \A k \in DOMAIN code.wants : Contains(code.vertices, code.wants[k].node)
                THEN "running" ELSE "panic"
    /\ UNCHANGED <<query, layout, tree, filter, return, property, command, code>>

Final == {"misread", "stopped", "refused", "broken", "panic", "running"}

Done == stage \in Final /\ UNCHANGED vars

Next ==
    \/ Parse
    \/ VisitForFilters
    \/ VisitForReturn
    \/ VisitForProperties
    \/ \E c \in CommandLines : Generate(c)
    \/ Build
    \/ Start
    \/ Done

Spec == Init /\ [][Next]_vars

-----------------------------------------------------------------------------
(* The question the generated filter asks; an insert into a property map   *)
(* replaces what an earlier one wanted. *)
NameOf(number) == CHOOSE p \in DOMAIN code.ids : code.ids[p] = number

Asked ==
    LET lasting == {k \in DOMAIN code.wants : \A m \in DOMAIN code.wants :
                        m > k => \/ code.wants[m].node # code.wants[k].node
                                 \/ code.wants[m].number # code.wants[k].number}
    IN  [vertices |-> ToSet(code.vertices),
         edges    |-> ToSet(code.edges),
         wants    |-> {[node |-> code.wants[k].node,
                        property |-> NameOf(code.wants[k].number),
                        value |-> code.wants[k].value] : k \in lasting}
                      \cup {[node |-> Trace, property |-> NameOf(w.number),
                             value |-> w.value] : w \in ToSet(code.traceWants)},
         node     |-> code.node,
         property |-> NameOf(code.number)]

(* The numbers in the property map of a node of the trace, in the order    *)
(* they got there: the name it is added with, the collected properties, the *)
(* UDFs. *)
NodeMap ==
    Keys(<<0>>
           \o [k \in DOMAIN code.collects |-> code.collects[k].number]
           \o [k \in DOMAIN code.computes |-> code.computes[k].number])

(* The numbers the filter looks up in such a map with the number in        *)
(* brackets, which IndexMap takes for a position: those of the value it    *)
(* returns, of trace level filters, and of UDFs, for the callees' values   *)
(* in Envoy, for its own when it computes one twice.                       *)
Looked ==
    {code.number} \cup {w.number : w \in ToSet(code.traceWants)}
      \cup {code.computes[k].number : k \in {j \in DOMAIN code.computes :
                command.mode = "envoy"
                \/ \E i \in 1 .. j - 1 : code.computes[i] = code.computes[j]}}

ReadsItsOwn(number) == number < Len(NodeMap) /\ NodeMap[number + 1] = number

-----------------------------------------------------------------------------
(***************************************************************************)
(* What the compiler promises to somebody who writes a query.              *)
(***************************************************************************)
(* The edges are arrows, and there is no white space where the visitors do *)
(* not expect it: they take the text of a property lookup, and that of a   *)
(* UDF call in WHERE, as it is.                                            *)
Harmless == layout \cap {"after dot", "after name", "in call", "without head"} = {}

(* A node is not named by a keyword, and the conditions are on nodes of the *)
(* pattern or on the trace. *)
WellNamed ==
    LET nodes == UNION {ToSet(query.patterns[k]) : k \in DOMAIN query.patterns}
    IN  /\ \A n \in nodes : TokenType[n] \in {"HexLetter", "UnescapedSymbolicName"}
        /\ \A k \in DOMAIN query.where : query.where[k].item.of \in nodes \cup {"trace"}

SingleQuotes == \A k \in DOMAIN query.where : query.where[k].value \notin DoubleQuoted

(* The UDF files the query needs, each of the right kind, are there, and   *)
(* Envoy has its properties. *)
Answerable ==
    /\ \A k \in DOMAIN command.udfs : command.udfs[k].kind # "unknown"
    /\ ToSet(CallsOf(query)) \subseteq ToSet(IdsOf(command.udfs, "Scalar"))
    /\ query.aggregate # "" => Contains(IdsOf(command.udfs, "Aggregation"), <<query.aggregate>>)
    /\ command.mode = "envoy" => ToSet(PropertiesOf(query)) \subseteq Collected \cup NotCollected

TypeOK ==
    /\ stage \in {"parse", "filter", "return", "property", "generate", "build", "start"}
                   \cup Final
    /\ query \in Queries /\ layout \in Layouts
    /\ command \in CommandLines \cup {NoCommand}
    /\ filter.stopped \/ filter.return_items = <<>>

(* The query is about the trace as a whole. *)
AsksTheTrace ==
    query.item.of = "trace" \/ \E k \in DOMAIN query.where : query.where[k].item.of = "trace"

(* A property the filter fetches: no UDF has its name, and for Envoy there *)
(* is code for its type. *)
IsFetched(p) ==
    /\ ~ Contains(IdsOf(command.udfs, "Scalar"), p)
    /\ command.mode = "envoy" => p \in Collected

InItsPlace ==
    command # NoCommand => OutOf(command) = HomeOf(command.mode, command.distributed)

(* A query written without white space in odd places, with its UDF files   *)
(* and its filter written where it belongs, becomes a running filter; for  *)
(* Envoy, if it asks nothing of the trace as a whole.                      *)
PlainQueriesRun ==
    /\ Harmless /\ SingleQuotes /\ WellNamed /\ InItsPlace
    /\ command # NoCommand /\ command.mode = "envoy" => ~ AsksTheTrace
    =>
        /\ stage \notin {"misread", "stopped", "broken", "panic"}
        /\ stage = "refused" => ~ Answerable

(* However it is written and whatever the command line: if there is a      *)
(* filter that starts, it asks the question of the query and no other.     *)
NeverAnotherQuestion == stage = "running" => Asked = QuestionOf(query)

(* Every number a running filter compares or returns is the number of a    *)
(* property it collects or a UDF it computes, if the query asks for        *)
(* properties that are fetched or computed.                                *)
CollectsWhatItReads ==
    /\ stage = "running"
    /\ \A p \in ToSet(PropertiesOf(query)) : IsFetched(p) \/ Contains(CallsOf(query), p)
    =>  Looked \cup {w.number : w \in ToSet(code.wants)} \subseteq ToSet(NodeMap)

(* All properties of the query are fetched, and the scalar UDFs of the     *)
(* command line are called in their order: then a number in brackets finds *)
(* its own property.                                                       *)
BracketsFindTheirProperty ==
    /\ stage = "running"
    /\ \A p \in ToSet(PropertiesOf(query)) : IsFetched(p)
    /\ IsPrefix(CallsOf(query), IdsOf(command.udfs, "Scalar"))
    => \A n \in Looked : ReadsItsOwn(n)

(* The comment on id_to_property: a "map of numbers to properties".  A     *)
(* number in brackets finds the property of that number.                   *)
NumbersFindTheirProperty ==
    stage = "running" => \A n \in Looked : ReadsItsOwn(n)
=============================================================================

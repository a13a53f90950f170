------------------------------- MODULE CodeGen ------------------------------
(***************************************************************************)
(* Code generation: from the intermediate representation of a query and    *)
(* the UDF files to the functions the filter template is filled with.  The *)
(* generated Rust is represented by what it does, as a record              *)
(*                                                                         *)
(*   vertices, edges   the pattern create_target_graph builds              *)
(*   wants             its property maps: [node, number, value], in order  *)
(*   traceWants        the trace level checks: [number, value]             *)
(*   collects          the properties collect_envoy_properties collects:   *)
(*                     [property, number], in order                        *)
(*   computes          the UDFs a response hook runs: [udf, number]        *)
(*   node, number      what get_value_for_storage reads                    *)
(*   ids               id_to_property, the numbers of the properties       *)
(*                                                                         *)
(* ir is VisitorResults, udfs the UDF files in the order of the command    *)
(* line, [id, kind], kind "Scalar", "Aggregation" or "unknown".            *)
(***************************************************************************)
EXTENDS Naturals, Sequences, SequencesExt

Trace == <<"trace">>

WorkloadName == <<"node", ".", "metadata", ".", "WORKLOAD_NAME">>

(* IndexMap and IndexSet: the keys in the order of the first insertion *)
Keys(seq) == LET Add(keys, k) == IF Contains(keys, k) THEN keys ELSE Append(keys, k)
             IN  FoldLeft(Add, <<>>, seq)

Select(seq, Test(_)) == SelectSeq(seq, Test)

IdsOf(udfs, kind) ==
    LET chosen == Select(udfs, LAMBDA u : u.kind = kind)
    IN  Keys([k \in DOMAIN chosen |-> <<chosen[k].id>>])

ToDotString(members) ==
    FlattenSeq([k \in DOMAIN members |->
        IF k = 1 THEN members[k] ELSE <<".">> \o members[k]])

(* The property of an attribute filter without its leading dot. *)
WithoutPeriod(property) == IF property[1] = "." THEN Tail(property) ELSE property

-----------------------------------------------------------------------------
(* Mutant: the numbers of the UDFs are off by one. *)
AssignIdPast(properties, scalars) ==
    LET dots == Keys(<<WorkloadName>>
                       \o [k \in DOMAIN properties |-> ToDotString(properties[k].members)])
        Place(seq, t) == SelectInSeq(seq, LAMBDA x : x = t)
    IN  [t \in ToSet(dots \o scalars) |->
            IF Contains(scalars, t) THEN Len(dots) + Place(scalars, t)
            ELSE Place(dots, t) - 1]

(* The number of every property: the workload's name is 0, then come the   *)
(* properties of the query, then the scalar UDFs of the command line; a    *)
(* UDF takes over the number of a property of the same name.               *)
AssignIdToProperty(properties, scalars) ==
    LET dots == Keys(<<WorkloadName>>
                       \o [k \in DOMAIN properties |-> ToDotString(properties[k].members)])
        Place(seq, t) == SelectInSeq(seq, LAMBDA x : x = t)
    IN  [t \in ToSet(dots \o scalars) |->
            IF Contains(scalars, t) THEN Len(dots) + Place(scalars, t) - 1
            ELSE Place(dots, t) - 1]

-----------------------------------------------------------------------------
(* property_to_type, for the types it matters to know. *)
Of(object, names) == {<<object, ".", name>> : name \in names}

NotCollected ==   \* Map, metadata, Node: an error in the log, and no code
    Of("request", {"headers"}) \cup Of("response", {"headers", "trailers"})
      \cup {<<"filter_state">>, <<"metadata">>, <<"node">>, <<"cluster_metadata">>,
            <<"listener_metadata">>, <<"route_metadata">>, <<"upstream_host_metadata">>}

Collected ==      \* numbers, times and strings
    Of("request", {"path", "url_path", "host", "scheme", "method", "referer",
                   "useragent", "time", "id", "protocol", "duration", "size",
                   "total_size"})
      \cup Of("response", {"code", "code_details", "flags", "grpc_status", "size",
                           "total_size"})
      \cup Of("source", {"address", "port"}) \cup Of("destination", {"address", "port"})
      \cup Of("connection", {"id", "mlts"}) \cup Of("upstream", {"port"})
      \cup {<<"listener_direction">>, WorkloadName}

(* Mutant: what only the trace as a whole is asked for is left out. *)
FetchedOfNodes(properties, scalars) ==
    LET ofNodes == Select(properties, LAMBDA p : p.parent # Trace)
    IN  Select([k \in DOMAIN ofNodes |-> ToDotString(ofNodes[k].members)],
               LAMBDA dot : ~ Contains(scalars, dot))

(* The properties a filter has to fetch: not those a UDF computes. *)
Fetched(properties, scalars) ==
    Select([k \in DOMAIN properties |-> ToDotString(properties[k].members)],
           LAMBDA dot : ~ Contains(scalars, dot))

GeneratePropertyBlocks(properties, scalars, number) ==
    LET dots == Select(Fetched(properties, scalars), LAMBDA dot : dot \in Collected)
    IN  [k \in DOMAIN dots |-> [property |-> dots[k], number |-> number[dots[k]]]]

(* property_to_type has no such property: the compiler panics. *)
UnknownProperty(properties, scalars) ==
    \E k \in DOMAIN Fetched(properties, scalars) :
        Fetched(properties, scalars)[k] \notin Collected \cup NotCollected

(* The UDFs called, aggregations apart; one block for each call. *)
GenerateUdfBlocks(udf_calls, aggregations, number) ==
    LET calls == Select(udf_calls, LAMBDA c : ~ Contains(aggregations, c.id))
    IN  [k \in DOMAIN calls |-> [udf |-> calls[k].id, number |-> number[calls[k].id]]]

UnknownUdf(udf_calls, scalars, aggregations) ==
    \E k \in DOMAIN udf_calls : ~ Contains(scalars \o aggregations, udf_calls[k].id)

-----------------------------------------------------------------------------
(* Mutant: a filter on the trace is taken for one on a node. *)
FiltersOfEverything(attr_filters, number) ==
    [k \in DOMAIN attr_filters |->
        [node   |-> attr_filters[k].node,
         number |-> number[WithoutPeriod(attr_filters[k].property)],
         value  |-> attr_filters[k].value]]

(* The attribute filters on nodes of the pattern (make_struct_filter_blocks). *)
NodeFilters(attr_filters, number) ==
    LET filters == Select(attr_filters, LAMBDA f : f.node # Trace)
    IN  [k \in DOMAIN filters |->
            [node   |-> filters[k].node,
             number |-> number[WithoutPeriod(filters[k].property)],
             value  |-> filters[k].value]]

(* Those on the trace (make_attr_filter_blocks). *)
TraceFilters(attr_filters, number) ==
    LET filters == Select(attr_filters, LAMBDA f : f.node = Trace)
    IN  [k \in DOMAIN filters |->
            [number |-> number[WithoutPeriod(filters[k].property)],
             value  |-> filters[k].value]]

(* id_to_property has no such property: the compiler panics. *)
UnknownFilter(attr_filters, number) ==
    \E k \in DOMAIN attr_filters :
        WithoutPeriod(attr_filters[k].property) \notin DOMAIN number

(* What RETURN asks for: of a node, or of the trace, which is its root. An *)
(* aggregation returns the value it aggregates. *)
MakeReturnBlock(value, number) ==
    IF value.kind = "property"
    THEN [node |-> value.parent, number |-> number[ToDotString(value.members)]]
    ELSE [node |-> value.args[1], number |-> number[value.id]]

UnknownReturn(value, number) ==
    IF value.kind = "property" THEN ToDotString(value.members) \notin DOMAIN number
    ELSE Len(value.args) # 1 \/ value.id \notin DOMAIN number

-----------------------------------------------------------------------------
(* The generation exits or panics.  The simulator has no table of types.   *)
GenerationStops(mode, ir, udfs) ==
    LET scalars == IdsOf(udfs, "Scalar")
        aggregations == IdsOf(udfs, "Aggregation")
        number == AssignIdToProperty(ir.properties, scalars)
    IN  \/ \E k \in DOMAIN udfs : udfs[k].kind = "unknown"
        \/ mode = "envoy" /\ UnknownProperty(ir.properties, scalars)
        \/ UnknownUdf(ir.udf_calls, scalars, aggregations)
        \/ UnknownFilter(ir.attr_filters, number)
        \/ UnknownReturn(ir.return_expr.value, number)

(* generate_code_blocks, for a query with a pattern *)
GenerateCodeBlocks(mode, ir, udfs) ==
    LET scalars == IdsOf(udfs, "Scalar")
        number == AssignIdToProperty(ir.properties, scalars)
        dots == Fetched(ir.properties, scalars)
        reads == MakeReturnBlock(ir.return_expr.value, number)
    IN  [vertices   |-> ir.struct_filters[1].vertices,
         edges      |-> ir.struct_filters[1].edges,
         wants      |-> NodeFilters(ir.attr_filters, number),
         traceWants |-> TraceFilters(ir.attr_filters, number),
         collects   |->
            IF mode = "envoy" THEN GeneratePropertyBlocks(ir.properties, scalars, number)
            ELSE [k \in DOMAIN dots |-> [property |-> dots[k], number |-> number[dots[k]]]],
         computes   |-> GenerateUdfBlocks(ir.udf_calls, IdsOf(udfs, "Aggregation"), number),
         node       |-> reads.node,
         number     |-> reads.number,
         ids        |-> number]
=============================================================================

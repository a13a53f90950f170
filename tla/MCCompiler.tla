----------------------------- MODULE MCCompiler -----------------------------
EXTENDS Compiler

MCTokenType ==
    [w \in {"a", "b", "c"} |-> "HexLetter"]
      @@ [w \in {"trace", "request", "total_size", "node", "metadata",
                 "WORKLOAD_NAME", "headers", "height", "width", "avg", "x"} |->
            "UnescapedSymbolicName"]
      @@ [w \in {"'v1'", "\"v1\""} |-> "StringLiteral"]
      @@ [w \in {"5"} |-> "DecimalInteger"] @@ [w \in {"end"} |-> "END"]

MCUnquoted == [w \in {"'v1'"} |-> "v1"]

MCDoubleQuoted == {"\"v1\""}

Prop(of, path) == [of |-> of, path |-> path, udf |-> ""]
Call(udf, of)  == [of |-> of, path |-> <<>>, udf |-> udf]

Workload == <<"node", "metadata", "WORKLOAD_NAME">>
Size     == <<"request", "total_size">>
Headers  == <<"request", "headers">>   \* Envoy has them, as a map

Eq(item, value) == [item |-> item, value |-> value]

Patterns == {<<<<"a">>>>, <<<<"b">>>>, <<<<"a", "end">>>>, <<<<"a", "b", "c">>>>, <<<<"a", "b">>, <<"a", "c">>>>}

Wheres == {<<>>,
           <<Eq(Prop("a", Workload), "'v1'")>>,
           <<Eq(Prop("a", Workload), "\"v1\"")>>,
           <<Eq(Call("height", "a"), "5")>>,
           <<Eq(Prop("a", Workload), "'v1'"), Eq(Prop("trace", Size), "5")>>,
           <<Eq(Prop("a", Size), "5"), Eq(Call("height", "a"), "5")>>,
           <<Eq(Prop("trace", Workload), "'v1'"), Eq(Call("height", "trace"), "5")>>}

Returns == {Prop("a", Workload), Prop("trace", Size), Call("height", "a"), Prop("b", <<"x">>)}

Full == {[patterns |-> <<<<"a", "b">>>>, where |-> w, item |-> i, aggregate |-> g] :
            w \in Wheres, i \in Returns, g \in {"", "avg"}}

MCQueries == Full \cup {[patterns |-> p, where |-> <<Eq(Prop("a", Workload), "'v1'")>>,
                         item |-> Prop("a", Size), aggregate |-> ""] : p \in Patterns}
  \cup {[patterns |-> <<<<"a", "b">>>>, where |-> w, item |-> Prop("a", p), aggregate |-> ""] :
            w \in {<<>>, <<Eq(Call("height", "a"), "5")>>}, p \in {Headers, <<"height">>}}

MCLayouts == {{}, Places \ {"without head"}} \cup {{p} : p \in Places}

Scalar(id)      == [id |-> id, kind |-> "Scalar"]
Aggregation(id) == [id |-> id, kind |-> "Aggregation"]

UdfFiles ==
    {<<>>,
     <<Scalar("height"), Aggregation("avg"), Scalar("width")>>,
     <<Scalar("width"), Scalar("height"), Aggregation("avg")>>,
     <<[id |-> "height", kind |-> "unknown"], Aggregation("avg")>>}

Command(m, d, o, u) == [mode |-> m, distributed |-> d, out |-> o, udfs |-> u]

(* With every UDF file in its place; with some also in another. *)
MCCommandLines ==
    {Command("envoy", FALSE, "", u) : u \in UdfFiles}
      \cup {Command("sim", d, "filter_sim", u) : d \in BOOLEAN, u \in UdfFiles}
      \cup {Command("envoy", TRUE, o, <<Scalar("height"), Aggregation("avg")>>) :
                o \in {"", "distributed_filter_envoy"}}
=============================================================================

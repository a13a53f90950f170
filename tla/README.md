# A specification of Snicket's trace filters and their compiler

Snicket compiles a query on traces (a pattern of calls, filters on their
attributes, a value to return) to a filter that runs in the sidecar of every
service of a mesh. The sidecars together build, on the way back of the responses,
the graph of the calls of a request, match the query's pattern against it and send
the value the query asks for to a storage service. This directory specifies that
program, from the text of a query to the number in storage, in TLA+, checks it with
TLC and proves some of it with TLAPS. Paths are those of the repository.

## 1. The system

| Part | Where | State | Operations |
|---|---|---|---|
| Ferried data | `libs/utils/graph/serde.rs`, `graph_utils.rs` | the trace graph, unassigned properties, for the distributed filter `set_s` and `found_match` | `merge`, `assign_properties`, `merge_set_s`, `get_node_with_id` |
| Centralized Envoy filter | `filter_envoy/filter_base.rs`, `templates/envoy_filter.rs.handlebars` | Envoy's shared data, a `FerriedData` for each `x-request-id`, in each sidecar; the header `ferried_data` of a response | the request and response hooks, inbound and outbound |
| Subgraph isomorphism | `libs/utils/graph/iso.rs` | `set_s`, during one call or, distributed, across sidecars | `find_mapping_shamir_centralized`, `find_mapping_shamir_decentralized`, `get_mapping_from_set_s` |
| Distributed Envoy filter | `distributed_filter_envoy/filter_base.rs` | as the centralized one, `set_s` and `found_match` carried along | the same hooks; every sidecar matches |
| Simulator filters | `templates/simulation_filter*.handlebars` | `envoy_shared_data` of a simulated node | `on_incoming_requests`, `on_outgoing_responses`, ... |
| Aggregation filters | `templates/*_aggregation.rs.handlebars` | the aggregation struct in the storage service's shared data | read, execute, write back, at every request |
| Example UDFs | `example_udfs/` | - | `height` on each node of a trace, `avg` in storage |
| Parser | `src/antlr_gen/parser.rs` | the position in the tokens | a function for each rule of openCypher |
| Query front end | `src/to_ir.rs`, `src/ir.rs` | the query's intermediate form | three visitors of the parse tree |
| Code generation | `src/codegen_*.rs` | numbers of properties, tables of UDFs | properties to collect, target graph, trace level filter, UDFs, value for storage |
| Command line | `src/main.rs` | - | the phases of a compilation, the template, the output |
| Debug filters, packaging, example queries | `*/debug_filter.rs`, `example_queries` | - | - |

How they interact. `main` parses the query, visits the tree three times, fills a
template with generated functions (`create_target_graph`,
`collect_envoy_properties`, `execute_udfs_and_check_trace_lvl_prop`,
`get_value_for_storage`) and writes it next to a `filter_base.rs`; cargo builds the
two, Envoy or the simulator loads the result. When a request reaches a service, the
hook of its sidecar collects the service's property and stores it under the
request's trace. When the service answers, its sidecar puts a node for the service
over what it has stored, and sends the graph along in a header. The caller's sidecar
merges that header into its own store. The sidecar of the root, or, with the
distributed filter, every sidecar, matches the pattern (`iso.rs`) and calls storage,
whose own filter aggregates what it receives.

What is hard here:

- The hooks of different calls interleave in a sidecar, on several worker threads,
  and `store_data` reads, merges and writes without compare-and-swap.
- The responses of several callees come in any order and each merge moves the
  positions of all nodes; `set_s` is keyed by positions and has to move along.
- A service may answer before its calls have returned.
- A hook that fails returns early and lets the message pass, so graphs are partial.
- Identity is by the service's name: what happens when a service is called twice?
- The isomorphism is a graph algorithm with early exits that depend on small
  margins, and its decentralized form runs split over sidecars that have to agree
  who reports.
- The simulator's filter merges data with itself, and a UDF reads its own values on
  the callees' nodes.
- The compiler takes texts of the query apart by hand, numbers properties in one
  place and UDFs in another, and generated code uses a number now as a key, now as a
  position.

What makes each part correct:

- Ferried data: a merge neither loses nor invents a node, an edge or a property.
- Filters: the response of a call carries the whole subtree of the call, at least
  nothing but it; what is reported is what the query asks of a real match.
- Isomorphism: a match is found exactly if there is one, and the mapping leads from
  the pattern to the trace.
- Distributed filter: nothing is reported that is not there, a match is reported once
  on a way through the trace, and nobody is silenced without a report.
- UDFs: each node has the value of its own subtree, whatever order responses came in.
- Aggregation: the aggregate counts every value once.
- Compiler: a filter that comes out asks the query's question or does not come out;
  a property's number means the same in every generated function.

`PROJECT.json` lists the hazards of this kind at their lines, and the properties
that would catch each of them.

## 2. The modules

| Module | Models |
|---|---|
| `FerriedData` | the data and its operations, as operators |
| `SubtreeMatch` | what a match is, and which match the isomorphism answers with |
| `Mesh` | the mesh in which the filters run, for one trace, and the generated functions they call |
| `TraceCollection` | the abstract specification: what a query asks of any filter |
| `TraceFilter`, `MCTraceFilter` | the centralized filter in all sidecars |
| `DistributedSearch` | the data the distributed filters ferry, `merge_set_s`, and the search in one sidecar |
| `DistributedFilter`, `MCDistributedFilter` | the distributed filter in all sidecars |
| `SimFilter` | the simulator's filters, centralized and distributed, with the UDF `height`, for one trace after another |
| `SimMesh`, `MCSimMesh` | its composition with the simulator's storage filter |
| `ShamirTsur` | what both isomorphisms share: `set_s` and a round of the inner loop, for any trace graph, pattern and `set_s` |
| `IsoGraphs` | the trace and the pattern of a run of either isomorphism |
| `SubtreeIso` | `find_mapping_shamir_centralized`, step by step |
| `DistributedIso` | `find_mapping_shamir_decentralized`, in every sidecar of a trace, step by step |
| `SmallTrees`, `MCSubtreeIso`, `MCDistributedIso` | all small traces and patterns for both |
| `AvgUdf` | the aggregation UDF `avg` |
| `StorageFilter`, `MCStorage` | Envoy's aggregation filter, filled in with `avg` |
| `SimStorageFilter` | the simulator's aggregation filter, likewise |
| `RunningAverage` | the abstract specification of storage: what a query that returns `avg` asks for |
| `Ebnf` | grammars and the parse trees of a sequence of tokens |
| `CypherGrammar` | the parser, rule function by rule function |
| `QueryIr` | the intermediate form and the three visitors |
| `CodeGen` | the generated code, as tables of what it reads and writes |
| `QueryText` | the queries there are, what they ask, and how somebody may write them |
| `Compiler`, `MCCompiler` | a query's way through all of these to a running filter |
| `MeshProofs` | lemmas on the operations of `FerriedData`, on the tree of calls and on the search, whatever filter runs them |
| `TraceFilterProofs` | theorems on `TraceFilter`, with the refinement of `TraceCollection` |
| `DistributedFilterProofs`, `SimMeshProofs` | theorems on `DistributedFilter` and on `SimMesh`, with the refinements of `TraceCollection` and of `RunningAverage` |
| `ShamirTsurProofs` | lemmas on trees, on branches of patterns and on a round of the inner loop |
| `SubtreeIsoProofs`, `DistributedIsoProofs` | theorems on the two isomorphisms |
| `StorageProofs` | theorems on `StorageFilter`, with lemmas on sums |

`Mesh` extends `SubtreeMatch`, which extends `FerriedData`; `TraceFilter` and
`DistributedSearch` extend `Mesh`, `DistributedFilter` and `SimFilter` extend
`DistributedSearch`. `DistributedSearch` also extends `ShamirTsur`, whose operators take
the graph, the pattern and the `set_s` at hand; `SubtreeIso` and `DistributedIso` extend
`IsoGraphs`, which extends it. `SimMesh` extends `SimFilter` and
instantiates `SimStorageFilter`. `Compiler` extends `CypherGrammar` and `QueryText`,
which extends `CodeGen` and `QueryIr`. An operator whose comment begins with "Mutant"
is a definition with a bug; no specification uses it. `PROJECT.json` pairs each
property with a mutant it catches.

### FerriedData

A graph is a sequence of nodes, in the order of `add_node`, and a set of edges
between positions. `Merge(self, other)` is `self.merge(other)`: other's nodes behind
self's, other's edges attached by the *names* of their ends, then steps 2a and 2b on
the properties that wait for a node. `AddMe` is the part of the response hook that
puts the sidecar's own service over the previous roots.

Abstracted: a node carries its name and one further property, the one the query
collects. The code also stores the name under property 0, before any other, so the
name stands for both. The order and the multiplicity of edges are left out, as are
JSON and the other names of a value.

### Mesh and TraceCollection

A span is a call of a service in the trace; `phase[s]` is which hook of the call comes
next. A service calls others while it is at work on its own call (`Requested`), and
answers when all calls it waits for are back (`Answers`); the calls in `Detached` it
does not wait for. Whether another hook of a sidecar can run between a read and a
write of shared data depends on `Workers`: each Envoy worker thread runs its own copy
of the filter, shared data is common to them. With one worker, `WorkerFree` makes
`store_data` atomic. `Faults` says which hooks may fail. Of the query the constants
hold the pattern (`Target`), the trace level filter (`TraceWanted`) and the root node
(`RootId`).

`TraceCollection` knows nothing of hooks or graphs: a trace grows call by call, calls
are answered, and with an answer at most one value is reported, what RETURN says of a
span at which the pattern matches the calls really made below. All three filters are
shown to implement it (`ImplementsTraceCollection`), each with its own refinement
mapping from phases to calls and answers, under all races and faults of its run. That
something *is* reported is not part of it, as headers and updates may be lost; the
filters' own properties say when it is.

### TraceFilter

| Variable | Code |
|---|---|
| `shared[n]` | what Envoy's shared data holds for the trace in n's sidecar; `Default` when there is no entry |
| `header[s]` | `ferried_data` on the response of call s; `Default` when there is none |
| `local[s]` | `data_to_store` in `store_data`, after `merge` and before `set_shared_data` |
| `calls` | the values `dispatch_http_call` took for storage |

| Action | Code |
|---|---|
| `RequestInbound`, `RequestInboundStore` | `on_http_request_headers_inbound`, up to the read of `store_data`, and its write |
| `RequestInboundFails` | its early returns |
| `ResponseInbound` | `on_http_response_headers_inbound`, with the match and the callout |
| `ResponseInboundFails` | its early return |
| `ResponseOutbound`, `ResponseOutboundStore` | `on_http_response_headers_outbound`, likewise in two steps |
| `ResponseOutboundFails` | its early return |

A hook that only reads shared data is one action: nothing it does in between is
visible to another hook. `on_http_request_headers_outbound` changes nothing and is
left out. Callers send no `ferried_data` on requests, as no hook puts it there. The
answer of the isomorphism is one step, `FirstMatches`; `SubtreeIso` checks, in
`AnswerRight`, that the algorithm gives that answer.

The trace level filter is modelled as its template and the simulator's generator say
it. What the generator for Envoy writes lacks a `&` and does not compile
(`src/codegen_envoy.rs:109`): `Compiler` has that, in `WellFormed`. `Reporter` is the
name in the source that decides who matches, `productpage-v1`
(`filter_envoy/filter_base.rs:331`). The source does not use the compiler's
`--root-node` there: all runs have `Reporter` equal to `RootId`, and with another root
node the filter reports nothing.

### DistributedSearch and DistributedFilter

The hooks of `TraceFilter`, on data that also carries `found_match` and `set_s`. `MergeSetS` is
`merge_set_s`, which moves the keys of `set_s` by as much as `merge` moved the nodes.
`Search` is one call of `find_mapping_shamir_decentralized`: the inner loops for a
sidecar's callees, at the root for its own node; rounds that do not affect each other
are taken together, up to the round that returns. `Report` has the early return
without a header. Only the root's sidecar looks at the trace level filter, so others
report whatever the trace is: `TraceCollection` has `wanted` TRUE here.

### SimFilter and SimMesh

Both of the simulator's templates: if `distributed`, chosen at the start, every filter searches
(`MatchDistributed`), else the root's looks at the whole trace (`Match`). The hooks are
the same, and a centralized filter's `set_s` stays empty.

One filter object for each service, called for one Rpc at a time, so a hook is one
action. `StoreHeaders` inserts the first data of a trace and then merges it with
itself, as the code does; `MergeHeaders` looks at the direction only when something is
stored. `ExecuteUdfs` is the generated UDF block with `height`: it reads the heights
of the callees' nodes. The simulator is another project and external: its requests may
or may not carry the headers of the request they were made for, a service need not
call all it could, and traces come one after another. The request that enters the
mesh carries no headers; one for which a service called itself would have the
service's node in it, and the first store would double that.

`SimMesh` puts `SimStorageFilter` behind it: Rpcs to storage arrive in any order, also
while later traces run. The composition implements `RunningAverage` on the heights
sent.

### SubtreeIso and DistributedIso

`SubtreeIso` runs the algorithm on a trace `g` and a pattern `h`, both chosen at the
start: `NextNode` is the postorder traversal, `SkipPatternNode` and `TryPatternNode` a
round of the inner loop with `max_matching` in it, `FollowPair` a round of
`get_mapping_from_set_s`. `setS[v, u]` keeps the keys of the code's `set_s`. The value
under a key is one of the maximum matchings, which Edmonds-Karp picks in an order the
code does not fix: the model lets `FollowPair` pick.

In `DistributedIso` a sidecar whose callees have all answered either passes
`found_match` on (`PassOn`) or begins: it enters its own node into `set_s` (`Begin`),
runs the inner loop for each callee, and for itself if it is the root
(`StartInnerLoop`, `SkipPatternNode`, `TryPatternNode`), and reports what it found
(`Answer`). Here all calls are awaited and no update is lost, for every small trace and
pattern; `DistributedFilter` has the races and failures, for one of each.

### StorageFilter

The storage service answers each report with the aggregate. In Envoy a request has
three steps: `CreateContext` (`create_http_context`, which writes a new struct),
`RequestInbound` up to the write, and `RequestInboundStore`. A worker thread finishes
one request before the next, several interleave. Numbers wrap at `Modulus`, which
stands for 2^64: the filter is built for release (`filter_envoy/build.sh`). Values are
numbers; `avg` unwraps anything else. `StorageFilter` does not implement
`RunningAverage`, as `storage_count` shows.

### The compiler

`Compiler` takes a query through its stages: `Parse`, `VisitForFilters`,
`VisitForReturn`, `VisitForProperties`, `Generate` for a command line, `Build` (cargo),
`Start` (`create_target_graph`). A stage may end it: the text is not in the language,
a visitor stops, the generator exits or panics, the filter does not build, or it panics
when it starts.

`CypherGrammar` has one definition for each rule function of the generated parser: the
EBNF of what that function accepts, in the order it tries alternatives. The function is
fifty to three hundred lines of prediction, matching and error handling around that.
`Ebnf` says which trees a text has; ANTLR's lookahead decides among alternatives as far
as that takes, so it builds one of them, and `Parse` picks any. Words are tokens of the
type the lexer gives them (`TokenType`, external).

`QueryIr` has the visitors as records, with the default visit of children. A text is
the sequence of its tokens, white space included: the visitors take property names and
UDF calls from the text as it is written. `CodeGen` gives of the generated code what
its parts read and write: the vertices, edges and values of the target graph, the
trace level filter, the numbers of properties collected and computed, the node and
number returned. `QueryText` is the environment: a query is its chains, its
conditions and its RETURN; a layout is where its author put optional white space.
`QuestionOf` says what the query asks, without looking at the compiler, and `Asked`
what the generated filter asks.

## 3. What the runs check

| Run | What it shows | States |
|---|---|---|
| `serial` | Centralized, one worker, no failure, five services, a pattern that matches at two nodes, a call not waited for. `ResponseComplete`: the response of a call carries all of its subtree that was waited for. `NoPhantom`: and nothing else. `ReportsOnce`, `MatchReported`: a match is reported, once. `StoreKeepsNodes`: a store never forgets. `ImplementsTraceCollection`. | 282 |
| `race` | Two workers, so lost updates happen; each of the three kinds of failure may happen at each hook. `NoPhantom`, `ReportsOnce` and the refinement still hold: what is missing is never replaced by something wrong. | 67546 |
| `distributed` | Six services in a tree of depth four, two workers, every failure; a match low in the trace and another above it. `FerriedSetSTrue`: what `set_s` claims of a node is true of the graph it travels with. `FoundMeansReported`: nobody is told of a match that nobody reported. `FoundSilencesCallers`, `CompleteIsReported`: with all at hand, one report on a way, and not none. `TypeOK` includes that `set_s` has an entry for each node and no other, which the code assumes when it indexes. The refinement. | 106862 |
| `sim` | Either of the templates, two traces through six services on two branches, each service making any of its calls, in any order; storage receives at any time. `NothingTwice`: merging with oneself doubles nothing. `HeightsRight`: each node that is ferried has the height of its subtree. `MatchesAreSent`: the centralized filters send a value exactly if the pattern matches. `OneSendsOnEachWay`: of the distributed filters from a match up to the root one sends, whatever else is found on other branches. `TypeOK` as for `distributed`. Both refinements. | 56308 |
| `iso` | The algorithm on every tree of 2 to 4 nodes as a trace and 1 to 4 as a pattern. `SetSExact`: `set_s` says what the paper says. `AnswerRight`: the answer is that of the definition. `RootIsMapped`: a RETURN about the pattern's root finds the right node. | 195411 |
| `distributed_iso` | The same trees, one sidecar for each node. `ReportsMatches`: only real matches are reported. `ReportedOncePerBranch`: not again above where they were found. `FindsMatch`: a match is found, wherever it is except at a callee of the root. | 272578 |
| `storage` | Four requests on three worker threads, failing hooks, a total that wraps. `StructOfRequests`: the aggregate is that of some set of requests; resets and lost updates lose requests, but none is counted twice or by half. | 3475 |
| `compile` | Some sixty queries, each in eleven layouts, each with fourteen command lines. `PlainQueriesRun`: a query without odd white space, with what it needs, becomes a running filter; for Envoy, if it asks nothing of the trace as a whole. `NeverAnotherQuestion`: whatever is written, a filter that starts asks the query's question. `CollectsWhatItReads`: every number that is read is collected or computed. `BracketsFindTheirProperty`: a number used as a position finds its property if the UDFs are called in the order of the command line. | 19140 |
| `iso_mapping` | (violation) `MapsPatternToTrace` fails: the returned mapping has pairs with their sides swapped. | |
| `distributed_root` | (violation) `FindsEveryMatch` fails: the root's sidecar ignores a match at its callees. | |
| `storage_count` | (violation) `CountsEveryRequest` fails with one worker already: each context starts the aggregate anew. | |
| `positions` | (violation) `NumbersFindTheirProperty` fails: with a UDF on the command line that the query does not call, a number in brackets finds another property, or none. | |

The violation runs compare the code with what a comment in the repository says, which
the findings in `PROJECT.json` quote.

Premises that are part of what is shown. All properties of filters are about traces in
which no service is called twice: `NoPhantom` is false for one that is, as merging
attaches edges by name. `StoreKeepsNodes` and `ResponseComplete` are false with two
workers, where updates are lost. `CompleteIsReported` leaves out the matches that
`distributed_root` shows to be ignored.

Bounds. Five services in a tree of depth three have two callees to merge at two
levels, which gives every order of merging; a second caller's merge is what could
confuse positions, and more callees add no new case. The distributed filter needs one
level more: below the root's callees, whose matches it ignores, a match and another
above it; in `sim` there is a second branch next to these, for a report that
must not silence the other. The patterns have a root that is also the root of another match lower in the
trace (`Pair`), or two children (`Fork`). Two workers are enough for a lost update,
since a third write in between is a second lost update. In `sim` each trace
sends up to two values, so a value finds the average of others of its own trace and of
the trace before, in every order of arrival. For the isomorphism, four nodes
include every shape with a branching above or below a chain; patterns of the trace's
own size are included, where the early exits are tight. Patterns of four nodes have at
most one attribute filter. Three workers and four requests give a request that starts,
runs or ends between any two steps of two others. In `compile`, a layout has white
space in one place, in all or in none; the visitors treat the places one by one. The
queries have every kind of item in every position where the visitors tell them apart;
patterns of one node, an edge, a chain, a fork, and with a keyword for a name.
Deadlock is checked in all runs: a trace that is over stutters (`Finished`, `Over`), as
does a compilation (`Done`).

Fairness. `FairSpec` of `TraceFilter` has weak fairness of `Hook(s)` for each call s:
Envoy runs a hook for each message that arrives, and the application makes its calls
and answers. No fairness asks a hook to fail or not to: `MatchReported` is checked
without failures, with one worker, where the code has nothing to retry. For the other
filters, what has to happen is stated of finished states (`CompleteIsReported`,
`MatchesAreSent`, `OneSendsOnEachWay`).

## 4. What is proved

TLC checks one trace, a handful of trees, four requests. The theorems hold for any:
`PROJECT.json` lists them with the properties they state.

| Module | Theorems | Hypotheses |
|---|---|---|
| `TraceFilterProofs` | `TypeCorrect` | none |
| | `NoPhantomCalls`, `ReportedOnce`, `TraceFilterImplements` | no service is called twice |
| | `StoreKeeps` | one worker |
| | `ResponsesAreComplete` | no service is called twice, one worker, no failures |
| `DistributedFilterProofs` | `TypeCorrect`, `FoundWasReported` | no service is called twice |
| | `FerriedEntriesAreTrue`, `DistributedFilterImplements` | no service is called twice, the pattern is a tree |
| | `FoundSilences` | no service is called twice, every call is awaited |
| | `NoneIsMissed` | the same, the pattern is a tree, the root's service was given to the compiler, and the trace satisfies the trace level filter |
| `SimMeshProofs` | `NothingIsTwice` | no service is called twice, every call is awaited |
| | `EveryHeightIsRight` | the same, and traces are finite |
| | `CentralizedAnswers`, `SimFilterTyped` | the same, and the compiler was given the root's service as root |
| | `DistributedAnswer`, `SimFilterImplements` | the same, and the pattern is a tree |
| | `AnswersAreAverages` | those of `CentralizedAnswers`, and fewer spans in all traces than 2^64 |
| `SubtreeIsoProofs` | `TypeCorrect`, `SetSIsExact`, `AnswerIsRight`, `RootMapped` | trace and pattern are trees |
| `DistributedIsoProofs` | `TypeCorrect`, `ReportsAreMatches`, `ReportedOnBranch`, `FindsMatches` | trace and pattern are trees |
| `StorageProofs` | `TypeCorrect`, `StructIsOfRequests` | fewer requests than 2^64 |

In these words the hypotheses are: `DistinctServices`, `Workers = 1`, `Faults = {}`,
`Detached = {}`, `FewSpans`, `ServiceOf[RootSpan] = RootId`, `Tree(Target)`,
`TreesAssumption`, `FewRequests`, `FewRpcs`, and for the trace level filter
`TraceWanted \in {NoValue, PropertyOf[RootId]}`. `SimMeshProofs` also has `NoneIsNoData` and `NoValue \notin Nat`: the model
value for what is absent is neither data nor a value that a filter sends. Section 3 says
which properties are false without them.

### The centralized filter

`TypeCorrect`: no merge, whatever it merges with what, makes an edge to a node that is
not there, and only a value that was collected is sent. It rests on lemmas for any
graph: `get_node_with_id` finds the first node of a name and fails only if there is
none; `merge`, `assign_properties` and `AddMe` keep data well-formed, keep the names of
nodes and put each edge between nodes that exist.

Why `NoPhantom` needs a stronger invariant: it speaks of the header and the store,
but a header is made from the store, the store from a `local` that a hook read
earlier, and that one from other headers. Nor is it enough that a graph has only calls below a span:
when two such graphs are merged, their nodes must not overlap, or a call would be
there twice. `PhantomInv` therefore says which
subtrees each piece of data carries. `Carries(fd, C)` means that fd is made of parts
below calls in C, sound and each node once. The invariant's parts are: calls that have
not begun have nothing below them in progress (`IdleBelow`); a header carries its own
call (`HeaderCarries`); the store of a service, and a `local` made from it, carries
only callees whose responses were fetched (`SharedCarries`, `StoringCarries`,
`MergingCarries`). A response is merged while its call is not yet fetched, and
subtrees of different callees are disjoint because the trace is a tree; a lost update
makes the carried set smaller than what was fetched, which the invariant allows. The
proof goes through one lemma for each operation (`MergeCarries`, `AddMeCarries`) and
one step for each action. `ResponsesAreComplete` adds the other direction: with one
worker nothing between a read and a write is overwritten, so a store has all that was
fetched. `TraceFilterImplements` maps each step of a hook to a step of
`TraceCollection` or a stutter; a report comes from sound data, in which a match is one
of the trace, and `ReportedOnce` says that there is one at most.

### The distributed and the simulator's filter

`TypeOK` of `DistributedFilter` includes that `set_s` has an entry for each node of the
graph it is ferried with and for no other, which the code assumes when it indexes; the
lemmas on `MergeSetS` and on adding a node carry it through every hook. `FoundWasReported`
follows `found_match` from the sidecar that sets it through headers, stores and hooks at
work: wherever it is set, somebody at or below that call has reported.

`FerriedEntriesAreTrue` ties `set_s` to the graph. Its invariant `TrueInv` says of each
header, each store and the data in each hook that an entry of `set_s` is true of the
graph next to it (`Claims`), and that the graph is made of subtrees of the trace, each a
tree. A merge moves nodes and keys alike, and a branch that could be laid before still
can (`MergeClaims`, `ClaimMoved`); so does the service's own node over the graph. The
search adds keys on top of the callees' by `MaxMatchingSound`, the same lemma as for
`iso.rs` in one piece, on the tree that `AddMe` has just completed (`CarriedTree`,
`SearchTrue`). It follows that a report comes from a match of the calls really made, so
the filters implement `TraceCollection` (`DistributedFilterImplements`): the names in any
graph are of spans that were called (`NamesCalled`), a match in sound data is one of the
trace (`MatchIsReal`), and the values sent are those of the calls to storage that got
through, in order (`SelectedAppend`). No worker count and no failure is assumed away, as
lost data makes less be found, never something else.

`FoundSilences` is about who reports, when updates may be lost. A callee's node and its
`found_match` come in the same response and are merged together, so whoever has the one
has the other (`Heeds`), in a header, a store and the hands of a hook. Names in a graph
are of services that have answered (`NamesAnswered`), whose responses no longer change, so
what was heeded stays so. A sidecar that reports says so on its response, and had not been
told by the callees it knows of (`Reporter`). A complete response knows all callees, hence
along complete responses `found_match` climbs from whoever set it (`FoundClimbs`), and
whoever is above was told. Without `Detached = {}` a callee may report after its caller
has answered.

`NoneIsMissed` is the converse of `FerriedEntriesAreTrue`: what can be found is found, by
sidecars that each look only at the nodes of their callees. The invariant `CompleteInv`
adds to `TrueInv` that, while nothing is found, `set_s` has every key that the graph next
to it allows (`FullBut`), except at the nodes of a sidecar's callees, where no search has
been yet, and in a header at the sender's own node. A sidecar's search fills in its
callees' entries, from the bottom up, and finds the pattern if it is at one of them
(`SearchFull`); what it sends on is then full but for its own node (`ResponseFull`).
Merging keeps this, because it adds nothing below the nodes of either side: a branch that
can be laid in the merged graph could be laid in the side it is in (`LiesApart`,
`FullMoved`, `MergeFull`). This is where it matters that services are distinct, as
edges are merged by name. A lost update makes the graph smaller and its `set_s` with it.
So a header sent while nobody has called storage shows no match at a callee of the sender
(`NothingMissed`), and a match in the trace is one in any complete response of the call or
its callers (`MatchInComplete`). At the root's sidecar, whose own node is searched too, a
callee that matches leaves `set_s` unfinished, and the theorem has the exceptions of the
property: section 3 shows that without them it is false.

`NothingIsTwice` adapts the argument of `NoPhantom` to a store that merges its first data with itself:
what comes first carries no node, as callers send graphs on responses only.

`EveryHeightIsRight` needs more than soundness: a height is a maximum over callees, so a
lost callee would make it wrong. The invariant `KnowInv` adds completeness. Below a call
that was answered nothing is called any more (`Settled`), so what a response said of its
subtree stays the whole truth about it; a response has a node for each call made below it,
and a store for each call made in a subtree whose response it merged (`Knows`,
`ResponsesKnow`, `SharedKnow`). That holds because a hook of the simulator runs to its end
before another begins, and because a merge keeps what either side knows. When a service
answers, its store thus has all its callees with their right heights, and the UDF makes of
these the right one for its own node (`HeightStep`).

`CentralizedAnswers` is the correctness of the centralized filters from end to end, in both
directions: no match is invented and none is missed. The data of the root, when it
answers, is a picture of the whole trace: the same tree with the same properties
(`Pictures`, `WholeTrace`). The pattern can be laid over the one exactly if it can be laid
over the other (`LiesOver`, `PictureMatches`), and what the filter computes on the data,
the first match it finds and the height it reads there, exists whenever there is a match
at all, as a finite trace has a lowest span that matches (`LowestSpan`, `FirstIsFound`).
`SentInv` says that a filter's answer is the query's for its trace, and `KnowInv` that the
data it came from was complete.

The theorems about both ways of compiling for the simulator rest on one invariant,
`SendInv`, which is `SentInv` and three more parts:

- `WaitInv`: a property that waits for its node is one of a call above: in a request or a
  store it is that of the call itself or of one above it, in a response of the caller or
  one above that. So assigning properties never fills in a node of somebody below.
- `SearchInv`, of the distributed filters: a store's and a response's data is a good one
  for `DistributedSearch`, that is, `set_s` claims only what is true of the graph next to
  it, and as long as nothing is found it is full but for the nodes still to be searched.
  These are the words of `CompleteInv`; without the heights (`Plain`) the simulator's data
  is that of the Envoy filter, operation by operation (`PlainMerge`, `SameSearch`), so the
  lemmas on merging and searching are shared, in `MeshProofs`.
- `FoundInv`: `found_match` is on a response exactly if a filter at or below that call has
  sent a value in this trace, and in a store exactly if one has at or below a callee whose
  response is in it. In Envoy only one half of this holds, as `found_match` may be lost.

`SimFilterTyped` is `TypeOK`, which no weaker invariant gives: that a search finds the
entry it looks up, and that what is sent is a height and not `NoValue`, follows from what
the data is about. `DistributedAnswer` (`OneSendsOnEachWay`) takes both halves of
`FoundInv` for "at most one on a way", and for "at least one" the pictures again: a match
in the trace stays one in what any call above it knows (`MatchStaysBelow`, `MatchKnown`),
and a filter that answers without having found it would have had it in its graph, at a
callee, with `set_s` full (`AnswerSays`, `NothingMissed`). `SimFilterImplements` maps each
hook to a call, an answer or a stutter of `TraceCollection`, and the next trace to its
`NewTrace` (`CollectionStep`): what goes out with an answer is the height of a node that
matches in sound and complete data, hence what the query returns for a match in the trace
(`SentIsMatch`, `SentIsAllowed`).

`AnswersAreAverages` is the refinement of `RunningAverage`. `RpcsCounted` bounds what is
sent: in each trace an answer sends one value at most, so a u64 can count them. `AvgInv`
says that the UDF's count is that of the values received and its total their sum, up to
the wrap. The sum is a fold of the community modules; `StorageProofs` is instantiated for
what it proves of those (`SumOfOneMore`), and its machine plays no part. Every hook of a
filter stutters, as what was sent once stays in its place (`HooksStutter`).

### The isomorphism

`AnswerIsRight` is the correctness of `find_mapping_shamir_centralized`, for all trees:
it finds a match exactly if the pattern can be laid over the trace. `ShamirTsurProofs`
has what this takes:

- Trees (`TreeFrom`): each node but the root has one parent, subtrees of siblings are
  disjoint, nothing is below what is below it. Branches of the pattern, as seen from a
  node away from a neighbour: a branch is its first node and the branches of the
  remaining neighbours (`BranchParts`), which are disjoint (`BranchesDisjoint`).
- A branch can be laid over what is below v exactly if the branches next to its first
  node can be laid over callees of v, different ones (`BranchGrows`, `BranchShrinks`).
- `max_matching` adds exactly the keys for which such an assignment exists
  (`MaxMatchingSound`, `MaxMatchingComplete`): a matching is an injection, and the early
  exits, too few edges and a node with too many neighbours, skip nothing, as an
  injection needs enough on both sides.

The invariant of `SubtreeIso` (`IsoInv`): the traversal is a postorder (`Postorder`); of
a visited node, and of the pattern's nodes before the one at work, `set_s` is exact
(`VisitedExact`); nodes not visited have what `initialize_s` gave them
(`OthersInitial`); and no visited node matches (`NoMatchYet`).

For `DistributedIso` there are three invariants, each used by the next. `TurnInv`:
responses leave from the leaves up, `found_match` goes up from where it was set, and the
root's own node comes last. `SoundInv`: what `set_s` claims can be laid there; a
sidecar's own node, entered first, has nothing yet when its callees' nodes are searched
(`SearchesBelow`), or a callee would be matched with its caller. `SearchInv`: while
nobody has reported, every sidecar that has answered has searched, `set_s` is full of
what there is below the nodes searched, and none of these matches. Its weak spot is the
root's sidecar, which stops at a callee that matches and does not count it: of that
callee, and of the root, `set_s` may then be incomplete, which is why `FindsMatch` has
its exceptions and `FindsEveryMatch` fails.

### Storage

`CountInv`: the struct in the shared data is that of some answered requests, and the one
in a hook that of some answered requests and its own. The second half is what makes the
first inductive, as the struct in the hook is written later, when its request has been
answered. `ExecuteAdds` says that the UDF adds one request, in the arithmetic of the
machine, where a wrapped total can be added to (`AddToRemainder`) and the count, which
does not wrap, is a divisor that is not zero. The sum in the property is a fold of the
community modules; that it does not depend on the order (`FoldsAdd`), and that the
recursion defines a function at all (`FoldExists`), is proved by counting up
(`Counting`), over sets of numbers instead of predicates.

### Assumptions and limits

Assumptions on constants: `NoValueAssumption`, `TraceAssumption`, `SettingAssumption`
and `PatternAssumption` of `Mesh` and what it extends, `TreesAssumption`,
`ModulusAssumption`, `StorageAssumption`, in the simulator's modules
`TracesAssumption`, in the compiler's `LayoutAssumption`. TLC evaluates each in a run.
That traces and patterns are trees is
what the algorithm is for: a trace has one caller for each call, and `find_root` panics
on a pattern without a root. `DistributedSearch` writes its functions out where TLC's `@@`
would be shorter, as the provers know nothing of `@@`.

Some definitions have the form the provers can use: `Selected` keeps elements of a
sequence by their positions, as `SelectSeq` is opaque to them, and `HeightIn` counts the
calls on the longest way down instead of recurring.

Every invariant, action property and refinement of the mesh's filters, of the isomorphism
and of storage that a passing run checks is also proved. Beyond the prover is `MatchReported`
(liveness under fairness, and ENABLED). Parse trees and their visits are
recursive by nature: `Ebnf` and `QueryIr` declare RECURSIVE operators, with which the
prover loses its SMT backend, and so nothing is proved of the compiler: the properties of
`Compiler` are only model-checked. No module that a
proof uses declares one; reachability, which would be natural to write so, is defined by
closed sets.

## 5. What is not modelled

- UDFs in the Envoy filters, as they run (`SimFilter` has one); queries whose RETURN is
  about a node below the pattern's root (what `get_mapping_from_set_s` does to them is
  shown by `iso_mapping`); nodes with more than one collected property.
- Restarts of a sidecar: shared data does not survive one, and no code recovers it.
- Two traces at once in Envoy: they share no key and no state.
- Of the parser, the tables of the lexer and of the prediction, what it does at a token it
  does not expect (a text that is not in the language ends in "misread", though the
  compiler goes on with what it made of it), and the accessors of contexts, listeners and
  visitors, which are the same few lines for every rule.
- Conditions other than equalities joined by AND: the visitor takes any comparison
  inside OR or NOT for one more equality, a listed hazard.
- What a collected value of a type is cast to, and the regular expressions that find
  the id and the kind of a UDF in its file.
- Debug filters, packaging, and the comparison of generated filters with reference
  files: no state of their own.

## 6. Plan

1. The hazards that `PROJECT.json` lists without a property, each with its reason: a
   service that is called twice, a syntax error that the parser recovers from, a property
   of type Map, two conditions on one property.
2. The generated parser's prediction, as far as it decides what a query means.
3. The hypotheses that are stronger than needed: `ServiceOf[RootSpan] = RootId` is not
   used for what the filters other than the root's do.

------------------------------ MODULE IsoGraphs ------------------------------
(***************************************************************************)
(* What the centralized and the decentralized subtree isomorphism work on: *)
(* a trace, a pattern and set_s.                                           *)
(***************************************************************************)
EXTENDS ShamirTsur

CONSTANTS
    TraceGraphs,   \* the traces g considered
    Patterns       \* the patterns h considered

ASSUME TreesAssumption == \A graph \in TraceGraphs \cup Patterns : Tree(graph)

VARIABLES
    g, h,
    setS    \* setS[<<v, u>>]: the keys of set_s[SetSKey {val1: v, val2: u}]

V == Nodes(g)
U == Nodes(h)
=============================================================================

--------------------------- MODULE DistributedIso ---------------------------
(***************************************************************************)
(* The decentralized subtree isomorphism (find_mapping_shamir_decentralized *)
(* in libs/utils/graph/iso.rs), run by the sidecars of a trace as the      *)
(* distributed filter does when responses leave them                       *)
(* (distributed_filter_envoy/filter_base.rs).  A sidecar runs it when what *)
(* its callees ferried is merged, unless a match was found below it.  It   *)
(* enters its own node into set_s, runs the inner loop for each callee's   *)
(* node, and for its own only if it is the root.                           *)
(*                                                                         *)
(* All calls are awaited and nothing fails or is lost.  Subtrees of        *)
(* different callees share nothing, so one setS stands for what all of     *)
(* them ferry, and sidecars take turns.                                    *)
(***************************************************************************)
EXTENDS IsoGraphs

VARIABLES
    turn,       \* the sidecar at work, by its node, or 0
    left,       \* children of cur_node the inner loop is still to be run for
    at,         \* <<v, u>>: the inner loop for v has come to u; or NoNode
    match,      \* the match this sidecar has found: one node of g or none
    answered,   \* the sidecars whose response has left
    foundMatch, \* those with found_match on their response
    reports     \* <<n, v>>: the sidecar n reported a match at v

vars == <<g, h, setS, turn, left, at, match, answered, foundMatch, reports>>

NoNode == <<0, 0>>

Children(v) == {c \in V : <<v, c>> \in g.edges}

Root == FindRoot(g)

TypeOK ==
    /\ g \in TraceGraphs /\ h \in Patterns
    /\ setS \in [V \X U -> SUBSET U]
    /\ turn \in V \cup {0} /\ left \subseteq V
    /\ at \in {NoNode} \cup (V \X U)
    /\ match \subseteq V /\ Cardinality(match) <= 1
    /\ answered \subseteq V /\ foundMatch \subseteq answered
    /\ reports \subseteq V \X V

Init ==
    /\ g \in TraceGraphs /\ h \in Patterns
    /\ setS = [vu \in V \X U |-> {}]
    /\ turn = 0 /\ left = {} /\ at = NoNode /\ match = {}
    /\ answered = {} /\ foundMatch = {} /\ reports = {}

-----------------------------------------------------------------------------
Ready(v) == turn = 0 /\ v \notin answered /\ Children(v) \subseteq answered

(* found_match came from a callee: nothing is searched, the flag goes on.  *)
PassOn(v) ==
    /\ Ready(v)
    /\ Children(v) \cap foundMatch # {}
    /\ answered' = answered \cup {v}
    /\ foundMatch' = foundMatch \cup {v}
    /\ UNCHANGED <<g, h, setS, turn, left, at, match, reports>>

(* Mutant: found_match is not looked at. *)
BeginAnyway(v) ==
    /\ Ready(v)
    /\ turn' = v
    /\ left' = Children(v) \cup (IF v = Root THEN {v} ELSE {})
    /\ match' = {}
    /\ setS' = [vu \in V \X U |->
                  IF vu[1] # v THEN setS[vu]
                  ELSE IF Children(v) = {} THEN LeafKeys(h, vu[2]) ELSE {}]
    /\ UNCHANGED <<g, h, at, answered, foundMatch, reports>>

(* Mutant: the root does not search at its own node. *)
BeginWithoutSelf(v) ==
    /\ Ready(v)
    /\ Children(v) \cap foundMatch = {}
    /\ turn' = v
    /\ left' = Children(v)
    /\ match' = {}
    /\ setS' = [vu \in V \X U |->
                  IF vu[1] # v THEN setS[vu]
                  ELSE IF Children(v) = {} THEN LeafKeys(h, vu[2]) ELSE {}]
    /\ UNCHANGED <<g, h, at, answered, foundMatch, reports>>

(* v's sidecar begins, with initialize_s_for_node. *)
Begin(v) ==
    /\ Ready(v)
    /\ Children(v) \cap foundMatch = {}
    /\ turn' = v
    /\ left' = Children(v) \cup (IF v = Root THEN {v} ELSE {})
    /\ match' = {}
    /\ setS' = [vu \in V \X U |->
                  IF vu[1] # v THEN setS[vu]
                  ELSE IF Children(v) = {} THEN LeafKeys(h, vu[2]) ELSE {}]
    /\ UNCHANGED <<g, h, at, answered, foundMatch, reports>>

(* The inner loop starts for a child, after all of them for the root itself. *)
StartInnerLoop(v) ==
    /\ turn # 0 /\ at = NoNode
    /\ v \in left
    /\ v = turn => left = {v}
    /\ at' = <<v, 1>>
    /\ left' = left \ {v}
    /\ UNCHANGED <<g, h, setS, turn, match, answered, foundMatch, reports>>

(* Mutant: the loop goes one too far. *)
NextPatternNodePast(v, u) == IF u <= Len(h.nodes) THEN <<v, u + 1>> ELSE NoNode

NextPatternNode(v, u) == IF u < Len(h.nodes) THEN <<v, u + 1>> ELSE NoNode

SkipPatternNode(v, u) ==
    /\ at = <<v, u>>
    /\ ~ DegreeFits(g, h, v, u)
    /\ at' = NextPatternNode(v, u)
    /\ UNCHANGED <<g, h, setS, turn, left, match, answered, foundMatch, reports>>

(* A match at a child counts unless the sidecar is the root's. *)
MatchCounts(v) == turn = Root => v = Root

TryPatternNode(v, u) ==
    /\ at = <<v, u>>
    /\ DegreeFits(g, h, v, u)
    /\ setS' = [setS EXCEPT ![at] = @ \cup MaxMatching(g, h, setS, v, u)]
    /\ at' = IF RootMatches(g, h, setS', v) THEN NoNode ELSE NextPatternNode(v, u)
    /\ match' = IF RootMatches(g, h, setS', v) /\ MatchCounts(v) THEN {v} ELSE match
    /\ UNCHANGED <<g, h, turn, left, answered, foundMatch, reports>>

(* The sidecar is done; a match is sent to storage. *)
Answer(v) ==
    /\ turn = v /\ at = NoNode /\ left = {}
    /\ turn' = 0 /\ match' = {}
    /\ answered' = answered \cup {v}
    /\ foundMatch' = IF match = {} THEN foundMatch ELSE foundMatch \cup {v}
    /\ reports' = reports \cup {<<v, m>> : m \in match}
    /\ UNCHANGED <<g, h, setS, left, at>>

Finished == Root \in answered /\ UNCHANGED vars

Next ==
    \/ \E v \in V :
        \/ PassOn(v)
        \/ Begin(v)
        \/ StartInnerLoop(v)
        \/ Answer(v)
    \/ \E v \in V, u \in U : SkipPatternNode(v, u) \/ TryPatternNode(v, u)
    \/ Finished

Spec == Init /\ [][Next]_vars

-----------------------------------------------------------------------------
Matches == {v \in V : EmbedsAt(h, g.nodes, g.edges, v)}

Reported == {r[2] : r \in reports}

(* A sidecar reports only real matches. *)
ReportsMatches == turn = 0 => Reported \subseteq Matches

(* What is found below a node is not reported again above it. *)
ReportedOncePerBranch ==
    \A r \in reports : \A v \in Reachable(V, g.edges, r[1]) \ {r[1]} :
        v \notin foundMatch

(* A match is found, if not by its own caller then by someone below it,     *)
(* wherever it is but at a callee of the root; and at the root if there is  *)
(* none at its callees. *)
FindsMatch ==
    Root \in answered =>
        /\ Matches \ (Children(Root) \cup {Root}) # {} => reports # {}
        /\ Root \in Matches /\ Children(Root) \cap Matches = {} => reports # {}

(* "If one of your children matched all of graph_h, return that matching":  *)
(* a trace that matches is reported by someone.                             *)
FindsEveryMatch ==
    Root \in answered => (Matches # {} => reports # {})
=============================================================================

-------------------------- MODULE TraceFilterProofs --------------------------
(***************************************************************************)
(* Theorems about TraceFilter, for every trace, pattern, number of worker  *)
(* threads and set of faults, the refinement of TraceCollection the last.  *)
(***************************************************************************)
EXTENDS TraceFilter, MeshProofs

(* The types of what the hooks put together. *)
LEMMA RespondType ==
    ASSUME TypeOK, NEW s \in Spans, NEW data \in FerriedDataType, Respond(s, data)
    PROVE  /\ phase' \in [Spans -> Phases]
           /\ shared' \in [Services -> FerriedDataType]
           /\ local' \in [Spans -> FerriedDataType]
           /\ header' \in [Spans -> FerriedDataType]
BY DEF TypeOK, Respond, Phases

LEMMA WriteSharedType ==
    ASSUME TypeOK, NEW s \in Spans, NEW n \in Services, WriteShared(s, n)
    PROVE  /\ shared' \in [Services -> FerriedDataType]
           /\ local' \in [Spans -> FerriedDataType]
<1>1. local[s] \in FerriedDataType
  BY DEF TypeOK
<1>2. QED
  BY <1>1, DefaultType DEF TypeOK, WriteShared

LEMMA ReadAndMergeType ==
    ASSUME TypeOK, NEW s \in Spans, NEW n \in Services, NEW data \in FerriedDataType,
           ReadAndMerge(s, data, n)
    PROVE  local' \in [Spans -> FerriedDataType]
<1>1. Merge(data, shared[n]) \in FerriedDataType
  BY MergeType DEF TypeOK
<1>2. QED
  BY <1>1 DEF TypeOK, ReadAndMerge

(* What the sidecar stores when a request arrives. *)
LEMMA CollectedType ==
    ASSUME NEW n \in Services
    PROVE  CollectEnvoyProperties(n) \in FerriedDataType
<1> DEFINE collected == [entity |-> n, value |-> PropertyOf[n]]
<1>1. collected \in Property
  BY TraceAssumption DEF Property
<1> HIDE DEF collected
<1>2. [Default EXCEPT !.unassigned = {collected}] \in FerriedDataType
  BY <1>1, DefaultType DEF FerriedDataType
<1>3. QED
  BY <1>2 DEF collected, CollectEnvoyProperties

LEMMA TryMatchType ==
    ASSUME TypeOK, NEW s \in Spans, NEW g \in FerriedDataType, TryMatch(s, g)
    PROVE  TypeOK'
<1>1. calls' \in Seq(Values)
  <2>1. ASSUME NEW v \in DOMAIN g.nodes, g.nodes[v].value # NoValue
        PROVE  g.nodes[v].value \in Values
    <3>1. g.nodes \in Seq(Node)
      BY DEF FerriedDataType
    <3>2. g.nodes[v] \in Node
      BY <3>1
    <3>3. QED
      BY <2>1, <3>2 DEF Node
  <2>2. ASSUME NEW x \in Values, SendToStorage(x)
        PROVE  calls' \in Seq(Values)
    BY <2>2, AppendProperties DEF SendToStorage, TypeOK
  <2>3. QED
    BY <2>1, <2>2 DEF TryMatch, GetValueForStorage, TypeOK
<1>2. Respond(s, g) \/ Respond(s, Default)
  BY DEF TryMatch
<1>3. QED
  BY <1>1, <1>2, RespondType, DefaultType DEF TypeOK

(* Type correctness: in particular everything that store_data writes and    *)
(* every header is well-formed ferried data, whatever is merged with what.  *)
THEOREM TypeCorrect == Spec => []TypeOK
<1>1. Init => TypeOK
  BY DefaultType DEF Init, TypeOK, Phases
<1>2. TypeOK /\ [Next]_vars => TypeOK'
  <2> SUFFICES ASSUME TypeOK, [Next]_vars
               PROVE  TypeOK'
    OBVIOUS
  <2>1. ASSUME NEW s \in Spans, RequestInbound(s)
        PROVE  TypeOK'
    <3>1. local' \in [Spans -> FerriedDataType]
      BY <2>1, CallerType, CollectedType, ReadAndMergeType DEF RequestInbound
    <3>2. QED
      BY <2>1, <3>1 DEF RequestInbound, TypeOK, Phases
  <2>2. ASSUME NEW s \in Spans, RequestInboundStore(s)
        PROVE  TypeOK'
    BY <2>2, WriteSharedType, CallerType DEF RequestInboundStore, TypeOK, Phases
  <2>3. ASSUME NEW s \in Spans, RequestInboundFails(s)
        PROVE  TypeOK'
    BY <2>3 DEF RequestInboundFails, TypeOK, Phases
  <2>4. ASSUME NEW s \in Spans, ResponseInbound(s)
        PROVE  TypeOK'
    <3>1. AddMe(shared[ServiceOf[s]], ServiceOf[s]) \in FerriedDataType
      BY CallerType, AddMeType DEF TypeOK
    <3>2. QED
      BY <2>4, <3>1, TryMatchType DEF ResponseInbound
  <2>5. ASSUME NEW s \in Spans, ResponseInboundFails(s)
        PROVE  TypeOK'
    BY <2>5, RespondType, DefaultType DEF ResponseInboundFails, TypeOK
  <2>6. ASSUME NEW s \in Spans, ResponseOutbound(s)
        PROVE  TypeOK'
    <3>1. local' \in [Spans -> FerriedDataType]
      BY <2>6, CallerType, ReadAndMergeType DEF ResponseOutbound, TypeOK
    <3>2. QED
      BY <2>6, <3>1 DEF ResponseOutbound, TypeOK, Phases
  <2>7. ASSUME NEW s \in Spans, ResponseOutboundStore(s)
        PROVE  TypeOK'
    BY <2>7, WriteSharedType, CallerType DEF ResponseOutboundStore, TypeOK, Phases
  <2>8. ASSUME NEW s \in Spans, ResponseOutboundFails(s)
        PROVE  TypeOK'
    BY <2>8 DEF ResponseOutboundFails, TypeOK, Phases
  <2>9. CASE UNCHANGED vars
    BY <2>9 DEF vars, TypeOK
  <2>10. QED
    BY <2>1, <2>2, <2>3, <2>4, <2>5, <2>6, <2>7, <2>8, <2>9 DEF Next, Hook, Finished
<1>3. QED
  BY <1>1, <1>2, PTL DEF Spec

-----------------------------------------------------------------------------
(* The inductive invariant behind NoPhantom: at every stage ferried data    *)
(* is sound about exactly the subtrees it can have come from.  The subtrees *)
(* that a merge brings together are then disjoint, so no name occurs twice  *)
(* and an edge between names is an edge between spans.                      *)
HeaderCarries ==
    \A s \in Spans : Carries(header[s], {s}) /\ header[s].unassigned = {}

SharedCarries ==
    \A s \in Spans :
        /\ Carries(shared[ServiceOf[s]], Fetched(s))
        /\ OwnOnly(shared[ServiceOf[s]], ServiceOf[s])

StoringCarries ==
    \A s \in Spans : phase[s] = "storing" =>
        Carries(local[s], {}) /\ OwnOnly(local[s], ServiceOf[s])

MergingCarries ==
    \A s \in Spans \ {RootSpan} : phase[s] = "merging" =>
        /\ Carries(local[s], Fetched(Parent[s]) \cup {s})
        /\ OwnOnly(local[s], Caller(s))

PhantomInv ==
    IdleBelow /\ HeaderCarries /\ SharedCarries /\ StoringCarries /\ MergingCarries

LEMMA SharedKept ==
    ASSUME SharedCarries, DoneStays, NEW s \in Spans,
           shared'[ServiceOf[s]] = shared[ServiceOf[s]]
    PROVE  /\ Carries(shared'[ServiceOf[s]], Fetched(s)')
           /\ OwnOnly(shared'[ServiceOf[s]], ServiceOf[s])
BY FetchedGrows, CarriesMonotone DEF SharedCarries

LEMMA MergingKept ==
    ASSUME MergingCarries, DoneStays, NEW s \in Spans \ {RootSpan},
           phase[s] = "merging", local'[s] = local[s]
    PROVE  /\ Carries(local'[s], Fetched(Parent[s])' \cup {s})
           /\ OwnOnly(local'[s], Caller(s))
<1>1. Fetched(Parent[s]) \cup {s} \subseteq Fetched(Parent[s])' \cup {s}
  BY FetchedGrows
<1>2. /\ Carries(local[s], Fetched(Parent[s]) \cup {s})
      /\ OwnOnly(local[s], Caller(s))
  BY DEF MergingCarries
<1>3. Carries(local[s], Fetched(Parent[s])' \cup {s})
  BY <1>1, <1>2, CarriesMonotone
<1>4. QED
  BY <1>2, <1>3

(* What a request hook is about to store: nothing but its own property.     *)
LEMMA RequestInboundCarries ==
    ASSUME DistinctServices, TypeOK, PhantomInv, NEW s \in Spans, RequestInbound(s)
    PROVE  Carries(local'[s], {}) /\ OwnOnly(local'[s], ServiceOf[s])
<1> DEFINE n == ServiceOf[s]
           data == CollectEnvoyProperties(n)
<1>1. n \in Services /\ data \in FerriedDataType /\ shared[n] \in FerriedDataType
  BY CallerType, CollectedType DEF TypeOK
<1>2. data.nodes = <<>> /\ data.edges = {} /\ data.unassigned = {[entity |-> n, value |-> PropertyOf[n]]}
  BY DEF CollectEnvoyProperties, Default
<1>3. local'[s] = Merge(data, shared[n])
  BY DEF RequestInbound, ReadAndMerge, TypeOK
<1> HIDE DEF data
<1>4. Carries(data, {}) /\ OwnOnly(data, n)
  BY <1>2, EmptyCarries DEF OwnOnly
<1>5. Fetched(s) = {}
  BY DEF RequestInbound, Requested, PhantomInv, IdleBelow, Fetched
<1>6. Carries(shared[n], {}) /\ OwnOnly(shared[n], n)
  BY <1>5 DEF PhantomInv, SharedCarries
<1>7. Carries(Merge(data, shared[n]), {} \cup {}) /\ OwnOnly(Merge(data, shared[n]), n)
  BY <1>1, <1>4, <1>6, MergeCarries
<1>8. QED
  BY <1>3, <1>7

(* What a caller's response hook is about to store: what its service had    *)
(* fetched, and the subtree of the callee.                                  *)
LEMMA ResponseOutboundCarries ==
    ASSUME DistinctServices, TypeOK, PhantomInv, NEW s \in Spans, ResponseOutbound(s)
    PROVE  /\ Carries(local'[s], Fetched(Parent[s]) \cup {s})
           /\ OwnOnly(local'[s], Caller(s))
<1> DEFINE t == Parent[s]
           n == Caller(s)
<1>1. s \in Spans \ {RootSpan} /\ phase[s] = "responded"
  BY DEF ResponseOutbound
<1>2. /\ t \in Spans /\ s \in Children(t) /\ n = ServiceOf[t] /\ n \in Services
      /\ header[s] \in FerriedDataType /\ shared[n] \in FerriedDataType
  BY <1>1, CallerType, ChildrenOfSpans DEF Caller, TypeOK
<1>3. local'[s] = Merge(header[s], shared[n])
  BY DEF ResponseOutbound, ReadAndMerge, TypeOK
<1>4. Carries(header[s], {s}) /\ OwnOnly(header[s], n)
  BY DEF PhantomInv, HeaderCarries, OwnOnly
<1>5. Carries(shared[n], Fetched(t)) /\ OwnOnly(shared[n], n)
  BY <1>2 DEF PhantomInv, SharedCarries
<1>6. {s} \in SUBSET Children(t) /\ Fetched(t) \in SUBSET Children(t) /\ {s} \cap Fetched(t) = {}
  BY <1>1, <1>2 DEF Fetched
<1>7. Carries(Merge(header[s], shared[n]), {s} \cup Fetched(t))
      /\ OwnOnly(Merge(header[s], shared[n]), n)
  BY <1>2, <1>4, <1>5, <1>6, MergeCarries
<1>8. {s} \cup Fetched(t) = Fetched(t) \cup {s}
  OBVIOUS
<1>9. QED
  BY <1>3, <1>7, <1>8

(* A response leaves with nothing, or with all of its span. *)
LEMMA RespondKeeps ==
    ASSUME TypeOK, PhantomInv, NEW s \in Spans, NEW data, phase[s] = "serving",
           Respond(s, data), Carries(data, {s}), data.unassigned = {}
    PROVE  PhantomInv'
<1>1. phase \in [Spans -> Phases] /\ header \in [Spans -> FerriedDataType]
  BY DEF TypeOK
<1>2. /\ phase' = [phase EXCEPT ![s] = "responded"]
      /\ header' = [header EXCEPT ![s] = data]
      /\ UNCHANGED <<shared, local>>
  BY DEF Respond
<1>3. DoneStays
  BY <1>1, <1>2 DEF DoneStays
<1>4. IdleBelow'
  BY <1>1, <1>2, IdleKept DEF PhantomInv
<1>5. HeaderCarries'
  BY <1>1, <1>2 DEF PhantomInv, HeaderCarries
<1>6. SharedCarries'
  BY <1>2, <1>3, SharedKept DEF PhantomInv, SharedCarries
<1>7. StoringCarries'
  BY <1>1, <1>2 DEF PhantomInv, StoringCarries
<1>8. MergingCarries'
  BY <1>1, <1>2, <1>3, MergingKept DEF PhantomInv, MergingCarries
<1>9. QED
  BY <1>4, <1>5, <1>6, <1>7, <1>8 DEF PhantomInv

(* PhantomInv is inductive. *)
LEMMA PhantomInit == Init => PhantomInv
<1> SUFFICES ASSUME Init
             PROVE  PhantomInv
  OBVIOUS
<1>1. \A s \in Spans : /\ phase[s] = "idle" /\ header[s] = Default
                        /\ shared[ServiceOf[s]] = Default
  BY CallerType DEF Init
<1>2. Default.unassigned = {}
  BY DEF Default
<1>3. IdleBelow
  BY <1>1 DEF IdleBelow, Children
<1>4. HeaderCarries
  BY <1>1, <1>2, DefaultCarries DEF HeaderCarries
<1>5. SharedCarries
  BY <1>1, <1>2, DefaultCarries DEF SharedCarries, OwnOnly
<1>6. StoringCarries /\ MergingCarries
  BY <1>1 DEF StoringCarries, MergingCarries
<1>7. QED
  BY <1>3, <1>4, <1>5, <1>6 DEF PhantomInv

LEMMA PhantomStep ==
    DistinctServices /\ TypeOK /\ PhantomInv /\ [Next]_vars => PhantomInv'
<1> SUFFICES ASSUME DistinctServices, TypeOK, PhantomInv, [Next]_vars
             PROVE  PhantomInv'
  OBVIOUS
<1>1. phase \in [Spans -> Phases] /\ local \in [Spans -> FerriedDataType]
      /\ shared \in [Services -> FerriedDataType]
  BY DEF TypeOK
<1>2. ASSUME NEW s \in Spans, RequestInbound(s)
      PROVE  PhantomInv'
  <2>1. /\ phase[s] = "idle" /\ Requested(s)
        /\ phase' = [phase EXCEPT ![s] = "storing"]
        /\ \A t \in Spans : t # s => local'[t] = local[t]
        /\ UNCHANGED <<shared, header>>
    BY <1>1, <1>2 DEF RequestInbound, Requested, ReadAndMerge
  <2>2. DoneStays
    BY <1>1, <2>1 DEF DoneStays
  <2>3. IdleBelow'
    BY <1>1, <2>1, IdleKept DEF PhantomInv
  <2>4. HeaderCarries'
    BY <2>1 DEF PhantomInv, HeaderCarries
  <2>5. SharedCarries'
    BY <2>1, <2>2, SharedKept DEF PhantomInv, SharedCarries
  <2>6. StoringCarries'
    BY <1>1, <1>2, <2>1, RequestInboundCarries DEF PhantomInv, StoringCarries
  <2>7. MergingCarries'
    BY <1>1, <2>1, <2>2, MergingKept DEF PhantomInv, MergingCarries
  <2>8. QED
    BY <2>3, <2>4, <2>5, <2>6, <2>7 DEF PhantomInv
<1>3. ASSUME NEW s \in Spans, RequestInboundStore(s)
      PROVE  PhantomInv'
  <2>1. /\ phase[s] = "storing"
        /\ phase' = [phase EXCEPT ![s] = "serving"]
        /\ \A t \in Spans : t # s => local'[t] = local[t]
        /\ shared'[ServiceOf[s]] = local[s]
        /\ \A t \in Spans : t # s => shared'[ServiceOf[t]] = shared[ServiceOf[t]]
        /\ UNCHANGED header
    BY <1>1, <1>3, CallerType DEF RequestInboundStore, WriteShared, DistinctServices
  <2>2. DoneStays
    BY <1>1, <2>1 DEF DoneStays
  <2>3. IdleBelow'
    BY <1>1, <2>1, IdleKept DEF PhantomInv
  <2>4. HeaderCarries'
    BY <2>1 DEF PhantomInv, HeaderCarries
  <2>5. SharedCarries'
    <3>1. Carries(local[s], {}) /\ OwnOnly(local[s], ServiceOf[s])
      BY <2>1 DEF PhantomInv, StoringCarries
    <3>2. Carries(local[s], Fetched(s)')
      BY <3>1, CarriesMonotone
    <3>3. QED
      BY <2>1, <2>2, <3>1, <3>2, SharedKept DEF PhantomInv, SharedCarries
  <2>6. StoringCarries'
    BY <1>1, <2>1 DEF PhantomInv, StoringCarries
  <2>7. MergingCarries'
    BY <1>1, <2>1, <2>2, MergingKept DEF PhantomInv, MergingCarries
  <2>8. QED
    BY <2>3, <2>4, <2>5, <2>6, <2>7 DEF PhantomInv
<1>4. ASSUME NEW s \in Spans, RequestInboundFails(s)
      PROVE  PhantomInv'
  <2>1. /\ phase[s] = "idle" /\ Requested(s)
        /\ phase' = [phase EXCEPT ![s] = "serving"]
        /\ UNCHANGED <<shared, local, header>>
    BY <1>4 DEF RequestInboundFails, Requested
  <2>2. DoneStays
    BY <1>1, <2>1 DEF DoneStays
  <2>3. IdleBelow'
    BY <1>1, <2>1, IdleKept DEF PhantomInv
  <2>4. HeaderCarries'
    BY <2>1 DEF PhantomInv, HeaderCarries
  <2>5. SharedCarries'
    BY <2>1, <2>2, SharedKept DEF PhantomInv, SharedCarries
  <2>6. StoringCarries'
    BY <1>1, <2>1 DEF PhantomInv, StoringCarries
  <2>7. MergingCarries'
    BY <1>1, <2>1, <2>2, MergingKept DEF PhantomInv, MergingCarries
  <2>8. QED
    BY <2>3, <2>4, <2>5, <2>6, <2>7 DEF PhantomInv
<1>5. ASSUME NEW s \in Spans, ResponseInbound(s)
      PROVE  PhantomInv'
  <2> DEFINE n == ServiceOf[s]
             g == AddMe(shared[n], n)
  <2>1. phase[s] = "serving" /\ (Respond(s, g) \/ Respond(s, Default))
    BY <1>5 DEF ResponseInbound, Answers, TryMatch
  <2>2. shared[n] \in FerriedDataType /\ Fetched(s) \in SUBSET Children(s)
    BY <1>1, CallerType DEF Fetched
  <2>3. Carries(g, {s}) /\ g.unassigned = {}
    BY <2>2, AddMeCarries DEF PhantomInv, SharedCarries
  <2>4. Carries(Default, {s}) /\ Default.unassigned = {}
    BY DefaultCarries DEF Default
  <2> HIDE DEF g
  <2>5. QED
    BY <2>1, <2>3, <2>4, RespondKeeps
<1>6. ASSUME NEW s \in Spans, ResponseInboundFails(s)
      PROVE  PhantomInv'
  <2>1. Carries(Default, {s}) /\ Default.unassigned = {}
    BY DefaultCarries DEF Default
  <2>2. QED
    BY <1>6, <2>1, RespondKeeps DEF ResponseInboundFails, Answers
<1>7. ASSUME NEW s \in Spans, ResponseOutbound(s)
      PROVE  PhantomInv'
  <2>1. /\ s # RootSpan /\ phase[s] = "responded"
        /\ phase' = [phase EXCEPT ![s] = "merging"]
        /\ \A t \in Spans : t # s => local'[t] = local[t]
        /\ UNCHANGED <<shared, header>>
    BY <1>1, <1>7 DEF ResponseOutbound, ReadAndMerge
  <2>2. DoneStays
    BY <1>1, <2>1 DEF DoneStays
  <2>3. IdleBelow'
    BY <1>1, <2>1, IdleKept DEF PhantomInv
  <2>4. HeaderCarries'
    BY <2>1 DEF PhantomInv, HeaderCarries
  <2>5. SharedCarries'
    BY <2>1, <2>2, SharedKept DEF PhantomInv, SharedCarries
  <2>6. StoringCarries'
    BY <1>1, <2>1 DEF PhantomInv, StoringCarries
  <2>7. MergingCarries'
    <3>1. Carries(local'[s], Fetched(Parent[s])' \cup {s}) /\ OwnOnly(local'[s], Caller(s))
      <4>1. /\ Carries(local'[s], Fetched(Parent[s]) \cup {s})
            /\ OwnOnly(local'[s], Caller(s))
        BY <1>7, ResponseOutboundCarries
      <4>2. Fetched(Parent[s]) \cup {s} \subseteq Fetched(Parent[s])' \cup {s}
        BY <2>2, FetchedGrows
      <4>3. QED
        BY <4>1, <4>2, CarriesMonotone
    <3>2. QED
      BY <1>1, <2>1, <2>2, <3>1, MergingKept DEF PhantomInv, MergingCarries
  <2>8. QED
    BY <2>3, <2>4, <2>5, <2>6, <2>7 DEF PhantomInv
<1>8. ASSUME NEW s \in Spans, ResponseOutboundStore(s)
      PROVE  PhantomInv'
  <2>1. /\ s # RootSpan /\ phase[s] = "merging"
        /\ phase' = [phase EXCEPT ![s] = "done"]
        /\ \A t \in Spans : t # s => local'[t] = local[t]
        /\ UNCHANGED header
    BY <1>1, <1>8 DEF ResponseOutboundStore, WriteShared
  <2>2. /\ Parent[s] \in Spans /\ Caller(s) = ServiceOf[Parent[s]]
        /\ s \in Children(Parent[s])
    BY <2>1, ChildrenOfSpans DEF Caller
  <2>3. /\ shared'[ServiceOf[Parent[s]]] = local[s]
        /\ \A t \in Spans : t # Parent[s] => shared'[ServiceOf[t]] = shared[ServiceOf[t]]
    BY <1>1, <1>8, <2>2, CallerType
       DEF ResponseOutboundStore, WriteShared, DistinctServices
  <2>4. DoneStays
    BY <1>1, <2>1 DEF DoneStays
  <2>5. IdleBelow'
    BY <1>1, <2>1, IdleKept DEF PhantomInv
  <2>6. HeaderCarries'
    BY <2>1 DEF PhantomInv, HeaderCarries
  <2>7. SharedCarries'
    <3>1. Carries(local[s], Fetched(Parent[s]) \cup {s}) /\ OwnOnly(local[s], Caller(s))
      BY <2>1 DEF PhantomInv, MergingCarries
    <3>2. Fetched(Parent[s]) \cup {s} \subseteq Fetched(Parent[s])'
      BY <1>1, <2>1, <2>2 DEF Fetched, Children
    <3>3. Carries(local[s], Fetched(Parent[s])')
      BY <3>1, <3>2, CarriesMonotone
    <3>4. QED
      BY <2>2, <2>3, <2>4, <3>1, <3>3, SharedKept DEF PhantomInv, SharedCarries
  <2>8. StoringCarries'
    BY <1>1, <2>1 DEF PhantomInv, StoringCarries
  <2>9. MergingCarries'
    BY <1>1, <2>1, <2>4, MergingKept DEF PhantomInv, MergingCarries
  <2>10. QED
    BY <2>5, <2>6, <2>7, <2>8, <2>9 DEF PhantomInv
<1>9. ASSUME NEW s \in Spans, ResponseOutboundFails(s)
      PROVE  PhantomInv'
  <2>1. /\ phase[s] = "responded"
        /\ phase' = [phase EXCEPT ![s] = "done"]
        /\ UNCHANGED <<shared, local, header>>
    BY <1>9 DEF ResponseOutboundFails
  <2>2. DoneStays
    BY <1>1, <2>1 DEF DoneStays
  <2>3. IdleBelow'
    BY <1>1, <2>1, IdleKept DEF PhantomInv
  <2>4. HeaderCarries'
    BY <2>1 DEF PhantomInv, HeaderCarries
  <2>5. SharedCarries'
    BY <2>1, <2>2, SharedKept DEF PhantomInv, SharedCarries
  <2>6. StoringCarries'
    BY <1>1, <2>1 DEF PhantomInv, StoringCarries
  <2>7. MergingCarries'
    BY <1>1, <2>1, <2>2, MergingKept DEF PhantomInv, MergingCarries
  <2>8. QED
    BY <2>3, <2>4, <2>5, <2>6, <2>7 DEF PhantomInv
<1>10. CASE UNCHANGED vars
  BY <1>10 DEF vars, PhantomInv, IdleBelow, HeaderCarries, SharedCarries,
               StoringCarries, MergingCarries, Fetched, Children
<1>11. QED
  BY <1>2, <1>3, <1>4, <1>5, <1>6, <1>7, <1>8, <1>9, <1>10 DEF Next, Hook, Finished

LEMMA PhantomInvImplies == PhantomInv => NoPhantom
<1> SUFFICES ASSUME PhantomInv, NEW s \in Spans
             PROVE  /\ Sound(header[s], Below[s])
                    /\ header[s].unassigned = {}
                    /\ Sound(shared[ServiceOf[s]], Below[s] \ {s})
  BY DEF NoPhantom
<1>1. Sound(header[s], Below[s]) /\ header[s].unassigned = {}
  <2>1. UNION {Below[c] : c \in {s}} = Below[s]
    OBVIOUS
  <2>2. QED
    BY <2>1 DEF PhantomInv, HeaderCarries, Carries
<1>2. Sound(shared[ServiceOf[s]], Below[s] \ {s})
  <2>1. UNION {Below[c] : c \in Fetched(s)} \subseteq Below[s] \ {s}
    BY BelowChildren DEF Fetched
  <2>2. Sound(shared[ServiceOf[s]], UNION {Below[c] : c \in Fetched(s)})
    BY DEF PhantomInv, SharedCarries, Carries
  <2>3. QED
    BY <2>1, <2>2, SoundMonotone
<1>3. QED
  BY <1>1, <1>2

(* No phantom calls, with any number of worker threads, any spans detached  *)
(* and any of the faults: what is lost may be missing from a graph, nothing *)
(* is made up.                                                              *)
THEOREM NoPhantomCalls ==
    ASSUME DistinctServices
    PROVE  Spec => []NoPhantom
<1>1. Init => PhantomInv
  BY PhantomInit
<1>2. TypeOK /\ PhantomInv /\ [Next]_vars => PhantomInv'
  BY PhantomStep
<1>3. PhantomInv => NoPhantom
  BY PhantomInvImplies
<1>4. QED
  BY <1>1, <1>2, <1>3, TypeCorrect, PTL DEF Spec
-----------------------------------------------------------------------------
(***************************************************************************)
(* One worker thread per sidecar: store_data is then atomic.               *)
(***************************************************************************)
(* What is about to be written has all that it is written over. *)
WritesKeep ==
    \A s \in Spans : Writing(s) =>
        NamesIn(shared[At(s)].nodes) \subseteq NamesIn(local[s].nodes)

SerialInv == RootStays /\ OneWriter /\ WritesKeep

(* The three kinds of step: a hook reads and merges, it writes what it has  *)
(* merged, or it leaves the stored data alone.                             *)
LEMMA ReadKeeps ==
    ASSUME TypeOK, SerialInv, Workers = 1, NEW s \in Spans, NEW n \in Services,
           NEW data \in FerriedDataType,
           ~ Writing(s), WorkerFree(n), Moves(s),
           \/ phase'[s] = "storing" /\ n = ServiceOf[s]
           \/ phase'[s] = "merging" /\ n = Caller(s) /\ s # RootSpan,
           ReadAndMerge(s, data, n), UNCHANGED shared
    PROVE  SerialInv'
<1>1. phase \in [Spans -> Phases] /\ local \in [Spans -> FerriedDataType]
      /\ shared \in [Services -> FerriedDataType]
  BY DEF TypeOK
<1>2. \A t \in Spans : t # s => (Writing(t)' <=> Writing(t)) /\ At(t)' = At(t)
  BY <1>1 DEF Writing, At, Moves
<1>3. Writing(s)' /\ At(s)' = n
  BY <1>1 DEF Writing, At, Moves
<1>4. RootStays'
  BY <1>1, TraceAssumption DEF SerialInv, RootStays, Moves
<1>5. OneWriter'
  <2>1. \A t \in Spans : t # s => ~ (Writing(t) /\ At(t) = n)
    BY FreeIsIdle DEF SerialInv
  <2>2. QED
    BY <1>2, <1>3, <2>1 DEF SerialInv, OneWriter
<1>6. WritesKeep'
  <2>1. local'[s] = Merge(data, shared[n])
    BY <1>1 DEF ReadAndMerge
  <2>2. NamesIn(shared[n].nodes) \subseteq NamesIn(local'[s].nodes)
    BY <1>1, <2>1, MergeNames
  <2>3. \A t \in Spans : t # s => local'[t] = local[t]
    BY <1>1 DEF ReadAndMerge
  <2>4. QED
    BY <1>2, <1>3, <2>2, <2>3 DEF SerialInv, WritesKeep
<1>7. QED
  BY <1>4, <1>5, <1>6 DEF SerialInv

LEMMA WriteKeeps ==
    ASSUME TypeOK, SerialInv, NEW s \in Spans,
           Writing(s), Moves(s), phase'[s] \notin {"storing", "merging"},
           s = RootSpan => phase'[s] # "done",
           WriteShared(s, At(s))
    PROVE  /\ SerialInv'
           /\ \A n \in Services : NamesIn(shared[n].nodes) \subseteq NamesIn(shared'[n].nodes)
<1>1. phase \in [Spans -> Phases] /\ local \in [Spans -> FerriedDataType]
      /\ shared \in [Services -> FerriedDataType]
  BY DEF TypeOK
<1>2. \A t \in Spans : t # s => (Writing(t)' <=> Writing(t)) /\ At(t)' = At(t)
  BY <1>1 DEF Writing, At, Moves
<1>3. ~ Writing(s)'
  BY <1>1 DEF Writing
<1>4. RootStays'
  BY <1>1, TraceAssumption DEF SerialInv, RootStays, Moves
<1>5. OneWriter'
  BY <1>2, <1>3 DEF SerialInv, OneWriter
<1>6. /\ \A n \in Services : n # At(s) => shared'[n] = shared[n]
      /\ At(s) \in Services => shared'[At(s)] = local[s]
      /\ \A t \in Spans : t # s => local'[t] = local[t]
  BY <1>1 DEF WriteShared
<1>7. WritesKeep'
  <2>1. ASSUME NEW t \in Spans, Writing(t)'
        PROVE  NamesIn(shared'[At(t)'].nodes) \subseteq NamesIn(local'[t].nodes)
    <3>1. t # s /\ Writing(t) /\ At(t)' = At(t)
      BY <1>2, <1>3, <2>1
    <3>2. At(t) # At(s)
      BY <3>1 DEF SerialInv, OneWriter
    <3>3. At(t) \in Services
      BY AtType DEF SerialInv
    <3>4. QED
      BY <1>6, <3>1, <3>2, <3>3 DEF SerialInv, WritesKeep
  <2>2. QED
    BY <2>1 DEF WritesKeep
<1>8. ASSUME NEW n \in Services
      PROVE  NamesIn(shared[n].nodes) \subseteq NamesIn(shared'[n].nodes)
  BY <1>6 DEF SerialInv, WritesKeep
<1>9. QED
  BY <1>4, <1>5, <1>7, <1>8 DEF SerialInv

LEMMA OtherKeeps ==
    ASSUME TypeOK, SerialInv, NEW s \in Spans,
           ~ Writing(s), Moves(s), phase'[s] \notin {"storing", "merging"},
           s = RootSpan => phase'[s] # "done",
           UNCHANGED <<shared, local>>
    PROVE  SerialInv'
<1>1. phase \in [Spans -> Phases]
  BY DEF TypeOK
<1>2. \A t \in Spans : Writing(t)' => Writing(t) /\ At(t)' = At(t)
  BY <1>1 DEF Writing, At, Moves
<1>3. RootStays'
  BY <1>1, TraceAssumption DEF SerialInv, RootStays, Moves
<1>4. OneWriter'
  BY <1>2 DEF SerialInv, OneWriter
<1>5. WritesKeep'
  BY <1>2 DEF SerialInv, WritesKeep
<1>6. QED
  BY <1>3, <1>4, <1>5 DEF SerialInv

LEMMA SerialInit == Init => SerialInv
<1> SUFFICES ASSUME Init
             PROVE  SerialInv
  OBVIOUS
<1>1. \A s \in Spans : phase[s] = "idle"
  BY DEF Init
<1>2. RootSpan \in Spans
  BY TraceAssumption
<1>3. QED
  BY <1>1, <1>2 DEF SerialInv, RootStays, OneWriter, WritesKeep, Writing

LEMMA SerialStep ==
    ASSUME Workers = 1, TypeOK, SerialInv, [Next]_vars
    PROVE  /\ SerialInv'
           /\ \A n \in Services : NamesIn(shared[n].nodes) \subseteq NamesIn(shared'[n].nodes)
<1> DEFINE Kept ==
        \A n \in Services : NamesIn(shared[n].nodes) \subseteq NamesIn(shared'[n].nodes)
<1>0. UNCHANGED shared => Kept
  OBVIOUS
<1>a. phase \in [Spans -> Phases]
  BY DEF TypeOK
<1> HIDE DEF Kept
<1>1. ASSUME NEW s \in Spans, RequestInbound(s)
      PROVE  SerialInv' /\ Kept
  <2>1. ServiceOf[s] \in Services /\ CollectEnvoyProperties(ServiceOf[s]) \in FerriedDataType
    BY CallerType, CollectedType
  <2>2. ~ Writing(s)
    BY <1>1 DEF RequestInbound, Requested, Writing
  <2>3. /\ WorkerFree(ServiceOf[s])
        /\ ReadAndMerge(s, CollectEnvoyProperties(ServiceOf[s]), ServiceOf[s])
        /\ Moves(s) /\ phase'[s] = "storing"
        /\ UNCHANGED shared
    BY <1>a, <1>1 DEF RequestInbound, Moves
  <2>4. SerialInv'
    BY <2>1, <2>2, <2>3, ReadKeeps
  <2>5. QED
    BY <1>0, <2>3, <2>4
<1>2. ASSUME NEW s \in Spans, RequestInboundStore(s)
      PROVE  SerialInv' /\ Kept
  <2>1. /\ Writing(s) /\ WriteShared(s, At(s))
        /\ Moves(s) /\ phase'[s] = "serving"
    BY <1>a, <1>2 DEF RequestInboundStore, Writing, At, Moves
  <2>2. QED
    BY <2>1, WriteKeeps DEF Kept
<1>3. ASSUME NEW s \in Spans, RequestInboundFails(s)
      PROVE  SerialInv' /\ Kept
  <2>1. /\ ~ Writing(s)
        /\ Moves(s) /\ phase'[s] = "serving"
        /\ UNCHANGED <<shared, local>>
    BY <1>a, <1>3 DEF RequestInboundFails, Requested, Writing, Moves
  <2>2. SerialInv'
    BY <2>1, OtherKeeps
  <2>3. QED
    BY <1>0, <2>1, <2>2
<1>4. ASSUME NEW s \in Spans, ResponseInbound(s)
      PROVE  SerialInv' /\ Kept
  <2>1. /\ ~ Writing(s)
        /\ Moves(s) /\ phase'[s] = "responded"
        /\ UNCHANGED <<shared, local>>
    BY <1>a, <1>4 DEF ResponseInbound, TryMatch, Respond, Answers, Writing, Moves
  <2>2. SerialInv'
    BY <2>1, OtherKeeps
  <2>3. QED
    BY <1>0, <2>1, <2>2
<1>5. ASSUME NEW s \in Spans, ResponseInboundFails(s)
      PROVE  SerialInv' /\ Kept
  <2>1. /\ ~ Writing(s)
        /\ Moves(s) /\ phase'[s] = "responded"
        /\ UNCHANGED <<shared, local>>
    BY <1>a, <1>5 DEF ResponseInboundFails, Respond, Answers, Writing, Moves
  <2>2. SerialInv'
    BY <2>1, OtherKeeps
  <2>3. QED
    BY <1>0, <2>1, <2>2
<1>6. ASSUME NEW s \in Spans, ResponseOutbound(s)
      PROVE  SerialInv' /\ Kept
  <2>1. /\ ~ Writing(s) /\ s # RootSpan
        /\ Caller(s) \in Services /\ header[s] \in FerriedDataType
    BY <1>6, CallerType DEF ResponseOutbound, Writing, TypeOK
  <2>2. /\ WorkerFree(Caller(s))
        /\ ReadAndMerge(s, header[s], Caller(s))
        /\ Moves(s) /\ phase'[s] = "merging"
        /\ UNCHANGED shared
    BY <1>a, <1>6 DEF ResponseOutbound, Moves
  <2>3. SerialInv'
    BY <2>1, <2>2, ReadKeeps
  <2>4. QED
    BY <1>0, <2>2, <2>3
<1>7. ASSUME NEW s \in Spans, ResponseOutboundStore(s)
      PROVE  SerialInv' /\ Kept
  <2>1. /\ Writing(s) /\ WriteShared(s, At(s)) /\ s # RootSpan
        /\ Moves(s) /\ phase'[s] = "done"
    BY <1>a, <1>7 DEF ResponseOutboundStore, Writing, At, Moves
  <2>2. QED
    BY <2>1, WriteKeeps DEF Kept
<1>8. ASSUME NEW s \in Spans, ResponseOutboundFails(s)
      PROVE  SerialInv' /\ Kept
  <2>1. /\ ~ Writing(s) /\ s # RootSpan
        /\ Moves(s) /\ phase'[s] = "done"
        /\ UNCHANGED <<shared, local>>
    BY <1>a, <1>8 DEF ResponseOutboundFails, Writing, Moves
  <2>2. SerialInv'
    BY <2>1, OtherKeeps
  <2>3. QED
    BY <1>0, <2>1, <2>2
<1>9. CASE UNCHANGED vars
  BY <1>0, <1>9 DEF vars, SerialInv, RootStays, OneWriter, WritesKeep, Writing, At, Kept
<1>10. ASSUME NEW s \in Spans, Hook(s)
       PROVE  SerialInv' /\ Kept
  BY <1>1, <1>2, <1>3, <1>4, <1>5, <1>6, <1>7, <1>8, <1>10 DEF Hook
<1>11. QED
  BY <1>9, <1>10 DEF Next, Finished, Kept

(* "Merge with data that is already present": with one worker thread per    *)
(* sidecar nothing that store_data has stored is lost by a later write,     *)
(* whatever fails, whichever spans are detached, and also when a service    *)
(* is called more than once.  (The run with two threads shows the loss.)    *)
THEOREM StoreKeeps ==
    ASSUME Workers = 1
    PROVE  Spec => StoreKeepsNodes
<1>1. Init => SerialInv
  BY SerialInit
<1>2. TypeOK /\ SerialInv /\ [Next]_vars => SerialInv'
  BY SerialStep
<1>3. TypeOK /\ SerialInv /\ [Next]_vars =>
        [\A n \in Services : NamesIn(shared[n].nodes) \subseteq NamesIn(shared'[n].nodes)]_vars
  BY SerialStep
<1>4. QED
  BY <1>1, <1>2, <1>3, TypeCorrect, PTL DEF Spec, StoreKeepsNodes
-----------------------------------------------------------------------------
(***************************************************************************)
(* Without failures, and with one worker thread per sidecar, the response  *)
(* of a span carries everything that happened during it.                   *)
(***************************************************************************)
(* Every node got its property. *)
Valued(fd) == \A i \in DOMAIN fd.nodes : fd.nodes[i].value # NoValue

Answered(s) == phase[s] \in {"responded", "merging", "done"}

HeaderComplete ==
    \A s \in Spans : Valued(header[s]) /\ (Answered(s) => Complete(header[s], s))

SharedComplete ==
    \A s \in Spans :
        /\ Valued(shared[ServiceOf[s]])
        /\ phase[s] \notin {"idle", "storing"} =>
               OwnWaits(shared[ServiceOf[s]], ServiceOf[s])
        /\ \A c \in Fetched(s) : Complete(shared[ServiceOf[s]], c)

WritesComplete ==
    \A s \in Spans : Writing(s) =>
        /\ Valued(local[s])
        /\ OwnWaits(local[s], At(s))
        /\ phase[s] = "merging" =>
               \A c \in Fetched(Parent[s]) \cup {s} : Complete(local[s], c)

CompleteInv == HeaderComplete /\ SharedComplete /\ WritesComplete

LEMMA MergeValued ==
    ASSUME NEW a \in FerriedDataType, NEW b \in FerriedDataType, Valued(a), Valued(b)
    PROVE  Valued(Merge(a, b))
<1> DEFINE both == a.nodes \o b.nodes
           m == Merge(a, b)
<1>1. a.nodes \in Seq(Node) /\ b.nodes \in Seq(Node)
  BY DEF FerriedDataType
<1>2. /\ \A i \in DOMAIN a.nodes : i \in DOMAIN both /\ both[i] = a.nodes[i]
      /\ \A k \in DOMAIN b.nodes :
            k + Len(a.nodes) \in DOMAIN both /\ both[k + Len(a.nodes)] = b.nodes[k]
      /\ \A i \in DOMAIN both : i \notin DOMAIN a.nodes =>
            \E k \in DOMAIN b.nodes : i = k + Len(a.nodes)
  BY <1>1, ConcatPositions, Zenon
<1>3. /\ DOMAIN m.nodes = DOMAIN both
      /\ \A i \in DOMAIN both :
            /\ m.nodes[i].name = both[i].name
            /\ \/ m.nodes[i].value = both[i].value
               \/ \E p \in a.unassigned \cup b.unassigned :
                    p.entity = m.nodes[i].name /\ p.value = m.nodes[i].value
  BY MergeNodes, Zenon
<1>4. \A p \in a.unassigned \cup b.unassigned : p.value # NoValue
  BY NoValueAssumption DEF FerriedDataType, Property
<1> HIDE DEF m, both
<1>5. \A i \in DOMAIN both : both[i].value # NoValue
  BY <1>2 DEF Valued
<1>6. \A i \in DOMAIN m.nodes : m.nodes[i].value # NoValue
  BY <1>3, <1>4, <1>5
<1>7. QED
  BY <1>6 DEF Valued, m

LEMMA AddMeValued ==
    ASSUME NEW fd \in FerriedDataType, NEW me \in Services, me \notin NamesIn(fd.nodes),
           Valued(fd), OwnWaits(fd, me)
    PROVE  Valued(AddMe(fd, me))
<1> DEFINE g == AddMe(fd, me)
           n == Len(fd.nodes)
<1>1. /\ n \in Nat
      /\ DOMAIN fd.nodes = 1 .. n
      /\ DOMAIN g.nodes = 1 .. n + 1
      /\ \A i \in DOMAIN fd.nodes :
            \/ g.nodes[i].value = fd.nodes[i].value
            \/ \E p \in fd.unassigned : p.value = g.nodes[i].value
  BY AddMeNodes
<1>2. \E p \in fd.unassigned : g.nodes[n + 1].value = p.value
  BY AddMeAssigns DEF OwnWaits
<1>3. \A p \in fd.unassigned : p.value # NoValue
  BY NoValueAssumption DEF FerriedDataType, Property
<1> HIDE DEF g, n
<1>4. \A i \in DOMAIN g.nodes : i \in DOMAIN fd.nodes \/ i = n + 1
  BY <1>1
<1>5. \A i \in DOMAIN g.nodes : g.nodes[i].value # NoValue
  BY <1>1, <1>2, <1>3, <1>4 DEF Valued
<1>6. QED
  BY <1>5 DEF Valued, g

(* The sidecar of a span never fetches its own service's node. *)
LEMMA CarriesNotOwn ==
    ASSUME DistinctServices, NEW s \in Spans, NEW C \in SUBSET Children(s), NEW fd,
           Carries(fd, C)
    PROVE  ServiceOf[s] \notin NamesIn(fd.nodes) /\ Sound(fd, Below[s] \ {s})
<1>1. UNION {Below[c] : c \in C} \subseteq Below[s] \ {s}
  BY BelowChildren
<1>2. Sound(fd, Below[s] \ {s})
  BY <1>1, SoundMonotone DEF Carries
<1>3. ASSUME NEW i \in DOMAIN fd.nodes, fd.nodes[i].name = ServiceOf[s]
      PROVE  FALSE
  <2>1. PICK t \in Below[s] \ {s} : ServiceOf[t] = fd.nodes[i].name
    BY <1>2 DEF Sound
  <2>2. t \in Spans
    BY BelowClosed
  <2>3. QED
    BY <1>3, <2>1, <2>2 DEF DistinctServices
<1>4. QED
  BY <1>2, <1>3 DEF NamesIn

LEMMA EmptyValued == Valued(Default)
BY DEF Valued, Default

(* A request hook's own property waits in what it is about to store. *)
LEMMA RequestInboundComplete ==
    ASSUME DistinctServices, TypeOK, PhantomInv, CompleteInv,
           NEW s \in Spans, RequestInbound(s)
    PROVE  Valued(local'[s]) /\ OwnWaits(local'[s], ServiceOf[s])
<1> DEFINE n == ServiceOf[s]
           data == CollectEnvoyProperties(n)
<1>1. n \in Services /\ data \in FerriedDataType /\ shared[n] \in FerriedDataType
  BY CallerType, CollectedType DEF TypeOK
<1>2. data.nodes = <<>> /\ data.unassigned = {[entity |-> n, value |-> PropertyOf[n]]}
  BY DEF CollectEnvoyProperties, Default
<1>3. local'[s] = Merge(data, shared[n])
  BY DEF RequestInbound, ReadAndMerge, TypeOK
<1> HIDE DEF data
<1>4. OwnWaits(data, n)
  BY <1>2 DEF OwnWaits
<1>5. DOMAIN data.nodes = {}
  BY <1>2
<1>6. Valued(data) /\ n \notin NamesIn(data.nodes)
  BY <1>5 DEF Valued, NamesIn
<1>7. n \notin NamesIn(shared[n].nodes)
  <2>1. Carries(shared[n], Fetched(s)) /\ Fetched(s) \in SUBSET Children(s)
    BY DEF PhantomInv, SharedCarries, Fetched
  <2>2. QED
    BY <2>1, CarriesNotOwn
<1>8. Valued(shared[n])
  BY DEF CompleteInv, SharedComplete
<1>9. QED
  BY <1>1, <1>3, <1>4, <1>6, <1>7, <1>8, MergeValued, MergeWaits

LEMMA ResponseOutboundComplete ==
    ASSUME DistinctServices, TypeOK, PhantomInv, CompleteInv,
           NEW s \in Spans, ResponseOutbound(s)
    PROVE  /\ Valued(local'[s])
           /\ OwnWaits(local'[s], Caller(s))
           /\ \A c \in Fetched(Parent[s]) \cup {s} : Complete(local'[s], c)
<1> DEFINE t == Parent[s]
           n == Caller(s)
<1>1. s \in Spans \ {RootSpan} /\ phase[s] = "responded"
  BY DEF ResponseOutbound
<1>2. /\ t \in Spans /\ s \in Children(t) /\ n = ServiceOf[t] /\ n \in Services
      /\ header[s] \in FerriedDataType /\ shared[n] \in FerriedDataType
  BY <1>1, CallerType, ChildrenOfSpans DEF Caller, TypeOK
<1>3. local'[s] = Merge(header[s], shared[n])
  BY DEF ResponseOutbound, ReadAndMerge, TypeOK
<1>4. /\ Carries(header[s], {s}) /\ Owned(header[s])
      /\ Carries(shared[n], Fetched(t)) /\ Owned(shared[n])
  BY <1>2, OwnIsOwned DEF PhantomInv, HeaderCarries, SharedCarries, Owned
<1>5. n \notin NamesIn(header[s].nodes) /\ n \notin NamesIn(shared[n].nodes)
  <2>1. {s} \in SUBSET Children(t) /\ Fetched(t) \in SUBSET Children(t)
    BY <1>2 DEF Fetched
  <2>2. QED
    BY <1>2, <1>4, <2>1, CarriesNotOwn
<1>6. Valued(header[s]) /\ Complete(header[s], s)
  BY <1>1 DEF CompleteInv, HeaderComplete, Answered
<1>7. phase[t] \notin {"idle", "storing"}
  BY <1>1, <1>2 DEF PhantomInv, IdleBelow
<1>8. /\ Valued(shared[n]) /\ OwnWaits(shared[n], n)
      /\ \A c \in Fetched(t) : Complete(shared[n], c)
  BY <1>2, <1>7 DEF CompleteInv, SharedComplete
<1>9. Valued(local'[s]) /\ OwnWaits(local'[s], n)
  BY <1>2, <1>3, <1>5, <1>6, <1>8, MergeValued, MergeWaits
<1>10. ASSUME NEW c \in Fetched(t) \cup {s}
       PROVE  Complete(local'[s], c)
  <2>1. PICK S : Sound(Merge(header[s], shared[n]), S)
    BY <1>3, ResponseOutboundCarries DEF Carries
  <2>2. c \in Spans
    BY DEF Fetched, Children
  <2>3. Complete(header[s], c) \/ Complete(shared[n], c)
    BY <1>6, <1>8
  <2>4. QED
    BY <1>2, <1>3, <1>4, <2>1, <2>2, <2>3, MergeComplete
<1>11. QED
  BY <1>9, <1>10

(* The response hook has the whole story, so what it sends has a value. *)
LEMMA ResponseInboundComplete ==
    ASSUME DistinctServices, TypeOK, PhantomInv, CompleteInv,
           NEW s \in Spans, ResponseInbound(s)
    PROVE  \E data : Respond(s, data) /\ Valued(data) /\ Complete(data, s)
<1> DEFINE n == ServiceOf[s]
           fd == shared[n]
           g == AddMe(fd, n)
<1>1. n \in Services /\ fd \in FerriedDataType
  BY CallerType DEF TypeOK
<1>2. phase[s] = "serving" /\ Children(s) \ Detached \subseteq Fetched(s)
  BY DEF ResponseInbound, Answers, Fetched
<1>3. TryMatch(s, g)
  BY DEF ResponseInbound
<1>4. Carries(fd, Fetched(s)) /\ Owned(fd) /\ Fetched(s) \in SUBSET Children(s)
  BY OwnIsOwned DEF PhantomInv, SharedCarries, Fetched
<1>5. n \notin NamesIn(fd.nodes) /\ Sound(fd, Below[s] \ {s})
  BY <1>4, CarriesNotOwn
<1>6. /\ Valued(fd) /\ OwnWaits(fd, n)
      /\ \A c \in Fetched(s) : Complete(fd, c)
  BY <1>2 DEF CompleteInv, SharedComplete
<1>7. Valued(g)
  BY <1>1, <1>5, <1>6, AddMeValued
<1>8. Complete(g, s)
  BY <1>1, <1>2, <1>4, <1>5, <1>6, AddMeComplete DEF OwnWaits
<1> HIDE DEF g
<1>9. Respond(s, g)
  BY <1>3, <1>7 DEF TryMatch, GetValueForStorage, Valued
<1>10. QED
  BY <1>7, <1>8, <1>9

LEMMA CompleteInit == Init => CompleteInv
<1> SUFFICES ASSUME Init
             PROVE  CompleteInv
  OBVIOUS
<1>1. \A s \in Spans : /\ phase[s] = "idle" /\ header[s] = Default
                        /\ shared[ServiceOf[s]] = Default
  BY CallerType DEF Init
<1>2. HeaderComplete
  BY <1>1, EmptyValued DEF HeaderComplete, Answered
<1>3. SharedComplete
  BY <1>1, EmptyValued DEF SharedComplete, Fetched, Children
<1>4. WritesComplete
  BY <1>1 DEF WritesComplete, Writing
<1>5. QED
  BY <1>2, <1>3, <1>4 DEF CompleteInv

(* A step after which a span is done writes what was fetched of it. *)
LEMMA CompleteStep ==
    ASSUME DistinctServices, Workers = 1, Faults = {},
           TypeOK, SerialInv, PhantomInv, CompleteInv, [Next]_vars
    PROVE  CompleteInv'
<1>1. /\ phase \in [Spans -> Phases] /\ local \in [Spans -> FerriedDataType]
      /\ shared \in [Services -> FerriedDataType] /\ header \in [Spans -> FerriedDataType]
  BY DEF TypeOK
<1>2. ASSUME NEW s \in Spans, RequestInbound(s)
      PROVE  CompleteInv'
  <2>1. /\ phase[s] = "idle" /\ Moves(s) /\ phase'[s] = "storing"
        /\ \A t \in Spans : t # s => local'[t] = local[t]
        /\ UNCHANGED <<shared, header>>
    BY <1>1, <1>2 DEF RequestInbound, Requested, ReadAndMerge, Moves
  <2>2. \A t \in Spans : Fetched(t)' = Fetched(t)
    BY <2>1 DEF Fetched, Children, Moves
  <2>3. HeaderComplete'
    BY <2>1 DEF CompleteInv, HeaderComplete, Answered, Moves
  <2>4. SharedComplete'
    BY <2>1, <2>2 DEF CompleteInv, SharedComplete, Moves
  <2>5. WritesComplete'
    <3>1. Valued(local'[s]) /\ OwnWaits(local'[s], ServiceOf[s])
      BY <1>2, RequestInboundComplete
    <3>2. At(s)' = ServiceOf[s]
      BY <2>1 DEF At
    <3>3. ASSUME NEW t \in Spans, t # s, Writing(t)'
          PROVE  /\ Writing(t) /\ At(t)' = At(t) /\ local'[t] = local[t]
                 /\ phase'[t] = "merging" =>
                      phase[t] = "merging" /\ Fetched(Parent[t])' = Fetched(Parent[t])
      <4>1. phase[t] = "merging" => t \in Spans \ {RootSpan} /\ Parent[t] \in Spans
        BY TraceAssumption DEF SerialInv, RootStays
      <4>2. QED
        BY <2>1, <2>2, <3>3, <4>1 DEF Writing, At, Moves
    <3>4. QED
      BY <2>1, <3>1, <3>2, <3>3 DEF CompleteInv, WritesComplete
  <2>6. QED
    BY <2>3, <2>4, <2>5 DEF CompleteInv
<1>3. ASSUME NEW s \in Spans, RequestInboundStore(s)
      PROVE  CompleteInv'
  <2>1. /\ phase[s] = "storing" /\ Moves(s) /\ phase'[s] = "serving"
        /\ \A t \in Spans : t # s => local'[t] = local[t]
        /\ shared'[ServiceOf[s]] = local[s]
        /\ \A t \in Spans : t # s => shared'[ServiceOf[t]] = shared[ServiceOf[t]]
        /\ UNCHANGED header
    BY <1>1, <1>3, CallerType DEF RequestInboundStore, WriteShared, DistinctServices, Moves
  <2>2. \A t \in Spans : Fetched(t)' = Fetched(t)
    BY <2>1 DEF Fetched, Children, Moves
  <2>3. HeaderComplete'
    BY <2>1 DEF CompleteInv, HeaderComplete, Answered, Moves
  <2>4. SharedComplete'
    <3>1. Valued(local[s]) /\ OwnWaits(local[s], ServiceOf[s])
      BY <2>1 DEF CompleteInv, WritesComplete, Writing, At
    <3>2. Fetched(s) = {}
      BY <2>1 DEF PhantomInv, IdleBelow, Fetched
    <3>3. QED
      BY <2>1, <2>2, <3>1, <3>2 DEF CompleteInv, SharedComplete, Moves
  <2>5. WritesComplete'
    <3>1. ASSUME NEW t \in Spans, Writing(t)'
          PROVE  /\ Writing(t) /\ At(t)' = At(t) /\ local'[t] = local[t]
                 /\ phase'[t] = "merging" =>
                      phase[t] = "merging" /\ Fetched(Parent[t])' = Fetched(Parent[t])
      <4>1. t # s
        BY <2>1, <3>1 DEF Writing
      <4>2. phase[t] = "merging" => t \in Spans \ {RootSpan} /\ Parent[t] \in Spans
        BY TraceAssumption DEF SerialInv, RootStays
      <4>3. QED
        BY <2>1, <2>2, <3>1, <4>1, <4>2 DEF Writing, At, Moves
    <3>2. QED
      BY <3>1 DEF CompleteInv, WritesComplete
  <2>6. QED
    BY <2>3, <2>4, <2>5 DEF CompleteInv
<1>4. ASSUME NEW s \in Spans, ResponseInbound(s)
      PROVE  CompleteInv'
  <2>1. PICK data : Respond(s, data) /\ Valued(data) /\ Complete(data, s)
    BY <1>4, ResponseInboundComplete
  <2>2. /\ phase[s] = "serving" /\ Moves(s) /\ phase'[s] = "responded"
        /\ header'[s] = data
        /\ \A t \in Spans : t # s => header'[t] = header[t]
        /\ UNCHANGED <<shared, local>>
    BY <1>1, <1>4, <2>1 DEF ResponseInbound, Answers, Respond, Moves
  <2>3. \A t \in Spans : Fetched(t)' = Fetched(t)
    BY <2>2 DEF Fetched, Children, Moves
  <2>4. HeaderComplete'
    BY <2>1, <2>2 DEF CompleteInv, HeaderComplete, Answered, Moves
  <2>5. SharedComplete'
    BY <2>2, <2>3 DEF CompleteInv, SharedComplete, Moves
  <2>6. WritesComplete'
    <3>1. ASSUME NEW t \in Spans, Writing(t)'
          PROVE  /\ Writing(t) /\ At(t)' = At(t)
                 /\ phase'[t] = "merging" =>
                      phase[t] = "merging" /\ Fetched(Parent[t])' = Fetched(Parent[t])
      <4>1. t # s
        BY <2>2, <3>1 DEF Writing
      <4>2. phase[t] = "merging" => t \in Spans \ {RootSpan} /\ Parent[t] \in Spans
        BY TraceAssumption DEF SerialInv, RootStays
      <4>3. QED
        BY <2>2, <2>3, <3>1, <4>1, <4>2 DEF Writing, At, Moves
    <3>2. QED
      BY <2>2, <3>1 DEF CompleteInv, WritesComplete
  <2>7. QED
    BY <2>4, <2>5, <2>6 DEF CompleteInv
<1>5. ASSUME NEW s \in Spans, ResponseOutbound(s)
      PROVE  CompleteInv'
  <2>1. /\ s # RootSpan /\ phase[s] = "responded" /\ Moves(s) /\ phase'[s] = "merging"
        /\ \A t \in Spans : t # s => local'[t] = local[t]
        /\ UNCHANGED <<shared, header>>
    BY <1>1, <1>5 DEF ResponseOutbound, ReadAndMerge, Moves
  <2>2. \A t \in Spans : Fetched(t)' = Fetched(t)
    BY <2>1 DEF Fetched, Children, Moves
  <2>3. HeaderComplete'
    BY <2>1 DEF CompleteInv, HeaderComplete, Answered, Moves
  <2>4. SharedComplete'
    BY <2>1, <2>2 DEF CompleteInv, SharedComplete, Moves
  <2>5. WritesComplete'
    <3>1. /\ Valued(local'[s]) /\ OwnWaits(local'[s], Caller(s))
          /\ \A c \in Fetched(Parent[s]) \cup {s} : Complete(local'[s], c)
      BY <1>5, ResponseOutboundComplete
    <3>2. At(s)' = Caller(s) /\ Fetched(Parent[s])' = Fetched(Parent[s])
      BY <2>1, <2>2, TraceAssumption DEF At
    <3>3. ASSUME NEW t \in Spans, t # s, Writing(t)'
          PROVE  /\ Writing(t) /\ At(t)' = At(t) /\ local'[t] = local[t]
                 /\ phase'[t] = "merging" =>
                      phase[t] = "merging" /\ Fetched(Parent[t])' = Fetched(Parent[t])
      <4>1. phase[t] = "merging" => t \in Spans \ {RootSpan} /\ Parent[t] \in Spans
        BY TraceAssumption DEF SerialInv, RootStays
      <4>2. QED
        BY <2>1, <2>2, <3>3, <4>1 DEF Writing, At, Moves
    <3>4. QED
      BY <2>1, <3>1, <3>2, <3>3 DEF CompleteInv, WritesComplete
  <2>6. QED
    BY <2>3, <2>4, <2>5 DEF CompleteInv
<1>6. ASSUME NEW s \in Spans, ResponseOutboundStore(s)
      PROVE  CompleteInv'
  <2>1. /\ s # RootSpan /\ phase[s] = "merging" /\ Moves(s) /\ phase'[s] = "done"
        /\ \A t \in Spans : t # s => local'[t] = local[t]
        /\ UNCHANGED header
    BY <1>1, <1>6 DEF ResponseOutboundStore, WriteShared, Moves
  <2>2. /\ Parent[s] \in Spans /\ Caller(s) = ServiceOf[Parent[s]]
        /\ s \in Children(Parent[s])
    BY <2>1, ChildrenOfSpans DEF Caller
  <2>3. /\ shared'[ServiceOf[Parent[s]]] = local[s]
        /\ \A t \in Spans : t # Parent[s] => shared'[ServiceOf[t]] = shared[ServiceOf[t]]
    BY <1>1, <1>6, <2>2, CallerType
       DEF ResponseOutboundStore, WriteShared, DistinctServices
  <2>4. /\ Fetched(Parent[s])' \subseteq Fetched(Parent[s]) \cup {s}
        /\ \A t \in Spans : t # Parent[s] => Fetched(t)' = Fetched(t)
    BY <2>1 DEF Fetched, Children, Moves
  <2>5. HeaderComplete'
    BY <2>1 DEF CompleteInv, HeaderComplete, Answered, Moves
  <2>6. SharedComplete'
    <3>1. /\ Valued(local[s]) /\ OwnWaits(local[s], Caller(s))
          /\ \A c \in Fetched(Parent[s]) \cup {s} : Complete(local[s], c)
      BY <2>1 DEF CompleteInv, WritesComplete, Writing, At
    <3>2. ASSUME NEW t \in Spans
          PROVE  /\ Valued(shared'[ServiceOf[t]])
                 /\ phase'[t] \notin {"idle", "storing"} =>
                        OwnWaits(shared'[ServiceOf[t]], ServiceOf[t])
                 /\ \A c \in Fetched(t)' : Complete(shared'[ServiceOf[t]], c)
      <4>1. CASE t = Parent[s]
        BY <2>2, <2>3, <2>4, <3>1, <4>1
      <4>2. CASE t # Parent[s]
        <5>1. phase'[t] \notin {"idle", "storing"} => phase[t] \notin {"idle", "storing"}
          BY <2>1 DEF Moves
        <5>2. shared'[ServiceOf[t]] = shared[ServiceOf[t]] /\ Fetched(t)' = Fetched(t)
          BY <2>3, <2>4, <4>2
        <5>3. QED
          BY <5>1, <5>2 DEF CompleteInv, SharedComplete
      <4>3. QED
        BY <4>1, <4>2
    <3>3. QED
      BY <3>2 DEF SharedComplete
  <2>7. WritesComplete'
    <3>1. ASSUME NEW t \in Spans, Writing(t)'
          PROVE  /\ Writing(t) /\ At(t)' = At(t) /\ local'[t] = local[t]
                 /\ phase'[t] = "merging" =>
                      phase[t] = "merging" /\ Fetched(Parent[t])' = Fetched(Parent[t])
      <4>1. t # s
        BY <2>1, <3>1 DEF Writing
      <4>2. phase[t] = "merging" => t \in Spans \ {RootSpan} /\ Parent[t] \in Spans
        BY TraceAssumption DEF SerialInv, RootStays
      <4>3. phase[t] = "merging" => Parent[t] # Parent[s]
        BY <2>1, <2>2, <4>1 DEF SerialInv, OneWriter, Writing, At, Caller
      <4>4. QED
        BY <2>1, <2>4, <3>1, <4>1, <4>2, <4>3 DEF Writing, At, Moves
    <3>2. QED
      BY <3>1 DEF CompleteInv, WritesComplete
  <2>8. QED
    BY <2>5, <2>6, <2>7 DEF CompleteInv
<1>7. ASSUME NEW s \in Spans,
             RequestInboundFails(s) \/ ResponseInboundFails(s) \/ ResponseOutboundFails(s)
      PROVE  FALSE
  BY <1>7 DEF RequestInboundFails, ResponseInboundFails, ResponseOutboundFails
<1>8. CASE UNCHANGED vars
  BY <1>8 DEF vars, CompleteInv, HeaderComplete, SharedComplete, WritesComplete,
              Answered, Writing, At, Fetched, Children
<1>9. QED
  BY <1>2, <1>3, <1>4, <1>5, <1>6, <1>7, <1>8 DEF Next, Hook, Finished

(* The response of a span carries everything that happened during it, every *)
(* service with its property and under the service that called it: with one *)
(* worker thread per sidecar and no failures, whatever the hooks' order and *)
(* whichever spans are detached.                                           *)
THEOREM ResponsesAreComplete ==
    ASSUME DistinctServices, Workers = 1, Faults = {}
    PROVE  Spec => []ResponseComplete
<1>1. Init => SerialInv /\ PhantomInv /\ CompleteInv
  BY SerialInit, PhantomInit, CompleteInit
<1>2. /\ TypeOK /\ SerialInv /\ PhantomInv /\ CompleteInv
      /\ [Next]_vars
      => (SerialInv /\ PhantomInv /\ CompleteInv)'
  BY SerialStep, PhantomStep, CompleteStep
<1>3. CompleteInv => ResponseComplete
  BY DEF CompleteInv, HeaderComplete, Answered, ResponseComplete
<1>4. QED
  BY <1>1, <1>2, <1>3, TypeCorrect, PTL DEF Spec

-----------------------------------------------------------------------------
AnsweredPhases == {"responded", "merging", "done"}

(* What a step does to the phases and to the calls to storage.             *)
Starts(s, p) ==
    /\ Requested(s)
    /\ p \in {"storing", "serving"}
    /\ phase' = [phase EXCEPT ![s] = p]
    /\ calls' = calls

GoesOn(s, p) ==
    /\ \/ phase[s] = "storing" /\ p = "serving"
       \/ phase[s] \in AnsweredPhases /\ p \in AnsweredPhases
    /\ phase' = [phase EXCEPT ![s] = p]
    /\ calls' = calls

ReportsAt(s, v) ==
    LET n == ServiceOf[s]
        g == AddMe(shared[n], n)
    IN  /\ v \in DOMAIN g.nodes
        /\ Matched(n, g, v)
        /\ g.nodes[v].value # NoValue
        /\ calls' = Append(calls, g.nodes[v].value)

LeavesWith(s) ==
    /\ Answers(s)
    /\ phase' = [phase EXCEPT ![s] = "responded"]
    /\ calls' = calls \/ \E v : ReportsAt(s, v)

LEMMA PhaseSteps ==
    ASSUME [Next]_vars
    PROVE  \/ \E s \in Spans : LeavesWith(s) \/ \E p : Starts(s, p) \/ GoesOn(s, p)
           \/ phase' = phase /\ calls' = calls
<1>1. ASSUME NEW s \in Spans, Hook(s)
      PROVE  LeavesWith(s) \/ \E p : Starts(s, p) \/ GoesOn(s, p)
  <2>1. CASE RequestInbound(s)
    BY <2>1 DEF RequestInbound, Starts
  <2>2. CASE RequestInboundStore(s)
    BY <2>2 DEF RequestInboundStore, GoesOn
  <2>3. CASE RequestInboundFails(s)
    BY <2>3 DEF RequestInboundFails, Starts
  <2>4. CASE ResponseInbound(s)
    <3> DEFINE g == AddMe(shared[ServiceOf[s]], ServiceOf[s])
    <3>1. Answers(s) /\ TryMatch(s, g)
      BY <2>4 DEF ResponseInbound
    <3> HIDE DEF g
    <3>2. phase' = [phase EXCEPT ![s] = "responded"]
      BY <3>1 DEF TryMatch, Respond
    <3>3. calls' = calls \/ \E v \in DOMAIN g.nodes :
            /\ Matched(ServiceOf[s], g, v)
            /\ g.nodes[v].value # NoValue
            /\ calls' = Append(calls, g.nodes[v].value)
      BY <3>1 DEF TryMatch, SendToStorage, GetValueForStorage
    <3>4. calls' = calls \/ \E v : ReportsAt(s, v)
      BY <3>3 DEF ReportsAt, g
    <3>5. QED
      BY <3>1, <3>2, <3>4 DEF LeavesWith
  <2>5. CASE ResponseInboundFails(s)
    BY <2>5 DEF ResponseInboundFails, Respond, LeavesWith
  <2>6. CASE ResponseOutbound(s)
    BY <2>6 DEF ResponseOutbound, GoesOn, AnsweredPhases
  <2>7. CASE ResponseOutboundStore(s)
    BY <2>7 DEF ResponseOutboundStore, GoesOn, AnsweredPhases
  <2>8. CASE ResponseOutboundFails(s)
    BY <2>8 DEF ResponseOutboundFails, GoesOn, AnsweredPhases
  <2>9. QED
    BY <1>1, <2>1, <2>2, <2>3, <2>4, <2>5, <2>6, <2>7, <2>8 DEF Hook
<1>2. CASE UNCHANGED vars
  BY <1>2 DEF vars
<1>3. QED
  BY <1>1, <1>2 DEF Next, Finished
-----------------------------------------------------------------------------
(* One report for a trace: only the reporter's sidecar reports, with the    *)
(* response of its one span.                                                *)
ReporterAnswered ==
    \E s \in Spans : ServiceOf[s] = Reporter /\ phase[s] \in AnsweredPhases

OnceInv == calls = <<>> \/ (Len(calls) = 1 /\ ReporterAnswered)

LEMMA OnceStep ==
    ASSUME DistinctServices, TypeOK, OnceInv, [Next]_vars
    PROVE  OnceInv'
<1>1. phase \in [Spans -> Phases] /\ calls \in Seq(Values)
  BY DEF TypeOK
<1>2. ASSUME NEW s \in Spans, LeavesWith(s)
      PROVE  OnceInv'
  <2>1. phase[s] = "serving" /\ phase' = [phase EXCEPT ![s] = "responded"]
    BY <1>2 DEF LeavesWith, Answers
  <2>2. CASE calls' = calls
    <3>1. ReporterAnswered => ReporterAnswered'
      BY <1>1, <2>1 DEF ReporterAnswered, AnsweredPhases
    <3>2. QED
      BY <2>2, <3>1 DEF OnceInv
  <2>3. ASSUME NEW v, ReportsAt(s, v)
        PROVE  OnceInv'
    <3>1. ServiceOf[s] = Reporter /\ \E x : calls' = Append(calls, x)
      BY <2>3 DEF ReportsAt, Matched
    <3>2. ~ ReporterAnswered
      BY <1>1, <2>1, <3>1 DEF ReporterAnswered, DistinctServices, AnsweredPhases
    <3>3. calls = <<>>
      BY <3>2 DEF OnceInv
    <3>4. Len(calls') = 1
      BY <3>1, <3>3
    <3>5. ReporterAnswered'
      BY <1>1, <2>1, <3>1 DEF ReporterAnswered, AnsweredPhases
    <3>6. QED
      BY <3>4, <3>5 DEF OnceInv
  <2>4. QED
    BY <1>2, <2>2, <2>3 DEF LeavesWith
<1>3. ASSUME NEW s \in Spans, NEW p, Starts(s, p) \/ GoesOn(s, p)
      PROVE  OnceInv'
  <2>1. ReporterAnswered => ReporterAnswered'
    BY <1>1, <1>3 DEF ReporterAnswered, AnsweredPhases, Starts, GoesOn, Requested
  <2>2. QED
    BY <1>3, <2>1 DEF OnceInv, Starts, GoesOn
<1>4. CASE phase' = phase /\ calls' = calls
  BY <1>4 DEF OnceInv, ReporterAnswered
<1>5. QED
  BY <1>2, <1>3, <1>4, PhaseSteps

(* A trace is reported at most once, whatever is lost and however hooks     *)
(* interleave: the reporter tries the match when its own response leaves.   *)
THEOREM ReportedOnce ==
    ASSUME DistinctServices
    PROVE  Spec => []ReportsOnce
<1>1. Init => OnceInv
  BY DEF Init, OnceInv
<1>2. TypeOK /\ OnceInv /\ [Next]_vars => OnceInv'
  BY OnceStep
<1>3. OnceInv => ReportsOnce
  <2>1. Len(<<>>) = 0 /\ 0 <= 1 /\ 1 <= 1
    OBVIOUS
  <2>2. QED
    BY <2>1 DEF OnceInv, ReportsOnce
<1>4. QED
  BY <1>1, <1>2, <1>3, TypeCorrect, PTL DEF Spec
-----------------------------------------------------------------------------
(* No graph has a node of a service that was not called yet.  With         *)
(* PhantomInv, a graph is then one of the trace as it is now, and not only *)
(* of what it may become.                                                  *)
NamesCalled ==
    /\ \A n \in Services : NamesIn(shared[n].nodes) \subseteq CalledNames
    /\ \A s \in Spans : NamesIn(local[s].nodes) \subseteq CalledNames
    /\ \A s \in Spans : NamesIn(header[s].nodes) \subseteq CalledNames

LEMMA CalledGrows ==
    ASSUME TypeOK, [Next]_vars
    PROVE  CalledSpans \subseteq CalledSpans' /\ CalledNames \subseteq CalledNames'
<1>1. phase \in [Spans -> Phases]
  BY DEF TypeOK
<1>2. \A s \in Spans : phase[s] # "idle" => phase'[s] # "idle"
  BY <1>1, PhaseSteps DEF Starts, GoesOn, LeavesWith, AnsweredPhases
<1>3. QED
  BY <1>2 DEF CalledSpans, CalledNames

LEMMA NamesCalledStep ==
    ASSUME TypeOK, NamesCalled, [Next]_vars
    PROVE  NamesCalled'
<1>1. /\ phase \in [Spans -> Phases]
      /\ shared \in [Services -> FerriedDataType]
      /\ local \in [Spans -> FerriedDataType]
      /\ header \in [Spans -> FerriedDataType]
  BY DEF TypeOK
<1>2. CalledNames \subseteq CalledNames'
  BY CalledGrows
<1>3. ASSUME NEW s \in Spans, NEW n \in Services, NEW data \in FerriedDataType,
             NamesIn(data.nodes) \subseteq CalledNames, ReadAndMerge(s, data, n),
             UNCHANGED <<shared, header>>
      PROVE  NamesCalled'
  <2>1. NamesIn(Merge(data, shared[n]).nodes) \subseteq CalledNames
    BY <1>1, <1>3, MergeNames DEF NamesCalled
  <2>2. local' = [local EXCEPT ![s] = Merge(data, shared[n])]
    BY <1>3 DEF ReadAndMerge
  <2>3. \A t \in Spans : NamesIn(local'[t].nodes) \subseteq CalledNames
    BY <1>1, <2>1, <2>2 DEF NamesCalled
  <2>4. QED
    BY <1>2, <1>3, <2>3 DEF NamesCalled
<1>4. ASSUME NEW s \in Spans, NEW n \in Services, WriteShared(s, n), UNCHANGED header
      PROVE  NamesCalled'
  <2>1. \A t \in Spans : NamesIn(local'[t].nodes) \subseteq CalledNames
    BY <1>1, <1>4, NoNamesInDefault DEF NamesCalled, WriteShared
  <2>2. \A m \in Services : NamesIn(shared'[m].nodes) \subseteq CalledNames
    BY <1>1, <1>4 DEF NamesCalled, WriteShared
  <2>3. QED
    BY <1>2, <1>4, <2>1, <2>2 DEF NamesCalled
<1>5. ASSUME NEW s \in Spans, NEW data, NamesIn(data.nodes) \subseteq CalledNames,
             Respond(s, data)
      PROVE  NamesCalled'
  <2>1. \A t \in Spans : NamesIn(header'[t].nodes) \subseteq CalledNames
    BY <1>1, <1>5 DEF NamesCalled, Respond
  <2>2. QED
    BY <1>2, <1>5, <2>1 DEF NamesCalled, Respond
<1>6. ASSUME UNCHANGED <<shared, local, header>>
      PROVE  NamesCalled'
  BY <1>2, <1>6 DEF NamesCalled
<1>7. ASSUME NEW s \in Spans, Hook(s)
      PROVE  NamesCalled'
  <2> DEFINE n == ServiceOf[s]
  <2>1. n \in Services
    BY CallerType
  <2>2. CASE RequestInbound(s)
    <3>1. CollectEnvoyProperties(n) \in FerriedDataType
      BY <2>1, CollectedType
    <3>2. NamesIn(CollectEnvoyProperties(n).nodes) = {}
      BY NoNamesInDefault DEF CollectEnvoyProperties, Default
    <3>3. QED
      BY <1>3, <2>1, <2>2, <3>1, <3>2 DEF RequestInbound
  <2>3. CASE RequestInboundStore(s)
    BY <1>4, <2>1, <2>3 DEF RequestInboundStore
  <2>4. CASE RequestInboundFails(s)
    BY <1>6, <2>4 DEF RequestInboundFails
  <2>5. CASE ResponseInbound(s)
    <3> DEFINE g == AddMe(shared[n], n)
    <3>1. n \in CalledNames
      BY <2>5 DEF ResponseInbound, Answers, CalledNames, CalledSpans
    <3>2. NamesIn(g.nodes) \subseteq CalledNames
      <4>1. shared[n] \in FerriedDataType /\ NamesIn(shared[n].nodes) \subseteq CalledNames
        BY <1>1, <2>1 DEF NamesCalled
      <4>2. NamesIn(g.nodes) = NamesIn(shared[n].nodes) \cup {n}
        BY <2>1, <4>1, AddMeNames, Zenon
      <4>3. QED
        BY <3>1, <4>1, <4>2
    <3>3. Respond(s, g) \/ Respond(s, Default)
      BY <2>5 DEF ResponseInbound, TryMatch
    <3> HIDE DEF g
    <3>4. QED
      BY <1>5, <3>2, <3>3, NoNamesInDefault
  <2>6. CASE ResponseInboundFails(s)
    BY <1>5, <2>6, NoNamesInDefault DEF ResponseInboundFails
  <2>7. CASE ResponseOutbound(s)
    <3>1. Caller(s) \in Services /\ header[s] \in FerriedDataType
          /\ NamesIn(header[s].nodes) \subseteq CalledNames
      BY <1>1, <2>7, CallerType DEF ResponseOutbound, NamesCalled
    <3>2. QED
      BY <1>3, <2>7, <3>1 DEF ResponseOutbound
  <2>8. CASE ResponseOutboundStore(s)
    BY <1>4, <2>8, CallerType DEF ResponseOutboundStore
  <2>9. CASE ResponseOutboundFails(s)
    BY <1>6, <2>9 DEF ResponseOutboundFails
  <2>10. QED
    BY <1>7, <2>2, <2>3, <2>4, <2>5, <2>6, <2>7, <2>8, <2>9 DEF Hook
<1>8. CASE UNCHANGED vars
  BY <1>6, <1>8 DEF vars
<1>9. QED
  BY <1>7, <1>8 DEF Next, Finished

(* The inductive invariant behind the refinement.                          *)
RefinementInv == PhantomInv /\ NamesCalled

LEMMA RefinementInvHolds ==
    ASSUME DistinctServices
    PROVE  Spec => [](TypeOK /\ RefinementInv)
<1>1. Init => RefinementInv
  <2>1. Init => NamesCalled
    BY NoNamesInDefault DEF Init, NamesCalled
  <2>2. QED
    BY <2>1, PhantomInit DEF RefinementInv
<1>2. TypeOK /\ RefinementInv /\ [Next]_vars => RefinementInv'
  BY PhantomStep, NamesCalledStep DEF RefinementInv
<1>3. QED
  BY <1>1, <1>2, TypeCorrect, PTL DEF Spec
-----------------------------------------------------------------------------
(* The two specifications mean the same by a match.                        *)
LEMMA SameOperators ==
    /\ \A V, edges, v : Collection!Reachable(V, edges, v) = Reachable(V, edges, v)
    /\ \A h, label, edges, v :
        Collection!EmbedsAt(h, label, edges, v) <=> EmbedsAt(h, label, edges, v)
<1>1. \A V, edges, v : Collection!Reachable(V, edges, v) = Reachable(V, edges, v)
  BY DEF Collection!Reachable, Reachable
<1>2. \A h : Collection!FindRoot(h) = FindRoot(h)
  BY DEF Collection!FindRoot, FindRoot
<1>3. \A x, y : Collection!HasPropertySubset(x, y) <=> HasPropertySubset(x, y)
  BY DEF Collection!HasPropertySubset, HasPropertySubset
<1>4. \A h, label, edges, v :
        Collection!EmbedsAt(h, label, edges, v) <=> EmbedsAt(h, label, edges, v)
  BY <1>2, <1>3 DEF Collection!EmbedsAt, EmbedsAt
<1>5. QED
  BY <1>1, <1>4

(* What the abstract specification sees of the trace, and where it finds    *)
(* the pattern in that.                                                    *)
LEMMA CollectionSees ==
    ASSUME IdleBelow, NEW s \in CalledSpans
    PROVE  Collection!SeenBelow(s) = Seen(s) /\ Collection!MatchesBelow(s) = MatchesSeen(s)
<1>1. Collection!SeenBelow(s) = Seen(s)
  <2>1. Collection!SeenBelow(s)
          = Reachable(CalledSpans, {<<Parent[c], c>> : c \in CalledSpans \ {RootSpan}}, s)
    BY SameOperators DEF Collection!SeenBelow, CalledSpans
  <2>2. QED
    BY <2>1, IdleCallers, SeenBelowIs
<1>2. QED
  BY <1>1, SameOperators DEF Collection!MatchesBelow, MatchesSeen
-----------------------------------------------------------------------------
AnsweredSpans == {s \in Spans : phase[s] \in AnsweredPhases}

Wanted == Reporter = RootId => TraceWanted \in {NoValue, PropertyOf[RootId]}

(* What the reporter finds in its graph it may report: the trace level      *)
(* filter lets the trace through, and the value is that of a real match.    *)
LEMMA ReportIsAllowed ==
    ASSUME DistinctServices, TypeOK, RefinementInv, NEW s \in Spans, NEW v,
           Answers(s), ReportsAt(s, v)
    PROVE  /\ Wanted
           /\ \E m \in Collection!MatchesBelow(s) :
                calls' = Append(calls, PropertyOfMatch(m, Collection!SeenBelow(m)))
<1> DEFINE n == ServiceOf[s]
           g == AddMe(shared[n], n)
<1>1. /\ n \in Services /\ shared[n] \in FerriedDataType /\ s \in CalledSpans
      /\ Fetched(s) \in SUBSET Children(s)
  BY CallerType DEF TypeOK, Answers, CalledSpans, Fetched
<1>2. /\ v \in DOMAIN g.nodes
      /\ Matched(n, g, v)
      /\ g.nodes[v].value # NoValue
      /\ calls' = Append(calls, g.nodes[v].value)
  BY DEF ReportsAt
<1>3. Sound(g, Below[s])
  <2>1. Carries(shared[n], Fetched(s)) /\ OwnOnly(shared[n], n)
    BY DEF RefinementInv, PhantomInv, SharedCarries
  <2>2. Carries(g, {s})
    BY <1>1, <2>1, AddMeCarries, Zenon
  <2>3. UNION {Below[c] : c \in {s}} = Below[s]
    OBVIOUS
  <2> HIDE DEF g
  <2>4. QED
    BY <2>2, <2>3 DEF Carries
<1>4. NamesIn(g.nodes) = NamesIn(shared[n].nodes) \cup {n}
  BY <1>1, AddMeNames, Zenon
<1>5. NamesIn(g.nodes) \subseteq CalledNames
  BY <1>1, <1>4 DEF RefinementInv, NamesCalled, CalledNames
<1>6. g.nodes \in Seq(Node)
  <2>1. g \in FerriedDataType
    BY <1>1, AddMeType, Zenon
  <2> HIDE DEF g
  <2>2. QED
    BY <2>1 DEF FerriedDataType
<1> HIDE DEF g
<1>7. Wanted
  <2> SUFFICES ASSUME Reporter = RootId, TraceWanted # NoValue
               PROVE  TraceWanted = PropertyOf[RootId]
    BY DEF Wanted
  <2> DEFINE i == GetNodeWithId(g.nodes, RootId)
  <2>1. n = RootId /\ g.nodes[i].value = TraceWanted
    BY <1>2 DEF Matched, TraceLevelPropertyHolds
  <2>2. i \in DOMAIN g.nodes /\ g.nodes[i].name = RootId
    BY <1>4, <1>6, <2>1, GetNodeWithIdFinds
  <2>3. g.nodes[i].value \in {NoValue, PropertyOf[RootId]}
    BY <1>3, <2>2 DEF Sound
  <2>4. QED
    BY <2>1, <2>3
<1>8. EmbedsAt(Target, g.nodes, g.edges, v)
  BY <1>2 DEF Matched, FirstMatches
<1>9. PICK m \in MatchesSeen(s) : ServiceOf[m] = g.nodes[v].name
  BY <1>1, <1>2, <1>3, <1>5, <1>8, MatchIsReal
<1>10. m \in Spans /\ m \in Collection!MatchesBelow(s)
  BY <1>1, <1>9, CollectionSees DEF RefinementInv, PhantomInv, MatchesSeen, Seen, CalledSpans
<1>11. g.nodes[v].value = PropertyOf[g.nodes[v].name]
  BY <1>2, <1>3 DEF Sound
<1>12. PropertyOfMatch(m, Collection!SeenBelow(m)) = g.nodes[v].value
  BY <1>9, <1>10, <1>11 DEF PropertyOfMatch, SpanLabel
<1>13. QED
  BY <1>2, <1>7, <1>10, <1>12

LEMMA CollectionInit ==
    ASSUME Init
    PROVE  Collection!Init
<1>1. CalledSpans = {} /\ AnsweredSpans = {} /\ calls = <<>> /\ Wanted \in BOOLEAN
  BY DEF Init, CalledSpans, AnsweredSpans, AnsweredPhases, Wanted
<1>2. QED
  BY <1>1 DEF Collection!Init, CalledSpans, AnsweredSpans, AnsweredPhases, Wanted

(* Every step of the filters is one of the abstract specification: a        *)
(* request is a call, a response leaving is an answer, and hooks in between *)
(* do not show.                                                             *)
LEMMA CollectionStep ==
    ASSUME DistinctServices, TypeOK, RefinementInv, [Next]_vars
    PROVE  [Collection!Next]_(Collection!vars)
<1>1. phase \in [Spans -> Phases]
  BY DEF TypeOK
<1>2. /\ Collection!vars = <<Wanted, CalledSpans, AnsweredSpans, calls>>
      /\ (Collection!vars)' = <<Wanted', CalledSpans', AnsweredSpans', calls'>>
  BY DEF Collection!vars, Wanted, CalledSpans, AnsweredSpans, AnsweredPhases
<1>3. Wanted' = Wanted
  BY DEF Wanted
<1>4. ASSUME NEW s \in Spans, NEW p, Starts(s, p)
      PROVE  Collection!Call(s)
  <2>1. phase[s] = "idle" /\ phase' = [phase EXCEPT ![s] = p] /\ p \in {"storing", "serving"}
    BY <1>4 DEF Starts, Requested
  <2>2. CalledSpans' = CalledSpans \cup {s} /\ AnsweredSpans' = AnsweredSpans
    BY <1>1, <2>1 DEF CalledSpans, AnsweredSpans, AnsweredPhases
  <2>3. s # RootSpan => Parent[s] \in CalledSpans
    BY <1>4, ChildrenOfSpans DEF Starts, Requested, CalledSpans
  <2>4. s \notin CalledSpans
    BY <2>1 DEF CalledSpans
  <2>5. UNCHANGED calls
    BY <1>4 DEF Starts
  <2>6. QED
    BY <1>3, <2>2, <2>3, <2>4, <2>5
       DEF Collection!Call, Wanted, CalledSpans, AnsweredSpans, AnsweredPhases
<1>5. ASSUME NEW s \in Spans, NEW p, GoesOn(s, p)
      PROVE  UNCHANGED <<CalledSpans, AnsweredSpans, calls>>
  BY <1>1, <1>5 DEF GoesOn, CalledSpans, AnsweredSpans, AnsweredPhases
<1>6. ASSUME NEW s \in Spans, LeavesWith(s)
      PROVE  Collection!Answer(s)
  <2>1. phase[s] = "serving" /\ phase' = [phase EXCEPT ![s] = "responded"]
    BY <1>6 DEF LeavesWith, Answers
  <2>2. CalledSpans' = CalledSpans /\ AnsweredSpans' = AnsweredSpans \cup {s}
    BY <1>1, <2>1 DEF CalledSpans, AnsweredSpans, AnsweredPhases
  <2>3. s \in CalledSpans \ AnsweredSpans
    BY <2>1 DEF CalledSpans, AnsweredSpans, AnsweredPhases
  <2>4. \A c \in CalledSpans \ (Detached \cup {RootSpan}) :
          Parent[c] = s => c \in AnsweredSpans
    BY <1>6 DEF LeavesWith, Answers, Children, CalledSpans, AnsweredSpans, AnsweredPhases
  <2>5. \/ UNCHANGED calls
        \/ /\ Wanted
           /\ \E m \in Collection!MatchesBelow(s) :
                calls' = Append(calls, PropertyOfMatch(m, Collection!SeenBelow(m)))
    BY <1>6, ReportIsAllowed DEF LeavesWith
  <2>6. QED
    BY <1>3, <2>2, <2>3, <2>4, <2>5
       DEF Collection!Answer, Wanted, CalledSpans, AnsweredSpans, AnsweredPhases
<1>7. ASSUME phase' = phase, calls' = calls
      PROVE  UNCHANGED <<CalledSpans, AnsweredSpans, calls>>
  BY <1>7 DEF CalledSpans, AnsweredSpans
<1>8. UNCHANGED <<CalledSpans, AnsweredSpans, calls>> => UNCHANGED Collection!vars
  BY <1>2, <1>3
<1>9. \A s \in Spans : Collection!Call(s) \/ Collection!Answer(s) => Collection!Next
  BY DEF Collection!Next
<1>10. QED
  BY <1>4, <1>5, <1>6, <1>7, <1>8, <1>9, PhaseSteps

(* The centralized filter implements TraceCollection: with any races and    *)
(* failures, what is reported of a trace is what the query returns for a    *)
(* span at which its pattern really matches.                                *)
THEOREM TraceFilterImplements ==
    ASSUME DistinctServices
    PROVE  Spec => ImplementsTraceCollection
<1>1. Init => Collection!Init
  BY CollectionInit
<1>2. TypeOK /\ RefinementInv /\ [Next]_vars => [Collection!Next]_(Collection!vars)
  BY CollectionStep
<1>3. QED
  BY <1>1, <1>2, RefinementInvHolds, PTL DEF Spec, Collection!Spec, ImplementsTraceCollection
=============================================================================

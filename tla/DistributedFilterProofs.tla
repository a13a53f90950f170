----------------------- MODULE DistributedFilterProofs -----------------------
(***************************************************************************)
(* Theorems about DistributedFilter, for every trace in which no service   *)
(* is called twice, every pattern, number of worker threads and set of     *)
(* faults.                                                                 *)
(***************************************************************************)
EXTENDS DistributedFilter, MeshProofs

LEMMA WellFormedOK ==
    ASSUME NEW data, WellFormed(data)
    PROVE  DataOK(data)
BY GraphType DEF DataOK, WellFormed, Graph

-----------------------------------------------------------------------------
(* The inductive invariant behind TypeOK.  set_s has an entry for every     *)
(* node only where a sidecar's name is not in the graph yet when it adds    *)
(* its own node, so the type of the data rests on what the data can be      *)
(* about: as in TraceFilterProofs, ferried data is sound about exactly the  *)
(* subtrees it can have come from.                                         *)
CallRecord == [by : Services, value : Values, made : BOOLEAN]

DataInv ==
    /\ phase \in [Spans -> Phases]
    /\ DOMAIN shared = Services /\ \A n \in Services : WellFormed(shared[n])
    /\ DOMAIN local = Spans /\ \A s \in Spans : WellFormed(local[s])
    /\ DOMAIN header = Spans /\ \A s \in Spans : WellFormed(header[s])
    /\ calls \in Seq(CallRecord)

HeaderCarries ==
    \A s \in Spans : Carries(header[s], {s}) /\ header[s].unassigned = {}

SharedCarries ==
    \A s \in Spans :
        /\ Carries(shared[ServiceOf[s]], Fetched(s))
        /\ OwnOnly(shared[ServiceOf[s]], ServiceOf[s])

(* What the write of s brings together: what was fetched, and its response. *)
Gathered(s) == IF phase[s] = "merging" THEN Fetched(Parent[s]) \cup {s} ELSE {}

WritesCarry ==
    \A s \in Spans : Writing(s) =>
        Carries(local[s], Gathered(s)) /\ OwnOnly(local[s], At(s))

FerryInv ==
    DataInv /\ RootStays /\ IdleBelow /\ HeaderCarries /\ SharedCarries /\ WritesCarry

(* The ways of a step: a hook reads and merges, it writes, it answers, or   *)
(* it goes by.                                                             *)
Reads(s, p, data) ==
    /\ phase' = [phase EXCEPT ![s] = p]
    /\ local' = [local EXCEPT ![s] = data]
    /\ UNCHANGED <<shared, header, calls>>

Writes(s, p) ==
    /\ phase' = [phase EXCEPT ![s] = p]
    /\ WriteShared(s, At(s))
    /\ UNCHANGED <<header, calls>>

Passes(s, p) ==
    /\ phase' = [phase EXCEPT ![s] = p]
    /\ UNCHANGED <<shared, local, header, calls>>

(* Of a span that does not write, or goes on writing, nothing changes. *)
LEMMA GatheredGrows ==
    ASSUME RootStays, DoneStays, NEW t \in Spans, phase'[t] = phase[t]
    PROVE  /\ Gathered(t) \subseteq Gathered(t)'
           /\ At(t)' = At(t) /\ (Writing(t)' <=> Writing(t))
<1>1. phase[t] = "merging" => Fetched(Parent[t]) \subseteq Fetched(Parent[t])'
  BY FetchedGrows
<1>2. QED
  BY <1>1 DEF Gathered, At, Writing

LEMMA WriteKept ==
    ASSUME RootStays, DoneStays, WritesCarry, NEW t \in Spans, phase'[t] = phase[t],
           local'[t] = local[t], Writing(t)'
    PROVE  Carries(local'[t], Gathered(t)') /\ OwnOnly(local'[t], At(t)')
<1>1. Writing(t) /\ At(t)' = At(t) /\ Gathered(t) \subseteq Gathered(t)'
  BY GatheredGrows
<1>2. Carries(local[t], Gathered(t)) /\ OwnOnly(local[t], At(t))
  BY <1>1 DEF WritesCarry
<1>3. QED
  BY <1>1, <1>2, CarriesMonotone

LEMMA SharedKept ==
    ASSUME SharedCarries, DoneStays, NEW s \in Spans,
           shared'[ServiceOf[s]] = shared[ServiceOf[s]]
    PROVE  /\ Carries(shared'[ServiceOf[s]], Fetched(s)')
           /\ OwnOnly(shared'[ServiceOf[s]], ServiceOf[s])
BY FetchedGrows, CarriesMonotone DEF SharedCarries

LEMMA ReadsFerry ==
    ASSUME FerryInv, NEW s \in Spans, NEW p, NEW data, Reads(s, p, data),
           ~ Writing(s), p \in {"storing", "merging"}, IdleBelow',
           phase[s] # "done", s = RootSpan => p # "merging",
           WellFormed(data), Carries(data, Gathered(s)'), OwnOnly(data, At(s)')
    PROVE  FerryInv'
<1>1. /\ phase \in [Spans -> Phases] /\ DOMAIN local = Spans
      /\ phase' = [phase EXCEPT ![s] = p] /\ local' = [local EXCEPT ![s] = data]
      /\ UNCHANGED <<shared, header, calls>>
  BY DEF FerryInv, DataInv, Reads
<1>2. DoneStays /\ Moves(s) /\ local'[s] = data /\ \A t \in Spans : t # s => local'[t] = local[t]
  BY <1>1 DEF DoneStays, Moves
<1>3. DataInv'
  <2>1. phase' \in [Spans -> Phases]
    BY <1>1 DEF Phases
  <2>2. QED
    BY <1>1, <1>2, <2>1 DEF FerryInv, DataInv
<1>4. RootStays'
  BY <1>1, TraceAssumption DEF FerryInv, RootStays
<1>5. HeaderCarries'
  BY <1>1 DEF FerryInv, HeaderCarries
<1>6. SharedCarries'
  BY <1>1, <1>2, SharedKept DEF FerryInv, SharedCarries
<1>7. WritesCarry'
  BY <1>2, WriteKept DEF FerryInv, WritesCarry, Moves
<1>8. QED
  BY <1>3, <1>4, <1>5, <1>6, <1>7 DEF FerryInv

LEMMA WritesFerry ==
    ASSUME DistinctServices, FerryInv, NEW s \in Spans, NEW p, Writes(s, p),
           \/ phase[s] = "storing" /\ p = "serving"
           \/ phase[s] = "merging" /\ p = "done"
    PROVE  FerryInv'
<1>1. /\ phase \in [Spans -> Phases] /\ DOMAIN local = Spans /\ DOMAIN shared = Services
      /\ phase' = [phase EXCEPT ![s] = p]
      /\ local' = [local EXCEPT ![s] = DefaultDistributed]
      /\ shared' = [shared EXCEPT ![At(s)] = local[s]]
      /\ UNCHANGED <<header, calls>>
  BY DEF FerryInv, DataInv, Writes, WriteShared
<1>2. At(s) \in Services
  BY AtType DEF FerryInv
<1>3. /\ DoneStays /\ Moves(s) /\ phase'[s] = p
      /\ local'[s] = DefaultDistributed /\ \A t \in Spans : t # s => local'[t] = local[t]
      /\ shared'[At(s)] = local[s]
      /\ \A n \in Services : n # At(s) => shared'[n] = shared[n]
  BY <1>1, <1>2 DEF DoneStays, Moves
<1>4. DataInv'
  <2>1. phase' \in [Spans -> Phases]
    BY <1>1 DEF Phases
  <2>2. DOMAIN shared' = Services /\ DOMAIN local' = Spans
    BY <1>1
  <2>3. WellFormed(local[s])
    BY DEF FerryInv, DataInv
  <2>4. QED
    BY <1>1, <1>3, <2>1, <2>2, <2>3, DefaultWellFormed DEF FerryInv, DataInv
<1>5. RootStays'
  BY <1>1, TraceAssumption DEF FerryInv, RootStays
<1>6. IdleBelow'
  BY <1>1, IdleKept DEF FerryInv
<1>7. HeaderCarries'
  BY <1>1 DEF FerryInv, HeaderCarries
<1>8. PICK t \in Spans : /\ At(s) = ServiceOf[t]
                         /\ Gathered(s) \subseteq Fetched(t)'
  <2>1. CASE phase[s] = "storing"
    BY <2>1 DEF At, Gathered
  <2>2. CASE phase[s] = "merging"
    <3>1. s # RootSpan
      BY <2>2 DEF FerryInv, RootStays
    <3>2. Parent[s] \in Spans /\ s \in Children(Parent[s]) /\ Caller(s) = ServiceOf[Parent[s]]
      BY <3>1, ChildrenOfSpans DEF Caller
    <3>3. phase'[s] = "done"
      BY <1>3, <2>2
    <3>4. Fetched(Parent[s]) \cup {s} \subseteq Fetched(Parent[s])'
      BY <1>3, <3>2, <3>3, FetchedGrows DEF Fetched, Children
    <3>5. QED
      BY <2>2, <3>2, <3>4 DEF At, Gathered
  <2>3. QED
    BY <2>1, <2>2
<1>9. SharedCarries'
  <2>1. Carries(local[s], Gathered(s)) /\ OwnOnly(local[s], At(s))
    BY DEF FerryInv, WritesCarry, Writing
  <2>2. Carries(local[s], Fetched(t)') /\ OwnOnly(local[s], ServiceOf[t])
    BY <1>8, <2>1, CarriesMonotone
  <2>3. ASSUME NEW u \in Spans
        PROVE  /\ Carries(shared'[ServiceOf[u]], Fetched(u)')
               /\ OwnOnly(shared'[ServiceOf[u]], ServiceOf[u])
    <3>1. CASE u = t
      BY <1>3, <1>8, <2>2, <3>1
    <3>2. CASE u # t
      <4>1. shared'[ServiceOf[u]] = shared[ServiceOf[u]]
        BY <1>3, <1>8, <3>2, CallerType DEF DistinctServices
      <4>2. QED
        BY <1>3, <4>1, SharedKept DEF FerryInv
    <3>3. QED
      BY <3>1, <3>2
  <2>4. QED
    BY <2>3 DEF SharedCarries
<1>10. WritesCarry'
  <2>1. ~ Writing(s)'
    BY <1>3 DEF Writing
  <2>2. QED
    BY <1>3, <2>1, WriteKept DEF FerryInv, WritesCarry, Moves
<1>11. QED
  BY <1>4, <1>5, <1>6, <1>7, <1>9, <1>10 DEF FerryInv

LEMMA RespondsFerry ==
    ASSUME FerryInv, NEW s \in Spans, NEW data, phase[s] = "serving", Respond(s, data),
           WellFormed(data), Carries(data, {s}), data.unassigned = {},
           calls' \in Seq(CallRecord)
    PROVE  FerryInv'
<1>1. /\ phase \in [Spans -> Phases] /\ DOMAIN header = Spans
      /\ phase' = [phase EXCEPT ![s] = "responded"]
      /\ header' = [header EXCEPT ![s] = data]
      /\ UNCHANGED <<shared, local>>
  BY DEF FerryInv, DataInv, Respond
<1>2. /\ DoneStays /\ Moves(s) /\ ~ Writing(s)'
      /\ header'[s] = data /\ \A t \in Spans : t # s => header'[t] = header[t]
  BY <1>1 DEF DoneStays, Moves, Writing
<1>3. DataInv'
  <2>1. phase' \in [Spans -> Phases]
    BY <1>1 DEF Phases
  <2>2. QED
    BY <1>1, <1>2, <2>1 DEF FerryInv, DataInv
<1>4. RootStays'
  BY <1>1, TraceAssumption DEF FerryInv, RootStays
<1>5. IdleBelow'
  BY <1>1, IdleKept DEF FerryInv
<1>6. HeaderCarries'
  BY <1>2 DEF FerryInv, HeaderCarries
<1>7. SharedCarries'
  BY <1>1, <1>2, SharedKept DEF FerryInv, SharedCarries
<1>8. WritesCarry'
  BY <1>1, <1>2, WriteKept DEF FerryInv, WritesCarry, Moves
<1>9. QED
  BY <1>3, <1>4, <1>5, <1>6, <1>7, <1>8 DEF FerryInv

LEMMA PassesFerry ==
    ASSUME FerryInv, NEW s \in Spans, NEW p, Passes(s, p), p \in {"serving", "done"},
           phase[s] # "done", s = RootSpan => p # "done", IdleBelow'
    PROVE  FerryInv'
<1>1. /\ phase \in [Spans -> Phases]
      /\ phase' = [phase EXCEPT ![s] = p]
      /\ UNCHANGED <<shared, local, header, calls>>
  BY DEF FerryInv, DataInv, Passes
<1>2. DoneStays /\ Moves(s) /\ ~ Writing(s)'
  BY <1>1 DEF DoneStays, Moves, Writing
<1>3. DataInv'
  <2>1. phase' \in [Spans -> Phases]
    BY <1>1 DEF Phases
  <2>2. QED
    BY <1>1, <2>1 DEF FerryInv, DataInv
<1>4. RootStays'
  BY <1>1, TraceAssumption DEF FerryInv, RootStays
<1>5. HeaderCarries'
  BY <1>1 DEF FerryInv, HeaderCarries
<1>6. SharedCarries'
  BY <1>1, <1>2, SharedKept DEF FerryInv, SharedCarries
<1>7. WritesCarry'
  BY <1>1, <1>2, WriteKept DEF FerryInv, WritesCarry, Moves
<1>8. QED
  BY <1>3, <1>4, <1>5, <1>6, <1>7 DEF FerryInv

-----------------------------------------------------------------------------
(* What a request hook puts next to what its sidecar has.                  *)
LEMMA CollectedWellFormed ==
    ASSUME NEW n \in Services
    PROVE  WellFormed(Collected(n)) /\ Carries(Collected(n), {}) /\ OwnOnly(Collected(n), n)
<1> DEFINE c == Collected(n)
           own == {[entity |-> n, value |-> PropertyOf[n]]}
<1>1. DefaultDistributed \in [nodes : {<<>>}, edges : {{}}, unassigned : {{}},
                              found_match : {FALSE}, set_s : {<<>>}]
  BY DEF DefaultDistributed
<1>2. c \in [nodes : {<<>>}, edges : {{}}, unassigned : {own},
             found_match : {FALSE}, set_s : {<<>>}]
  <2> HIDE DEF own
  <2>1. c = [DefaultDistributed EXCEPT !.unassigned = own]
    BY DEF Collected, own
  <2> HIDE DEF c
  <2>2. QED
    BY <1>1, <2>1
<1>3. own \in SUBSET Property
  BY TraceAssumption DEF Property
<1> HIDE DEF c
<1>4. DOMAIN c.nodes = {} /\ DOMAIN c.set_s = {}
  BY <1>2
<1>5. SetSHasEntries(c)
  BY <1>4 DEF SetSHasEntries
<1>6. Carries(c, {})
  BY <1>2, EmptyCarries
<1>7. WellFormed(c)
  <2>1. /\ c.nodes \in Seq(Node) /\ c.edges = {} /\ c.unassigned \in SUBSET Property
        /\ c.found_match \in BOOLEAN
    <3>1. <<>> \in Seq(Node) /\ c.nodes = <<>> /\ c.unassigned = own
      BY <1>2
    <3> HIDE DEF own
    <3>2. QED
      BY <1>2, <1>3, <3>1
  <2>2. c \in [nodes : {c.nodes}, edges : {c.edges}, unassigned : {c.unassigned},
               found_match : {c.found_match}, set_s : {c.set_s}]
    BY <1>2
  <2>3. QED
    BY <1>5, <2>1, <2>2 DEF WellFormed
<1>8. QED
  BY <1>2, <1>6, <1>7 DEF OwnOnly, c

LEMMA FerryInit ==
    ASSUME Init
    PROVE  FerryInv
<1>1. DataInv
  BY DefaultWellFormed DEF Init, DataInv, Phases
<1>2. RootStays /\ IdleBelow /\ WritesCarry
  BY TraceAssumption DEF Init, RootStays, IdleBelow, WritesCarry, Writing, Children
<1>3. HeaderCarries
  BY DefaultWellFormed DEF Init, HeaderCarries
<1>4. SharedCarries
  BY DefaultWellFormed, CallerType DEF Init, SharedCarries, OwnOnly
<1>5. QED
  BY <1>1, <1>2, <1>3, <1>4 DEF FerryInv

LEMMA RequestInboundFerry ==
    ASSUME DistinctServices, FerryInv, NEW s \in Spans, RequestInbound(s)
    PROVE  FerryInv'
<1> DEFINE n == ServiceOf[s]
           data == MergeDistributed(Collected(n), shared[n])
<1>1. n \in Services /\ WellFormed(shared[n]) /\ Fetched(s) = {}
  BY CallerType DEF FerryInv, DataInv, RequestInbound, Requested, IdleBelow, Fetched
<1>2. Carries(shared[n], {}) /\ OwnOnly(shared[n], n)
  BY <1>1 DEF FerryInv, SharedCarries
<1>3. WellFormed(Collected(n)) /\ Carries(Collected(n), {}) /\ OwnOnly(Collected(n), n)
  BY <1>1, CollectedWellFormed
<1>4. WellFormed(data) /\ Carries(data, {} \cup {}) /\ OwnOnly(data, n)
  BY <1>1, <1>2, <1>3, MergeDistributedCarries, OwnIsOwned, OwnAssigned
<1>5. Reads(s, "storing", data)
  BY DEF RequestInbound, ReadAndMerge, Reads
<1>6. phase[s] = "idle" /\ Requested(s) /\ phase' = [phase EXCEPT ![s] = "storing"]
  BY DEF RequestInbound, Requested
<1>7. phase'[s] = "storing" /\ phase \in [Spans -> Phases] /\ IdleBelow
  BY <1>6 DEF FerryInv, DataInv
<1>8. Gathered(s)' = {} /\ At(s)' = n /\ ~ Writing(s)
  BY <1>6, <1>7 DEF Gathered, At, Writing
<1>9. IdleBelow'
  BY <1>6, <1>7, IdleKept
<1> HIDE DEF data
<1>10. Carries(data, Gathered(s)') /\ OwnOnly(data, At(s)')
  BY <1>4, <1>8
<1>11. QED
  BY <1>4, <1>5, <1>6, <1>8, <1>9, <1>10, ReadsFerry

LEMMA ResponseOutboundFerry ==
    ASSUME DistinctServices, FerryInv, NEW s \in Spans, ResponseOutbound(s)
    PROVE  FerryInv'
<1> DEFINE t == Parent[s]
           n == Caller(s)
           data == MergeDistributed(header[s], shared[n])
<1>1. s \in Spans \ {RootSpan} /\ phase[s] = "responded"
      /\ phase' = [phase EXCEPT ![s] = "merging"]
  BY DEF ResponseOutbound
<1>2. /\ t \in Spans /\ s \in Children(t) /\ n = ServiceOf[t] /\ n \in Services
      /\ WellFormed(header[s]) /\ WellFormed(shared[n])
  BY <1>1, CallerType, ChildrenOfSpans DEF Caller, FerryInv, DataInv
<1>3. Carries(header[s], {s}) /\ OwnOnly(header[s], ServiceOf[t])
  BY DEF FerryInv, HeaderCarries, OwnOnly
<1>4. Carries(shared[n], Fetched(t)) /\ OwnOnly(shared[n], ServiceOf[t])
  BY <1>2 DEF FerryInv, SharedCarries
<1>5. {s} \in SUBSET Children(t) /\ Fetched(t) \in SUBSET Children(t) /\ {s} \cap Fetched(t) = {}
  BY <1>1, <1>2 DEF Fetched
<1>6. WellFormed(data) /\ Carries(data, {s} \cup Fetched(t)) /\ OwnOnly(data, n)
  BY <1>2, <1>3, <1>4, <1>5, MergeDistributedCarries, OwnIsOwned, OwnAssigned
<1>7. Reads(s, "merging", data)
  BY DEF ResponseOutbound, ReadAndMerge, Reads
<1>8. phase'[s] = "merging" /\ phase \in [Spans -> Phases] /\ IdleBelow
  BY <1>1 DEF FerryInv, DataInv
<1>9. IdleBelow'
  BY <1>1, <1>8, IdleKept
<1>10. Fetched(t)' = Fetched(t)
  BY <1>1, <1>8 DEF Fetched, Children
<1>11. Gathered(s)' = {s} \cup Fetched(t) /\ At(s)' = n /\ ~ Writing(s)
  BY <1>1, <1>8, <1>10 DEF Gathered, At, Writing
<1> HIDE DEF data
<1>12. Carries(data, Gathered(s)') /\ OwnOnly(data, At(s)')
  BY <1>6, <1>11
<1>13. QED
  BY <1>1, <1>6, <1>7, <1>9, <1>11, <1>12, ReadsFerry

(* A call to storage is made by the service of the span that responds, and  *)
(* carries a value that was collected.                                     *)
Calls(n) ==
    \E value \in Values, made \in BOOLEAN :
        calls' = Append(calls, [by |-> n, value |-> value, made |-> made])

LEMMA SendToStorageCalls ==
    ASSUME NEW n, NEW value \in Values, SendToStorage(n, value)
    PROVE  Calls(n)
BY DEF SendToStorage, Calls

(* What a response hook sends, and what it makes of the calls.              *)
LEMMA ResponseInboundSends ==
    ASSUME DistinctServices, FerryInv, NEW s \in Spans, ResponseInbound(s)
    PROVE  \E data :
               /\ Respond(s, data)
               /\ WellFormed(data) /\ Carries(data, {s}) /\ data.unassigned = {}
               /\ \/ /\ calls' = calls
                     /\ data.found_match => shared[ServiceOf[s]].found_match
                  \/ Calls(ServiceOf[s])
<1> DEFINE n == ServiceOf[s]
           fd == shared[n]
           data == Mine(fd, n)
           search == SearchIn(fd, n)
           searched == Searched(fd, n)
           told == Told(fd, n)
<1>1. n \in Services /\ WellFormed(fd) /\ Fetched(s) \in SUBSET Children(s)
  BY CallerType DEF FerryInv, DataInv, Fetched
<1>2. Carries(fd, Fetched(s)) /\ OwnOnly(fd, n)
  BY DEF FerryInv, SharedCarries
<1>3. /\ Carries(data, {s}) /\ data.unassigned = {}
      /\ data.found_match <=> fd.found_match
      /\ Carries(searched, {s}) /\ searched.unassigned = {}
      /\ data.nodes \in Seq(Node)
      /\ searched.nodes = data.nodes
      /\ searched.found_match <=> fd.found_match
      /\ data.found_match => WellFormed(data)
      /\ ~ data.found_match =>
            /\ WellFormed(searched)
            /\ search.at \subseteq DOMAIN data.nodes
            /\ WellFormed(told) /\ Carries(told, {s}) /\ told.unassigned = {}
  <2>1. /\ Carries(data, {s}) /\ data.unassigned = {}
        /\ data.found_match <=> fd.found_match
        /\ data.nodes \in Seq(Node)
        /\ fd.found_match => WellFormed(data)
        /\ Carries(searched, {s}) /\ searched.unassigned = {}
        /\ searched.found_match <=> fd.found_match
        /\ searched.nodes = data.nodes
        /\ ~ fd.found_match => WellFormed(searched)
        /\ ~ fd.found_match => search.at \subseteq DOMAIN data.nodes
        /\ Carries(told, {s}) /\ told.unassigned = {}
        /\ ~ fd.found_match => WellFormed(told)
    <3>1. PICK C \in SUBSET Children(s) : Carries(fd, C)
      BY <1>1, <1>2
    <3> HIDE DEF fd
    <3>2. QED
      BY <1>1, <1>2, <3>1, ResponseData, OwnIsOwned, OwnAssigned
  <2> HIDE DEF data, searched, search, told
  <2>2. QED
    BY <2>1
<1>4. \/ data.found_match /\ UNCHANGED calls /\ Respond(s, data)
      \/ ~ data.found_match /\ UNCHANGED calls /\ Respond(s, searched)
      \/ ~ data.found_match /\ \E v \in search.at : Report(s, searched, v)
  BY DEF ResponseInbound, Mine, SearchIn, Searched
<1> HIDE DEF data, search, searched, told
<1>5. CASE data.found_match /\ UNCHANGED calls /\ Respond(s, data)
  BY <1>3, <1>5
<1>6. CASE ~ data.found_match /\ UNCHANGED calls /\ Respond(s, searched)
  BY <1>3, <1>6
<1>7. CASE ~ data.found_match /\ \E v \in search.at : Report(s, searched, v)
  <2>1. PICK v \in search.at : Report(s, searched, v)
    BY <1>7
  <2>2. v \in DOMAIN searched.nodes /\ searched.nodes \in Seq(Node)
    BY <1>3, <1>7
  <2> DEFINE value == GetValueForStorage(searched, v)
  <2>3. value = NoValue \/ value \in Values
    <3>1. searched.nodes[v] \in Node
      BY <2>2
    <3>2. QED
      BY <3>1 DEF GetValueForStorage, Node
  <2>4. CASE value # NoValue /\ SendToStorage(n, value) /\ Respond(s, told)
    <3>1. Calls(n)
      <4> HIDE DEF value
      <4>1. QED
        BY <2>3, <2>4, SendToStorageCalls
    <3> HIDE DEF value
    <3>2. QED
      BY <1>3, <1>7, <2>3, <2>4, <3>1
  <2>5. CASE UNCHANGED calls /\ Respond(s, DefaultDistributed)
    BY <2>5, DefaultWellFormed
  <2>6. QED
    BY <2>1, <2>4, <2>5 DEF Report, told, Told, searched
<1>8. QED
  BY <1>4, <1>5, <1>6, <1>7

LEMMA ResponseInboundFerry ==
    ASSUME DistinctServices, FerryInv, NEW s \in Spans, ResponseInbound(s)
    PROVE  FerryInv'
<1>1. PICK data :
        /\ Respond(s, data)
        /\ WellFormed(data) /\ Carries(data, {s}) /\ data.unassigned = {}
        /\ \/ /\ calls' = calls
              /\ data.found_match => shared[ServiceOf[s]].found_match
           \/ Calls(ServiceOf[s])
  BY ResponseInboundSends
<1>2. calls' \in Seq(CallRecord)
  <2>1. calls \in Seq(CallRecord)
    BY DEF FerryInv, DataInv
  <2>2. ASSUME NEW value \in Values, NEW made \in BOOLEAN
        PROVE  [by |-> ServiceOf[s], value |-> value, made |-> made] \in CallRecord
    BY CallerType DEF CallRecord
  <2>3. CASE calls' = calls
    BY <2>1, <2>3
  <2>4. CASE Calls(ServiceOf[s])
    <3>1. PICK call \in CallRecord : calls' = Append(calls, call)
      BY <2>2, <2>4 DEF Calls
    <3>2. QED
      BY <2>1, <3>1, AppendProperties
  <2>5. QED
    BY <1>1, <2>3, <2>4
<1>3. phase[s] = "serving"
  BY DEF ResponseInbound, Answers
<1>4. QED
  BY <1>1, <1>2, <1>3, RespondsFerry

LEMMA FerryStep ==
    ASSUME DistinctServices, FerryInv, [Next]_vars
    PROVE  FerryInv'
<1>0. phase \in [Spans -> Phases] /\ IdleBelow
  BY DEF FerryInv, DataInv
<1>1. ASSUME NEW s \in Spans, RequestInbound(s)
      PROVE  FerryInv'
  BY <1>1, RequestInboundFerry
<1>2. ASSUME NEW s \in Spans, RequestInboundStore(s)
      PROVE  FerryInv'
  <2>1. phase[s] = "storing" /\ Writes(s, "serving")
    BY <1>2 DEF RequestInboundStore, Writes, At
  <2>2. QED
    BY <2>1, WritesFerry
<1>3. ASSUME NEW s \in Spans, RequestInboundFails(s)
      PROVE  FerryInv'
  <2>1. phase[s] = "idle" /\ Requested(s) /\ Passes(s, "serving")
    BY <1>3 DEF RequestInboundFails, Requested, Passes
  <2>2. IdleBelow'
    BY <1>0, <2>1, IdleKept DEF Passes
  <2>3. QED
    BY <2>1, <2>2, PassesFerry
<1>4. ASSUME NEW s \in Spans, ResponseInbound(s)
      PROVE  FerryInv'
  BY <1>4, ResponseInboundFerry
<1>5. ASSUME NEW s \in Spans, ResponseInboundFails(s)
      PROVE  FerryInv'
  <2>1. phase[s] = "serving" /\ Respond(s, DefaultDistributed) /\ calls' = calls
    BY <1>5 DEF ResponseInboundFails, Answers
  <2>2. QED
    BY <2>1, RespondsFerry, DefaultWellFormed DEF FerryInv, DataInv
<1>6. ASSUME NEW s \in Spans, ResponseOutbound(s)
      PROVE  FerryInv'
  BY <1>6, ResponseOutboundFerry
<1>7. ASSUME NEW s \in Spans, ResponseOutboundStore(s)
      PROVE  FerryInv'
  <2>1. phase[s] = "merging" /\ Writes(s, "done")
    BY <1>7 DEF ResponseOutboundStore, Writes, At
  <2>2. QED
    BY <2>1, WritesFerry
<1>8. ASSUME NEW s \in Spans, ResponseOutboundFails(s)
      PROVE  FerryInv'
  <2>1. phase[s] = "responded" /\ s # RootSpan /\ Passes(s, "done")
    BY <1>8 DEF ResponseOutboundFails, Passes
  <2>2. IdleBelow'
    BY <1>0, <2>1, IdleKept DEF Passes
  <2>3. QED
    BY <2>1, <2>2, PassesFerry
<1>9. CASE UNCHANGED vars
  BY <1>9 DEF vars, FerryInv, DataInv, RootStays, IdleBelow, HeaderCarries, SharedCarries,
              WritesCarry, Writing, At, Gathered, Fetched
<1>10. QED
  BY <1>1, <1>2, <1>3, <1>4, <1>5, <1>6, <1>7, <1>8, <1>9 DEF Next, Hook, Finished

(* However the hooks of a trace interleave and fail, and whatever writes    *)
(* are lost, the data that is ferried is well-formed: its edges lead        *)
(* between its nodes, set_s has an entry for every pair of a node and a     *)
(* node of the pattern until a match is found, so that the search, which    *)
(* looks entries up without asking, finds them; and every value sent to     *)
(* storage was collected.                                                   *)
THEOREM TypeCorrect == ASSUME DistinctServices PROVE Spec => []TypeOK
<1>1. Init => FerryInv
  BY FerryInit
<1>2. FerryInv /\ [Next]_vars => FerryInv'
  BY FerryStep
<1>3. FerryInv => TypeOK
  BY WellFormedOK DEF FerryInv, DataInv, TypeOK, CallRecord
<1>4. QED
  BY <1>1, <1>2, <1>3, PTL DEF Spec

-----------------------------------------------------------------------------
(* The inductive invariant behind FoundMeansReported: on its way up         *)
(* found_match lies in the shared data of a sidecar and in what a hook is   *)
(* about to write there, and wherever it lies, somebody below has called    *)
(* storage.                                                                *)
ReportedBelow(s) ==
    \E k \in DOMAIN calls : \E t \in Below[s] : calls[k].by = ServiceOf[t]

SharedFound ==
    \A s \in Spans : shared[ServiceOf[s]].found_match => ReportedBelow(s)

WritesFound ==
    \A s, t \in Spans :
        Writing(s) /\ At(s) = ServiceOf[t] /\ local[s].found_match => ReportedBelow(t)

FoundParts == FoundMeansReported /\ SharedFound /\ WritesFound

FoundInv == FerryInv /\ FoundParts

CallsGrow == calls' = calls \/ \E n : Calls(n)

LEMMA CallsKept ==
    ASSUME CallsGrow, calls \in Seq(CallRecord), NEW s \in Spans
    PROVE  /\ ReportedBelow(s) => ReportedBelow(s)'
           /\ Calls(ServiceOf[s]) => ReportedBelow(s)'
<1>1. ASSUME NEW n, Calls(n)
      PROVE  /\ \A k \in DOMAIN calls : k \in DOMAIN calls' /\ calls'[k] = calls[k]
             /\ \E k \in DOMAIN calls' : calls'[k].by = n
  <2>1. PICK value \in Values, made \in BOOLEAN :
          calls' = Append(calls, [by |-> n, value |-> value, made |-> made])
    BY <1>1 DEF Calls
  <2> DEFINE call == [by |-> n, value |-> value, made |-> made]
  <2>2. call.by = n /\ calls' = Append(calls, call)
    BY <2>1
  <2> HIDE DEF call
  <2>3. /\ \A k \in 1 .. Len(calls) : k \in 1 .. Len(calls) + 1 /\ Append(calls, call)[k] = calls[k]
        /\ DOMAIN calls = 1 .. Len(calls) /\ DOMAIN Append(calls, call) = 1 .. Len(calls) + 1
        /\ Append(calls, call)[Len(calls) + 1] = call
        /\ Len(calls) + 1 \in 1 .. Len(calls) + 1
    OBVIOUS
  <2>4. QED
    BY <2>2, <2>3
<1>2. ReportedBelow(s) => ReportedBelow(s)'
  <2>1. CASE calls' = calls
    BY <2>1 DEF ReportedBelow
  <2>2. CASE \E n : Calls(n)
    BY <1>1, <2>2 DEF ReportedBelow
  <2>3. QED
    BY <2>1, <2>2 DEF CallsGrow
<1>3. ASSUME Calls(ServiceOf[s])
      PROVE  ReportedBelow(s)'
  BY <1>1, <1>3, BelowClosed DEF ReportedBelow
<1>4. QED
  BY <1>2, <1>3

(* A hook that reads finds found_match in what it reads.                    *)
LEMMA ReadsFound ==
    ASSUME FoundInv, NEW s \in Spans, NEW p, NEW data, Reads(s, p, data),
           \A t \in Spans : At(s)' = ServiceOf[t] /\ data.found_match => ReportedBelow(t)
    PROVE  FoundParts'
<1>1. /\ phase' = [phase EXCEPT ![s] = p] /\ local' = [local EXCEPT ![s] = data]
      /\ phase \in [Spans -> Phases] /\ DOMAIN local = Spans
      /\ UNCHANGED <<shared, header, calls>>
  BY DEF Reads, FoundInv, FerryInv, DataInv
<1>2. /\ local'[s] = data
      /\ \A t \in Spans : t # s => phase'[t] = phase[t] /\ local'[t] = local[t]
  BY <1>1
<1>3. FoundMeansReported' /\ SharedFound'
  BY <1>1 DEF FoundInv, FoundParts, FoundMeansReported, SharedFound, ReportedBelow
<1>4. \A t \in Spans : ReportedBelow(t)' <=> ReportedBelow(t)
  BY <1>1 DEF ReportedBelow
<1>5. ASSUME NEW r \in Spans, NEW t \in Spans, Writing(r)', At(r)' = ServiceOf[t],
             local'[r].found_match
      PROVE  ReportedBelow(t)'
  <2>1. CASE r = s
    BY <1>2, <1>4, <1>5, <2>1
  <2>2. CASE r # s
    <3>1. Writing(r) /\ At(r) = ServiceOf[t] /\ local[r].found_match
      BY <1>2, <1>5, <2>2 DEF Writing, At
    <3>2. QED
      BY <1>4, <3>1 DEF FoundInv, FoundParts, WritesFound
  <2>3. QED
    BY <2>1, <2>2
<1>6. QED
  BY <1>3, <1>5 DEF FoundParts, WritesFound

LEMMA WritesFoundKept ==
    ASSUME FoundInv, NEW s \in Spans, NEW p, Writes(s, p), Writing(s),
           p \notin {"storing", "merging"}
    PROVE  FoundParts'
<1>1. /\ phase' = [phase EXCEPT ![s] = p] /\ local' = [local EXCEPT ![s] = DefaultDistributed]
      /\ shared' = [shared EXCEPT ![At(s)] = local[s]]
      /\ phase \in [Spans -> Phases] /\ DOMAIN local = Spans /\ DOMAIN shared = Services
      /\ UNCHANGED <<header, calls>>
  BY DEF Writes, WriteShared, FoundInv, FerryInv, DataInv
<1>2. /\ phase'[s] = p
      /\ \A t \in Spans : t # s => phase'[t] = phase[t] /\ local'[t] = local[t]
      /\ \A t \in Spans : \/ shared'[ServiceOf[t]] = shared[ServiceOf[t]]
                          \/ At(s) = ServiceOf[t] /\ shared'[ServiceOf[t]] = local[s]
  BY <1>1, CallerType
<1>3. \A t \in Spans : ReportedBelow(t)' <=> ReportedBelow(t)
  BY <1>1 DEF ReportedBelow
<1>4. FoundMeansReported'
  BY <1>1 DEF FoundInv, FoundParts, FoundMeansReported
<1>5. SharedFound'
  BY <1>2, <1>3 DEF FoundInv, FoundParts, SharedFound, WritesFound
<1>6. ASSUME NEW r \in Spans, NEW t \in Spans, Writing(r)', At(r)' = ServiceOf[t],
             local'[r].found_match
      PROVE  ReportedBelow(t)'
  <2>1. r # s
    BY <1>2, <1>6 DEF Writing
  <2>2. Writing(r) /\ At(r) = ServiceOf[t] /\ local[r].found_match
    BY <1>2, <1>6, <2>1 DEF Writing, At
  <2>3. QED
    BY <1>3, <2>2 DEF FoundInv, FoundParts, WritesFound
<1>7. QED
  BY <1>4, <1>5, <1>6 DEF FoundParts, WritesFound

LEMMA RespondsFound ==
    ASSUME FoundInv, NEW s \in Spans, NEW data, Respond(s, data), CallsGrow,
           data.found_match => ReportedBelow(s)'
    PROVE  FoundParts'
<1>1. /\ phase' = [phase EXCEPT ![s] = "responded"] /\ header' = [header EXCEPT ![s] = data]
      /\ phase \in [Spans -> Phases] /\ DOMAIN header = Spans /\ calls \in Seq(CallRecord)
      /\ UNCHANGED <<shared, local>>
  BY DEF Respond, FoundInv, FerryInv, DataInv
<1>2. /\ header'[s] = data /\ phase'[s] = "responded"
      /\ \A t \in Spans : t # s => phase'[t] = phase[t] /\ header'[t] = header[t]
  BY <1>1
<1>3. \A t \in Spans : ReportedBelow(t) => ReportedBelow(t)'
  BY <1>1, CallsKept
<1>4. ASSUME NEW t \in Spans, header'[t].found_match
      PROVE  ReportedBelow(t)'
  <2>1. CASE t = s
    BY <1>2, <1>4, <2>1
  <2>2. CASE t # s
    BY <1>2, <1>3, <1>4, <2>2 DEF FoundInv, FoundParts, FoundMeansReported, ReportedBelow
  <2>3. QED
    BY <2>1, <2>2
<1>5. SharedFound'
  BY <1>1, <1>3 DEF FoundInv, FoundParts, SharedFound
<1>6. ASSUME NEW r \in Spans, NEW t \in Spans, Writing(r)', At(r)' = ServiceOf[t],
             local'[r].found_match
      PROVE  ReportedBelow(t)'
  <2>1. r # s
    BY <1>2, <1>6 DEF Writing
  <2>2. Writing(r) /\ At(r) = ServiceOf[t] /\ local[r].found_match
    BY <1>1, <1>2, <1>6, <2>1 DEF Writing, At
  <2>3. QED
    BY <1>3, <2>2 DEF FoundInv, FoundParts, WritesFound
<1>7. QED
  BY <1>4, <1>5, <1>6 DEF FoundParts, FoundMeansReported, WritesFound, ReportedBelow

LEMMA PassesFound ==
    ASSUME FoundInv, NEW s \in Spans, NEW p, Passes(s, p), p \notin {"storing", "merging"}
    PROVE  FoundParts'
<1>1. /\ phase' = [phase EXCEPT ![s] = p] /\ phase \in [Spans -> Phases]
      /\ UNCHANGED <<shared, local, header, calls>>
  BY DEF Passes, FoundInv, FerryInv, DataInv
<1>2. FoundMeansReported' /\ SharedFound'
  BY <1>1 DEF FoundInv, FoundParts, FoundMeansReported, SharedFound, ReportedBelow
<1>3. ASSUME NEW r \in Spans, NEW t \in Spans, Writing(r)', At(r)' = ServiceOf[t],
             local'[r].found_match
      PROVE  ReportedBelow(t)'
  <2>1. Writing(r) /\ At(r) = ServiceOf[t] /\ local[r].found_match
    BY <1>1, <1>3 DEF Writing, At
  <2>2. QED
    BY <1>1, <2>1 DEF FoundInv, FoundParts, WritesFound, ReportedBelow
<1>4. QED
  BY <1>2, <1>3 DEF FoundParts, WritesFound

LEMMA FoundStep ==
    ASSUME DistinctServices, FoundInv, [Next]_vars
    PROVE  FoundInv'
<1>0. /\ phase \in [Spans -> Phases] /\ RootStays /\ FerryInv
      /\ \A n \in Services : WellFormed(shared[n])
      /\ \A s \in Spans : WellFormed(header[s])
  BY DEF FoundInv, FerryInv, DataInv
<1>1. ASSUME NEW s \in Spans, RequestInbound(s)
      PROVE  FoundParts'
  <2> DEFINE n == ServiceOf[s]
             data == MergeDistributed(Collected(n), shared[n])
  <2>1. n \in Services /\ WellFormed(shared[n]) /\ WellFormed(Collected(n))
    BY <1>0, CallerType, CollectedWellFormed
  <2>2. Collected(n).found_match = FALSE
    BY DEF Collected, DefaultDistributed
  <2>3. data.found_match => shared[n].found_match
    BY <2>1, <2>2, MergeDistributedIs
  <2>4. Reads(s, "storing", data) /\ phase'[s] = "storing"
    BY <1>0, <1>1 DEF RequestInbound, ReadAndMerge, Reads
  <2>5. At(s)' = ServiceOf[s]
    BY <2>4 DEF At
  <2> HIDE DEF data
  <2>6. \A t \in Spans : At(s)' = ServiceOf[t] /\ data.found_match => ReportedBelow(t)
    BY <2>3, <2>5 DEF FoundInv, FoundParts, SharedFound
  <2>7. QED
    BY <2>4, <2>6, ReadsFound
<1>2. ASSUME NEW s \in Spans, RequestInboundStore(s)
      PROVE  FoundParts'
  <2>1. Writing(s) /\ Writes(s, "serving")
    BY <1>2 DEF RequestInboundStore, Writes, Writing, At
  <2>2. QED
    BY <2>1, WritesFoundKept
<1>3. ASSUME NEW s \in Spans, RequestInboundFails(s)
      PROVE  FoundParts'
  <2>1. Passes(s, "serving")
    BY <1>3 DEF RequestInboundFails, Passes
  <2>2. QED
    BY <2>1, PassesFound
<1>4. ASSUME NEW s \in Spans, ResponseInbound(s)
      PROVE  FoundParts'
  <2>1. PICK data :
          /\ Respond(s, data)
          /\ WellFormed(data) /\ Carries(data, {s}) /\ data.unassigned = {}
          /\ \/ /\ calls' = calls
                /\ data.found_match => shared[ServiceOf[s]].found_match
             \/ Calls(ServiceOf[s])
    BY <1>0, <1>4, ResponseInboundSends
  <2>2. CallsGrow /\ calls \in Seq(CallRecord)
    BY <2>1 DEF CallsGrow, FoundInv, FerryInv, DataInv
  <2>3. ASSUME data.found_match
        PROVE  ReportedBelow(s)'
    <3>1. CASE calls' = calls /\ shared[ServiceOf[s]].found_match
      BY <2>2, <3>1, CallsKept DEF FoundInv, FoundParts, SharedFound
    <3>2. CASE Calls(ServiceOf[s])
      BY <2>2, <3>2, CallsKept
    <3>3. QED
      BY <2>1, <2>3, <3>1, <3>2
  <2>4. QED
    BY <2>1, <2>2, <2>3, RespondsFound
<1>5. ASSUME NEW s \in Spans, ResponseInboundFails(s)
      PROVE  FoundParts'
  <2>1. Respond(s, DefaultDistributed) /\ CallsGrow
    BY <1>5 DEF ResponseInboundFails, CallsGrow
  <2>2. ~ DefaultDistributed.found_match
    BY DefaultWellFormed
  <2>3. QED
    BY <2>1, <2>2, RespondsFound
<1>6. ASSUME NEW s \in Spans, ResponseOutbound(s)
      PROVE  FoundParts'
  <2> DEFINE n == Caller(s)
             data == MergeDistributed(header[s], shared[n])
  <2>1. /\ s # RootSpan /\ Parent[s] \in Spans /\ s \in Children(Parent[s])
        /\ n = ServiceOf[Parent[s]] /\ n \in Services
    BY <1>6, ChildrenOfSpans, CallerType DEF ResponseOutbound, Caller
  <2>2. data.found_match => header[s].found_match \/ shared[n].found_match
    BY <1>0, <2>1, MergeDistributedIs
  <2>3. Below[s] \subseteq Below[Parent[s]]
    BY <2>1, BelowChildren
  <2>4. data.found_match => ReportedBelow(Parent[s])
    <3> HIDE DEF data
    <3>1. header[s].found_match => ReportedBelow(Parent[s])
      BY <2>3 DEF FoundInv, FoundParts, FoundMeansReported, ReportedBelow
    <3>2. shared[n].found_match => ReportedBelow(Parent[s])
      BY <2>1 DEF FoundInv, FoundParts, SharedFound
    <3>3. QED
      BY <2>2, <3>1, <3>2
  <2>5. Reads(s, "merging", data) /\ phase'[s] = "merging"
    BY <1>0, <1>6 DEF ResponseOutbound, ReadAndMerge, Reads
  <2>6. At(s)' = ServiceOf[Parent[s]]
    BY <2>1, <2>5 DEF At, Caller
  <2> HIDE DEF data
  <2>7. \A t \in Spans : At(s)' = ServiceOf[t] /\ data.found_match => ReportedBelow(t)
    BY <2>1, <2>4, <2>6 DEF DistinctServices
  <2>8. QED
    BY <2>5, <2>7, ReadsFound
<1>7. ASSUME NEW s \in Spans, ResponseOutboundStore(s)
      PROVE  FoundParts'
  <2>1. Writing(s) /\ Writes(s, "done")
    BY <1>7 DEF ResponseOutboundStore, Writes, Writing, At
  <2>2. QED
    BY <2>1, WritesFoundKept
<1>8. ASSUME NEW s \in Spans, ResponseOutboundFails(s)
      PROVE  FoundParts'
  <2>1. Passes(s, "done")
    BY <1>8 DEF ResponseOutboundFails, Passes
  <2>2. QED
    BY <2>1, PassesFound
<1>9. ASSUME UNCHANGED vars
      PROVE  FoundParts'
  BY <1>9 DEF vars, FoundInv, FoundParts, FoundMeansReported, SharedFound, WritesFound,
              ReportedBelow, Writing, At
<1>10. FoundParts'
  BY <1>1, <1>2, <1>3, <1>4, <1>5, <1>6, <1>7, <1>8, <1>9 DEF Next, Hook, Finished
<1>11. FerryInv'
  BY <1>0, FerryStep
<1>12. QED
  BY <1>10, <1>11 DEF FoundInv

(* found_match silences every sidecar above, and it is carried through      *)
(* headers, merges and shared data that other hooks overwrite.  Nobody is   *)
(* told that a match was found unless somebody below called storage, or     *)
(* tried to: no sidecar is silenced for nothing.                            *)
THEOREM FoundWasReported ==
    ASSUME DistinctServices PROVE Spec => []FoundMeansReported
<1>1. ASSUME Init
      PROVE  FoundInv
  <2>1. FerryInv
    BY <1>1, FerryInit
  <2>2. ~ DefaultDistributed.found_match
    BY DefaultWellFormed
  <2>3. QED
    BY <1>1, <2>1, <2>2, CallerType
       DEF Init, FoundInv, FoundParts, FoundMeansReported, SharedFound, WritesFound
<1>2. FoundInv /\ [Next]_vars => FoundInv'
  BY FoundStep
<1>3. FoundInv => FoundMeansReported
  BY DEF FoundInv, FoundParts
<1>4. QED
  BY <1>1, <1>2, <1>3, PTL DEF Spec

-----------------------------------------------------------------------------
(* The inductive invariant behind FerriedSetSTrue: with the headers and what *)
(* is about to be written, the shared data claims nothing but the truth, and *)
(* FerryInv says which graphs can meet.                                     *)
TrueParts ==
    \A s \in Spans :
        Claims(header[s]) /\ Claims(local[s]) /\ Claims(shared[ServiceOf[s]])

TrueInv == FerryInv /\ TrueParts

(* What a response hook sends, and what it makes of the calls.              *)
Sends(s, fd, n) ==
    \/ Respond(s, Mine(fd, n)) /\ UNCHANGED calls
    \/ ~ fd.found_match /\ Respond(s, Searched(fd, n)) /\ UNCHANGED calls
    \/ Respond(s, DefaultDistributed) /\ UNCHANGED calls
    \/ /\ ~ fd.found_match /\ Respond(s, Told(fd, n))
       /\ \E v \in SearchIn(fd, n).at :
            /\ GetValueForStorage(Mine(fd, n), v) # NoValue
            /\ SendToStorage(n, GetValueForStorage(Mine(fd, n), v))

LEMMA ResponseInboundForms ==
    ASSUME DistinctServices, FerryInv, NEW s \in Spans, ResponseInbound(s)
    PROVE  Sends(s, shared[ServiceOf[s]], ServiceOf[s])
<1> DEFINE n == ServiceOf[s]
           fd == shared[n]
           data == Mine(fd, n)
           search == SearchIn(fd, n)
           searched == Searched(fd, n)
<1>1. n \in Services /\ WellFormed(fd) /\ Fetched(s) \in SUBSET Children(s)
      /\ Carries(fd, Fetched(s)) /\ OwnOnly(fd, n)
  BY CallerType DEF FerryInv, DataInv, SharedCarries, Fetched
<1>2. (data.found_match <=> fd.found_match) /\ searched.nodes = data.nodes
  <2>1. PICK C \in SUBSET Children(s) : Carries(fd, C)
    BY <1>1
  <2> HIDE DEF fd
  <2>2. QED
    BY <1>1, <2>1, ResponseData, OwnIsOwned, OwnAssigned
<1>3. \/ data.found_match /\ UNCHANGED calls /\ Respond(s, data)
      \/ ~ data.found_match /\ UNCHANGED calls /\ Respond(s, searched)
      \/ ~ data.found_match /\ \E v \in search.at : Report(s, searched, v)
  BY DEF ResponseInbound, Mine, SearchIn, Searched
<1> HIDE DEF data, search, searched
<1>4. ASSUME NEW v \in search.at, Report(s, searched, v), ~ fd.found_match
      PROVE  Sends(s, fd, n)
  <2>1. GetValueForStorage(searched, v) = GetValueForStorage(data, v)
    BY <1>2 DEF GetValueForStorage
  <2>2. \/ /\ GetValueForStorage(data, v) # NoValue
           /\ SendToStorage(n, GetValueForStorage(data, v))
           /\ Respond(s, Told(fd, n))
        \/ UNCHANGED calls /\ Respond(s, DefaultDistributed)
    BY <1>4, <2>1 DEF Report, Told, searched
  <2>3. QED
    BY <1>4, <2>2 DEF Sends, data, search
<1>5. QED
  BY <1>2, <1>3, <1>4 DEF Sends, data, searched

LEMMA TrueStep ==
    ASSUME DistinctServices, Tree(Target), TrueInv, [Next]_vars
    PROVE  TrueInv'
<1>0. /\ FerryInv /\ TrueParts /\ DOMAIN local = Spans /\ DOMAIN header = Spans
      /\ DOMAIN shared = Services /\ \A n \in Services : WellFormed(shared[n])
      /\ \A s \in Spans : WellFormed(header[s]) /\ ServiceOf[s] \in Services
  BY CallerType DEF TrueInv, FerryInv, DataInv
<1>1. ASSUME NEW s \in Spans, NEW p, NEW data, Reads(s, p, data), Claims(data)
      PROVE  TrueParts'
  BY <1>0, <1>1 DEF Reads, TrueParts
<1>2. ASSUME NEW s \in Spans, NEW p, Writes(s, p)
      PROVE  TrueParts'
  <2>1. /\ local' = [local EXCEPT ![s] = DefaultDistributed]
        /\ shared' = [shared EXCEPT ![At(s)] = local[s]]
        /\ header' = header
    BY <1>2 DEF Writes, WriteShared
  <2>2. \A t \in Spans : /\ shared'[ServiceOf[t]] \in {shared[ServiceOf[t]], local[s]}
                         /\ local'[t] \in {local[t], DefaultDistributed}
    BY <1>0, <2>1
  <2>3. QED
    BY <1>0, <2>1, <2>2, DefaultClaims DEF TrueParts
<1>3. ASSUME NEW s \in Spans, NEW data, Respond(s, data), Claims(data)
      PROVE  TrueParts'
  BY <1>0, <1>3 DEF Respond, TrueParts
<1>4. ASSUME UNCHANGED <<shared, local, header>>
      PROVE  TrueParts'
  BY <1>0, <1>4 DEF TrueParts
<1>5. ASSUME NEW s \in Spans, RequestInbound(s)
      PROVE  TrueParts'
  <2> DEFINE n == ServiceOf[s]
             data == MergeDistributed(Collected(n), shared[n])
  <2>1. n \in Services /\ WellFormed(shared[n]) /\ Fetched(s) = {} /\ {} \in SUBSET Children(s)
    BY <1>0, <1>5 DEF FerryInv, RequestInbound, Requested, IdleBelow, Fetched
  <2>2. Carries(shared[n], {}) /\ OwnOnly(shared[n], n) /\ Claims(shared[n])
    BY <1>0, <2>1 DEF FerryInv, SharedCarries, TrueParts
  <2>3. WellFormed(Collected(n)) /\ Carries(Collected(n), {}) /\ OwnOnly(Collected(n), n)
    BY <2>1, CollectedWellFormed
  <2>4. Claims(Collected(n))
    <3>1. Collected(n).set_s = DefaultDistributed.set_s
      BY DEF Collected, DefaultDistributed
    <3>2. DOMAIN Collected(n).set_s = {}
      BY <3>1 DEF DefaultDistributed
    <3>3. QED
      BY <3>2 DEF Claims, SetSTrue
  <2>5. Claims(data)
    BY <2>1, <2>2, <2>3, <2>4, MergeClaims, OwnIsOwned
  <2>6. Reads(s, "storing", data)
    BY <1>5 DEF RequestInbound, ReadAndMerge, Reads
  <2> HIDE DEF data
  <2>7. QED
    BY <1>1, <2>5, <2>6
<1>6. ASSUME NEW s \in Spans, ResponseInbound(s)
      PROVE  TrueParts'
  <2> DEFINE n == ServiceOf[s]
             fd == shared[n]
  <2>1. Sends(s, fd, n)
    BY <1>0, <1>6, ResponseInboundForms
  <2>2. /\ WellFormed(fd) /\ Fetched(s) \in SUBSET Children(s)
        /\ Carries(fd, Fetched(s)) /\ OwnOnly(fd, n) /\ Claims(fd)
    BY <1>0 DEF FerryInv, SharedCarries, Fetched, TrueParts
  <2> HIDE DEF fd
  <2>3. Claims(Mine(fd, n)) /\ (~ fd.found_match => Claims(Searched(fd, n)) /\ Claims(Told(fd, n)))
    BY <2>2, ResponseClaims, OwnIsOwned
  <2>4. \E data : Claims(data) /\ Respond(s, data)
    BY <2>1, <2>3, DefaultClaims DEF Sends
  <2>5. QED
    BY <1>3, <2>4
<1>7. ASSUME NEW s \in Spans, ResponseOutbound(s)
      PROVE  TrueParts'
  <2> DEFINE t == Parent[s]
             n == Caller(s)
             data == MergeDistributed(header[s], shared[n])
  <2>1. s \in Spans \ {RootSpan} /\ phase[s] = "responded"
    BY <1>7 DEF ResponseOutbound
  <2>2. /\ t \in Spans /\ s \in Children(t) /\ n = ServiceOf[t] /\ n \in Services
        /\ WellFormed(header[s]) /\ WellFormed(shared[n])
    BY <1>0, <2>1, CallerType, ChildrenOfSpans DEF Caller
  <2>3. Carries(header[s], {s}) /\ OwnOnly(header[s], ServiceOf[t]) /\ Claims(header[s])
    BY <1>0 DEF FerryInv, HeaderCarries, OwnOnly, TrueParts
  <2>4. Carries(shared[n], Fetched(t)) /\ OwnOnly(shared[n], ServiceOf[t]) /\ Claims(shared[n])
    BY <1>0, <2>2 DEF FerryInv, SharedCarries, TrueParts
  <2>5. {s} \in SUBSET Children(t) /\ Fetched(t) \in SUBSET Children(t) /\ {s} \cap Fetched(t) = {}
    BY <2>1, <2>2 DEF Fetched
  <2>6. Claims(data)
    BY <2>2, <2>3, <2>4, <2>5, MergeClaims, OwnIsOwned
  <2>7. Reads(s, "merging", data)
    BY <1>7 DEF ResponseOutbound, ReadAndMerge, Reads
  <2> HIDE DEF data
  <2>8. QED
    BY <1>1, <2>6, <2>7
<1>8. ASSUME NEW s \in Spans, \/ RequestInboundStore(s) \/ ResponseOutboundStore(s)
      PROVE  TrueParts'
  <2>1. Writes(s, "serving") \/ Writes(s, "done")
    BY <1>8 DEF RequestInboundStore, ResponseOutboundStore, Writes, At
  <2>2. QED
    BY <1>2, <2>1
<1>9. ASSUME NEW s \in Spans, \/ RequestInboundFails(s) \/ ResponseOutboundFails(s)
                              \/ ResponseInboundFails(s)
      PROVE  TrueParts'
  BY <1>3, <1>4, <1>9, DefaultClaims
     DEF RequestInboundFails, ResponseOutboundFails, ResponseInboundFails
<1>10. UNCHANGED vars => TrueParts'
  BY <1>4 DEF vars
<1>11. TrueParts'
  BY <1>5, <1>6, <1>7, <1>8, <1>9, <1>10 DEF Next, Hook, Finished
<1>12. FerryInv'
  BY <1>0, FerryStep
<1>13. QED
  BY <1>11, <1>12 DEF TrueInv

LEMMA TrueInit ==
    ASSUME Init
    PROVE  TrueInv
<1>1. FerryInv
  BY FerryInit
<1>2. TrueParts
  BY DefaultClaims, CallerType DEF Init, TrueParts
<1>3. QED
  BY <1>1, <1>2 DEF TrueInv

(* The search of a sidecar builds on what its callees' set_s says of their  *)
(* own nodes, which by then have moved to other positions, next to nodes of *)
(* other callees.  However graphs are merged, and whatever of them is lost: *)
(* what set_s says of a node is true of the graph it is ferried with.       *)
THEOREM FerriedEntriesAreTrue ==
    ASSUME DistinctServices, Tree(Target) PROVE Spec => []FerriedSetSTrue
<1>1. Init => TrueInv
  BY TrueInit
<1>2. TrueInv /\ [Next]_vars => TrueInv'
  BY TrueStep
<1>3. TrueInv => FerriedSetSTrue
  BY DEF TrueInv, TrueParts, Claims, FerriedSetSTrue
<1>4. QED
  BY <1>1, <1>2, <1>3, PTL DEF Spec
-----------------------------------------------------------------------------
(* No graph has a node of a service that was not called yet.  With          *)
(* FerryInv, a graph is then one of the trace as it is now, and not only of *)
(* what it may become.                                                     *)
NamesCalled ==
    \A s \in Spans :
        /\ NamesIn(header[s].nodes) \subseteq CalledNames
        /\ NamesIn(local[s].nodes) \subseteq CalledNames
        /\ NamesIn(shared[ServiceOf[s]].nodes) \subseteq CalledNames

LEMMA MergedNames ==
    ASSUME NEW a, NEW b, WellFormed(a), WellFormed(b)
    PROVE  NamesIn(MergeDistributed(a, b).nodes) \subseteq NamesIn(a.nodes) \cup NamesIn(b.nodes)
<1>1. /\ Graph(a) \in FerriedDataType /\ Graph(b) \in FerriedDataType
      /\ Graph(a).nodes = a.nodes /\ Graph(b).nodes = b.nodes
  BY GraphType
<1>2. MergeDistributed(a, b).nodes = Merge(Graph(a), Graph(b)).nodes
  BY MergeDistributedIs
<1>3. NamesIn(Merge(Graph(a), Graph(b)).nodes) = NamesIn(Graph(a).nodes) \cup NamesIn(Graph(b).nodes)
  BY <1>1, MergeNames
<1>4. QED
  BY <1>1, <1>2, <1>3

LEMMA MyNames ==
    ASSUME NEW fd, WellFormed(fd), NEW n \in Services
    PROVE  /\ NamesIn(Mine(fd, n).nodes) = NamesIn(fd.nodes) \cup {n}
           /\ Searched(fd, n).nodes = Mine(fd, n).nodes
           /\ Told(fd, n).nodes = Mine(fd, n).nodes
<1>1. Graph(fd) \in FerriedDataType /\ Graph(fd).nodes = fd.nodes
      /\ Graph(fd).edges = fd.edges /\ Graph(fd).unassigned = fd.unassigned
  BY GraphType
<1>2. AddMe(Graph(fd), n) = AddMe(fd, n)
  BY <1>1 DEF AddMe, Roots
<1>3. NamesIn(AddMe(Graph(fd), n).nodes) = NamesIn(Graph(fd).nodes) \cup {n}
  BY <1>1, AddMeNames
<1>4. Mine(fd, n) \in [nodes : {AddMe(fd, n).nodes}, edges : {AddMe(fd, n).edges},
                       unassigned : {AddMe(fd, n).unassigned},
                       found_match : {fd.found_match}, set_s : {fd.set_s}]
  BY WithGraphFields DEF Mine
<1>5. QED
  BY <1>1, <1>2, <1>3, <1>4 DEF Searched, Told

LEMMA SpansCalled ==
    ASSUME phase \in [Spans -> Phases], NEW s \in Spans, NEW p, p # "idle",
           phase' = [phase EXCEPT ![s] = p]
    PROVE  CalledSpans' = CalledSpans \cup {s} /\ CalledNames \subseteq CalledNames'
BY DEF CalledSpans, CalledNames

LEMMA NamesCalledStep ==
    ASSUME DistinctServices, FerryInv, NamesCalled, [Next]_vars
    PROVE  NamesCalled'
<1>0. /\ DOMAIN local = Spans /\ DOMAIN header = Spans /\ DOMAIN shared = Services
      /\ phase \in [Spans -> Phases]
      /\ \A s \in Spans : ServiceOf[s] \in Services
  BY CallerType DEF FerryInv, DataInv
<1>1. ASSUME NEW s \in Spans, NEW p, p # "idle", NEW data, Reads(s, p, data),
             NamesIn(data.nodes) \subseteq CalledNames
      PROVE  NamesCalled'
  <2>1. CalledNames \subseteq CalledNames'
    BY <1>0, <1>1, SpansCalled DEF Reads
  <2>2. QED
    BY <1>0, <1>1, <2>1 DEF Reads, NamesCalled
<1>2. ASSUME NEW s \in Spans, NEW p, p # "idle", Writes(s, p)
      PROVE  NamesCalled'
  <2>1. /\ local' = [local EXCEPT ![s] = DefaultDistributed]
        /\ shared' = [shared EXCEPT ![At(s)] = local[s]]
        /\ header' = header
    BY <1>2 DEF Writes, WriteShared
  <2>2. \A t \in Spans : /\ shared'[ServiceOf[t]] \in {shared[ServiceOf[t]], local[s]}
                         /\ local'[t] \in {local[t], DefaultDistributed}
    BY <1>0, <2>1
  <2>3. CalledNames \subseteq CalledNames'
    BY <1>0, <1>2, SpansCalled DEF Writes
  <2>4. NamesIn(DefaultDistributed.nodes) = {}
    BY DEF DefaultDistributed, NamesIn
  <2>5. QED
    BY <2>1, <2>2, <2>3, <2>4 DEF NamesCalled
<1>3. ASSUME NEW s \in Spans, NEW data, Respond(s, data), NamesIn(data.nodes) \subseteq CalledNames
      PROVE  NamesCalled'
  <2>1. CalledNames \subseteq CalledNames'
    BY <1>0, <1>3, SpansCalled DEF Respond
  <2>2. QED
    BY <1>0, <1>3, <2>1 DEF Respond, NamesCalled
<1>4. ASSUME NEW s \in Spans, NEW p, p # "idle", Passes(s, p)
      PROVE  NamesCalled'
  <2>1. CalledNames \subseteq CalledNames'
    BY <1>0, <1>4, SpansCalled DEF Passes
  <2>2. QED
    BY <1>4, <2>1 DEF Passes, NamesCalled
<1>5. ASSUME NEW s \in Spans, RequestInbound(s)
      PROVE  NamesCalled'
  <2> DEFINE n == ServiceOf[s]
             data == MergeDistributed(Collected(n), shared[n])
  <2>1. n \in Services /\ WellFormed(shared[n]) /\ WellFormed(Collected(n))
    BY <1>0, CollectedWellFormed DEF FerryInv, DataInv
  <2>2. NamesIn(Collected(n).nodes) = {}
    BY DEF Collected, DefaultDistributed, NamesIn
  <2>3. NamesIn(data.nodes) \subseteq CalledNames
    BY <2>1, <2>2, MergedNames DEF NamesCalled
  <2>4. Reads(s, "storing", data)
    BY <1>5 DEF RequestInbound, ReadAndMerge, Reads
  <2> HIDE DEF data
  <2>5. QED
    BY <1>1, <2>3, <2>4
<1>6. ASSUME NEW s \in Spans, ResponseInbound(s)
      PROVE  NamesCalled'
  <2> DEFINE n == ServiceOf[s]
             fd == shared[n]
  <2>1. Sends(s, fd, n)
    BY <1>6, ResponseInboundForms
  <2>2. n \in Services /\ WellFormed(fd) /\ NamesIn(fd.nodes) \subseteq CalledNames
    BY <1>0 DEF FerryInv, DataInv, NamesCalled
  <2>3. n \in CalledNames
    BY <1>6 DEF ResponseInbound, Answers, CalledNames, CalledSpans
  <2> HIDE DEF fd
  <2>4. /\ NamesIn(Mine(fd, n).nodes) \subseteq CalledNames
        /\ NamesIn(Searched(fd, n).nodes) \subseteq CalledNames
        /\ NamesIn(Told(fd, n).nodes) \subseteq CalledNames
    BY <2>2, <2>3, MyNames
  <2>5. NamesIn(DefaultDistributed.nodes) = {}
    BY DEF DefaultDistributed, NamesIn
  <2>6. QED
    BY <1>3, <2>1, <2>4, <2>5 DEF Sends
<1>7. ASSUME NEW s \in Spans, ResponseOutbound(s)
      PROVE  NamesCalled'
  <2> DEFINE n == Caller(s)
             data == MergeDistributed(header[s], shared[n])
  <2>1. s \in Spans \ {RootSpan} /\ Parent[s] \in Spans /\ n = ServiceOf[Parent[s]]
    BY <1>7, ChildrenOfSpans DEF ResponseOutbound, Caller
  <2>2. n \in Services /\ WellFormed(shared[n]) /\ WellFormed(header[s])
    BY <1>0, <2>1 DEF FerryInv, DataInv
  <2>3. NamesIn(data.nodes) \subseteq CalledNames
    BY <2>1, <2>2, MergedNames DEF NamesCalled
  <2>4. Reads(s, "merging", data)
    BY <1>7 DEF ResponseOutbound, ReadAndMerge, Reads
  <2> HIDE DEF data
  <2>5. QED
    BY <1>1, <2>3, <2>4
<1>8. ASSUME NEW s \in Spans, \/ RequestInboundStore(s) \/ ResponseOutboundStore(s)
      PROVE  NamesCalled'
  <2>1. Writes(s, "serving") \/ Writes(s, "done")
    BY <1>8 DEF RequestInboundStore, ResponseOutboundStore, Writes, At
  <2>2. QED
    BY <1>2, <2>1
<1>9. ASSUME NEW s \in Spans, \/ RequestInboundFails(s) \/ ResponseOutboundFails(s)
      PROVE  NamesCalled'
  BY <1>4, <1>9 DEF RequestInboundFails, ResponseOutboundFails, Passes
<1>10. ASSUME NEW s \in Spans, ResponseInboundFails(s)
       PROVE  NamesCalled'
  <2>1. NamesIn(DefaultDistributed.nodes) = {}
    BY DEF DefaultDistributed, NamesIn
  <2>2. QED
    BY <1>3, <1>10, <2>1 DEF ResponseInboundFails
<1>11. UNCHANGED vars => NamesCalled'
  BY DEF vars, NamesCalled, CalledNames, CalledSpans
<1>12. QED
  BY <1>5, <1>6, <1>7, <1>8, <1>9, <1>10, <1>11 DEF Next, Hook, Finished
-----------------------------------------------------------------------------
(* The inductive invariant behind the refinement.                          *)
RefinementInv == TrueInv /\ NamesCalled

(* The two specifications mean the same by a match, and see the same of the *)
(* trace.                                                                  *)
LEMMA SameOperators ==
    /\ \A V, edges, v : Collection!Reachable(V, edges, v) = Reachable(V, edges, v)
    /\ \A h, label, edges, v :
        Collection!EmbedsAt(h, label, edges, v) <=> EmbedsAt(h, label, edges, v)
<1>1. \A V, edges, v : Collection!Reachable(V, edges, v) = Reachable(V, edges, v)
  BY DEF Collection!Reachable, Reachable
<1>2. \A h : Collection!FindRoot(h) = FindRoot(h)
  BY DEF Collection!FindRoot, FindRoot
<1>3. \A x, y : Collection!HasPropertySubset(x, y) <=> HasPropertySubset(x, y)
  BY DEF Collection!HasPropertySubset, HasPropertySubset
<1>4. \A h, label, edges, v :
        Collection!EmbedsAt(h, label, edges, v) <=> EmbedsAt(h, label, edges, v)
  BY <1>2, <1>3 DEF Collection!EmbedsAt, EmbedsAt
<1>5. QED
  BY <1>1, <1>4

LEMMA CollectionSees ==
    ASSUME IdleBelow, NEW s \in CalledSpans
    PROVE  Collection!SeenBelow(s) = Seen(s) /\ Collection!MatchesBelow(s) = MatchesSeen(s)
<1>1. Collection!SeenBelow(s) = Seen(s)
  <2>1. Collection!SeenBelow(s)
          = Reachable(CalledSpans, {<<Parent[c], c>> : c \in CalledSpans \ {RootSpan}}, s)
    BY SameOperators DEF Collection!SeenBelow, CalledSpans
  <2>2. QED
    BY <2>1, IdleCallers, SeenBelowIs
<1>2. QED
  BY <1>1, SameOperators DEF Collection!MatchesBelow, MatchesSeen

(* What storage was sent, value by value.                                  *)
AnsweredSpans == {s \in Spans : phase[s] \in {"responded", "merging", "done"}}

Reports == [k \in DOMAIN Sent |-> Sent[k].value]

LEMMA ReportsGrow ==
    ASSUME calls \in Seq(CallRecord), NEW n \in Services, NEW value \in Values,
           SendToStorage(n, value)
    PROVE  Reports' = Reports \/ Reports' = Append(Reports, value)
<1>1. PICK made \in BOOLEAN : calls' = Append(calls, [by |-> n, value |-> value, made |-> made])
  BY DEF SendToStorage
<1> DEFINE call == [by |-> n, value |-> value, made |-> made]
           P == {k \in DOMAIN calls : calls[k].made}
           len == Len(calls)
<1>2. call \in CallRecord /\ call.value = value /\ call.made = made
  BY DEF CallRecord
<1>3. calls' = Append(calls, call)
  BY <1>1
<1>4. P \in SUBSET (DOMAIN calls) /\ Sent = Selected(calls, P)
  BY DEF Sent
<1> HIDE DEF call
<1>5. /\ DOMAIN calls = 1 .. len /\ DOMAIN calls' = 1 .. len + 1 /\ calls'[len + 1] = call
      /\ \A k \in 1 .. len : calls'[k] = calls[k]
      /\ len \in Nat
  BY <1>2, <1>3, AppendProperties
<1>6. {k \in DOMAIN calls' : calls'[k].made} = IF made THEN P \cup {len + 1} ELSE P
  <2>1. \A k : k \in 1 .. len + 1 <=> k \in 1 .. len \/ k = len + 1
    BY <1>5
  <2>2. \A k \in 1 .. len : k # len + 1
    BY <1>5
  <2>3. QED
    BY <1>2, <1>5, <2>1, <2>2
<1>7. Sent' = Selected(Append(calls, call), IF made THEN P \cup {len + 1} ELSE P)
  BY <1>3, <1>6 DEF Sent
<1> HIDE DEF P
<1>8. /\ Selected(Append(calls, call), P) = Sent
      /\ Selected(Append(calls, call), P \cup {len + 1}) = Append(Sent, call)
      /\ Sent \in Seq(CallRecord)
  BY <1>2, <1>4, SelectedAppend
<1>9. CASE ~ made
  BY <1>7, <1>8, <1>9 DEF Reports
<1>10. CASE made
  <2>1. Sent' = Append(Sent, call)
    BY <1>7, <1>8, <1>10
  <2> DEFINE old == Sent
  <2>2. old \in Seq(CallRecord) /\ Reports' = [k \in DOMAIN Append(old, call) |-> Append(old, call)[k].value]
        /\ Reports = [k \in DOMAIN old |-> old[k].value]
    BY <1>8, <2>1 DEF Reports
  <2> HIDE DEF old
  <2>3. [k \in DOMAIN Append(old, call) |-> Append(old, call)[k].value]
          = Append([k \in DOMAIN old |-> old[k].value], call.value)
    BY <1>2, <2>2, AppendMapped
  <2>4. QED
    BY <1>2, <2>2, <2>3
<1>11. QED
  BY <1>9, <1>10

(* What a sidecar finds it may report: its graph is of what was called      *)
(* below it, so the value is that of a real match.                         *)
LEMMA MatchIsAllowed ==
    ASSUME DistinctServices, Tree(Target), RefinementInv, NEW s \in CalledSpans,
           ~ shared[ServiceOf[s]].found_match,
           NEW v \in SearchIn(shared[ServiceOf[s]], ServiceOf[s]).at,
           GetValueForStorage(Mine(shared[ServiceOf[s]], ServiceOf[s]), v) # NoValue
    PROVE  LET value == GetValueForStorage(Mine(shared[ServiceOf[s]], ServiceOf[s]), v)
           IN  /\ value \in Values
               /\ \E m \in Collection!MatchesBelow(s) :
                    PropertyOfMatch(m, Collection!SeenBelow(m)) = value
<1> DEFINE n == ServiceOf[s]
           fd == shared[n]
           g == Mine(fd, n)
<1>1. /\ s \in Spans /\ n \in Services /\ WellFormed(fd) /\ Fetched(s) \in SUBSET Children(s)
      /\ Carries(fd, Fetched(s)) /\ OwnOnly(fd, n) /\ Claims(fd)
      /\ NamesIn(fd.nodes) \subseteq CalledNames
  BY CallerType
     DEF RefinementInv, TrueInv, FerryInv, DataInv, SharedCarries, TrueParts, NamesCalled,
         Fetched, CalledSpans
<1> HIDE DEF fd
<1>2. /\ Carries(g, {s}) /\ v \in DOMAIN g.nodes
      /\ EmbedsAt(Target, g.nodes, g.edges, v)
  <2>1. ~ fd.found_match /\ v \in SearchIn(fd, n).at
    BY DEF fd
  <2>2. QED
    BY <1>1, <2>1, ResponseData, ResponseClaims, OwnIsOwned, OwnAssigned
<1>3. NamesIn(g.nodes) \subseteq CalledNames
  <2>1. n \in CalledNames
    BY DEF CalledNames
  <2>2. QED
    BY <1>1, <2>1, MyNames
<1>4. Sound(g, Below[s])
  <2>1. UNION {Below[c] : c \in {s}} = Below[s]
    OBVIOUS
  <2> HIDE DEF g
  <2>2. QED
    BY <1>2, <2>1 DEF Carries
<1>5. g.nodes[v].value # NoValue
  BY DEF GetValueForStorage, fd
<1> HIDE DEF g
<1>6. PICK m \in MatchesSeen(s) : ServiceOf[m] = g.nodes[v].name
  BY <1>2, <1>3, <1>4, MatchIsReal
<1>7. m \in Spans /\ m \in Collection!MatchesBelow(s)
  BY <1>6, CollectionSees
     DEF RefinementInv, TrueInv, FerryInv, MatchesSeen, Seen, CalledSpans
<1>8. g.nodes[v].value = PropertyOf[g.nodes[v].name]
  BY <1>2, <1>4, <1>5 DEF Sound
<1>9. PropertyOfMatch(m, Collection!SeenBelow(m)) = g.nodes[v].value /\ g.nodes[v].value \in Values
  BY <1>6, <1>7, <1>8, TraceAssumption DEF PropertyOfMatch, SpanLabel
<1>10. QED
  BY <1>7, <1>9 DEF GetValueForStorage, g, fd

LEMMA CollectionInit ==
    ASSUME Init
    PROVE  Collection!Init
<1>1. CalledSpans = {} /\ AnsweredSpans = {}
  BY DEF Init, CalledSpans, AnsweredSpans
<1>2. Reports = <<>>
  <2>1. calls = <<>> /\ {k \in DOMAIN calls : calls[k].made} = {}
    BY DEF Init
  <2>2. Cardinality({}) = 0 /\ 1 .. 0 = {}
    BY FS_EmptySet
  <2>3. DOMAIN Sent = {}
    BY <2>1, <2>2 DEF Sent, Selected
  <2>4. QED
    BY <2>3 DEF Reports
<1>3. QED
  BY <1>1, <1>2 DEF Collection!Init, CalledSpans, AnsweredSpans, Reports

(* Every step of the filters is one of the abstract specification: a        *)
(* request is a call, a response leaving is an answer, and hooks in between *)
(* do not show.                                                            *)
LEMMA CollectionStep ==
    ASSUME DistinctServices, Tree(Target), RefinementInv, [Next]_vars
    PROVE  [Collection!Next]_(Collection!vars)
<1>1. phase \in [Spans -> Phases] /\ FerryInv
  BY DEF RefinementInv, TrueInv, FerryInv, DataInv
<1>2. /\ Collection!vars = <<TRUE, CalledSpans, AnsweredSpans, Reports>>
      /\ (Collection!vars)' = <<TRUE, CalledSpans', AnsweredSpans', Reports'>>
  BY DEF Collection!vars, CalledSpans, AnsweredSpans, Reports
<1>3. UNCHANGED calls => UNCHANGED Reports
  BY DEF Reports, Sent
<1>4. ASSUME NEW s \in Spans, Requested(s), NEW p, p \in {"storing", "serving"},
             phase' = [phase EXCEPT ![s] = p], UNCHANGED calls
      PROVE  Collection!Call(s)
  <2>1. phase[s] = "idle" /\ s \notin CalledSpans
    BY <1>4 DEF Requested, CalledSpans
  <2>2. CalledSpans' = CalledSpans \cup {s} /\ AnsweredSpans' = AnsweredSpans
    BY <1>1, <1>4, <2>1 DEF CalledSpans, AnsweredSpans
  <2>3. s # RootSpan => Parent[s] \in CalledSpans
    BY <1>4, ChildrenOfSpans DEF Requested, CalledSpans
  <2>4. QED
    BY <1>3, <1>4, <2>1, <2>2, <2>3 DEF Collection!Call, CalledSpans, AnsweredSpans, Reports
<1>5. ASSUME NEW s \in Spans, NEW p,
             \/ phase[s] = "storing" /\ p = "serving"
             \/ phase[s] = "responded" /\ p \in {"merging", "done"}
             \/ phase[s] = "merging" /\ p = "done",
             phase' = [phase EXCEPT ![s] = p], UNCHANGED calls
      PROVE  UNCHANGED <<CalledSpans, AnsweredSpans, Reports>>
  BY <1>1, <1>3, <1>5 DEF CalledSpans, AnsweredSpans
<1>6. ASSUME NEW s \in Spans, Answers(s), phase' = [phase EXCEPT ![s] = "responded"],
             \/ UNCHANGED calls
             \/ \E m \in Collection!MatchesBelow(s) :
                    \/ UNCHANGED Reports
                    \/ Reports' = Append(Reports, PropertyOfMatch(m, Collection!SeenBelow(m)))
      PROVE  Collection!Answer(s)
  <2>1. phase[s] = "serving" /\ s \in CalledSpans \ AnsweredSpans
    BY <1>6 DEF Answers, CalledSpans, AnsweredSpans
  <2>2. CalledSpans' = CalledSpans /\ AnsweredSpans' = AnsweredSpans \cup {s}
    BY <1>1, <1>6, <2>1 DEF CalledSpans, AnsweredSpans
  <2>3. \A c \in CalledSpans \ (Detached \cup {RootSpan}) : Parent[c] = s => c \in AnsweredSpans
    BY <1>6 DEF Answers, Children, CalledSpans, AnsweredSpans
  <2>4. \/ UNCHANGED Reports
        \/ \E m \in Collection!MatchesBelow(s) :
                Reports' = Append(Reports, PropertyOfMatch(m, Collection!SeenBelow(m)))
    BY <1>3, <1>6
  <2>5. QED
    BY <2>1, <2>2, <2>3, <2>4 DEF Collection!Answer, CalledSpans, AnsweredSpans, Reports
<1>7. ASSUME NEW s \in Spans, ResponseInbound(s)
      PROVE  Collection!Answer(s)
  <2> DEFINE n == ServiceOf[s]
             fd == shared[n]
  <2>1. Sends(s, fd, n) /\ Answers(s) /\ s \in CalledSpans /\ n \in Services
    BY <1>1, <1>7, ResponseInboundForms, CallerType DEF ResponseInbound, Answers, CalledSpans
  <2>2. phase' = [phase EXCEPT ![s] = "responded"]
    BY <2>1 DEF Sends, Respond
  <2>3. CASE UNCHANGED calls
    BY <1>6, <2>1, <2>2, <2>3
  <2>4. CASE ~ UNCHANGED calls
    <3>1. ~ fd.found_match /\ \E v \in SearchIn(fd, n).at :
                /\ GetValueForStorage(Mine(fd, n), v) # NoValue
                /\ SendToStorage(n, GetValueForStorage(Mine(fd, n), v))
      BY <2>1, <2>4 DEF Sends
    <3>2. PICK v \in SearchIn(fd, n).at :
                /\ GetValueForStorage(Mine(fd, n), v) # NoValue
                /\ SendToStorage(n, GetValueForStorage(Mine(fd, n), v))
      BY <3>1
    <3> DEFINE value == GetValueForStorage(Mine(fd, n), v)
    <3>3. /\ value \in Values
          /\ \E m \in Collection!MatchesBelow(s) :
                PropertyOfMatch(m, Collection!SeenBelow(m)) = value
      BY <2>1, <3>1, <3>2, MatchIsAllowed
    <3> HIDE DEF value
    <3>4. Reports' = Reports \/ Reports' = Append(Reports, value)
      <4>1. SendToStorage(n, value) /\ calls \in Seq(CallRecord)
        BY <1>1, <3>2 DEF value, FerryInv, DataInv
      <4>2. QED
        BY <2>1, <3>3, <4>1, ReportsGrow
    <3>5. \E m \in Collection!MatchesBelow(s) :
                \/ UNCHANGED Reports
                \/ Reports' = Append(Reports, PropertyOfMatch(m, Collection!SeenBelow(m)))
      BY <3>3, <3>4
    <3>6. QED
      BY <1>6, <2>1, <2>2, <3>5
  <2>5. QED
    BY <2>3, <2>4
<1>8. ASSUME NEW s \in Spans, Hook(s)
      PROVE  \/ Collection!Call(s) \/ Collection!Answer(s)
             \/ UNCHANGED <<CalledSpans, AnsweredSpans, Reports>>
  <2>1. CASE RequestInbound(s)
    BY <1>4, <2>1 DEF RequestInbound
  <2>2. CASE RequestInboundStore(s)
    BY <1>5, <2>2 DEF RequestInboundStore
  <2>3. CASE RequestInboundFails(s)
    BY <1>4, <2>3 DEF RequestInboundFails
  <2>4. CASE ResponseInbound(s)
    BY <1>7, <2>4
  <2>5. CASE ResponseInboundFails(s)
    BY <1>6, <2>5 DEF ResponseInboundFails, Respond
  <2>6. CASE ResponseOutbound(s)
    BY <1>5, <2>6 DEF ResponseOutbound
  <2>7. CASE ResponseOutboundStore(s)
    BY <1>5, <2>7 DEF ResponseOutboundStore
  <2>8. CASE ResponseOutboundFails(s)
    BY <1>5, <2>8 DEF ResponseOutboundFails
  <2>9. QED
    BY <1>8, <2>1, <2>2, <2>3, <2>4, <2>5, <2>6, <2>7, <2>8 DEF Hook
<1>9. UNCHANGED vars => UNCHANGED <<CalledSpans, AnsweredSpans, Reports>>
  BY <1>3 DEF vars, CalledSpans, AnsweredSpans
<1>10. UNCHANGED <<CalledSpans, AnsweredSpans, Reports>> => UNCHANGED Collection!vars
  BY <1>2
<1>11. \A s \in Spans : Collection!Call(s) \/ Collection!Answer(s) => Collection!Next
  BY DEF Collection!Next
<1>12. QED
  BY <1>8, <1>9, <1>10, <1>11 DEF Next, Finished

(* The distributed filter implements TraceCollection: with any races and    *)
(* failures, and every sidecar searching, what is sent to storage is what   *)
(* the query returns for a span at which its pattern really matches, and it *)
(* is sent with the answer of a span above the match.                      *)
THEOREM DistributedFilterImplements ==
    ASSUME DistinctServices, Tree(Target)
    PROVE  Spec => ImplementsTraceCollection
<1>1. Init => RefinementInv
  <2>1. ASSUME Init PROVE NamesCalled
    <3>1. NamesIn(DefaultDistributed.nodes) = {}
      BY DEF DefaultDistributed, NamesIn
    <3>2. QED
      BY <2>1, <3>1, CallerType DEF Init, NamesCalled
  <2>2. QED
    BY <2>1, TrueInit DEF RefinementInv
<1>2. RefinementInv /\ [Next]_vars => RefinementInv'
  BY TrueStep, NamesCalledStep DEF RefinementInv, TrueInv
<1>3. Init => Collection!Init
  BY CollectionInit
<1>4. RefinementInv /\ [Next]_vars => [Collection!Next]_(Collection!vars)
  BY CollectionStep
<1>5. QED
  BY <1>1, <1>2, <1>3, <1>4, PTL DEF Spec, Collection!Spec, ImplementsTraceCollection

-----------------------------------------------------------------------------
(* The inductive invariant behind FoundSilencesCallers.  A callee's node    *)
(* and its found_match come in the same response and are merged together,   *)
(* so whoever has the one has the other, whatever else was lost.            *)
Answered(s) == phase[s] \in {"responded", "merging", "done"}

AnsweredNames == {ServiceOf[s] : s \in {t \in Spans : Answered(t)}}

Heeds(data, s) ==
    \A c \in Children(s) :
        ServiceOf[c] \in NamesIn(data.nodes) /\ header[c].found_match => data.found_match

NamesAnswered ==
    \A s \in Spans :
        /\ NamesIn(header[s].nodes) \subseteq AnsweredNames
        /\ NamesIn(local[s].nodes) \subseteq AnsweredNames
        /\ NamesIn(shared[ServiceOf[s]].nodes) \subseteq AnsweredNames

FoundHeeded ==
    /\ \A s \in Spans : Heeds(header[s], s) /\ Heeds(shared[ServiceOf[s]], s)
    /\ \A r, s \in Spans : Writing(r) /\ At(r) = ServiceOf[s] => Heeds(local[r], s)

(* Who called storage told so, and had not been told by the callees it      *)
(* knows of.                                                               *)
Reporter(s) ==
    /\ Answered(s) /\ header[s].found_match
    /\ \A c \in Children(s) :
        ServiceOf[c] \in NamesIn(header[s].nodes) => ~ header[c].found_match

ReportersTell ==
    /\ \A j, k \in DOMAIN calls : calls[j].by = calls[k].by => j = k
    /\ \A k \in DOMAIN calls : \A s \in Spans : calls[k].by = ServiceOf[s] => Reporter(s)

SilenceParts == NamesAnswered /\ FoundHeeded /\ ReportersTell

SilenceInv == FerryInv /\ SilenceParts

(* A response that was sent stays as it is. *)
AnswersStay == \A t \in Spans : Answered(t) => Answered(t)' /\ header'[t] = header[t]

LEMMA AnsweredGrows ==
    ASSUME AnswersStay
    PROVE  AnsweredNames \subseteq AnsweredNames'
BY DEF AnswersStay, AnsweredNames

LEMMA KnownAnswered ==
    ASSUME DistinctServices, NEW c \in Spans, ServiceOf[c] \in AnsweredNames
    PROVE  Answered(c)
BY DEF AnsweredNames, DistinctServices

LEMMA HeedsKept ==
    ASSUME DistinctServices, AnswersStay, NEW data, NEW s \in Spans, Heeds(data, s),
           NamesIn(data.nodes) \subseteq AnsweredNames
    PROVE  Heeds(data, s)'
<1> SUFFICES ASSUME NEW c \in Children(s), ServiceOf[c] \in NamesIn(data.nodes),
                    header'[c].found_match
             PROVE  data.found_match
  BY DEF Heeds
<1>1. c \in Spans
  BY DEF Children
<1>2. header'[c] = header[c]
  BY <1>1, KnownAnswered DEF AnswersStay
<1>3. QED
  BY <1>2 DEF Heeds

LEMMA ReporterKept ==
    ASSUME DistinctServices, AnswersStay, NamesAnswered, NEW s \in Spans, Reporter(s)
    PROVE  Reporter(s)'
<1>1. Answered(s)' /\ header'[s] = header[s] /\ header[s].found_match
  BY DEF Reporter, AnswersStay
<1>2. ASSUME NEW c \in Children(s), ServiceOf[c] \in NamesIn(header[s].nodes)
      PROVE  ~ header'[c].found_match
  <2>1. c \in Spans /\ ServiceOf[c] \in AnsweredNames
    BY <1>2 DEF Children, NamesAnswered
  <2>2. header'[c] = header[c]
    BY <2>1, KnownAnswered DEF AnswersStay
  <2>3. QED
    BY <1>2, <2>2 DEF Reporter
<1>3. QED
  BY <1>1, <1>2 DEF Reporter

LEMMA MyFound ==
    ASSUME NEW fd, WellFormed(fd), NEW n
    PROVE  /\ Mine(fd, n).found_match = fd.found_match
           /\ Searched(fd, n).found_match = fd.found_match
           /\ Told(fd, n).found_match = TRUE
<1>1. Mine(fd, n) \in [nodes : {AddMe(fd, n).nodes}, edges : {AddMe(fd, n).edges},
                       unassigned : {AddMe(fd, n).unassigned},
                       found_match : {fd.found_match}, set_s : {fd.set_s}]
  BY WithGraphFields DEF Mine
<1>2. QED
  BY <1>1 DEF Searched, Told

LEMMA DefaultHeeds ==
    /\ NamesIn(DefaultDistributed.nodes) = {}
    /\ \A s : Heeds(DefaultDistributed, s)
BY DEF DefaultDistributed, NamesIn, Heeds

LEMMA MergeHeeds ==
    ASSUME NEW a, NEW b, WellFormed(a), WellFormed(b), NEW s, Heeds(a, s), Heeds(b, s)
    PROVE  Heeds(MergeDistributed(a, b), s)
<1> DEFINE m == MergeDistributed(a, b)
<1>1. /\ NamesIn(m.nodes) \subseteq NamesIn(a.nodes) \cup NamesIn(b.nodes)
      /\ a.found_match \/ b.found_match => m.found_match
  BY MergedNames, MergeDistributedIs
<1> HIDE DEF m
<1>2. Heeds(m, s)
  BY <1>1 DEF Heeds
<1>3. QED
  BY <1>2 DEF m

(* Of its caller's callees, a response has its own node alone. *)
LEMMA AnswerHeeds ==
    ASSUME DistinctServices, NEW s \in Spans \ {RootSpan}, Carries(header[s], {s})
    PROVE  Heeds(header[s], Parent[s])
<1> SUFFICES ASSUME NEW c \in Children(Parent[s]), ServiceOf[c] \in NamesIn(header[s].nodes),
                    header[c].found_match
             PROVE  header[s].found_match
  BY DEF Heeds
<1>1. Parent[s] \in Spans /\ s \in Children(Parent[s]) /\ c \in Spans
  BY ChildrenOfSpans DEF Children
<1>2. PICK i \in DOMAIN header[s].nodes : header[s].nodes[i].name = ServiceOf[c]
  BY DEF NamesIn
<1>3. \E t \in Below[s] : ServiceOf[t] = ServiceOf[c]
  BY <1>2 DEF Carries, Sound
<1>4. c \in Below[s]
  BY <1>1, <1>3, BelowClosed DEF DistinctServices
<1>5. c = s
  BY <1>1, <1>4, BelowChildren, BelowClosed
<1>6. QED
  BY <1>5

(* The ways of a step, see above. *)
LEMMA ReadsSilence ==
    ASSUME DistinctServices, SilenceInv, NEW s \in Spans, NEW p, NEW data, Reads(s, p, data),
           p \in {"storing", "merging"}, phase[s] \in {"idle", "responded"},
           Answered(s) => p = "merging",
           NamesIn(data.nodes) \subseteq AnsweredNames,
           \A t \in Spans : At(s)' = ServiceOf[t] => Heeds(data, t)
    PROVE  SilenceParts'
<1>1. /\ phase' = [phase EXCEPT ![s] = p] /\ local' = [local EXCEPT ![s] = data]
      /\ phase \in [Spans -> Phases] /\ DOMAIN local = Spans
      /\ UNCHANGED <<shared, header, calls>>
  BY DEF Reads, SilenceInv, FerryInv, DataInv
<1>2. /\ local'[s] = data /\ phase'[s] = p
      /\ \A t \in Spans : t # s => phase'[t] = phase[t] /\ local'[t] = local[t]
  BY <1>1
<1>3. AnswersStay
  BY <1>1, <1>2 DEF AnswersStay, Answered
<1>4. AnsweredNames \subseteq AnsweredNames'
  BY <1>3, AnsweredGrows
<1>5. NamesAnswered'
  BY <1>1, <1>2, <1>4 DEF SilenceInv, SilenceParts, NamesAnswered
<1>6. \A t \in Spans : Heeds(header[t], t)' /\ Heeds(shared[ServiceOf[t]], t)'
  BY <1>1 DEF Heeds, SilenceInv, SilenceParts, FoundHeeded
<1>7. ASSUME NEW r \in Spans, NEW t \in Spans, Writing(r)', At(r)' = ServiceOf[t]
      PROVE  Heeds(local[r], t)'
  <2>1. CASE r = s
    <3>1. Heeds(data, t)
      BY <1>7, <2>1
    <3>2. QED
      BY <1>1, <1>2, <2>1, <3>1 DEF Heeds
  <2>2. CASE r # s
    <3>1. Writing(r) /\ At(r) = ServiceOf[t]
      BY <1>2, <1>7, <2>2 DEF Writing, At
    <3>2. Heeds(local[r], t)
      BY <3>1 DEF SilenceInv, SilenceParts, FoundHeeded
    <3>3. QED
      BY <1>1, <1>2, <2>2, <3>2 DEF Heeds
  <2>3. QED
    BY <2>1, <2>2
<1>8. ReportersTell'
  BY <1>1, <1>3, ReporterKept DEF SilenceInv, SilenceParts, ReportersTell
<1>9. QED
  BY <1>5, <1>6, <1>7, <1>8 DEF SilenceParts, FoundHeeded

LEMMA WritesSilence ==
    ASSUME DistinctServices, SilenceInv, NEW s \in Spans, NEW p, Writes(s, p), Writing(s),
           p \notin {"storing", "merging"}, Answered(s) => p = "done"
    PROVE  SilenceParts'
<1>1. /\ phase' = [phase EXCEPT ![s] = p] /\ local' = [local EXCEPT ![s] = DefaultDistributed]
      /\ shared' = [shared EXCEPT ![At(s)] = local[s]]
      /\ phase \in [Spans -> Phases] /\ DOMAIN local = Spans /\ DOMAIN shared = Services
      /\ UNCHANGED <<header, calls>>
  BY DEF Writes, WriteShared, SilenceInv, FerryInv, DataInv
<1>2. /\ phase'[s] = p /\ local'[s] = DefaultDistributed
      /\ \A t \in Spans : t # s => phase'[t] = phase[t] /\ local'[t] = local[t]
      /\ \A t \in Spans : \/ shared'[ServiceOf[t]] = shared[ServiceOf[t]]
                          \/ At(s) = ServiceOf[t] /\ shared'[ServiceOf[t]] = local[s]
  BY <1>1, CallerType
<1>3. AnswersStay
  BY <1>1, <1>2 DEF AnswersStay, Answered
<1>4. AnsweredNames \subseteq AnsweredNames'
  BY <1>3, AnsweredGrows
<1>5. NamesAnswered'
  BY <1>1, <1>2, <1>4, DefaultHeeds DEF SilenceInv, SilenceParts, NamesAnswered
<1>6. ASSUME NEW t \in Spans
      PROVE  Heeds(header[t], t)' /\ Heeds(shared[ServiceOf[t]], t)'
  <2>1. Heeds(header[t], t) /\ Heeds(shared[ServiceOf[t]], t)
        /\ (At(s) = ServiceOf[t] => Heeds(local[s], t))
    BY DEF SilenceInv, SilenceParts, FoundHeeded
  <2>2. QED
    BY <1>1, <1>2, <2>1 DEF Heeds
<1>7. ASSUME NEW r \in Spans, NEW t \in Spans, Writing(r)', At(r)' = ServiceOf[t]
      PROVE  Heeds(local[r], t)'
  <2>1. r # s
    BY <1>2, <1>7 DEF Writing
  <2>2. Writing(r) /\ At(r) = ServiceOf[t]
    BY <1>2, <1>7, <2>1 DEF Writing, At
  <2>3. Heeds(local[r], t)
    BY <2>2 DEF SilenceInv, SilenceParts, FoundHeeded
  <2>4. QED
    BY <1>1, <1>2, <2>1, <2>3 DEF Heeds
<1>8. ReportersTell'
  BY <1>1, <1>3, ReporterKept DEF SilenceInv, SilenceParts, ReportersTell
<1>9. QED
  BY <1>5, <1>6, <1>7, <1>8 DEF SilenceParts, FoundHeeded

LEMMA PassesSilence ==
    ASSUME DistinctServices, SilenceInv, NEW s \in Spans, NEW p, Passes(s, p),
           p \notin {"storing", "merging"}, Answered(s) => p = "done"
    PROVE  SilenceParts'
<1>1. /\ phase' = [phase EXCEPT ![s] = p] /\ phase \in [Spans -> Phases]
      /\ UNCHANGED <<shared, local, header, calls>>
  BY DEF Passes, SilenceInv, FerryInv, DataInv
<1>2. phase'[s] = p /\ \A t \in Spans : t # s => phase'[t] = phase[t]
  BY <1>1
<1>3. AnswersStay
  BY <1>1, <1>2 DEF AnswersStay, Answered
<1>4. AnsweredNames \subseteq AnsweredNames'
  BY <1>3, AnsweredGrows
<1>5. NamesAnswered'
  BY <1>1, <1>4 DEF SilenceInv, SilenceParts, NamesAnswered
<1>6. \A r, t \in Spans : Writing(r)' /\ At(r)' = ServiceOf[t] => Writing(r) /\ At(r) = ServiceOf[t]
  BY <1>2 DEF Writing, At
<1>7. FoundHeeded'
  BY <1>1, <1>6 DEF Heeds, SilenceInv, SilenceParts, FoundHeeded
<1>8. ReportersTell'
  BY <1>1, <1>3, ReporterKept DEF SilenceInv, SilenceParts, ReportersTell
<1>9. QED
  BY <1>5, <1>7, <1>8 DEF SilenceParts

LEMMA CallsAppend ==
    ASSUME calls \in Seq(CallRecord), NEW n, Calls(n)
    PROVE  \A k \in DOMAIN calls' :
             \/ k \in DOMAIN calls /\ calls'[k] = calls[k]
             \/ k = Len(calls) + 1 /\ calls'[k].by = n
<1>1. PICK value \in Values, made \in BOOLEAN :
        calls' = Append(calls, [by |-> n, value |-> value, made |-> made])
  BY DEF Calls
<1> DEFINE call == [by |-> n, value |-> value, made |-> made]
<1>2. call.by = n /\ calls' = Append(calls, call)
  BY <1>1
<1> HIDE DEF call
<1>3. /\ \A k \in 1 .. Len(calls) : Append(calls, call)[k] = calls[k]
      /\ DOMAIN calls = 1 .. Len(calls) /\ DOMAIN Append(calls, call) = 1 .. Len(calls) + 1
      /\ Append(calls, call)[Len(calls) + 1] = call
      /\ \A k \in 1 .. Len(calls) + 1 : k \in 1 .. Len(calls) \/ k = Len(calls) + 1
  OBVIOUS
<1>4. QED
  BY <1>2, <1>3

(* What a sidecar sends depends on what it heard: as an answer it heeds all *)
(* found_match it came by, and as a report it came by none.                *)
LEMMA RespondsSilence ==
    ASSUME DistinctServices, SilenceInv, NEW s \in Spans, NEW data, Respond(s, data),
           phase[s] = "serving",
           NamesIn(data.nodes) \subseteq AnsweredNames \cup {ServiceOf[s]}, Heeds(data, s),
           \/ calls' = calls
           \/ /\ Calls(ServiceOf[s]) /\ data.found_match
              /\ \A c \in Children(s) :
                   ServiceOf[c] \in NamesIn(data.nodes) => ~ header[c].found_match
    PROVE  SilenceParts'
<1>1. /\ phase' = [phase EXCEPT ![s] = "responded"] /\ header' = [header EXCEPT ![s] = data]
      /\ phase \in [Spans -> Phases] /\ DOMAIN header = Spans /\ calls \in Seq(CallRecord)
      /\ UNCHANGED <<shared, local>>
  BY DEF Respond, SilenceInv, FerryInv, DataInv
<1>2. /\ header'[s] = data /\ phase'[s] = "responded"
      /\ \A t \in Spans : t # s => phase'[t] = phase[t] /\ header'[t] = header[t]
      /\ ~ Answered(s) /\ Answered(s)'
  BY <1>1 DEF Answered
<1>3. AnswersStay
  BY <1>2 DEF AnswersStay, Answered
<1>4. AnsweredNames \cup {ServiceOf[s]} \subseteq AnsweredNames'
  BY <1>2, <1>3, AnsweredGrows DEF AnsweredNames
<1>5. NamesAnswered'
  <2>1. \A t \in Spans : NamesIn(header'[t].nodes) \subseteq AnsweredNames'
    BY <1>2, <1>4 DEF SilenceInv, SilenceParts, NamesAnswered
  <2>2. QED
    BY <1>1, <1>4, <2>1 DEF SilenceInv, SilenceParts, NamesAnswered
<1>6. ASSUME NEW c \in Children(s), ServiceOf[c] \in NamesIn(data.nodes)
      PROVE  header'[c] = header[c]
  <2>1. c \in Spans /\ c # s
    BY BelowChildren, BelowClosed DEF Children
  <2>2. QED
    BY <1>2, <2>1
<1>7. Heeds(data, s)'
  BY <1>6 DEF Heeds
<1>8. ASSUME NEW e, NEW t \in Spans, Heeds(e, t), NamesIn(e.nodes) \subseteq AnsweredNames
      PROVE  \A c \in Children(t) :
               ServiceOf[c] \in NamesIn(e.nodes) /\ header'[c].found_match => e.found_match
  BY <1>3, <1>8, HeedsKept DEF Heeds
<1>9. ASSUME NEW t \in Spans
      PROVE  Heeds(header[t], t)' /\ Heeds(shared[ServiceOf[t]], t)'
  <2>1. /\ Heeds(header[t], t) /\ NamesIn(header[t].nodes) \subseteq AnsweredNames
        /\ Heeds(shared[ServiceOf[t]], t)
        /\ NamesIn(shared[ServiceOf[t]].nodes) \subseteq AnsweredNames
    BY DEF SilenceInv, SilenceParts, FoundHeeded, NamesAnswered
  <2>2. Heeds(shared[ServiceOf[t]], t)'
    BY <1>1, <1>8, <2>1 DEF Heeds
  <2>3. t # s => Heeds(header[t], t)'
    BY <1>2, <1>8, <2>1 DEF Heeds
  <2>4. t = s => Heeds(header[t], t)'
    BY <1>2, <1>7 DEF Heeds
  <2>5. QED
    BY <2>2, <2>3, <2>4
<1>10. ASSUME NEW r \in Spans, NEW t \in Spans, Writing(r)', At(r)' = ServiceOf[t]
       PROVE  Heeds(local[r], t)'
  <2>1. r # s
    BY <1>2, <1>10 DEF Writing
  <2>2. Writing(r) /\ At(r) = ServiceOf[t]
    BY <1>2, <1>10, <2>1 DEF Writing, At
  <2>3. Heeds(local[r], t) /\ NamesIn(local[r].nodes) \subseteq AnsweredNames
    BY <2>2 DEF SilenceInv, SilenceParts, FoundHeeded, NamesAnswered
  <2>4. QED
    BY <1>1, <1>8, <2>3 DEF Heeds
<1>11. FoundHeeded'
  BY <1>9, <1>10 DEF FoundHeeded
<1>12. /\ \A k \in DOMAIN calls : calls[k].by # ServiceOf[s]
       /\ \A j, k \in DOMAIN calls : calls[j].by = calls[k].by => j = k
       /\ \A k \in DOMAIN calls : \A t \in Spans : calls[k].by = ServiceOf[t] => Reporter(t)'
  BY <1>2, <1>3, ReporterKept DEF SilenceInv, SilenceParts, ReportersTell, Reporter
<1>13. ReportersTell'
  <2>1. CASE calls' = calls
    BY <1>12, <2>1 DEF ReportersTell
  <2>2. CASE /\ Calls(ServiceOf[s]) /\ data.found_match
             /\ \A c \in Children(s) :
                  ServiceOf[c] \in NamesIn(data.nodes) => ~ header[c].found_match
    <3>1. \A k \in DOMAIN calls' : \/ k \in DOMAIN calls /\ calls'[k] = calls[k]
                                   \/ k = Len(calls) + 1 /\ calls'[k].by = ServiceOf[s]
      BY <1>1, <2>2, CallsAppend
    <3>2. Reporter(s)'
      BY <1>2, <1>6, <2>2 DEF Reporter
    <3>3. \A j, k \in DOMAIN calls' : calls'[j].by = calls'[k].by => j = k
      BY <1>12, <3>1
    <3>4. \A k \in DOMAIN calls' : \A t \in Spans : calls'[k].by = ServiceOf[t] => Reporter(t)'
      BY <1>12, <3>1, <3>2 DEF DistinctServices
    <3>5. QED
      BY <3>3, <3>4 DEF ReportersTell
  <2>3. QED
    BY <2>1, <2>2
<1>14. QED
  BY <1>5, <1>11, <1>13 DEF SilenceParts

LEMMA SilenceStep ==
    ASSUME DistinctServices, SilenceInv, [Next]_vars
    PROVE  SilenceInv'
<1>0. /\ FerryInv /\ RootStays /\ phase \in [Spans -> Phases]
      /\ \A n \in Services : WellFormed(shared[n])
      /\ \A s \in Spans : WellFormed(header[s]) /\ ServiceOf[s] \in Services
      /\ \A s \in Spans : /\ NamesIn(header[s].nodes) \subseteq AnsweredNames
                          /\ NamesIn(shared[ServiceOf[s]].nodes) \subseteq AnsweredNames
                          /\ Heeds(shared[ServiceOf[s]], s)
  BY CallerType
     DEF SilenceInv, FerryInv, DataInv, SilenceParts, NamesAnswered, FoundHeeded
<1>1. ASSUME NEW s \in Spans, RequestInbound(s)
      PROVE  SilenceParts'
  <2> DEFINE n == ServiceOf[s]
             data == MergeDistributed(Collected(n), shared[n])
  <2>1. n \in Services /\ WellFormed(shared[n]) /\ WellFormed(Collected(n))
    BY <1>0, CollectedWellFormed
  <2>2. NamesIn(Collected(n).nodes) = {}
    BY DEF Collected, DefaultDistributed, NamesIn
  <2>3. Heeds(Collected(n), s)
    BY <2>2 DEF Heeds
  <2>4. Heeds(data, s) /\ NamesIn(data.nodes) \subseteq AnsweredNames
    BY <1>0, <2>1, <2>2, <2>3, MergeHeeds, MergedNames
  <2>5. Reads(s, "storing", data) /\ phase'[s] = "storing" /\ phase[s] = "idle"
    BY <1>0, <1>1 DEF RequestInbound, ReadAndMerge, Reads, Requested
  <2>6. At(s)' = ServiceOf[s] /\ ~ Answered(s)
    BY <2>5 DEF At, Answered
  <2> HIDE DEF data
  <2>7. \A t \in Spans : At(s)' = ServiceOf[t] => Heeds(data, t)
    BY <2>4, <2>6 DEF DistinctServices
  <2>8. QED
    BY <2>4, <2>5, <2>6, <2>7, ReadsSilence
<1>2. ASSUME NEW s \in Spans, RequestInboundStore(s)
      PROVE  SilenceParts'
  <2>1. Writing(s) /\ Writes(s, "serving") /\ ~ Answered(s)
    BY <1>2 DEF RequestInboundStore, Writes, Writing, At, Answered
  <2>2. QED
    BY <2>1, WritesSilence
<1>3. ASSUME NEW s \in Spans, RequestInboundFails(s)
      PROVE  SilenceParts'
  <2>1. Passes(s, "serving") /\ ~ Answered(s)
    BY <1>3 DEF RequestInboundFails, Passes, Requested, Answered
  <2>2. QED
    BY <2>1, PassesSilence
<1>4. ASSUME NEW s \in Spans, ResponseInbound(s)
      PROVE  SilenceParts'
  <2> DEFINE n == ServiceOf[s]
             fd == shared[n]
  <2>1. Sends(s, fd, n) /\ phase[s] = "serving"
    BY <1>0, <1>4, ResponseInboundForms DEF ResponseInbound, Answers
  <2>2. n \in Services /\ WellFormed(fd) /\ NamesIn(fd.nodes) \subseteq AnsweredNames /\ Heeds(fd, s)
    BY <1>0
  <2>3. \A c \in Children(s) : ServiceOf[c] # n
    BY BelowChildren, BelowClosed DEF Children, DistinctServices
  <2> HIDE DEF fd
  <2>4. ASSUME NEW data, NamesIn(data.nodes) = NamesIn(fd.nodes) \cup {n},
               fd.found_match => data.found_match
        PROVE  /\ NamesIn(data.nodes) \subseteq AnsweredNames \cup {n} /\ Heeds(data, s)
               /\ ~ fd.found_match => \A c \in Children(s) :
                    ServiceOf[c] \in NamesIn(data.nodes) => ~ header[c].found_match
    BY <2>2, <2>3, <2>4 DEF Heeds
  <2>5. /\ NamesIn(Mine(fd, n).nodes) = NamesIn(fd.nodes) \cup {n}
        /\ NamesIn(Searched(fd, n).nodes) = NamesIn(fd.nodes) \cup {n}
        /\ NamesIn(Told(fd, n).nodes) = NamesIn(fd.nodes) \cup {n}
    BY <2>2, MyNames
  <2>6. /\ Mine(fd, n).found_match = fd.found_match
        /\ Searched(fd, n).found_match = fd.found_match
        /\ Told(fd, n).found_match = TRUE
    BY <2>2, MyFound
  <2>7. CASE Respond(s, Mine(fd, n)) /\ UNCHANGED calls
    BY <2>1, <2>4, <2>5, <2>6, <2>7, RespondsSilence
  <2>8. CASE Respond(s, Searched(fd, n)) /\ UNCHANGED calls
    BY <2>1, <2>4, <2>5, <2>6, <2>8, RespondsSilence
  <2>9. CASE Respond(s, DefaultDistributed) /\ UNCHANGED calls
    BY <2>1, <2>9, DefaultHeeds, RespondsSilence
  <2>10. ASSUME ~ fd.found_match, Respond(s, Told(fd, n)),
                NEW v \in SearchIn(fd, n).at,
                GetValueForStorage(Mine(fd, n), v) # NoValue,
                SendToStorage(n, GetValueForStorage(Mine(fd, n), v))
         PROVE  SilenceParts'
    <3> DEFINE value == GetValueForStorage(Mine(fd, n), v)
    <3>0. v \in DOMAIN Mine(fd, n).nodes /\ Mine(fd, n).nodes \in Seq(Node)
      <4>1. PICK C \in SUBSET Children(s) : Carries(fd, C) /\ OwnOnly(fd, n)
        BY <1>0 DEF FerryInv, SharedCarries, Fetched, fd
      <4>2. QED
        BY <2>2, <2>10, <4>1, ResponseData, OwnIsOwned, OwnAssigned
    <3>1. Calls(n)
      <4>1. Mine(fd, n).nodes[v] \in Node
        BY <3>0
      <4>2. value \in Values \cup {NoValue}
        BY <4>1 DEF GetValueForStorage, Node
      <4>3. value # NoValue /\ SendToStorage(n, value)
        BY <2>10
      <4> HIDE DEF value
      <4>4. QED
        BY <4>2, <4>3, SendToStorageCalls
    <3>2. QED
      BY <2>1, <2>4, <2>5, <2>6, <2>10, <3>1, RespondsSilence
  <2>11. QED
    BY <2>1, <2>7, <2>8, <2>9, <2>10 DEF Sends
<1>5. ASSUME NEW s \in Spans, ResponseInboundFails(s)
      PROVE  SilenceParts'
  <2>1. Respond(s, DefaultDistributed) /\ calls' = calls /\ phase[s] = "serving"
    BY <1>5 DEF ResponseInboundFails, Answers
  <2>2. QED
    BY <2>1, DefaultHeeds, RespondsSilence
<1>6. ASSUME NEW s \in Spans, ResponseOutbound(s)
      PROVE  SilenceParts'
  <2> DEFINE t == Parent[s]
             n == Caller(s)
             data == MergeDistributed(header[s], shared[n])
  <2>1. s \in Spans \ {RootSpan} /\ t \in Spans /\ n = ServiceOf[t] /\ n \in Services
    BY <1>0, <1>6, ChildrenOfSpans DEF ResponseOutbound, Caller
  <2>2. Carries(header[s], {s})
    BY <1>0 DEF FerryInv, HeaderCarries
  <2>3. Heeds(header[s], t)
    BY <2>1, <2>2, AnswerHeeds
  <2>4. Heeds(data, t) /\ NamesIn(data.nodes) \subseteq AnsweredNames
    BY <1>0, <2>1, <2>3, MergeHeeds, MergedNames
  <2>5. Reads(s, "merging", data) /\ phase'[s] = "merging" /\ phase[s] = "responded"
    BY <1>0, <1>6 DEF ResponseOutbound, ReadAndMerge, Reads
  <2>6. At(s)' = ServiceOf[t]
    BY <2>1, <2>5 DEF At, Caller
  <2> HIDE DEF data
  <2>7. \A r \in Spans : At(s)' = ServiceOf[r] => Heeds(data, r)
    BY <2>1, <2>4, <2>6 DEF DistinctServices
  <2>8. QED
    BY <2>4, <2>5, <2>7, ReadsSilence
<1>7. ASSUME NEW s \in Spans, ResponseOutboundStore(s)
      PROVE  SilenceParts'
  <2>1. Writing(s) /\ Writes(s, "done")
    BY <1>7 DEF ResponseOutboundStore, Writes, Writing, At
  <2>2. QED
    BY <2>1, WritesSilence
<1>8. ASSUME NEW s \in Spans, ResponseOutboundFails(s)
      PROVE  SilenceParts'
  <2>1. Passes(s, "done")
    BY <1>8 DEF ResponseOutboundFails, Passes
  <2>2. QED
    BY <2>1, PassesSilence
<1>9. ASSUME UNCHANGED vars
      PROVE  SilenceParts'
  BY <1>9 DEF vars, SilenceInv, SilenceParts, NamesAnswered, AnsweredNames, Answered,
              FoundHeeded, Heeds, Writing, At, ReportersTell, Reporter
<1>10. SilenceParts'
  BY <1>1, <1>2, <1>3, <1>4, <1>5, <1>6, <1>7, <1>8, <1>9 DEF Next, Hook, Finished
<1>11. FerryInv'
  BY <1>0, FerryStep
<1>12. QED
  BY <1>10, <1>11 DEF SilenceInv

LEMMA SilenceInit ==
    ASSUME Init
    PROVE  SilenceInv
<1>1. FerryInv
  BY FerryInit
<1>2. NamesAnswered /\ FoundHeeded
  BY DefaultHeeds, CallerType DEF Init, NamesAnswered, FoundHeeded
<1>3. ReportersTell
  <2>1. DOMAIN calls = {}
    BY DEF Init
  <2>2. QED
    BY <2>1 DEF ReportersTell
<1>4. QED
  BY <1>1, <1>2, <1>3 DEF SilenceInv, SilenceParts

(* Where responses are complete, found_match gets from a span up to any     *)
(* span it is below.                                                       *)
LEMMA CompleteHasCallees ==
    ASSUME Detached = {}, NEW s \in Spans, Complete(header[s], s), NEW c \in Children(s)
    PROVE  ServiceOf[c] \in NamesIn(header[s].nodes)
<1>1. c \in Awaited[s]
  <2> DEFINE waited == {<<Parent[d], d>> : d \in Spans \ {RootSpan}}
  <2>1. Awaited[s] = Reachable(Spans, waited, s)
    BY DEF Awaited
  <2>2. \A e \in waited : e[1] \in Spans => e[2] \in Spans
    OBVIOUS
  <2>3. c \in Spans \ {RootSpan} /\ Parent[c] = s
    BY DEF Children
  <2>4. <<s, c>> \in waited
    BY <2>3
  <2> HIDE DEF waited
  <2>5. /\ s \in Reachable(Spans, waited, s)
        /\ \A e \in waited : e[1] \in Reachable(Spans, waited, s)
                             => e[2] \in Reachable(Spans, waited, s)
    BY <2>2, ReachableIsLeast, Zenon
  <2>6. QED
    BY <2>1, <2>4, <2>5
<1>2. PICK j \in DOMAIN header[s].nodes :
        header[s].nodes[j] = [name |-> ServiceOf[c], value |-> PropertyOf[ServiceOf[c]]]
  BY <1>1 DEF Complete
<1>3. header[s].nodes[j].name = ServiceOf[c]
  BY <1>2
<1>4. QED
  BY <1>3 DEF NamesIn

LEMMA FoundClimbs ==
    ASSUME Detached = {}, AllComplete, \A s \in Spans : Heeds(header[s], s),
           NEW s \in Spans, NEW t \in Below[s], header[t].found_match
    PROVE  header[s].found_match
<1> DEFINE S == {v \in Spans : header[v].found_match => header[s].found_match}
<1>1. S \in SUBSET Spans /\ s \in S
  OBVIOUS
<1>2. ASSUME NEW c \in Spans \ {RootSpan}, Parent[c] \in S
      PROVE  c \in S
  <2>1. Parent[c] \in Spans /\ c \in Children(Parent[c])
    BY ChildrenOfSpans
  <2>2. ServiceOf[c] \in NamesIn(header[Parent[c]].nodes)
    BY <2>1, CompleteHasCallees DEF AllComplete
  <2>3. header[c].found_match => header[Parent[c]].found_match
    BY <2>1, <2>2 DEF Heeds
  <2>4. QED
    BY <1>2, <2>3
<1> HIDE DEF S
<1>3. Below[s] \subseteq S
  BY <1>1, <1>2, BelowWithin
<1>4. QED
  BY <1>3 DEF S

(* Two hooks of a sidecar can each overwrite what the other stored, and a   *)
(* found_match can be lost that way.  But then the node of the callee that  *)
(* sent it is lost too: whenever every response is complete, on a way       *)
(* through the trace there is one report, from a match up to the root.      *)
THEOREM FoundSilences ==
    ASSUME DistinctServices, Detached = {} PROVE Spec => []FoundSilencesCallers
<1>1. Init => SilenceInv
  BY SilenceInit
<1>2. SilenceInv /\ [Next]_vars => SilenceInv'
  BY SilenceStep
<1>3. SilenceInv => FoundSilencesCallers
  <2> SUFFICES ASSUME SilenceInv, AllComplete,
                      NEW j \in DOMAIN calls, NEW k \in DOMAIN calls,
                      NEW s \in Spans, NEW t \in Spans,
                      calls[j].by = ServiceOf[s], calls[k].by = ServiceOf[t], t \in Below[s]
               PROVE  j = k
    BY DEF FoundSilencesCallers
  <2>1. Reporter(s) /\ Reporter(t) /\ \A r \in Spans : Heeds(header[r], r)
        /\ (calls[j].by = calls[k].by => j = k)
    BY DEF SilenceInv, SilenceParts, ReportersTell, FoundHeeded
  <2>2. ASSUME s # t
        PROVE  FALSE
    <3>1. PICK c \in Children(s) : t \in Below[c]
      BY <2>2, BelowSplit
    <3>2. c \in Spans /\ Complete(header[s], s)
      BY DEF Children, AllComplete
    <3>3. header[c].found_match
      BY <2>1, <3>1, <3>2, FoundClimbs DEF Reporter
    <3>4. ServiceOf[c] \in NamesIn(header[s].nodes)
      BY <3>2, CompleteHasCallees
    <3>5. QED
      BY <2>1, <3>3, <3>4 DEF Reporter
  <2>3. QED
    BY <2>1, <2>2
<1>4. QED
  BY <1>1, <1>2, <1>3, PTL DEF Spec

(* Without a call to storage, a response hook found nothing, or was held up *)
(* by the trace level filter, or sends nothing at all.                     *)
Misses(s, fd, n) ==
    \/ fd.found_match /\ Respond(s, Mine(fd, n)) /\ calls' = calls
    \/ ~ fd.found_match /\ Respond(s, Told(fd, n)) /\ Calls(n)
    \/ Respond(s, DefaultDistributed) /\ calls' = calls
    \/ /\ ~ fd.found_match /\ Respond(s, Searched(fd, n)) /\ calls' = calls
       /\ SearchIn(fd, n).at = {} \/ ~ TraceLevelPropertyHolds(n, Mine(fd, n))

LEMMA ResponseInboundMisses ==
    ASSUME DistinctServices, FerryInv, NEW s \in Spans, ResponseInbound(s)
    PROVE  Misses(s, shared[ServiceOf[s]], ServiceOf[s])
<1> DEFINE n == ServiceOf[s]
           fd == shared[n]
           data == Mine(fd, n)
           search == SearchIn(fd, n)
           searched == Searched(fd, n)
           found == search.at # {} /\ TraceLevelPropertyHolds(n, data)
<1>1. n \in Services /\ WellFormed(fd) /\ Fetched(s) \in SUBSET Children(s)
      /\ Carries(fd, Fetched(s)) /\ OwnOnly(fd, n)
  BY CallerType DEF FerryInv, DataInv, SharedCarries, Fetched
<1>2. /\ data.found_match <=> fd.found_match
      /\ searched.nodes = data.nodes /\ data.nodes \in Seq(Node)
      /\ ~ fd.found_match => search.at \subseteq DOMAIN data.nodes
  <2>1. PICK C \in SUBSET Children(s) : Carries(fd, C)
    BY <1>1
  <2> HIDE DEF fd
  <2>2. QED
    BY <1>1, <2>1, ResponseData, OwnIsOwned, OwnAssigned, Zenon
<1>3. \/ data.found_match /\ UNCHANGED calls /\ Respond(s, data)
      \/ ~ data.found_match /\ ~ found /\ UNCHANGED calls /\ Respond(s, searched)
      \/ ~ data.found_match /\ \E v \in search.at : Report(s, searched, v)
  BY Zenon DEF ResponseInbound, Mine, SearchIn, Searched
<1> HIDE DEF data, search, searched
<1>4. ASSUME ~ fd.found_match, NEW v \in search.at, Report(s, searched, v)
      PROVE  \/ Respond(s, Told(fd, n)) /\ Calls(n)
             \/ Respond(s, DefaultDistributed) /\ calls' = calls
  <2> DEFINE value == GetValueForStorage(searched, v)
  <2>1. searched.nodes[v] \in Node
    BY <1>2, <1>4
  <2>2. value = NoValue \/ value \in Values
    BY <2>1 DEF GetValueForStorage, Node
  <2> HIDE DEF value
  <2>3. \/ value # NoValue /\ SendToStorage(n, value) /\ Respond(s, Told(fd, n))
        \/ UNCHANGED calls /\ Respond(s, DefaultDistributed)
    BY <1>4 DEF Report, Told, searched, value
  <2>4. QED
    BY <2>2, <2>3, SendToStorageCalls
<1>5. QED
  BY <1>2, <1>3, <1>4 DEF Misses, data, search, searched

-----------------------------------------------------------------------------
(* The inductive invariant behind CompleteIsReported: as long as nothing is *)
(* found, what a sidecar ferries or keeps is full but for its callees, or   *)
(* for its own node in a header; and as long as nobody called storage, no   *)
(* header leaves a match at a callee, nor the root's one at itself alone.   *)
HeaderFull == \A s \in Spans \ {RootSpan} : FullBut(header[s], {ServiceOf[s]})

SharedFull == \A s \in Spans : FullBut(shared[ServiceOf[s]], CalleeNames(s))

WritesFull ==
    \A r, s \in Spans :
        Writing(r) /\ At(r) = ServiceOf[s] => FullBut(local[r], CalleeNames(s))

NothingMissed == calls = <<>> => \A s \in Spans : NothingLeft(header[s], s)

FullParts == HeaderFull /\ SharedFull /\ WritesFull /\ NothingMissed

CompleteInv == TrueInv /\ FoundParts /\ FullParts

LEMMA CallsStay ==
    ASSUME CallsGrow, calls \in Seq(CallRecord), calls' = <<>>
    PROVE  calls' = calls
<1>1. ASSUME NEW n, Calls(n)
      PROVE  FALSE
  <2>1. PICK value \in Values, made \in BOOLEAN :
          calls' = Append(calls, [by |-> n, value |-> value, made |-> made])
    BY <1>1 DEF Calls
  <2> DEFINE call == [by |-> n, value |-> value, made |-> made]
  <2>2. calls' = Append(calls, call)
    BY <2>1
  <2> HIDE DEF call
  <2>3. /\ DOMAIN Append(calls, call) = 1 .. Len(calls) + 1
        /\ Len(calls) + 1 \in 1 .. Len(calls) + 1
    OBVIOUS
  <2>4. Len(calls) + 1 \in DOMAIN calls'
    BY <2>2, <2>3
  <2>5. DOMAIN calls' = {}
    OBVIOUS
  <2>6. QED
    BY <2>4, <2>5
<1>2. QED
  BY <1>1 DEF CallsGrow

LEMMA FullReads ==
    ASSUME CompleteInv, NEW s \in Spans, NEW p, NEW data, Reads(s, p, data),
           \A t \in Spans : At(s)' = ServiceOf[t] => FullBut(data, CalleeNames(t))
    PROVE  FullParts'
<1>1. /\ phase' = [phase EXCEPT ![s] = p] /\ local' = [local EXCEPT ![s] = data]
      /\ phase \in [Spans -> Phases] /\ DOMAIN local = Spans
      /\ UNCHANGED <<shared, header, calls>>
  BY DEF Reads, CompleteInv, TrueInv, FerryInv, DataInv
<1>2. /\ local'[s] = data
      /\ \A t \in Spans : t # s => phase'[t] = phase[t] /\ local'[t] = local[t]
  BY <1>1
<1>3. HeaderFull' /\ SharedFull' /\ NothingMissed'
  BY <1>1 DEF CompleteInv, FullParts, HeaderFull, SharedFull, NothingMissed
<1>4. ASSUME NEW r \in Spans, NEW t \in Spans, Writing(r)', At(r)' = ServiceOf[t]
      PROVE  FullBut(local'[r], CalleeNames(t))
  <2>1. CASE r = s
    BY <1>2, <1>4, <2>1
  <2>2. CASE r # s
    <3>1. Writing(r) /\ At(r) = ServiceOf[t] /\ local'[r] = local[r]
      BY <1>2, <1>4, <2>2 DEF Writing, At
    <3>2. QED
      BY <3>1 DEF CompleteInv, FullParts, WritesFull
  <2>3. QED
    BY <2>1, <2>2
<1>5. WritesFull'
  BY <1>4 DEF WritesFull
<1>6. QED
  BY <1>3, <1>5 DEF FullParts

LEMMA FullWrites ==
    ASSUME CompleteInv, NEW s \in Spans, NEW p, Writes(s, p), Writing(s),
           p \notin {"storing", "merging"}
    PROVE  FullParts'
<1>1. /\ phase' = [phase EXCEPT ![s] = p] /\ local' = [local EXCEPT ![s] = DefaultDistributed]
      /\ shared' = [shared EXCEPT ![At(s)] = local[s]]
      /\ phase \in [Spans -> Phases] /\ DOMAIN local = Spans /\ DOMAIN shared = Services
      /\ UNCHANGED <<header, calls>>
  BY DEF Writes, WriteShared, CompleteInv, TrueInv, FerryInv, DataInv
<1>2. /\ phase'[s] = p
      /\ \A t \in Spans : t # s => phase'[t] = phase[t] /\ local'[t] = local[t]
      /\ \A t \in Spans : \/ shared'[ServiceOf[t]] = shared[ServiceOf[t]]
                          \/ At(s) = ServiceOf[t] /\ shared'[ServiceOf[t]] = local[s]
  BY <1>1, CallerType
<1>3. HeaderFull' /\ NothingMissed'
  BY <1>1 DEF CompleteInv, FullParts, HeaderFull, NothingMissed
<1>4. SharedFull'
  BY <1>2 DEF CompleteInv, FullParts, SharedFull, WritesFull
<1>5. ASSUME NEW r \in Spans, NEW t \in Spans, Writing(r)', At(r)' = ServiceOf[t]
      PROVE  FullBut(local'[r], CalleeNames(t))
  <2>1. r # s
    BY <1>2, <1>5 DEF Writing
  <2>2. Writing(r) /\ At(r) = ServiceOf[t] /\ local'[r] = local[r]
    BY <1>2, <1>5, <2>1 DEF Writing, At
  <2>3. QED
    BY <2>2 DEF CompleteInv, FullParts, WritesFull
<1>6. WritesFull'
  BY <1>5 DEF WritesFull
<1>7. QED
  BY <1>3, <1>4, <1>6 DEF FullParts

LEMMA FullResponds ==
    ASSUME CompleteInv, NEW s \in Spans, NEW data, Respond(s, data), CallsGrow,
           s # RootSpan => FullBut(data, {ServiceOf[s]}),
           calls' = <<>> => NothingLeft(data, s)
    PROVE  FullParts'
<1>1. /\ phase' = [phase EXCEPT ![s] = "responded"] /\ header' = [header EXCEPT ![s] = data]
      /\ phase \in [Spans -> Phases] /\ DOMAIN header = Spans /\ calls \in Seq(CallRecord)
      /\ UNCHANGED <<shared, local>>
  BY DEF Respond, CompleteInv, TrueInv, FerryInv, DataInv
<1>2. /\ header'[s] = data /\ phase'[s] = "responded"
      /\ \A t \in Spans : t # s => phase'[t] = phase[t] /\ header'[t] = header[t]
  BY <1>1
<1>3. HeaderFull'
  BY <1>2 DEF CompleteInv, FullParts, HeaderFull
<1>4. NothingMissed'
  <2> SUFFICES ASSUME calls' = <<>>, NEW t \in Spans
               PROVE  NothingLeft(header'[t], t)
    BY DEF NothingMissed
  <2>1. calls = <<>>
    BY <1>1, CallsStay
  <2>2. QED
    BY <1>2, <2>1 DEF CompleteInv, FullParts, NothingMissed
<1>5. SharedFull'
  BY <1>1 DEF CompleteInv, FullParts, SharedFull
<1>6. ASSUME NEW r \in Spans, NEW t \in Spans, Writing(r)', At(r)' = ServiceOf[t]
      PROVE  FullBut(local'[r], CalleeNames(t))
  <2>1. r # s
    BY <1>2, <1>6 DEF Writing
  <2>2. Writing(r) /\ At(r) = ServiceOf[t] /\ local'[r] = local[r]
    BY <1>1, <1>2, <1>6, <2>1 DEF Writing, At
  <2>3. QED
    BY <2>2 DEF CompleteInv, FullParts, WritesFull
<1>7. WritesFull'
  BY <1>6 DEF WritesFull
<1>8. QED
  BY <1>3, <1>4, <1>5, <1>7 DEF FullParts

LEMMA FullPasses ==
    ASSUME CompleteInv, NEW s \in Spans, NEW p, Passes(s, p), p \notin {"storing", "merging"}
    PROVE  FullParts'
<1>1. /\ phase' = [phase EXCEPT ![s] = p] /\ phase \in [Spans -> Phases]
      /\ UNCHANGED <<shared, local, header, calls>>
  BY DEF Passes, CompleteInv, TrueInv, FerryInv, DataInv
<1>2. HeaderFull' /\ SharedFull' /\ NothingMissed'
  BY <1>1 DEF CompleteInv, FullParts, HeaderFull, SharedFull, NothingMissed
<1>3. ASSUME NEW r \in Spans, NEW t \in Spans, Writing(r)', At(r)' = ServiceOf[t]
      PROVE  FullBut(local'[r], CalleeNames(t))
  <2>1. Writing(r) /\ At(r) = ServiceOf[t] /\ local'[r] = local[r]
    BY <1>1, <1>3 DEF Writing, At
  <2>2. QED
    BY <2>1 DEF CompleteInv, FullParts, WritesFull
<1>4. WritesFull'
  BY <1>3 DEF WritesFull
<1>5. QED
  BY <1>2, <1>4 DEF FullParts

LEMMA FullStep ==
    ASSUME DistinctServices, Tree(Target), ServiceOf[RootSpan] = RootId,
           TraceWanted \in {NoValue, PropertyOf[RootId]}, CompleteInv, [Next]_vars
    PROVE  CompleteInv'
<1>0. /\ TrueInv /\ FerryInv /\ FoundInv /\ phase \in [Spans -> Phases]
      /\ \A n \in Services : WellFormed(shared[n])
      /\ \A s \in Spans : WellFormed(header[s]) /\ ServiceOf[s] \in Services
  BY CallerType DEF CompleteInv, TrueInv, FoundInv, FerryInv, DataInv
<1>1. ASSUME NEW s \in Spans, RequestInbound(s)
      PROVE  FullParts'
  <2> DEFINE n == ServiceOf[s]
             data == MergeDistributed(Collected(n), shared[n])
  <2>1. n \in Services /\ WellFormed(shared[n]) /\ Fetched(s) = {} /\ {} \in SUBSET Children(s)
    BY <1>0, <1>1 DEF FerryInv, RequestInbound, Requested, IdleBelow, Fetched
  <2>2. Carries(shared[n], {}) /\ OwnOnly(shared[n], n) /\ FullBut(shared[n], CalleeNames(s))
    BY <1>0, <2>1 DEF FerryInv, SharedCarries, CompleteInv, FullParts, SharedFull
  <2>3. WellFormed(Collected(n)) /\ Carries(Collected(n), {}) /\ OwnOnly(Collected(n), n)
    BY <2>1, CollectedWellFormed
  <2>4. FullBut(Collected(n), CalleeNames(s))
    <3>1. Collected(n).nodes = <<>>
      BY DEF Collected, DefaultDistributed
    <3>2. QED
      BY <3>1, EmptyFull
  <2>5. FullBut(data, CalleeNames(s))
    BY <2>1, <2>2, <2>3, <2>4, MergeFull, OwnIsAbove
  <2>6. Reads(s, "storing", data) /\ phase'[s] = "storing"
    BY <1>0, <1>1 DEF RequestInbound, ReadAndMerge, Reads
  <2>7. At(s)' = ServiceOf[s]
    BY <2>6 DEF At
  <2> HIDE DEF data
  <2>8. \A t \in Spans : At(s)' = ServiceOf[t] => FullBut(data, CalleeNames(t))
    BY <2>5, <2>7 DEF DistinctServices
  <2>9. QED
    BY <2>6, <2>8, FullReads
<1>2. ASSUME NEW s \in Spans, ResponseInbound(s)
      PROVE  FullParts'
  <2> DEFINE n == ServiceOf[s]
             fd == shared[n]
  <2>1. Misses(s, fd, n)
    BY <1>0, <1>2, ResponseInboundMisses
  <2>2. /\ WellFormed(fd) /\ Fetched(s) \in SUBSET Children(s)
        /\ Carries(fd, Fetched(s)) /\ OwnOnly(fd, n) /\ Claims(fd) /\ FullBut(fd, CalleeNames(s))
    BY <1>0 DEF FerryInv, SharedCarries, Fetched, CompleteInv, TrueInv, TrueParts, FullParts,
                SharedFull
  <2>3. fd.found_match => calls # <<>>
    <3>1. fd.found_match => DOMAIN calls # {}
      BY DEF CompleteInv, FoundParts, SharedFound, ReportedBelow
    <3>2. QED
      BY <3>1
  <2>4. n = RootId <=> s = RootSpan
    BY TraceAssumption DEF DistinctServices
  <2>5. /\ Told(fd, n).found_match /\ Mine(fd, n).found_match = fd.found_match
        /\ Searched(fd, n).nodes = Mine(fd, n).nodes
    <3> HIDE DEF fd
    <3>1. QED
      BY <2>2, ToldFound
  <2> DEFINE sent == Searched(fd, n)
  <2>6. ASSUME ~ fd.found_match, SearchIn(fd, n).at = {}
        PROVE  (s # RootSpan => FullBut(sent, {n})) /\ NothingLeft(sent, s)
    <3>1. \A x : x = sent =>
            /\ n # RootId => FullBut(x, {n}) /\ ~ MatchLow(x, s)
            /\ n = RootId => (MatchHere(x, s) => MatchLow(x, s))
      <4> HIDE DEF fd
      <4>1. QED
        BY <2>2, <2>6, ResponseFull, OwnIsAbove
    <3> HIDE DEF sent
    <3>2. QED
      BY <2>4, <3>1 DEF NothingLeft
  <2>7. ASSUME ~ TraceLevelPropertyHolds(n, Mine(fd, n))
        PROVE  s = RootSpan /\ NothingLeft(sent, s)
    <3>1. n = RootId /\ ~ MatchHere(sent, s)
      <4> HIDE DEF fd
      <4>1. sent.nodes = Mine(fd, n).nodes
        BY <2>5
      <4> HIDE DEF sent
      <4>2. QED
        BY <2>2, <2>7, <4>1, HeldUpMisses, OwnIsAbove
    <3> HIDE DEF sent
    <3>2. QED
      BY <2>4, <3>1 DEF NothingLeft
  <2> HIDE DEF fd, sent
  <2>8. CASE fd.found_match /\ Respond(s, Mine(fd, n)) /\ calls' = calls
    BY <2>3, <2>5, <2>8, FullResponds DEF FullBut, CallsGrow
  <2>9. CASE Respond(s, Told(fd, n)) /\ Calls(n)
    <3>1. CallsGrow /\ FullBut(Told(fd, n), {n})
      BY <2>5, <2>9 DEF CallsGrow, FullBut
    <3>2. calls' # <<>>
      <4>1. ReportedBelow(s)'
        BY <1>0, <2>9, <3>1, CallsKept DEF FerryInv, DataInv
      <4>2. DOMAIN calls' # {}
        BY <4>1 DEF ReportedBelow
      <4>3. QED
        BY <4>2
    <3>3. QED
      BY <2>9, <3>1, <3>2, FullResponds
  <2>10. CASE Respond(s, DefaultDistributed) /\ calls' = calls
    BY <2>10, DefaultFull, FullResponds DEF CallsGrow
  <2>11. CASE /\ ~ fd.found_match /\ Respond(s, sent) /\ calls' = calls
              /\ SearchIn(fd, n).at = {} \/ ~ TraceLevelPropertyHolds(n, Mine(fd, n))
    <3>1. (s # RootSpan => FullBut(sent, {n})) /\ NothingLeft(sent, s)
      BY <2>6, <2>7, <2>11
    <3>2. QED
      BY <2>11, <3>1, FullResponds DEF CallsGrow
  <2>12. QED
    BY <2>1, <2>8, <2>9, <2>10, <2>11 DEF Misses, sent
<1>3. ASSUME NEW s \in Spans, ResponseOutbound(s)
      PROVE  FullParts'
  <2> DEFINE t == Parent[s]
             n == Caller(s)
             data == MergeDistributed(header[s], shared[n])
  <2>1. s \in Spans \ {RootSpan} /\ phase[s] = "responded"
    BY <1>3 DEF ResponseOutbound
  <2>2. /\ t \in Spans /\ s \in Children(t) /\ n = ServiceOf[t] /\ n \in Services
        /\ WellFormed(header[s]) /\ WellFormed(shared[n])
    BY <1>0, <2>1, CallerType, ChildrenOfSpans DEF Caller
  <2>3. Carries(header[s], {s}) /\ OwnOnly(header[s], ServiceOf[t])
    BY <1>0 DEF FerryInv, HeaderCarries, OwnOnly
  <2>4. Carries(shared[n], Fetched(t)) /\ OwnOnly(shared[n], ServiceOf[t])
    BY <1>0, <2>2 DEF FerryInv, SharedCarries
  <2>5. {s} \in SUBSET Children(t) /\ Fetched(t) \in SUBSET Children(t) /\ {s} \cap Fetched(t) = {}
    BY <2>1, <2>2 DEF Fetched
  <2>6. FullBut(header[s], CalleeNames(t)) /\ FullBut(shared[n], CalleeNames(t))
    <3>1. {ServiceOf[s]} \subseteq CalleeNames(t)
      BY <2>2 DEF CalleeNames
    <3>2. FullBut(header[s], {ServiceOf[s]}) /\ FullBut(shared[n], CalleeNames(t))
      BY <2>1, <2>2 DEF CompleteInv, FullParts, HeaderFull, SharedFull
    <3>3. QED
      BY <3>1, <3>2, FullButMonotone
  <2>7. FullBut(data, CalleeNames(t))
    BY <2>2, <2>3, <2>4, <2>5, <2>6, MergeFull, OwnIsAbove
  <2>8. Reads(s, "merging", data) /\ phase'[s] = "merging"
    BY <1>0, <1>3 DEF ResponseOutbound, ReadAndMerge, Reads
  <2>9. At(s)' = ServiceOf[t]
    BY <2>1, <2>8 DEF At, Caller
  <2> HIDE DEF data
  <2>10. \A u \in Spans : At(s)' = ServiceOf[u] => FullBut(data, CalleeNames(u))
    BY <2>2, <2>7, <2>9 DEF DistinctServices
  <2>11. QED
    BY <2>8, <2>10, FullReads
<1>4. ASSUME NEW s \in Spans, RequestInboundStore(s) \/ ResponseOutboundStore(s)
      PROVE  FullParts'
  <2>1. Writing(s) /\ (Writes(s, "serving") \/ Writes(s, "done"))
    BY <1>4 DEF RequestInboundStore, ResponseOutboundStore, Writes, Writing, At
  <2>2. QED
    BY <2>1, FullWrites
<1>5. ASSUME NEW s \in Spans, RequestInboundFails(s) \/ ResponseOutboundFails(s)
      PROVE  FullParts'
  <2>1. Passes(s, "serving") \/ Passes(s, "done")
    BY <1>5 DEF RequestInboundFails, ResponseOutboundFails, Passes
  <2>2. QED
    BY <2>1, FullPasses
<1>6. ASSUME NEW s \in Spans, ResponseInboundFails(s)
      PROVE  FullParts'
  BY <1>6, DefaultFull, FullResponds DEF ResponseInboundFails, CallsGrow
<1>7. ASSUME UNCHANGED vars
      PROVE  FullParts'
  BY <1>7 DEF vars, CompleteInv, FullParts, HeaderFull, SharedFull, WritesFull, NothingMissed,
              Writing, At
<1>8. FullParts'
  BY <1>1, <1>2, <1>3, <1>4, <1>5, <1>6, <1>7 DEF Next, Hook, Finished
<1>9. TrueInv' /\ FoundParts'
  BY <1>0, TrueStep, FoundStep DEF FoundInv
<1>10. QED
  BY <1>8, <1>9 DEF CompleteInv

LEMMA FullInit ==
    ASSUME Init
    PROVE  CompleteInv
<1>1. TrueInv
  BY TrueInit
<1>2. FoundParts
  <2>1. ~ DefaultDistributed.found_match
    BY DefaultWellFormed
  <2>2. QED
    BY <2>1, CallerType DEF Init, FoundParts, FoundMeansReported, SharedFound, WritesFound
<1>3. FullParts
  BY DefaultFull, CallerType
     DEF Init, FullParts, HeaderFull, SharedFull, WritesFull, NothingMissed
<1>4. QED
  BY <1>1, <1>2, <1>3 DEF CompleteInv

(* When every response is complete, a match that the root's response shows  *)
(* at a callee is one in the trace.                                        *)
LEMMA LowIsReal ==
    ASSUME DistinctServices, CompleteInv, AllComplete, MatchLow(header[RootSpan], RootSpan)
    PROVE  Children(RootSpan) \cap TrueMatches # {}
<1> DEFINE g == header[RootSpan]
<1>1. PICK v \in DOMAIN g.nodes :
        g.nodes[v].name \in CalleeNames(RootSpan) /\ EmbedsAt(Target, g.nodes, g.edges, v)
  BY DEF MatchLow
<1>2. PICK c \in Children(RootSpan) : g.nodes[v].name = ServiceOf[c]
  BY <1>1 DEF CalleeNames
<1>3. CalledSpans = Spans /\ RootSpan \in Spans /\ c \in Spans
  BY TraceAssumption DEF AllComplete, CalledSpans, Children
<1>4. Sound(g, Below[RootSpan])
  <2>1. UNION {Below[t] : t \in {RootSpan}} = Below[RootSpan]
    OBVIOUS
  <2>2. QED
    BY <1>3, <2>1 DEF CompleteInv, TrueInv, FerryInv, HeaderCarries, Carries
<1> HIDE DEF g
<1>5. NamesIn(g.nodes) \subseteq CalledNames
  BY <1>3, <1>4, BelowRoot DEF Sound, NamesIn, CalledNames
<1>6. PICK m \in MatchesSeen(RootSpan) : ServiceOf[m] = g.nodes[v].name
  BY <1>1, <1>3, <1>4, <1>5, MatchIsReal
<1>7. Seen(RootSpan) = Spans
  BY <1>3, BelowRoot DEF Seen
<1>8. MatchesSeen(RootSpan) = TrueMatches
  <2>1. [t \in Spans |-> SpanLabel[t]] = SpanLabel
    BY DEF SpanLabel
  <2>2. {<<Parent[d], d>> : d \in Spans \ {RootSpan}} = CallEdges
    BY DEF CallEdges
  <2>3. QED
    BY <1>7, <2>1, <2>2 DEF MatchesSeen, TrueMatches
<1>9. m = c
  BY <1>2, <1>3, <1>6, <1>7 DEF MatchesSeen, DistinctServices
<1>10. QED
  BY <1>6, <1>8, <1>9

(* A sidecar sees a match only when what it has in hand is whole, and it    *)
(* looks for the pattern only at its callees' nodes, with what their own    *)
(* searches left in set_s.  That is enough, in whatever order responses are *)
(* merged: whenever every response is complete, a match is reported, by its *)
(* caller or by somebody below; the root's sidecar also looks at its own    *)
(* node, and sees a match there unless one of its callees is in the way.    *)
THEOREM NoneIsMissed ==
    ASSUME DistinctServices, Detached = {}, Tree(Target), ServiceOf[RootSpan] = RootId,
           TraceWanted \in {NoValue, PropertyOf[RootId]}
    PROVE  Spec => []CompleteIsReported
<1>1. Init => CompleteInv
  BY FullInit
<1>2. CompleteInv /\ [Next]_vars => CompleteInv'
  BY FullStep
<1>3. CompleteInv => CompleteIsReported
  <2> SUFFICES ASSUME CompleteInv, AllComplete, calls = <<>>
               PROVE  /\ TrueMatches \ (Children(RootSpan) \cup {RootSpan}) = {}
                      /\ RootSpan \in TrueMatches => Children(RootSpan) \cap TrueMatches # {}
    BY DEF CompleteIsReported
  <2>1. \A s \in Spans : NothingLeft(header[s], s) /\ Complete(header[s], s)
    BY DEF CompleteInv, FullParts, NothingMissed, AllComplete
  <2>2. \A s \in Spans : Sound(header[s], Below[s])
    <3>1. \A s : UNION {Below[c] : c \in {s}} = Below[s]
      OBVIOUS
    <3>2. QED
      BY <3>1 DEF CompleteInv, TrueInv, FerryInv, HeaderCarries, Carries
  <2>3. \A m \in TrueMatches : m \in Spans /\ EmbedsAt(Target, SpanLabel, CallEdges, m)
    BY DEF TrueMatches
  <2>4. ASSUME NEW s \in Spans, NEW m \in Below[s], m \in TrueMatches
        PROVE  \E v \in DOMAIN header[s].nodes :
                   /\ header[s].nodes[v] = SpanLabel[m]
                   /\ EmbedsAt(Target, header[s].nodes, header[s].edges, v)
    BY <2>1, <2>2, <2>3, <2>4, MatchInComplete
  <2>5. ASSUME NEW m \in TrueMatches, m \notin Children(RootSpan), m # RootSpan
        PROVE  FALSE
    <3>1. /\ m \in Spans \ {RootSpan} /\ m \in Children(Parent[m])
          /\ Parent[m] \in Spans /\ Parent[m] # RootSpan
      BY <2>3, <2>5, ChildrenOfSpans
    <3>2. m \in Below[Parent[m]]
      BY <3>1, BelowClosed
    <3>3. PICK v \in DOMAIN header[Parent[m]].nodes :
            /\ header[Parent[m]].nodes[v] = SpanLabel[m]
            /\ EmbedsAt(Target, header[Parent[m]].nodes, header[Parent[m]].edges, v)
      BY <2>4, <3>1, <3>2
    <3>4. header[Parent[m]].nodes[v].name \in CalleeNames(Parent[m])
      BY <3>1, <3>3 DEF SpanLabel, CalleeNames
    <3>5. MatchLow(header[Parent[m]], Parent[m])
      BY <3>3, <3>4 DEF MatchLow
    <3>6. QED
      BY <2>1, <3>1, <3>5 DEF NothingLeft
  <2>6. ASSUME RootSpan \in TrueMatches
        PROVE  Children(RootSpan) \cap TrueMatches # {}
    <3>1. RootSpan \in Spans /\ RootSpan \in Below[RootSpan]
      BY TraceAssumption, BelowClosed
    <3>2. MatchHere(header[RootSpan], RootSpan)
      BY <2>4, <2>6, <3>1 DEF MatchHere
    <3>3. MatchLow(header[RootSpan], RootSpan)
      BY <2>1, <3>1, <3>2 DEF NothingLeft
    <3>4. QED
      BY <3>3, LowIsReal
  <2>7. QED
    BY <2>5, <2>6
<1>4. QED
  BY <1>1, <1>2, <1>3, PTL DEF Spec
=============================================================================

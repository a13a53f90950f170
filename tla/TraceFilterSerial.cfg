SPECIFICATION FairSpec
CONSTANTS
    NoValue = NoValue
    AnyName = AnyName
    Services <- AllServices
    Values <- LetterValues
    PropertyOf <- LetterProperty
    Spans <- TreeSpans
    RootSpan = "a"
    Parent <- TreeParent
    ServiceOf <- TreeService
    Detached <- DetachedC
    Workers = 1
    Faults <- NoFaults
    Target <- Pair
    RootId = "a"
    TraceWanted = "x"
    Reporter = "a"
INVARIANTS TypeOK NoPhantom ResponseComplete ReportsOnce
PROPERTIES StoreKeepsNodes ImplementsTraceCollection MatchReported

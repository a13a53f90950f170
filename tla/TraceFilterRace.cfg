SPECIFICATION Spec
CONSTANTS
    NoValue = NoValue
    AnyName = AnyName
    Services <- AllServices
    Values <- LetterValues
    PropertyOf <- LetterProperty
    Spans <- TreeSpans
    RootSpan = "a"
    Parent <- TreeParent
    ServiceOf <- TreeService
    Detached <- DetachedC
    Workers = 2
    Faults = {"request", "response", "storage"}
    Target <- Fork
    RootId = "a"
    TraceWanted = "x"
    Reporter = "a"
INVARIANTS TypeOK NoPhantom ReportsOnce
PROPERTY ImplementsTraceCollection

SPECIFICATION Spec
CONSTANTS
    NoValue = NoValue
    AnyName = AnyName
    Services <- DeepSpans
    Values <- LetterValues
    PropertyOf <- DeepProperty
    Spans <- DeepSpans
    RootSpan = "a"
    Parent <- DeepParent
    ServiceOf <- DeepService
    Detached <- NoSpans
    Workers = 2
    Faults = {"request", "response", "storage"}
    Target <- Pair
    RootId = "a"
    TraceWanted = "x"
INVARIANTS TypeOK FerriedSetSTrue FoundMeansReported FoundSilencesCallers CompleteIsReported
PROPERTY ImplementsTraceCollection

SPECIFICATION MeshSpec
CONSTANTS
    NoValue = NoValue
    AnyName = AnyName
    Services <- TwoBranches
    Values <- LetterValues
    PropertyOf <- LetterProperty
    Spans <- TwoBranches
    RootSpan = "a"
    Parent <- BranchParent
    ServiceOf <- BranchService
    Detached <- NoSpans
    Workers = 1
    Faults <- NoSpans
    Target <- Pair
    RootId = "a"
    TraceWanted = "x"
    MaxTraces = 2
    Modulus = 16
INVARIANTS TypeOK NothingTwice HeightsRight MatchesAreSent OneSendsOnEachWay
PROPERTIES ImplementsTraceCollection ImplementsRunningAverage

SPECIFICATION Spec
CONSTANTS
    NoValue = NoValue
    AnyName = AnyName
    Services <- OneService
    Values <- TwoValues
    TraceGraphs <- SmallTraces
    Patterns <- SmallPatterns
INVARIANT MapsPatternToTrace

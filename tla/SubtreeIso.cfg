SPECIFICATION Spec
CONSTANTS
    NoValue = NoValue
    AnyName = AnyName
    Services <- OneService
    Values <- TwoValues
    TraceGraphs <- SmallTraces
    Patterns <- SmallPatterns
INVARIANTS TypeOK SetSExact AnswerRight RootIsMapped

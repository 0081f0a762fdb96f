SPECIFICATION MCSpec
CONSTANTS
    Pairs <- MCPairs
    Samples <- MCSamples
    MaxSafe = 2
    Slots = {1, 2}
    Traffic <- MCTraffic
    Window = 2
    MaxRequests = 2
    MaxOutages = 1
INVARIANTS
    RoundTrip
    AnswerTellsEffect
    WindowBound
PROPERTIES
    RefusedOnlyWhenFull
    LimitEnds

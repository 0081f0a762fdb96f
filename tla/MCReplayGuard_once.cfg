SPECIFICATION Spec
CONSTANTS
    m1 = m1 m2 = m2 d1 = d1 d2 = d2 d3 = d3
    NoMessage = NoMessage
    Messages = {m1, m2}
    Deliveries = {d1, d2, d3}
    ForBank = {m2}
    Window = 2
    TTL = 2
    MaxAhead = 2
    MaxDelay = 1
    MaxTime = 5
    Outages = TRUE
SYMMETRY Symmetric
INVARIANTS
    OnceInWindow
    AtMostTwice
    ReplayIsReal
CHECK_DEADLOCK FALSE

SPECIFICATION Spec
CONSTANTS
    m1 = m1 m2 = m2 d1 = d1 d2 = d2 d3 = d3
    NoMessage = NoMessage
    Messages = {m1, m2}
    Deliveries = {d1, d2}
    ForBank = {m2}
    Window = 2
    TTL = 2
    MaxAhead = 1
    MaxDelay = 0
    MaxTime = 5
    Outages = FALSE
INVARIANT NoGap
CHECK_DEADLOCK FALSE

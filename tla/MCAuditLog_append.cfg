SPECIFICATION Spec
CONSTANTS
    w1 = w1 w2 = w2 w3 = w3 e1 = e1 e2 = e2
    Nobody = Nobody
    Writers = {w1, w2, w3}
    Events = {e1, e2}
    PreChain = 1
    MaxTampers = 3
SYMMETRY Symmetric
INVARIANTS
    
    VerifiedIsGenuine
CHECK_DEADLOCK FALSE

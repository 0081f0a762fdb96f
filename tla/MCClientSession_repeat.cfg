SPECIFICATION Spec
CONSTANTS
    A = A
    B = B
    Customers = {A, B}
    Logins = {l}
    Loads = {p}
    Transfers = {1, 2}
    Plans <- MCPlans
    None = None
    MaxFaults = 1
INVARIANT
    RetryPaysOnce

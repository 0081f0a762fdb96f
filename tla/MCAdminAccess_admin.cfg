SPECIFICATION Spec
CONSTANTS
    ca = ca
    bank = bank
    Admins = {ca, bank}
    RoleOf <- MCRoleOf
    Plans <- MCPlans
    Attempts = {1, 2, 3}
    Logins = {1, 2}
    ActivationTtl = 1
    SessionTtl = 2
    TicketTtl = 1
    NoAttempt = 0
    MaxFaults = 1
INVARIANTS
    ActiveIsRecorded
PROPERTIES
    RevokedLosesAccess
    TokensEnd
CHECK_DEADLOCK FALSE

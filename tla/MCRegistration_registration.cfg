SPECIFICATION MCSpec
CONSTANTS
    a = a b = b t1 = t1 t2 = t2 t3 = t3
    NoEmail = NoEmail
    Emails = {a}
    Verifies = {1, 2, 3}
    MaxAttempts = 2
    MaxCodes = 2
    RedisFaults = TRUE
    NoToken = NoToken
    Tokens = {t1, t2, t3}
    Addresses = {a, b}
    MailOf <- Mails
    Requests = {1, 2, 3}
    Faults = TRUE
INVARIANTS
    SpentCodeStaysSpent
    RegisteredOnce
    ActiveIsEnrolled
    UsersHaveCertificates
PROPERTIES
    LockoutEnds
    CodeLostOnlyToSuccess
CHECK_DEADLOCK FALSE

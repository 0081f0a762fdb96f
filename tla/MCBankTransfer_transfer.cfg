SPECIFICATION MCSpec
CONSTANTS
    r1 = r1 r2 = r2 r3 = r3
    alice = alice bob = bob carol = carol dave = dave erin = erin frank = frank
    a = a b = b c = c d = d e = e f = f
    k1 = k1 k2 = k2 k3 = k3
    n1 = n1 n2 = n2 n3 = n3
    Owner <- MCOwner
    CurrencyOf <- DaveInUSD
    NoAccount = NoAccount NoTx = NoTx Nobody = Nobody Genesis = Genesis
    Keys = {k1, k2, k3}
    Nonces = {n1, n2, n3}
    OpeningBalance = 3
    DailyLimit = 2
    Users = {alice, bob, carol, dave, erin, frank}
    Accounts = {a, b, c, d, e, f}
    Seeded = {a, b, d, e, f}
    LockedUsers = {dave}
    LockedAccounts = {}
    Currencies = {"VND", "USD"}
    Requests = {r1, r2, r3}
    Inputs <- MCInputs
    MaxDay = 1
    Faults = TRUE
INVARIANTS
    TypeOK
    NoOverdraft
    MoneyConserved
    DailyLimitRespected
    AnswersMatchLedger
    AuditMatchesLedger
PROPERTIES
    SerialAppends
    ImplementsBook
    EveryTransferEnds
CHECK_DEADLOCK FALSE

\* A queued key with a doubled blank, against the recovery runbook.
CONSTANTS
    i1 = i1
    i2 = i2
    Items = {i1, i2}
    MaxAttempts = 2
    ann = ann
    bob = bob
    cat = cat
    main = main
    walkIn = walkIn
    named = named
    s1 = s1
    s2 = s2
    c1 = c1
    None = None
    Actors = {ann, bob}
    FinanceDesk = {}
    Counters = {main}
    Customers = {walkIn, named}
    Shifts = {s1}
    Credits = {}
    Returns = {}
    Settlements = {}
    Methods = {"cash"}
    RawKeys <- PaddedKeys
    Keys <- PlainKey
    References <- MCReferences
    CleanKey <- PaddedClean
    CounterOf <- MCCounterOf
    Requests <- CashRequests
    UnitPrice = 1
    CreditLimit <- MCCreditLimit
    InitialStock = 3
    OpeningCash = {1}
    Counts = {}
    MaxJournals = 1
SYMMETRY People
SPECIFICATION OfflineSpec
INVARIANTS
    ConflictIsNotASale
CHECK_DEADLOCK FALSE

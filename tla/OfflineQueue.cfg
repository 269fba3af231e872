\* Queued and online sales under two spellings of a key, with references used before and credit.
CONSTANTS
    i1 = i1
    i2 = i2
    Items = {i1, i2}
    MaxAttempts = 2
    ann = ann
    bob = bob
    cat = cat
    main = main
    walkIn = walkIn
    named = named
    s1 = s1
    s2 = s2
    c1 = c1
    None = None
    Actors = {ann, bob}
    FinanceDesk = {}
    Counters = {main}
    Customers = {walkIn, named}
    Shifts = {s1}
    Credits = {}
    Returns = {}
    Settlements = {}
    Methods = {"cash", "upi", "customer-credit"}
    RawKeys <- MCRawKeys
    Keys <- MCKeys
    References <- MCReferences
    CleanKey <- MCCleanKey
    CounterOf <- MCCounterOf
    Requests <- OfflineMix
    UnitPrice = 1
    CreditLimit <- MCCreditLimit
    InitialStock = 3
    OpeningCash = {1}
    Counts = {2}
    MaxJournals = 1
SYMMETRY People
SPECIFICATION OfflineSpec
INVARIANTS
    OneSalePerKey
    EvidenceUsedOnce
    SyncedMeansSold
CHECK_DEADLOCK FALSE

\* The remainder of an exchanged credit, issued and still available.
CONSTANTS
    e1 = e1
    e2 = e2
    Exchanges = {e1}
    ExchangeKey <- MCExchangeKey
    TopUps <- MCTopUps
    ann = ann
    bob = bob
    cat = cat
    main = main
    walkIn = walkIn
    named = named
    s1 = s1
    s2 = s2
    c1 = c1
    None = None
    Actors = {ann, bob, cat}
    FinanceDesk = {}
    Counters = {main}
    Customers = {walkIn, named}
    Shifts = {s1}
    Credits = {c1, c2}
    Returns = {r1}
    Settlements = {x1, x2}
    Methods = {"cash", "upi", "store-credit"}
    RawKeys <- OneKey
    Keys <- ExchangeKeys
    References <- MCReferences
    CleanKey <- OneKeyClean
    CounterOf <- MCCounterOf
    Requests <- PairRequests
    UnitPrice = 1
    CreditLimit <- MCCreditLimit
    InitialStock = 3
    OpeningCash = {0}
    Counts = {}
    MaxJournals = 0
    r1 = r1
    r2 = r2
    x1 = x1
    x2 = x2
    c2 = c2
    WalkIn = walkIn
SYMMETRY Cases
SPECIFICATION ExchangeSpec
INVARIANTS
    ReturnValueGivenOnce
CHECK_DEADLOCK FALSE

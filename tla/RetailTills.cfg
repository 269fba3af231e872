\* Four stories of one counter: two consecutive shifts and every way to close
\* them; a cash refund from either drawer while it is counted, reviewed and
\* reopened; returns of one sale competing for its rails; a return exchanged or
\* refunded, topped up in cash, and its credits spent.
CONSTANTS
    e1 = e1
    e2 = e2
    Exchanges = {e1}
    ExchangeKey <- MCExchangeKey
    TopUps <- MCTopUps
    ann = ann
    bob = bob
    cat = cat
    main = main
    walkIn = walkIn
    named = named
    s1 = s1
    s2 = s2
    c1 = c1
    None = None
    Actors = {ann, bob, cat}
    FinanceDesk = {ann, bob, cat}
    Counters = {main}
    Customers = {walkIn, named}
    Shifts = {s1, s2}
    Credits = {c1, c2}
    Returns = {r1, r2}
    Settlements = {x1, x2}
    Methods = {"cash", "upi", "store-credit"}
    RawKeys <- MCKeys
    Keys <- TillKeys
    References <- MCReferences
    CleanKey <- PlainKeys
    CounterOf <- MCCounterOf
    Requests <- TillRequests
    UnitPrice = 1
    CreditLimit <- MCCreditLimit
    InitialStock = 2
    OpeningCash = {0, 1}
    Counts = {0, 1, 2}
    MaxJournals = 1
    r1 = r1
    r2 = r2
    x1 = x1
    x2 = x2
    c2 = c2
    WalkIn = walkIn
SYMMETRY Cases
SPECIFICATION TillsSpec
INVARIANTS
    ExchangesStayWithinCredit
    StoreCreditIsConserved
    RefundsStayWithinTender
    DrawerMatchesExpectation
    ClosedTillIsSettled
    VarianceIsIndependentlyResolved
PROPERTIES
    CloseIsFinal
    SettledIsFinal
CHECK_DEADLOCK FALSE

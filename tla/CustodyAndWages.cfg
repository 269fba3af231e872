\* Cash on delivery for one parcel in depth, for two whose evidence may be confused,
\* and for one whose receivable goes on moving; payroll runs, their settlement and closes; and a payroll provider.
SPECIFICATION MCSpec
CONSTANTS
    d1 = d1
    d2 = d2
    s1 = s1
    s2 = s2
    k2 = k2
    Cases = {c1, c2}
    Shipments = {s1, s2}
    Promises = {d1, d2}
    Receivables = {r1, r2}
    Carriers = {k1, k2}
    Receipts = {p1, p2}
    BankLines = {l1}
    Actors = {a1, a2}
    PromiseOf <- MCPromiseOf
    PromisedCarrier = k1
    OrderValue = 2
    MaxCharged = 3
    MaxInstant = 2
    tax = tax
    welfare = welfare
    office = office
    Employees = {p1, p2}
    Officers = {a1, a2}
    Policies = {tax, welfare}
    Authorities = {office}
    Adjustments = {arrear}
    Runs = {c1, c2}
    Closes = {r1, r2}
    Required = {tax}
    AuthorityOf <- MCAuthorityOf
    Days = {1, 2, 3}
    MonthOf <- MCMonthOf
    Fingerprints = {f1, f2}
    Capabilities = {"disbursement", "status-pull"}
    Packets = {r1, r2}
    MaxRevision = 2
    MaxCases = 4
    None = None
SYMMETRY Symmetry
INVARIANTS
    CustodyFollowsPackage
    CashIsDischarged
    BankEvidenceIsExclusive
    WagesPaidOnce
    ClosedMonthIsSettled
PROPERTIES
    HandoffIsCertified
CHECK_DEADLOCK FALSE

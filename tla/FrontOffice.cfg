\* Leads converted and imported by two windows while writes fail and the process
\* stops; the party master; claims on one invoice; and cash received, applied and
\* matched over two.
SPECIFICATION FrontSpec
CONSTANTS
    e1 = e1
    e2 = e2
    Accounts = {a1, a2}
    Contacts = {c1, c2}
    Leads = {l1, l2}
    Holdings = {h1}
    Emails = {e1, e2}
    Channels = {chat}
    DomainOf <- MCDomainOf
    MaxConsents = 1
    MaxLostWrites = 1
    Windows = {w1, w2}
    MaxCrashes = 1
    Operators = {n1, n2}
    Users = {u1, u2}
    Invoices = {1, 2}
    Receipts = {1, 2}
    BankLines = {b1}
    Disputes = {1, 2}
    WriteOffs = {o1}
    Amounts = {1, 2}
    MaxAdjustments = 1
    None = None
SYMMETRY Symmetry
INVARIANTS
    NothingIsLeftBehind
    ConvertedLeadHasParty
    ConversionsResolve
    CommittedImportIsStored
    BalancesAgree
    DisputedMeansInDispute
PROPERTIES
    ReconciledCashIsSettled
CHECK_DEADLOCK FALSE

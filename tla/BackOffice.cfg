\* A schedule's slot from tick to outcome; a requisition from its suppliers to
\* their payment; the books and their close; the depreciation of two assets; two
\* requests of any kind for one asset between its charges and their journals; and
\* three rounds of its maintenance.
SPECIFICATION OfficeSpec
CONSTANTS
    m = m
    Operators = {n1, n2}
    Slots = {k1}
    ManualKeys = {m}
    Gated = {k1}
    MaxAttempts = 2
    MaxFailures = 3
    MaxFaults = 2
    Suppliers = {1, 2}
    Receipts = {1, 2}
    Costs = {1, 2}
    Invoices = {1, 2}
    Payments = {1, 2, 3}
    Required = 2
    Prices = {1, 2}
    Clerks = {u1, u2}
    InvoiceHandoffs = {invoiced}
    RecognitionHandoffs = {recognised}
    OtherHandoffs = {received, settled}
    LegacyHandoffs = {legacy}
    AskedOnExport = {invoiced, recognised, received}
    Journals = {1, 2, 3}
    Dates = {1, 2}
    Closes = {1, 2}
    clerk = clerk
    head = head
    x1 = x1
    x2 = x2
    Assets = {x1, x2}
    Bills = {bill}
    Taxable <- MCTaxable
    Policies = {1, 2}
    Life <- MCLife
    Runs = {1, 2, 3}
    LastMonth = 2
    Requests = {11, 12}
    Orders = {1, 2, 3}
    Places = {here, there}
    Staff = {clerk, head, other}
    None = None
SYMMETRY Symmetry
INVARIANTS
    NoSlotIsLost
    EveryAttemptIsApproved
    PaymentsAreBacked
    EventBookedOnce
    ClosedBooksHoldRevenue
    MonthChargedOnce
PROPERTIES
    RetiredAssetStaysPut
CHECK_DEADLOCK FALSE

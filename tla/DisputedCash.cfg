\* Cash applied to a receivable that is in dispute.
SPECIFICATION FrontSpec
CONSTANTS
    e1 = e1
    e2 = e2
    Accounts = {}
    Contacts = {}
    Leads = {}
    Holdings = {}
    Emails = {e1, e2}
    Channels = {chat}
    DomainOf <- MCDomainOf
    MaxConsents = 1
    MaxLostWrites = 1
    Windows = {}
    MaxCrashes = 1
    Operators = {n1, n2}
    Users = {u1, u2}
    Invoices = {1, 2}
    Receipts = {1, 2}
    BankLines = {b1}
    Disputes = {1, 2}
    WriteOffs = {o1}
    Amounts = {1, 2}
    MaxAdjustments = 1
    None = None
SYMMETRY Symmetry
PROPERTY OnlyUndisputedCash
CHECK_DEADLOCK FALSE

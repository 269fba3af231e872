\* An order that was dispatched comes back, and its return to origin is to be
\* reconciled.
SPECIFICATION ComingBackSpec
CONSTANTS
    Digests = {1, 2, 3}
    SalesOrders = {so1}
    MaxAttempts = 1
    None = None
PROPERTY RtoIsReconciled
CHECK_DEADLOCK FALSE

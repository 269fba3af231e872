\* A command answered with a failure and a later one that succeeds.
CONSTANTS
    c1 = c1
    c2 = c2
    c3 = c3
    c4 = c4
    lead = lead
    account = account
    Commands = {c1, c2, c3, c4}
    Records = {lead, account}
    RecordOf <- MCRecordOf
    Audited = TRUE
    MaxCrashes = 2
SPECIFICATION Spec
INVARIANTS
    FailureLeavesNothing
CHECK_DEADLOCK FALSE

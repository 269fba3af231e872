\* Four commands, three of them on one record, with stale versions, failed writes and two crashes.
CONSTANTS
    c1 = c1
    c2 = c2
    c3 = c3
    c4 = c4
    lead = lead
    account = account
    Commands = {c1, c2, c3, c4}
    Records = {lead, account}
    RecordOf <- MCRecordOf
    Audited = TRUE
    MaxCrashes = 2
SPECIFICATION FairSpec
INVARIANTS
    NoLostUpdate
    LedgerMatchesDocument
PROPERTIES
    KeepsPromise
    QueueMovesOn
CHECK_DEADLOCK FALSE

CONSTANTS
    a1 = a1
    a2 = a2
    e1 = e1
    e2 = e2
    f1 = f1
    f2 = f2
    None = None
    Addr <- MCAddrs
    Entry <- MCEntries
    Flow <- MCFlows
    Threshold = 2
    MaxSetups = 2
    MaxPending = 1
    MaxOutages = 2
SPECIFICATION EntrySpec
CHECK_DEADLOCK FALSE
INVARIANTS OperationsKeepSchema SustainedIssueIsDue EntriesKeepTheirOwn
PROPERTIES SetupIsAnswered ChangesTakeEffect

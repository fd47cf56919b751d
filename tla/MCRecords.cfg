CONSTANTS
    t1 = t1
    t2 = t2
    c1 = c1
    c2 = c2
    Targets <- MCTargets
    Checks <- MCChecks
    LiveChecks <- MCLive
    MaxRuns = 5
    MaxFailures = 2
    MaxChanges = 4
    Window = 3
    LastMinute = 9
    MaxBatch = 2
    MaxRecords = 3
    MaxSetBacks = 1
    Calls <- MCCalls
    Requests <- MCRequests
    Retention = 1
    MaxTime = 3
    MaxToken = 2
SPECIFICATION RecordsSpec
CHECK_DEADLOCK FALSE
INVARIANTS FindingsExpire CountsMatchOpen CallsAreAccountedFor RingIsRecent
PROPERTIES ResolvedForARun PublishedIsExact

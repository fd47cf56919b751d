CONSTANTS
    e1 = e1
    e2 = e2
    Entities <- MCTwo
    MaxChanges = 3
    MaxFailures = 1
    MaxQueue = 2
SPECIFICATION FairSpec
INVARIANTS AcceptedChangeNotLost SyncIsAnnounced
PROPERTIES EventuallySynced

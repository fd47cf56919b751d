CONSTANTS
    up = up
    down = down
    side = side
    odd = odd
    other = other
    router = router
    lamp = lamp
    plug = plug
    hub = hub
    NoLevel = NoLevel
    Links <- MCLinks
    Siblings <- MCSiblings
    BatchSize = 1
    MaxBatches = 2
    Retention = 1
    MaxClock = 3
    MaxScans = 3
    MaxFailures = 1
    Stations <- MCStations
    Coordinator = hub
    From <- MCFrom
    To <- MCTo
    Lqi <- MCLqi
    Relationship <- MCRelationship
    Loss <- MCLoss
    WeakLqi = 40
    WallLimits <- MCWallLimits
    MaxLimit = 3
    Points <- Grid
    Plans <- MCPlans
    FloorPairs <- MCPairs
    FloorHeight = 1
SPECIFICATION MeshSpec
CHECK_DEADLOCK FALSE
INVARIANTS LastScanIsWhole HistoryIsThin MeshAnswersAreOfTheScan PathsArePriced
PROPERTIES EveryScanEnds

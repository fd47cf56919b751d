CONSTANTS
    e1 = e1
    e2 = e2
    t1 = t1
    t2 = t2
    f1 = f1
    f2 = f2
    w1 = w1
    s1 = s1
    s2 = s2
    door = door
    b1 = b1
    b2 = b2
    None = None
    Entities <- MCEntities
    Types <- MCTypes
    Matches <- MCMatches
    AutoClassify = TRUE
    Drawable <- MCEntities
    Floors <- MCFloors
    Walls <- MCWalls
    Spots <- MCSpots
    Openings <- MCOpenings
    Home <- MCHome
    ByDevice <- MCByDevice
    MaxDrawings = 3
    MaxLostWrites = 1
    MaxFailures = 1
    Dashboards <- MCDashboards
    Displayable <- MCEntities
    Configs <- MCConfigs
    MaxEdits = 1
    MaxLostCards = 1
    Absent = None
SPECIFICATION FullSpec
INVARIANT OverridesAlwaysKept

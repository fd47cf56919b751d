CONSTANTS
    Area = room
    OtherAreas = {hall}
    Devices = {p1, p2}
    Entities = {s1, s2}
    Dependents = {u1, u2, u3}
    Limit = 2
    MaxWrites = 1
    Orders <- MCOrders
    Links <- MCLinks
    Typed <- MCTyped
    AreaLabel = "Area"
    Unknown <- MCUnknown
    Terms <- MCTerms
    InitialMax = 1
    InitialEdges = 1
    RequestMax = 2
    ExpandNodes = 4
    ExpandEdges = 4
    SearchMax = 3
    DetailNodes = 2
    DetailEdges = 2
SPECIFICATION ReaderSpec
CHECK_DEADLOCK FALSE
SYMMETRY Alike
INVARIANTS SliceIsExact ImpactIsExact

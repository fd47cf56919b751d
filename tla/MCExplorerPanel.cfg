CONSTANTS
    n1 = n1
    Nodes <- MCOne
    NoOne = NoOne
    MaxAttempts = 1
    MaxChanges = 2
    MaxLoads = 2
    MaxAsks = 1
    MaxFailures = 2
SPECIFICATION PanelSpec
INVARIANTS LiveOrSaysSo
PROPERTIES DetailsFollowSelection
CHECK_DEADLOCK FALSE

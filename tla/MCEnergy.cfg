CONSTANTS
    registered = registered
    stateOnly = stateOnly
    consumer = consumer
    producer = producer
    a1 = a1
    a2 = a2
    d1 = d1
    d2 = d2
    e1 = e1
    e2 = e2
    None = None
    Entities <- MCEntities
    StateOnly <- MCStateOnly
    Roles <- MCRoles
    MaxChanges = 3
    MaxCommands = 2
    MaxFailures = 1
    Areas <- MCAreas
    Devices <- MCDevices
    Sensors <- MCSensors
    Nowhere = None
    Reports <- MCReports
    RoleNames <- MCRoleNames
    NoRole = None
    Homes <- MCHomes
    Threshold = 2
    MaxAge = 0
    Limits <- MCLimits
    MaxSteps = 2
SPECIFICATION EnergySpec
CHECK_DEADLOCK FALSE
INVARIANTS RolesAreRight QuestionsAreExact

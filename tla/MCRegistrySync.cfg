CONSTANTS
    f1 = f1
    a1 = a1
    a2 = a2
    d1 = d1
    e1 = e1
    Floors <- MCFloors
    Areas <- MCAreas
    Devices <- MCDevices
    Entities <- MCEntities
    MaxChanges = 2
    MaxSyncs = 1
    MaxRetries = 1
    MaxFailures = 1
SPECIFICATION MCSpec
CHECK_DEADLOCK FALSE
SYMMETRY AreasAlike
INVARIANTS RegistryIsMirrored

CONSTANTS
    n1 = n1
    n2 = n2
    Elements <- MCElements
    All = All
    MaxSize = 2
    MaxEvents = 4
    MaxReloads = 1
    a1 = a1
    a2 = a2
    d1 = d1
    d2 = d2
    e1 = e1
    e2 = e2
    e3 = e3
    x1 = x1
    kitchen = kitchen
    lamp = lamp
    attic = attic
    Areas <- MCAreas
    Devices <- MCDevices
    Entities <- MCEntities
    Automations = {x1}
    Sensors = {e1, e3}
    Names = {kitchen, lamp, attic}
    NameOf <- MCNameOf
    Linkable <- MCLinkable
    Passing = {e3}
    Reportable = {a1, e1}
    Asked <- MCAsked
    Limit = 2
    MaxChanges = 1
SPECIFICATION MCSpec
CHECK_DEADLOCK FALSE
INVARIANTS BridgeIsExact StreamIsSound ToolsAgree ExportIsSound
PROPERTIES ImplementsChangeFeed

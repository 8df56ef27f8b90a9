SPECIFICATION ServerSpec
CONSTANTS
    a = a
    b = b
    c = c
    None = None
    Requests = {a, b, c}
    Asks <- MCAsks
    MaxSessions = 3
    Capacity = 2
    Uploads = {c}
    Heads = {b}
    Restless = {b}
INVARIANTS WorkKeepsItsSession ProvidersOutliveExchanges CapacityIsKept
PROPERTIES EveryAdmissionIsReleased CloseCompletes
CHECK_DEADLOCK FALSE

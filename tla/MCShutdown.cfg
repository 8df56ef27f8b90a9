SPECIFICATION ShutdownSpec
CONSTANTS
    None = None
    Calls = {c1}
    Clients = {p1, p2}
    Targets = {t1}
    Profiled = {}
    MaxQueued = 2
    MaxTransitions = 6
    Owners = {providers}
    MaxRequests = 2
    MaxAttempts = 2
INVARIANTS InvestigationOutlivesOwners
PROPERTIES EveryAttemptSettles EveryRequestSettles
CHECK_DEADLOCK FALSE
